---------------------------- MODULE MCReverseSwap ---------------------------
(* Values for the constants of ReverseSwap that a cfg can not write down. *)
EXTENDS ReverseSwap

\* The unconfirmed lockup is trusted.
MCHasty == [zeroConf |-> TRUE, external |-> FALSE, dest |-> "wallet"]

\* Somebody else pays, and may pay the address of the wallet directly.
MCHinted == [zeroConf |-> FALSE, external |-> TRUE, dest |-> "both"]

MCEach == [s \in Swaps |-> {MCHasty, MCHinted}]

MCAll == [s \in Swaps |-> Request]
=============================================================================
