----------------------------- MODULE MCChainSwap ----------------------------
(* Values for the constants of ChainSwap that a cfg can not write down.     *)
EXTENDS ChainSwap

\* The wallet pays and the unconfirmed lockup of lightzd is trusted; or somebody
\* else pays an amount of his choice, and the lockup has to confirm.
MCRequests ==
  {[zeroConf |-> TRUE, open |-> FALSE, external |-> FALSE, dest |-> TRUE],
   [zeroConf |-> FALSE, open |-> TRUE, external |-> TRUE, dest |-> FALSE]}

\* Block 0 is before the timeout, 1 is the timeout itself, 2 after it.
MCTimeout == [s \in Swaps |-> 1]

\* A discount of the whole amount, one of a quarter, no fee, a quarter, and one
\* that may be no word.
MCServiceFees == {-4, -1, 0, 1, 50}

MCSizes ==
  [c \in Currency |-> [NormalClaim |-> 2, ReverseLockup |-> 3, ReverseClaim |-> 1]]

\* CheckAmounts refuses no fair amounts.
ASSUME FairIsAccepted == FairButRefused = {}
=============================================================================
