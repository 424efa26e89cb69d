--------------------------- MODULE ReverseContract --------------------------
(***************************************************************************)
(* What a reverse swap promises, without goroutines, rows or messages:     *)
(* lightzd is paid over lightning only for coins it has locked up, and a   *)
(* swap shown as successful has been received, as a claim of those coins   *)
(* or as a gift: a payment to the claim address.  That lightzd is not paid *)
(* and keeps its coins besides is not promised by the client, but left to  *)
(* lightzd: nothing keeps one that can not be trusted from taking the      *)
(* coins back after the timeout while it holds the payment.                *)
(***************************************************************************)
CONSTANTS Swaps,
          Trusted   \* lightzd follows the protocol

VARIABLES funds,    \* funds[s]: "none", "locked", "server" or "client"
          settled,  \* settled[s]: lightzd took the lightning payment
          gift,     \* gift[s]: the swap was paid to its claim address
          success   \* success[s]: the client shows the swap as successful

vars == <<funds, settled, gift, success>>

Init ==
  /\ funds = [s \in Swaps |-> "none"]
  /\ settled = [s \in Swaps |-> FALSE]
  /\ gift = [s \in Swaps |-> FALSE]
  /\ success = [s \in Swaps |-> FALSE]

Lock(s) ==
  /\ funds[s] = "none"
  /\ funds' = [funds EXCEPT ![s] = "locked"]
  /\ UNCHANGED <<settled, gift, success>>

Settle(s) ==
  /\ funds[s] # "none"
  /\ Trusted => funds[s] # "server"
  /\ settled' = [settled EXCEPT ![s] = TRUE]
  /\ UNCHANGED <<funds, gift, success>>

ServerRefunds(s) ==
  /\ funds[s] = "locked"
  /\ Trusted => ~settled[s]
  /\ funds' = [funds EXCEPT ![s] = "server"]
  /\ UNCHANGED <<settled, gift, success>>

\* One transaction claims a batch.
ClientClaims(S) ==
  /\ \A s \in S : funds[s] = "locked"
  /\ funds' = [s \in Swaps |-> IF s \in S THEN "client" ELSE funds[s]]
  /\ UNCHANGED <<settled, gift, success>>

Give(s) ==
  /\ gift' = [gift EXCEPT ![s] = TRUE]
  /\ UNCHANGED <<funds, settled, success>>

\* The client may change its mind about a swap, never show what is not true.
Show(verdict) ==
  /\ \A s \in Swaps : verdict[s] /\ ~success[s]
                        => funds[s] = "client" \/ gift[s]
  /\ success' = verdict
  /\ UNCHANGED <<funds, settled, gift>>

Next ==
  \/ \E S \in SUBSET Swaps : ClientClaims(S)
  \/ \E s \in Swaps : Lock(s) \/ Settle(s) \/ ServerRefunds(s) \/ Give(s)
  \/ \E verdict \in [Swaps -> BOOLEAN] : Show(verdict)

Spec == Init /\ [][Next]_vars
=============================================================================
