---------------------------- MODULE SwapContract ----------------------------
(***************************************************************************)
(* What a submarine swap promises, without goroutines, rows or messages:   *)
(* lightzd gets the locked coins only for a paid invoice, and what the     *)
(* client shows its user is true.                                          *)
(*   - src/internal/nursery/swap.go, cooperativeSwapClaim: "Verify that    *)
(*     the invoice was actually paid";                                     *)
(*   - src/docs/grpc.md, REFUNDED: "Client refunded locked coins".         *)
(***************************************************************************)
CONSTANTS Swaps,
          Old   \* the swaps whose coins are locked already

VARIABLES funds,    \* funds[s]: "none", "locked", "server" or "client"
          settled,  \* settled[s]: the invoice has been paid
          shown     \* shown[s]: "open", "success" or "refund"

vars == <<funds, settled, shown>>

Init ==
  /\ funds = [s \in Swaps |-> IF s \in Old THEN "locked" ELSE "none"]
  /\ settled = [s \in Swaps |-> FALSE]
  /\ shown = [s \in Swaps |-> "open"]

Lock(s) ==
  /\ funds[s] = "none"
  /\ funds' = [funds EXCEPT ![s] = "locked"]
  /\ UNCHANGED <<settled, shown>>

Settle(s) ==
  /\ funds[s] = "locked"
  /\ settled' = [settled EXCEPT ![s] = TRUE]
  /\ UNCHANGED <<funds, shown>>

ServerClaims(s) ==
  /\ funds[s] = "locked"
  /\ settled[s]
  /\ funds' = [funds EXCEPT ![s] = "server"]
  /\ UNCHANGED <<settled, shown>>

\* One transaction refunds a batch.
ClientRefunds(S) ==
  /\ \A s \in S : funds[s] = "locked"
  /\ funds' = [s \in Swaps |-> IF s \in S THEN "client" ELSE funds[s]]
  /\ UNCHANGED <<settled, shown>>

\* The client may change its mind about a swap, never show what is not true.
Show(verdict) ==
  /\ \A s \in Swaps : verdict[s] # shown[s] =>
       /\ verdict[s] = "success" => settled[s]
       /\ verdict[s] = "refund" => funds[s] = "client"
  /\ shown' = verdict
  /\ UNCHANGED <<funds, settled>>

Next ==
  \/ \E S \in SUBSET Swaps : ClientRefunds(S)
  \/ \E s \in Swaps : Lock(s) \/ Settle(s) \/ ServerClaims(s)
  \/ \E verdict \in [Swaps -> {"open", "success", "refund"}] : Show(verdict)

Spec == Init /\ [][Next]_vars
=============================================================================
