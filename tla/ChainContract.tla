---------------------------- MODULE ChainContract ---------------------------
(***************************************************************************)
(* What a chain swap promises, without goroutines, rows or messages: the   *)
(* client gives the coins it locked up away only for coins it could have   *)
(* had on the other chain, and shows as a success or a refund only what it *)
(* has received.                                                           *)
(***************************************************************************)
CONSTANT Swaps

VARIABLES from,    \* from[s]: "none", "locked", "server" or "client"
          to,      \* to[s]: likewise, of the coins lightzd locked up
          secret,  \* secret[s]: the preimage has not left the client
          shown    \* shown[s]: "open", "success" or "refund"

vars == <<from, to, secret, shown>>

Init ==
  /\ from = [s \in Swaps |-> "none"]
  /\ to = [s \in Swaps |-> "none"]
  /\ secret = [s \in Swaps |-> TRUE]
  /\ shown = [s \in Swaps |-> "open"]

UserLocks(s) ==
  /\ from[s] = "none"
  /\ from' = [from EXCEPT ![s] = "locked"]
  /\ UNCHANGED <<to, secret, shown>>

ServerLocks(s) ==
  /\ to[s] = "none"
  /\ to' = [to EXCEPT ![s] = "locked"]
  /\ UNCHANGED <<from, secret, shown>>

\* The preimage leaves for a batch of swaps with coins to claim.
Reveal(S) ==
  /\ \A s \in S : to[s] # "none"
  /\ secret' = [s \in Swaps |-> secret[s] /\ s \notin S]
  /\ UNCHANGED <<from, to, shown>>

ClientClaims(S) ==
  /\ \A s \in S : to[s] = "locked" /\ ~secret[s]
  /\ to' = [s \in Swaps |-> IF s \in S THEN "client" ELSE to[s]]
  /\ UNCHANGED <<from, secret, shown>>

ClientRefunds(S) ==
  /\ \A s \in S : from[s] = "locked"
  /\ from' = [s \in Swaps |-> IF s \in S THEN "client" ELSE from[s]]
  /\ UNCHANGED <<to, secret, shown>>

ServerClaims(s) ==
  /\ from[s] = "locked" /\ ~secret[s]
  /\ from' = [from EXCEPT ![s] = "server"]
  /\ UNCHANGED <<to, secret, shown>>

ServerRefunds(s) ==
  /\ to[s] = "locked"
  /\ to' = [to EXCEPT ![s] = "server"]
  /\ UNCHANGED <<from, secret, shown>>

\* The client may change its mind about a swap, never show what is not true.
Show(verdict) ==
  /\ \A s \in Swaps :
       /\ verdict[s] = "success" => to[s] = "client"
       /\ verdict[s] = "refund" => from[s] = "client"
  /\ shown' = verdict
  /\ UNCHANGED <<from, to, secret>>

Next ==
  \/ \E S \in SUBSET Swaps : Reveal(S) \/ ClientClaims(S) \/ ClientRefunds(S)
  \/ \E s \in Swaps : \/ UserLocks(s)    \/ ServerLocks(s)
                      \/ ServerClaims(s) \/ ServerRefunds(s)
  \/ \E verdict \in [Swaps -> {"open", "success", "refund"}] : Show(verdict)

Spec == Init /\ [][Next]_vars
=============================================================================
