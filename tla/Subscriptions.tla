---------------------------- MODULE Subscriptions --------------------------
(***************************************************************************)
(* The updates lightzd sends over its websocket, as the handlers of the    *)
(* nursery see them.  lightzd answers a subscription with the current      *)
(* status of each swap and sends every change after that; what it sent     *)
(* waits in the connection and in the channel Updates.  A new connection   *)
(* subscribes to all of swapIds; some of what was under way may be lost    *)
(* with the old one.  An untrusted lightzd may send anything at any time,  *)
(* so nothing is queued for it.                                            *)
(***************************************************************************)
EXTENDS SwapEvents, Naturals, Sequences

CONSTANTS MaxUpdates,  \* bound on the updates of a swap under way
          Trusted      \* lightzd follows the protocol

ASSUME SubscriptionsAssumption ==
  /\ MaxUpdates \in Nat \ {0}
  /\ Trusted \in BOOLEAN

VARIABLES srv,      \* srv[s]: the status a trusted lightzd reports
          sub,      \* swaps the client wants the updates of: swapIds
          live,     \* swaps lightzd sends updates of over this connection
          updates   \* updates[s]: sent by lightzd, not yet taken

Room(s) == Len(updates[s]) < MaxUpdates

\* kept: how many of the updates under way survive.
Subscribe(S, kept) ==
  updates' = [s \in Swaps |->
                LET old == SubSeq(updates[s], 1, kept[s])
                IN  IF Trusted /\ s \in S THEN Append(old, srv[s]) ELSE old]

AllKept == [s \in Swaps |-> Len(updates[s])]

\* The connection is lost and made anew.
Resubscribe ==
  /\ Trusted
  /\ live # {}
  /\ live' = sub
  /\ \E n \in 0 .. MaxUpdates - 1 :
       Subscribe(sub, [s \in Swaps |-> IF n < Len(updates[s]) THEN n
                                      ELSE Len(updates[s])])

\* Unsubscribe forgets the swap, and closes the connection with the last one;
\* lightzd is not told, and goes on sending over a connection that stays.
Unsubscribe(s) ==
  /\ sub' = sub \ {s}
  /\ live' = IF sub' = {} THEN {} ELSE live

\* The status changes, and an update is sent to whom subscribed.
Report(s, ev) ==
  IF Trusted
  THEN /\ srv' = [srv EXCEPT ![s] = ev]
       /\ IF s \in live
          THEN Room(s) /\ updates' = [updates EXCEPT ![s] = Append(@, ev)]
          ELSE UNCHANGED updates
  ELSE UNCHANGED <<srv, updates>>
=============================================================================
