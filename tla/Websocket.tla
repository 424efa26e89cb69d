------------------------------ MODULE Websocket ----------------------------
(***************************************************************************)
(* The websocket client of pkg/lightz/ws.go and its goroutines: the caller *)
(* of Subscribe, one reader per connection that was ever made (a reader    *)
(* that lost its connection dials again), the nursery's consumer of        *)
(* Updates, and lightzd.  registerSwaps holds eventListenersLock during    *)
(* Subscribe, so there is one caller at a time; the readers run beside it. *)
(*                                                                         *)
(* A status is its number, the last one final.  A message carries one      *)
(* update.  Ping and pong show as a lost connection that is noticed.       *)
(***************************************************************************)
EXTENDS Naturals, Sequences, FiniteSets, SequencesExt

CONSTANTS Swaps,
          Buffer,      \* capacity of the channel Updates
          MaxConns,    \* bound on the connections made
          MaxLosses,   \* bound on the connections lost
          Final,       \* number of the last status of a swap, the final one
          Faults       \* "refuse": a dial may fail
                       \* "late": an answer may take more than five seconds,
                       \* and be taken for that of a later subscription
                       \* "stop": the nursery may stop

ASSUME WebsocketAssumption ==
  /\ IsFiniteSet(Swaps)
  /\ Buffer \in Nat \ {0} /\ MaxConns \in Nat \ {0}
  /\ MaxLosses \in Nat /\ Final \in Nat
  /\ Faults \subseteq {"refuse", "late", "stop"}

VARIABLES conn,      \* the connection in use, 0 for nil
          used,      \* connections made so far
          link,      \* link[k]: "none", "up", "lost", or closed by the client:
                     \* "closed", or "left" because no swap is pending
          subs,      \* subs[k]: swaps lightzd sends updates of over k
          inbox,     \* inbox[k]: messages under way over k, and in front the
                     \* one its reader has read and not handled
          at,        \* at[t]: where the goroutine is
          ids,       \* ids[t]: what Connect subscribes to again
          want,      \* the argument of Subscribe
          swapIds, closed,
          lock,      \* the reader that holds updatesLock, 0 for none
          updates,   \* the channel Updates
          asked,     \* swaps Subscribe was called with
          status,    \* status[s]: at lightzd
          seen,      \* seen[s]: the furthest status the nursery handled
          losses,
          before     \* before[k]: who waits for an answer since before reader
                     \* k fell asleep

client == <<conn, used, link, at, ids, want, swapIds, closed>>
reading == <<lock, updates>>
lightzd == <<subs, inbox, asked, status, seen, losses>>
vars == <<client, reading, lightzd, before>>

Conns == 1 .. MaxConns
Caller == 0
Threads == {Caller} \cup Conns

\* How many messages reader k has in hand.
InHand(k) == IF at[k].step \in {"lock", "ack", "send"} THEN 1 ELSE 0

Update(s) == [type |-> "update", swap |-> s, status |-> status[s]]
Ack == [type |-> "subscribe"]
Messages == {Ack} \cup [type : {"update"}, swap : Swaps, status : 0 .. Final]

\* Connect is called by Subscribe, by the Reconnect in it, and by a reader;
\* Subscribe itself subscribes first once and, after Reconnect, once more.
Connecting == {"connect", "reconnect", "redial"}
Point(stage, step) == [stage |-> stage, step |-> step]
Idle == Point("idle", "idle")
Dead == Point("dead", "dead")
At(t, stage, step) == at[t] = Point(stage, step)
Goes(t, point) == at' = [at EXCEPT ![t] = point]
OnlyMoves ==
  UNCHANGED <<conn, used, link, ids, want, swapIds, closed, reading, lightzd>>

Init ==
  /\ conn = 1 /\ used = 1
  /\ link = [k \in Conns |-> IF k = 1 THEN "up" ELSE "none"]
  /\ subs = [k \in Conns |-> {}]
  /\ inbox = [k \in Conns |-> <<>>]
  /\ at = [t \in Threads |-> IF t = 1 THEN Point("read", "read") ELSE Idle]
  /\ ids = [t \in Threads |-> {}]
  /\ want = {} /\ swapIds = {} /\ closed = FALSE
  /\ lock = 0 /\ updates = <<>>
  /\ asked = {}
  /\ status = [s \in Swaps |-> 0]
  /\ seen = [s \in Swaps |-> 0]
  /\ losses = 0
  /\ before = [k \in Conns |-> {}]

-----------------------------------------------------------------------------
(* Connect, subscribe and Subscribe.                                       *)

\* Where the goroutine goes when its Connect or its subscribe returns.
AfterOk(t) ==
  CASE at[t].stage = "connect"   -> Point("first", "write")
    [] at[t].stage = "reconnect" -> Point("second", "write")
    [] at[t].stage = "redial"    -> Idle
    [] OTHER                     -> Point("subscribed", "append")

\* Bug: the loop that dials again gives up after the first error.
AfterError_NoLoop(t) ==
  IF at[t].stage = "first" THEN Point("reconnect", "close") ELSE Idle

AfterError(t) ==
  CASE at[t].stage = "first"  -> Point("reconnect", "close")
    [] at[t].stage = "redial" -> Point("redial", "sleep")
    [] OTHER                  -> Idle

Subscribe(S) ==
  /\ at[Caller] = Idle
  /\ S # {} /\ S \cap asked = {}
  /\ want' = S /\ asked' = asked \cup S
  /\ Goes(Caller, IF conn = 0 THEN Point("connect", "dial")
                  ELSE Point("first", "write"))
  /\ UNCHANGED <<conn, used, link, ids, swapIds, closed, reading, subs, inbox,
                 status, seen, losses>>

DialFails(t) ==
  /\ at[t].step = "dial"
  /\ closed \/ "refuse" \in Faults
  /\ Goes(t, AfterError(t))
  /\ OnlyMoves

Dial(t) ==
  /\ at[t].step = "dial" /\ ~closed
  /\ Goes(t, Point(at[t].stage, "dialed"))
  /\ OnlyMoves

\* setConn, and the connection's reader starts.  A dial is a round trip or
\* more: none ends between the acknowledgement and the append that follows it.
SetConn(t) ==
  /\ at[t].step = "dialed" /\ used < MaxConns
  /\ at[Caller].step # "append"
  /\ used' = used + 1 /\ conn' = used + 1
  /\ link' = [link EXCEPT ![used + 1] = "up"]
  /\ at' = [at EXCEPT ![t] = Point(@.stage, "copy"),
                      ![used + 1] = Point("read", "read")]
  /\ UNCHANGED <<ids, want, swapIds, closed, reading, lightzd>>

\* Bug: a new connection does not subscribe to the swaps of the old one.
Copy_Forgets(t) ==
  /\ at[t].step = "copy"
  /\ Goes(t, AfterOk(t))
  /\ OnlyMoves

Copy(t) ==
  /\ at[t].step = "copy"
  /\ ids' = [ids EXCEPT ![t] = swapIds]
  /\ Goes(t, IF swapIds = {} THEN AfterOk(t) ELSE Point(at[t].stage, "write"))
  /\ UNCHANGED <<conn, used, link, want, swapIds, closed, reading, lightzd>>

\* lightzd answers at once; what is written to a lost connection may or may
\* not fail.
Write(t) ==
  /\ at[t].step = "write"
  /\ ~closed /\ conn # 0
  /\ LET S == IF at[t].stage \in Connecting THEN ids[t] ELSE want
     IN  IF link[conn] = "up"
         THEN \E reply \in SetToSeqs(S) :
                /\ subs' = [subs EXCEPT ![conn] = @ \cup S]
                /\ inbox' = [inbox EXCEPT ![conn] = Append(@, Ack) \o
                               [i \in DOMAIN reply |-> Update(reply[i])]]
         ELSE UNCHANGED <<subs, inbox>>
  /\ ids' = [ids EXCEPT ![t] = {}]
  /\ Goes(t, Point(at[t].stage, "wait"))
  /\ UNCHANGED <<conn, used, link, want, swapIds, closed, reading, asked,
                 status, seen, losses>>

WriteFails(t) ==
  /\ at[t].step = "write"
  /\ ~closed /\ conn # 0 => link[conn] # "up"
  /\ ids' = [ids EXCEPT ![t] = {}]
  /\ Goes(t, AfterError(t))
  /\ UNCHANGED <<conn, used, link, want, swapIds, closed, reading, lightzd>>

\* Reader k hands an acknowledgement to whoever waits for one.
TakeAck(t, k) ==
  /\ at[t].step = "wait" /\ at[k] = Point("read", "ack")
  /\ lock' = 0
  /\ inbox' = [inbox EXCEPT ![k] = Tail(@)]
  /\ at' = [at EXCEPT ![t] = AfterOk(t), ![k] = Point("read", "read")]
  /\ UNCHANGED <<conn, used, link, ids, want, swapIds, closed, updates,
                 subs, asked, status, seen, losses>>

AckUnderWay ==
  \E k \in Conns :
    \/ /\ link[k] \in {"up", "lost"}
       /\ \E i \in DOMAIN inbox[k] : inbox[k][i] = Ack
    \/ InHand(k) = 1 /\ Head(inbox[k]) = Ack

\* Bug: the caller waits less than an answer may take.
TimeOut_Early(t) ==
  /\ at[t].step = "wait"
  /\ Goes(t, AfterError(t))
  /\ OnlyMoves

\* Nothing within five seconds.
TimeOut(t) ==
  /\ at[t].step = "wait"
  /\ "late" \in Faults \/ ~AckUnderWay
  /\ Goes(t, AfterError(t))
  /\ OnlyMoves

\* swapIds only grows when all is done, after the acknowledgement.
AppendIds ==
  /\ at[Caller].step = "append"
  /\ swapIds' = swapIds \cup want
  /\ Goes(Caller, Idle)
  /\ UNCHANGED <<conn, used, link, ids, want, closed, reading, lightzd>>

\* close(): the connection is nil before its reader can see the error.
CloseConn(how) ==
  IF conn = 0 THEN UNCHANGED <<conn, link, inbox>>
  ELSE /\ conn' = 0
       /\ link' = [link EXCEPT ![conn] = how]
       /\ inbox' = [inbox EXCEPT ![conn] = SubSeq(@, 1, InHand(conn))]

Reconnect ==
  /\ at[Caller].step = "close"
  /\ CloseConn("closed")
  /\ Goes(Caller, Point("reconnect", "dial"))
  /\ UNCHANGED <<used, ids, want, swapIds, closed, reading, subs, asked, status,
                 seen, losses>>

-----------------------------------------------------------------------------
(* The reader of a connection.                                             *)

Read(k) ==
  /\ At(k, "read", "read")
  /\ link[k] \in {"up", "lost"} /\ inbox[k] # <<>>
  /\ Goes(k, Point("read", "lock"))
  /\ OnlyMoves

ReadFails(k) ==
  /\ At(k, "read", "read")
  /\ link[k] = "lost" => inbox[k] = <<>>
  /\ link[k] # "up"
  /\ Goes(k, Point("read", "failed"))
  /\ OnlyMoves

\* Connected() is false: the client closed the connection itself.
ReaderEnds(k) ==
  /\ At(k, "read", "failed") /\ conn = 0
  /\ Goes(k, Idle)
  /\ OnlyMoves

ReaderGoesOn(k) ==
  /\ At(k, "read", "failed") /\ conn # 0
  /\ Goes(k, Point("read", "drop"))
  /\ OnlyMoves

\* setConn(nil), whichever connection is in use by now.
SetNil(k) ==
  /\ At(k, "read", "drop")
  /\ conn' = 0
  /\ Goes(k, Point("redial", "sleep"))
  /\ UNCHANGED <<used, link, ids, want, swapIds, closed, reading, lightzd>>

\* After fifteen seconds, when whoever waited before has waited for five.
Wake(k) ==
  /\ At(k, "redial", "sleep")
  /\ before[k] = {}
  /\ Goes(k, Point("redial", "dial"))
  /\ OnlyMoves

\* Bug: handleTextMessage does not take the lock.
Lock_Free(k) ==
  /\ At(k, "read", "lock")
  /\ lock' = k
  /\ Goes(k, Point("read", IF Head(inbox[k]) = Ack THEN "ack" ELSE "send"))
  /\ UNCHANGED <<conn, used, link, ids, want, swapIds, closed, updates,
                 lightzd>>

\* handleTextMessage.
Lock(k) ==
  /\ At(k, "read", "lock") /\ lock = 0
  /\ lock' = k
  /\ Goes(k, Point("read", IF Head(inbox[k]) = Ack THEN "ack" ELSE "send"))
  /\ UNCHANGED <<conn, used, link, ids, want, swapIds, closed, updates,
                 lightzd>>

Send(k) ==
  /\ At(k, "read", "send") /\ ~closed
  /\ Len(updates) < Buffer
  /\ updates' = Append(updates, Head(inbox[k]))
  /\ inbox' = [inbox EXCEPT ![k] = Tail(@)]
  /\ lock' = 0
  /\ Goes(k, Point("read", "read"))
  /\ UNCHANGED <<conn, used, link, ids, want, swapIds, closed, subs,
                 asked, status, seen, losses>>

\* A send on the closed channel stops the daemon.
SendPanics(k) ==
  /\ At(k, "read", "send") /\ closed
  /\ at' = [t \in Threads |-> Dead] /\ lock' = 0
  /\ UNCHANGED <<conn, used, link, ids, want, swapIds, closed, updates,
                 lightzd>>

-----------------------------------------------------------------------------
(* The nursery and lightzd.                                                *)

\* A final update unsubscribes, and the last one closes the connection.
Unsubscribe(s) ==
  /\ swapIds' = swapIds \ {s}
  /\ IF swapIds' = {} THEN CloseConn("left")
     ELSE UNCHANGED <<conn, link, inbox>>

Consume ==
  /\ updates # <<>>
  /\ LET u == Head(updates)
     IN  /\ seen' = [seen EXCEPT ![u.swap] =
                         IF @ < u.status THEN u.status ELSE @]
         /\ IF u.status = Final /\ seen[u.swap] # Final
            THEN Unsubscribe(u.swap)
            ELSE UNCHANGED <<swapIds, conn, link, inbox>>
  /\ updates' = Tail(updates)
  /\ UNCHANGED <<used, at, ids, want, closed, lock, subs, asked,
                 status, losses>>

Close ==
  /\ "stop" \in Faults
  /\ lock = 0 /\ ~closed
  /\ closed' = TRUE
  /\ CloseConn("closed")
  /\ UNCHANGED <<used, at, ids, want, swapIds, reading, subs, asked, status,
                 seen, losses>>

Report(s) ==
  /\ s \in asked /\ status[s] < Final
  /\ status' = [status EXCEPT ![s] = @ + 1]
  /\ inbox' = [k \in Conns |->
                 IF link[k] = "up" /\ s \in subs[k]
                 THEN Append(inbox[k], [Update(s) EXCEPT !.status = @ + 1])
                 ELSE inbox[k]]
  /\ UNCHANGED <<client, reading, subs, asked, seen, losses>>

\* The connection is lost with some of what was under way.
Lose(k) ==
  /\ link[k] = "up" /\ losses < MaxLosses
  /\ losses' = losses + 1
  /\ link' = [link EXCEPT ![k] = "lost"]
  /\ \E n \in InHand(k) .. Len(inbox[k]) :
       inbox' = [inbox EXCEPT ![k] = SubSeq(@, 1, n)]
  /\ UNCHANGED <<conn, used, at, ids, want, swapIds, closed, reading, subs,
                 asked, status, seen>>

-----------------------------------------------------------------------------
CallerStep(t) ==
  \/ Dial(t) \/ DialFails(t) \/ SetConn(t) \/ Copy(t)
  \/ Write(t) \/ WriteFails(t) \/ TimeOut(t)
  \/ \E k \in Conns : TakeAck(t, k)

ReaderStep(k) ==
  \/ Read(k) \/ ReadFails(k) \/ ReaderEnds(k) \/ ReaderGoesOn(k) \/ SetNil(k)
  \/ Wake(k) \/ Lock(k) \/ Send(k) \/ SendPanics(k)

Goroutines ==
  \/ \E S \in SUBSET Swaps : Subscribe(S)
  \/ \E t \in Threads : CallerStep(t)
  \/ AppendIds \/ Reconnect
  \/ \E k \in Conns : ReaderStep(k) \/ Lose(k)
  \/ Consume \/ Close
  \/ \E s \in Swaps : Report(s)

Waiting == {t \in Threads : at[t].step = "wait"}

\* Time goes by: who stops waiting has not waited through the sleep.
Elapses ==
  before' = [k \in Conns |->
               IF at'[k].step = "sleep" /\ at[k].step # "sleep"
               THEN Waiting' ELSE before[k] \cap Waiting']

Next == Goroutines /\ Elapses

Spec == Init /\ [][Next]_vars

-----------------------------------------------------------------------------
TypeOK ==
  /\ conn \in 0 .. MaxConns /\ used \in Conns /\ conn <= used
  /\ link \in [Conns -> {"none", "up", "lost", "closed", "left"}]
  /\ \A k \in Conns : k > used <=> link[k] = "none"
  /\ subs \in [Conns -> SUBSET Swaps]
  /\ inbox \in [Conns -> Seq(Messages)]
  /\ at \in [Threads ->
              [stage : Connecting \cup {"idle", "dead", "first", "second",
                                       "subscribed", "read"},
               step  : {"idle", "dead", "dial", "dialed", "copy", "write",
                        "wait", "append", "close", "read", "lock", "ack",
                        "send", "failed", "drop", "sleep"}]]
  /\ \A k \in Conns : InHand(k) <= Len(inbox[k])
  /\ ids \in [Threads -> SUBSET Swaps]
  /\ want \subseteq asked /\ asked \subseteq Swaps /\ swapIds \subseteq asked
  /\ closed \in BOOLEAN
  /\ lock \in 0 .. MaxConns
  /\ \A k \in Conns : lock = k <=> At(k, "read", "ack") \/ At(k, "read", "send")
  /\ updates \in Seq(Messages) /\ Len(updates) <= Buffer
  /\ status \in [Swaps -> 0 .. Final] /\ seen \in [Swaps -> 0 .. Final]
  /\ \A s \in Swaps : seen[s] <= status[s]
  /\ losses \in 0 .. MaxLosses
  /\ before \in [Conns -> SUBSET Threads]

(***************************************************************************)
(* Properties.                                                             *)
(***************************************************************************)

\* A reader still reads the updates of the swap.
Heard(s) ==
  \E k \in Conns :
    /\ at[k].step \in {"read", "lock", "ack", "send"}
    /\ link[k] \in {"up", "lost"} /\ s \in subs[k]

\* The acknowledgements under way.
Answers ==
  UNION {{<<k, i>> : i \in {j \in DOMAIN inbox[k] : inbox[k][j] = Ack}} :
           k \in Conns}

\* Not everybody who waits will be answered: somebody will time out.
Unanswered == Cardinality(Answers) < Cardinality(Waiting)

\* A goroutine will make a new connection and subscribe again, or whoever does
\* not get an answer will; a dial of Subscribe does not count, it may fail.
Recovering ==
  \/ \E t \in Threads :
       \/ at[t].step \in {"close", "drop", "copy"}
       \/ at[t].stage = "redial" /\ at[t].step \in {"sleep", "dial", "dialed"}
       \/ at[t].stage \in Connecting /\ at[t].step = "write"
  \/ \E k \in Conns :
       /\ at[k].step \in {"read", "lock", "ack", "send", "failed"}
       /\ link[k] = "lost" /\ conn # 0
  \/ Unanswered

Deaf(s) ==
  /\ s \in swapIds /\ seen[s] # Final /\ ~closed
  /\ ~Heard(s) /\ ~Recovering

\* The client closed a connection because no swap was pending, and had already
\* asked for the updates of s.
LeftWith(s) ==
  \E j, k \in Conns : j <= k /\ s \in subs[j] /\ link[k] = "left"

\* A lost connection never makes the client deaf to a swap it subscribed to,
\* whatever the readers of older connections and the caller of Subscribe do
\* meanwhile (ws.go:120-166), and although any of them may take the answer to
\* another (ws.go:192-200): it may become deaf only after it closed its own
\* last connection.
LossIsRepaired ==
  \A s \in Swaps :
    Deaf(s) => link[used] \in {"closed", "left"} \/ LeftWith(s)

\* The goroutines of the client have nothing left to do.
Resting ==
  /\ at[Caller] = Idle /\ updates = <<>>
  /\ \A k \in Conns :
       \/ at[k] = Idle
       \/ At(k, "read", "read") /\ link[k] = "up" /\ inbox[k] = <<>>

\* However connections were lost and replaced meanwhile, in the end the nursery
\* has handled the present status of every swap it subscribed to: what a lost
\* connection took away is made up for by the answer to the subscription that
\* is repeated on the next one (ws.go:120-202), unless the client closed its
\* connection itself.
NothingIsMissed ==
  Resting =>
    \A s \in swapIds :
      \/ seen[s] = status[s] \/ closed
      \/ link[used] \in {"closed", "left"} \/ LeftWith(s)

\* A reader that holds updatesLock with an acknowledgement finds somebody who
\* waits for one, whichever connection it is from (ws.go:171-202, 216-240): the
\* channel has no buffer, and Close would wait for the lock for good.
AckIsAwaited ==
  \A k \in Conns :
    At(k, "read", "ack") => \E t \in Threads : at[t].step = "wait"
=============================================================================
