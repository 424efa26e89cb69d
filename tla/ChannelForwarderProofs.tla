----------------------- MODULE ChannelForwarderProofs -----------------------
(***************************************************************************)
(* What the runs of ChannelForwarder show for two receivers, proved for    *)
(* any number of them, of senders and of events, with saved values and     *)
(* without.                                                                *)
(***************************************************************************)
EXTENDS ChannelForwarder, SequenceTheorems, TLAPS

\* The events that every receiver in the list has been sent, or is sent now.
Passed == IF pump = "lock" THEN sent - 1 ELSE sent

\* The next event that comes to r.
Due(r) ==
  IF lock = r THEN next ELSE IF In(r, todo) THEN sent ELSE Passed + 1

Distinct(queue) ==
  \A i, j \in DOMAIN queue : queue[i] = queue[j] => i = j

(***************************************************************************)
(* The lock and the pump: who holds it, and what has been saved.           *)
(***************************************************************************)
PumpInv ==
  /\ pump \in {"lock", "forward"} => sent > 0
  /\ pump # "dead" => (lock = "pump" <=> pump = "forward")
  /\ pump # "dead" => (saved = IF SaveValues THEN Passed ELSE 0)

\* The pump still sends to receivers in the list, once each.
TodoInv ==
  pump # "dead" =>
    /\ todo # <<>> => pump = "forward"
    /\ Distinct(todo)
    /\ \A r \in Receivers : In(r, todo) => In(r, channels)

\* The goroutine that sends the saved values to r.
ReplayInv ==
  \A r \in Receivers :
    lock = r /\ at[r] \notin {"nil", "dead"} =>
      /\ SaveValues
      /\ In(r, channels)
      /\ next <= saved + 1

(***************************************************************************)
(* A panic stops everything.                                               *)
(***************************************************************************)
DeadInv ==
  pump = "dead" =>
    /\ \A x \in Senders : from[x] = "dead"
    /\ \A r \in Receivers : at[r] = "dead"

(***************************************************************************)
(* Which receivers are in the list: none before Get, and each from Get to  *)
(* Remove, unless the pump has ended.                                      *)
(***************************************************************************)
ListInv ==
  /\ \A r \in Receivers :
       /\ at[r] \in {"new", "get", "nil"} =>
            ~In(r, channels) /\ r \notin shut /\ got[r] = <<>>
       /\ at[r] \in {"read", "busy", "stop", "remove", "left"} =>
            In(r, channels) \/ pump = "ended"
  /\ pump = "ended" => isClosed /\ channels = <<>>

\* What r has read last is just before the next event that comes to it.
NoGap ==
  \A r \in Receivers :
    In(r, channels) /\ at[r] \in {"read", "busy"} =>
      /\ got[r] # <<>> => got[r][Len(got[r])] + 1 = Due(r)
      /\ got[r] = <<>> /\ SaveValues => Due(r) = 1

ForwarderInv ==
  /\ TypeOK
  /\ DeadInv
  /\ PumpInv
  /\ TodoInv
  /\ ReplayInv
  /\ ListInv
  /\ NoGap
  /\ History
-----------------------------------------------------------------------------
(***************************************************************************)
(* The list of the receivers and the pump's list, as sequences.            *)
(***************************************************************************)
LEMMA InEmpty == \A r : ~In(r, <<>>)
  BY DEF In

LEMMA InAppend ==
  ASSUME NEW S, NEW q \in Seq(S), NEW e \in S, Distinct(q), ~In(e, q)
  PROVE  /\ Append(q, e) \in Seq(S)
         /\ Distinct(Append(q, e))
         /\ \A r : In(r, Append(q, e)) <=> In(r, q) \/ r = e
<1> DEFINE a == Append(q, e)
<1>1. /\ a \in Seq(S)
      /\ Len(a) = Len(q) + 1
      /\ \A i \in 1 .. Len(q) : a[i] = q[i]
      /\ a[Len(q) + 1] = e
  BY AppendProperties
<1>2. Len(q) \in Nat /\ DOMAIN q = 1 .. Len(q) /\ DOMAIN a = 1 .. Len(q) + 1
  BY <1>1, LenProperties
<1> HIDE DEF a
<1>3. Distinct(a)
  BY <1>1, <1>2 DEF Distinct, In
<1>4. \A r : In(r, a) <=> In(r, q) \/ r = e
  BY <1>1, <1>2 DEF In
<1> QED BY <1>1, <1>3, <1>4 DEF a

LEMMA InTail ==
  ASSUME NEW S, NEW q \in Seq(S), q # <<>>, Distinct(q)
  PROVE  /\ Head(q) \in S
         /\ In(Head(q), q)
         /\ Tail(q) \in Seq(S)
         /\ Distinct(Tail(q))
         /\ \A r : In(r, Tail(q)) <=> In(r, q) /\ r # Head(q)
<1> DEFINE t == Tail(q)
<1>1. /\ Head(q) \in S
      /\ t \in Seq(S)
      /\ Len(t) = Len(q) - 1
      /\ \A i \in 1 .. Len(t) : t[i] = q[i + 1]
  BY HeadTailProperties
<1>2. /\ Len(q) \in Nat \ {0}
      /\ DOMAIN q = 1 .. Len(q)
      /\ DOMAIN t = 1 .. Len(q) - 1
  BY <1>1, LenProperties, EmptySeq
<1>3. Head(q) = q[1]
  OBVIOUS
<1> HIDE DEF t
<1>4. Distinct(t)
  BY <1>1, <1>2 DEF Distinct
<1>5. In(Head(q), q)
  BY <1>2, <1>3 DEF In
<1>6. ASSUME NEW r, In(r, t) PROVE In(r, q) /\ r # Head(q)
  BY <1>1, <1>2, <1>3, <1>6 DEF In, Distinct
<1>7. ASSUME NEW r, In(r, q), r # Head(q) PROVE In(r, t)
  <2>1. PICK i \in 1 .. Len(q) : q[i] = r
    BY <1>2, <1>7 DEF In
  <2>2. i # 1 /\ i - 1 \in 1 .. Len(q) - 1 /\ (i - 1) + 1 = i
    BY <1>2, <1>3, <1>7, <2>1
  <2>3. t[i - 1] = r
    BY <1>1, <1>2, <2>1, <2>2
  <2> QED BY <1>2, <2>2, <2>3 DEF In
<1> QED BY <1>1, <1>4, <1>5, <1>6, <1>7 DEF t

\* The place of r in the list, or the front.
LEMMA IndexFinds ==
  ASSUME NEW r \in Receivers, channels \in Seq(Receivers), channels # <<>>
  PROVE  /\ Index(r) \in DOMAIN channels
         /\ In(r, channels) => channels[Index(r)] = r
<1>1. Len(channels) \in Nat \ {0} /\ DOMAIN channels = 1 .. Len(channels)
  BY LenProperties, EmptySeq
<1>2. 1 \in DOMAIN channels
  BY <1>1
<1> QED BY <1>2 DEF Index, In

\* The last takes the place of the one that is taken out.
LEMMA TakeOutTakesOut ==
  ASSUME channels \in Seq(Receivers), Distinct(channels),
         NEW k \in DOMAIN channels
  PROVE  /\ TakeOut(k) \in Seq(Receivers)
         /\ Distinct(TakeOut(k))
         /\ \A r : In(r, TakeOut(k)) <=> In(r, channels) /\ r # channels[k]
<1> DEFINE n == Len(channels)
           e == [channels EXCEPT ![k] = channels[n]]
           t == SubSeq(e, 1, n - 1)
<1>1. n \in Nat /\ DOMAIN channels = 1 .. n /\ n \in 1 .. n /\ k \in 1 .. n
  BY LenProperties
<1>2. channels[n] \in Receivers
  BY <1>1, ElementOfSeq
<1>3. /\ e \in Seq(Receivers)
      /\ Len(e) = n
      /\ \A j \in 1 .. n : e[j] = IF j = k THEN channels[n] ELSE channels[j]
  BY <1>1, <1>2, ExceptSeq
<1> HIDE DEF e
<1>4. \A j \in 1 .. n - 1 : e[j] \in Receivers
  BY <1>1, <1>3, ElementOfSeq
<1>5. /\ t \in Seq(Receivers)
      /\ Len(t) = IF 1 <= n - 1 THEN (n - 1) - 1 + 1 ELSE 0
      /\ \A j \in 1 .. (n - 1) - 1 + 1 : t[j] = e[1 + j - 1]
  <2>1. 1 \in Int /\ n - 1 \in Int
    BY <1>1
  <2> QED BY <1>4, <2>1, SubSeqProperties
<1> HIDE DEF n, t
<1>6. /\ DOMAIN t = 1 .. n - 1
      /\ \A j \in 1 .. n - 1 :
           t[j] = IF j = k THEN channels[n] ELSE channels[j]
  <2>1. Len(t) = n - 1
    BY <1>1, <1>5
  <2>2. DOMAIN t = 1 .. n - 1
    BY <1>5, <2>1, LenProperties
  <2>3. ASSUME NEW j \in 1 .. n - 1
        PROVE  t[j] = IF j = k THEN channels[n] ELSE channels[j]
    <3>1. 1 + j - 1 = j /\ j \in 1 .. (n - 1) - 1 + 1 /\ j \in 1 .. n
      BY <1>1
    <3> QED BY <1>3, <1>5, <3>1
  <2> QED BY <2>2, <2>3
<1>7. Distinct(t)
  BY <1>1, <1>6 DEF Distinct
<1>8. ASSUME NEW r, In(r, t) PROVE In(r, channels) /\ r # channels[k]
  <2>1. PICK j \in 1 .. n - 1 : t[j] = r
    BY <1>6, <1>8 DEF In
  <2>2. CASE j = k
    <3>1. r = channels[n] /\ n # k
      BY <1>1, <1>6, <2>1, <2>2
    <3> QED BY <1>1, <3>1 DEF In, Distinct
  <2>3. CASE j # k
    <3>1. r = channels[j] /\ j \in 1 .. n
      BY <1>1, <1>6, <2>1, <2>3
    <3> QED BY <1>1, <2>3, <3>1 DEF In, Distinct
  <2> QED BY <2>2, <2>3
<1>9. ASSUME NEW r, In(r, channels), r # channels[k] PROVE In(r, t)
  <2>1. PICK j \in 1 .. n : channels[j] = r
    BY <1>1, <1>9 DEF In
  <2>2. CASE j = n
    <3>1. k \in 1 .. n - 1 /\ t[k] = r
      BY <1>1, <1>6, <1>9, <2>1, <2>2
    <3> QED BY <1>6, <3>1 DEF In
  <2>3. CASE j # n
    <3>1. j \in 1 .. n - 1 /\ t[j] = r
      BY <1>1, <1>6, <1>9, <2>1, <2>3
    <3> QED BY <1>6, <3>1 DEF In
  <2> QED BY <2>2, <2>3
<1> QED BY <1>5, <1>7, <1>8, <1>9 DEF TakeOut, t, e, n
-----------------------------------------------------------------------------
(***************************************************************************)
(* The invariant holds initially.                                          *)
(***************************************************************************)
LEMMA InitEstablishes == Init => ForwarderInv
<1> SUFFICES ASSUME Init PROVE ForwarderInv
  OBVIOUS
<1> USE ForwarderAssumption
<1>1. TypeOK
  <2>1. /\ <<>> \in Seq(Receivers)
        /\ <<>> \in Seq(1 .. MaxEvents)
        /\ \A i \in DOMAIN <<>> : FALSE
    BY EmptySeq
  <2>2. /\ 0 \in 0 .. MaxEvents
        /\ 0 \in 0 .. 0
        /\ 1 \in 1 .. MaxEvents + 1
    OBVIOUS
  <2> QED BY <2>1, <2>2 DEF Init, TypeOK, SenderAt, ReceiverAt
<1>2. DeadInv /\ PumpInv
  BY DEF Init, DeadInv, PumpInv, Passed
<1>3. TodoInv
  BY InEmpty DEF Init, TodoInv, Distinct
<1>4. ReplayInv
  BY DEF Init, ReplayInv
<1>5. ListInv /\ NoGap /\ History
  BY InEmpty DEF Init, ListInv, NoGap, History
<1> QED BY <1>1, <1>2, <1>3, <1>4, <1>5 DEF ForwarderInv

(***************************************************************************)
(* After a panic nothing goes on.                                          *)
(***************************************************************************)
LEMMA DeadStops ==
  ASSUME ForwarderInv, Next
  PROVE  pump # "dead"
<1> SUFFICES ASSUME pump = "dead" PROVE FALSE
  OBVIOUS
<1>1. /\ \A x \in Senders : from[x] = "dead"
      /\ \A r \in Receivers : at[r] = "dead"
  BY DEF ForwarderInv, DeadInv
<1>2. ASSUME NEW x \in Senders, SendUpdate(x) \/ SenderStep(x) PROVE FALSE
  BY <1>1, <1>2 DEF SendUpdate, SenderStep, Send, SendPanics, Close, Delete,
                    Sender
<1>3. ASSUME NEW r \in Receivers, SwapUpdates(r) \/ ReceiverStep(r)
      PROVE  FALSE
  BY <1>1, <1>3 DEF SwapUpdates, ReceiverStep, Get, Replay, Handled,
                    RangeEnds, Stop, Remove, Receiver
<1>4. ~Lock /\ ~Unlock /\ ~OriginalClosed /\ ~PumpEnds
  BY DEF Lock, Unlock, OriginalClosed, PumpEnds
<1>5. ASSUME Forward PROVE FALSE
  <2>1. todo \in Seq(Receivers) /\ todo # <<>>
    BY <1>5 DEF Forward, ForwarderInv, TypeOK
  <2>2. Head(todo) \in Receivers
    BY <2>1, HeadTailProperties
  <2> QED BY <1>1, <1>5, <2>2 DEF Forward, Hand, Receiver, Draining
<1> QED BY <1>2, <1>3, <1>4, <1>5 DEF Next, Goroutines, PumpStep

(***************************************************************************)
(* The senders do not touch the lists.                                     *)
(***************************************************************************)
LEMMA SenderKeeps ==
  ASSUME ForwarderInv, pump # "dead", NEW x \in Senders,
         SendUpdate(x) \/ Close(x) \/ Delete(x)
  PROVE  ForwarderInv'
<1>1. /\ UNCHANGED <<channels, shut, saved, lock, next, sent, pump, todo, at,
                     got>>
      /\ \/ from' = [from EXCEPT ![x] = "send"]
         \/ from' = [from EXCEPT ![x] = "last"]
         \/ from' = [from EXCEPT ![x] = "delete"]
         \/ from' = [from EXCEPT ![x] = "idle"]
      /\ original' \in {original, "closed"}
      /\ isClosed' \in {isClosed, TRUE}
      /\ listening' \in {listening, FALSE}
  BY DEF SendUpdate, Close, Delete, Sender, forwarder, pumpVars
<1>2. TypeOK'
  BY <1>1 DEF ForwarderInv, TypeOK, SenderAt
<1>3. DeadInv' /\ PumpInv' /\ TodoInv' /\ ReplayInv'
  BY <1>1 DEF ForwarderInv, DeadInv, PumpInv, TodoInv, ReplayInv, Passed
<1>4. ListInv'
  <2>1. isClosed => isClosed'
    BY Zenon DEF SendUpdate, Close, Delete, forwarder
  <2> QED BY <1>1, <2>1 DEF ForwarderInv, ListInv
<1>5. NoGap' /\ History'
  BY <1>1 DEF ForwarderInv, NoGap, Due, Passed, History
<1> QED BY <1>2, <1>3, <1>4, <1>5 DEF ForwarderInv

LEMMA SendKeeps ==
  ASSUME ForwarderInv, pump # "dead", NEW x \in Senders, Send(x)
  PROVE  ForwarderInv'
<1>1. /\ UNCHANGED <<listening, original, isClosed, channels, shut, saved,
                     lock, next, todo, at, got>>
      /\ \/ from' = [from EXCEPT ![x] = "idle"]
         \/ from' = [from EXCEPT ![x] = "close"]
      /\ pump = "receive" /\ pump' = "lock"
      /\ sent < MaxEvents /\ sent' = sent + 1
  BY DEF Send, Sender, forwarder
<1>2. MaxEvents \in Nat /\ sent \in 0 .. MaxEvents
  BY ForwarderAssumption DEF ForwarderInv, TypeOK
<1>3. TypeOK'
  <2>1. from' \in [Senders -> SenderAt]
    BY <1>1 DEF ForwarderInv, TypeOK, SenderAt
  <2>2. sent' \in 0 .. MaxEvents /\ saved \in 0 .. sent'
    BY <1>1, <1>2 DEF ForwarderInv, TypeOK
  <2> QED BY <1>1, <2>1, <2>2 DEF ForwarderInv, TypeOK
<1>4. Passed' = Passed
  BY <1>1, <1>2 DEF Passed
<1>5. DeadInv' /\ PumpInv'
  BY <1>1, <1>2, <1>4 DEF ForwarderInv, DeadInv, PumpInv
<1>6. todo = <<>>
  BY <1>1 DEF ForwarderInv, TodoInv
<1>7. TodoInv' /\ ReplayInv' /\ ListInv'
  BY <1>1, <1>6 DEF ForwarderInv, TodoInv, ReplayInv, ListInv
<1>8. \A r \in Receivers : Due(r)' = Due(r)
  BY <1>1, <1>4, <1>6, InEmpty DEF Due
<1>9. NoGap' /\ History'
  BY <1>1, <1>8 DEF ForwarderInv, NoGap, History
<1> QED BY <1>3, <1>5, <1>7, <1>9 DEF ForwarderInv

LEMMA PanicKeeps ==
  ASSUME ForwarderInv, pump # "dead", NEW x \in Senders, SendPanics(x)
  PROVE  ForwarderInv'
<1>1. /\ UNCHANGED <<listening, original, isClosed, channels, shut, saved,
                     lock, next, sent, todo, got>>
      /\ from' = [y \in Senders |-> "dead"]
      /\ at' = [r \in Receivers |-> "dead"]
      /\ pump' = "dead"
  BY DEF SendPanics, forwarder
<1>2. TypeOK'
  BY <1>1 DEF ForwarderInv, TypeOK, SenderAt, ReceiverAt
<1>3. DeadInv' /\ PumpInv' /\ TodoInv' /\ ReplayInv'
  BY <1>1 DEF DeadInv, PumpInv, TodoInv, ReplayInv
<1>4. ListInv' /\ NoGap' /\ History'
  BY <1>1 DEF ForwarderInv, ListInv, NoGap, History
<1> QED BY <1>2, <1>3, <1>4 DEF ForwarderInv

(***************************************************************************)
(* A receiver that does not touch the lists.                               *)
(***************************************************************************)
LEMMA ReceiverKeeps ==
  ASSUME ForwarderInv, pump # "dead", NEW r \in Receivers,
         SwapUpdates(r) \/ Handled(r) \/ RangeEnds(r) \/ Stop(r)
  PROVE  ForwarderInv'
<1>1. UNCHANGED <<listening, original, isClosed, channels, shut, saved, lock,
                  next, sent, pump, todo, from, got>>
  BY DEF SwapUpdates, Handled, RangeEnds, Stop, forwarder, pumpVars
<1>2. PICK new \in {"get", "read", "stop", "remove", "left", "ended"} :
        /\ at' = [at EXCEPT ![r] = new]
        /\ new = "get" => at[r] = "new"
        /\ new = "read" => at[r] = "busy"
        /\ new \in {"stop", "remove", "left"} => at[r] \in {"busy", "stop"}
        /\ at[r] \notin {"nil", "dead"}
  BY DEF SwapUpdates, Handled, RangeEnds, Stop, Receiver
<1>3. at \in [Receivers -> ReceiverAt]
  BY DEF ForwarderInv, TypeOK
<1>4. TypeOK'
  BY <1>1, <1>2 DEF ForwarderInv, TypeOK, ReceiverAt
<1>5. DeadInv' /\ PumpInv' /\ TodoInv'
  BY <1>1 DEF ForwarderInv, DeadInv, PumpInv, TodoInv, Passed
<1>6. ReplayInv'
  BY <1>1, <1>2, <1>3 DEF ForwarderInv, ReplayInv
<1>7. ListInv'
  BY <1>1, <1>2, <1>3 DEF ForwarderInv, ListInv
<1>8. NoGap' /\ History'
  BY <1>1, <1>2, <1>3 DEF ForwarderInv, NoGap, Due, Passed, History
<1> QED BY <1>4, <1>5, <1>6, <1>7, <1>8 DEF ForwarderInv
-----------------------------------------------------------------------------
(***************************************************************************)
(* The pump.                                                               *)
(***************************************************************************)
LEMMA LockKeeps ==
  ASSUME ForwarderInv, pump # "dead", Lock
  PROVE  ForwarderInv'
<1>1. /\ UNCHANGED <<listening, original, isClosed, channels, shut, next,
                     sent, from, at, got>>
      /\ lock = "none" /\ lock' = "pump"
      /\ pump = "lock" /\ pump' = "forward"
      /\ todo' = channels
      /\ saved' = IF SaveValues THEN sent ELSE saved
  BY DEF Lock
<1>2. sent \in Nat /\ sent > 0 /\ saved \in Nat /\ saved <= sent
  BY <1>1, ForwarderAssumption DEF ForwarderInv, TypeOK, PumpInv
<1>3. TypeOK'
  BY <1>1, <1>2 DEF ForwarderInv, TypeOK
<1>4. DeadInv' /\ PumpInv'
  BY <1>1, <1>2 DEF ForwarderInv, DeadInv, PumpInv, Passed
<1>5. TodoInv'
  BY <1>1 DEF ForwarderInv, TypeOK, TodoInv, Distinct
<1>6. ReplayInv' /\ ListInv'
  BY <1>1, ForwarderAssumption DEF ForwarderInv, ReplayInv, ListInv
<1>7. ASSUME NEW r \in Receivers, In(r, channels) PROVE Due(r)' = Due(r)
  <2>1. lock # r /\ lock' # r
    BY <1>1, ForwarderAssumption
  <2>2. ~In(r, todo)
    BY <1>1, InEmpty DEF ForwarderInv, TodoInv
  <2>3. In(r, todo)'
    BY <1>1, <1>7
  <2> QED BY <1>1, <1>2, <2>1, <2>2, <2>3 DEF Due, Passed
<1>8. NoGap' /\ History'
  BY <1>1, <1>7 DEF ForwarderInv, NoGap, History
<1> QED BY <1>3, <1>4, <1>5, <1>6, <1>8 DEF ForwarderInv

LEMMA UnlockKeeps ==
  ASSUME ForwarderInv, pump # "dead", Unlock \/ OriginalClosed
  PROVE  ForwarderInv'
<1>1. /\ UNCHANGED <<listening, original, isClosed, channels, shut, saved,
                     next, sent, todo, from, at, got>>
      /\ \/ /\ pump = "forward" /\ pump' = "receive"
            /\ lock' = "none"
         \/ /\ pump = "receive" /\ pump' = "end"
            /\ lock' = lock
      /\ todo = <<>>
  BY DEF Unlock, OriginalClosed, forwarder, ForwarderInv, TodoInv
<1>2. pump = "forward" => lock = "pump"
  BY DEF ForwarderInv, PumpInv
<1>3. TypeOK'
  BY <1>1 DEF ForwarderInv, TypeOK
<1>4. DeadInv' /\ PumpInv' /\ TodoInv'
  BY <1>1 DEF ForwarderInv, DeadInv, PumpInv, TodoInv, Passed
<1>5. ReplayInv' /\ ListInv'
  BY <1>1, ForwarderAssumption DEF ForwarderInv, ReplayInv, ListInv
<1>6. \A r \in Receivers : Due(r)' = Due(r)
  BY <1>1, <1>2, ForwarderAssumption DEF Due, Passed
<1>7. NoGap' /\ History'
  BY <1>1, <1>6 DEF ForwarderInv, NoGap, History
<1> QED BY <1>3, <1>4, <1>5, <1>7 DEF ForwarderInv

LEMMA PumpEndsKeeps ==
  ASSUME ForwarderInv, pump # "dead", PumpEnds
  PROVE  ForwarderInv'
<1>1. /\ UNCHANGED <<listening, original, saved, lock, next, sent, todo, from,
                     at, got>>
      /\ pump = "end" /\ pump' = "ended"
      /\ isClosed' = TRUE
      /\ lock = "none"
      /\ shut' = shut \cup {channels[i] : i \in DOMAIN channels}
      /\ channels' = <<>>
  BY DEF PumpEnds, CloseChannels
<1>2. todo = <<>>
  BY <1>1 DEF ForwarderInv, TodoInv
<1>3. channels \in Seq(Receivers)
  BY DEF ForwarderInv, TypeOK
<1>4. TypeOK'
  <2>1. shut' \subseteq Receivers
    <3>1. \A i \in DOMAIN channels : channels[i] \in Receivers
      BY <1>3, LenProperties, ElementOfSeq
    <3> QED BY <1>1, <3>1 DEF ForwarderInv, TypeOK
  <2>2. channels' \in Seq(Receivers) /\ DOMAIN channels' = {}
    BY <1>1, EmptySeq
  <2> QED BY <1>1, <2>1, <2>2 DEF ForwarderInv, TypeOK
<1>5. DeadInv' /\ PumpInv' /\ TodoInv'
  BY <1>1, <1>2, InEmpty DEF ForwarderInv, DeadInv, PumpInv, TodoInv, Passed
<1>6. ReplayInv'
  BY <1>1, ForwarderAssumption DEF ReplayInv
<1>7. ListInv'
  <2>1. \A r : In(r, channels) <=> r \in {channels[i] : i \in DOMAIN channels}
    BY DEF In
  <2> QED BY <1>1, <2>1, InEmpty DEF ForwarderInv, ListInv
<1>8. NoGap' /\ History'
  BY <1>1, InEmpty DEF ForwarderInv, NoGap, History
<1> QED BY <1>4, <1>5, <1>6, <1>7, <1>8 DEF ForwarderInv

(***************************************************************************)
(* The next event is handed to a receiver of the list, and nothing else    *)
(* changes for the receivers.                                              *)
(***************************************************************************)
LEMMA HandIsNext ==
  ASSUME ForwarderInv, NEW r \in Receivers, In(r, channels),
         NEW event \in 1 .. MaxEvents, event = Due(r), Hand(r, event)
  PROVE  /\ at' \in [Receivers -> ReceiverAt]
         /\ got' \in [Receivers -> Seq(1 .. MaxEvents)]
         /\ \A q \in Receivers :
              q # r => at'[q] = at[q] /\ got'[q] = got[q]
         /\ at[r] \in {"read", "remove", "removed"}
         /\ at'[r] = IF at[r] = "read" THEN "busy" ELSE at[r]
         /\ at[r] = "read" =>
              got'[r] # <<>> /\ got'[r][Len(got'[r])] = event
         /\ History'
<1>1. /\ at \in [Receivers -> ReceiverAt]
      /\ got \in [Receivers -> Seq(1 .. MaxEvents)]
  BY DEF ForwarderInv, TypeOK
<1>2. MaxEvents \in Nat
  BY ForwarderAssumption
<1>3. CASE at[r] # "read"
  BY <1>1, <1>3 DEF Hand, Receiver, Draining, ForwarderInv, History
<1>4. CASE at[r] = "read"
  <2> DEFINE g == got[r]
             a == Append(g, event)
  <2>1. at' = [at EXCEPT ![r] = "busy"] /\ got' = [got EXCEPT ![r] = a]
    BY <1>4 DEF Hand, Receiver, Draining
  <2>2. g \in Seq(1 .. MaxEvents)
    BY <1>1
  <2>3. /\ a \in Seq(1 .. MaxEvents)
        /\ a # <<>>
        /\ Len(a) = Len(g) + 1
        /\ \A i \in 1 .. Len(g) : a[i] = g[i]
        /\ a[Len(g) + 1] = event
    BY <2>2, AppendProperties
  <2>4. /\ Len(g) \in Nat
        /\ DOMAIN g = 1 .. Len(g)
        /\ DOMAIN a = 1 .. Len(g) + 1
        /\ g # <<>> => Len(g) > 0
        /\ g = <<>> => Len(g) = 0
    BY <2>2, <2>3, LenProperties, EmptySeq
  <2>5. \A i \in 1 .. Len(g) : g[i] \in Int
    BY <1>2, <2>2, ElementOfSeq
  <2>6. \A i \in DOMAIN g : g[i] = IF SaveValues THEN i ELSE g[1] + i - 1
    BY DEF ForwarderInv, History
  <2>7. /\ g # <<>> => g[Len(g)] + 1 = event
        /\ g = <<>> /\ SaveValues => event = 1
    BY <1>4 DEF ForwarderInv, NoGap
  <2>8. /\ got'[r] = a
        /\ at'[r] = "busy"
        /\ \A q \in Receivers :
              q # r => at'[q] = at[q] /\ got'[q] = got[q]
        /\ at' \in [Receivers -> ReceiverAt]
        /\ got' \in [Receivers -> Seq(1 .. MaxEvents)]
    <3> HIDE DEF g, a
    <3> QED BY <1>1, <2>1, <2>3 DEF ReceiverAt
  <2> HIDE DEF g, a
  <2>9. \A i \in DOMAIN a : a[i] = IF SaveValues THEN i ELSE a[1] + i - 1
    <3>1. ASSUME NEW i \in 1 .. Len(g)
          PROVE  a[i] = IF SaveValues THEN i ELSE a[1] + i - 1
      <4>1. a[i] = g[i] /\ 1 \in 1 .. Len(g) /\ a[1] = g[1]
        BY <2>3, <2>4
      <4> QED BY <2>4, <2>6, <4>1
    <3>2. a[Len(g) + 1] =
            IF SaveValues THEN Len(g) + 1 ELSE a[1] + (Len(g) + 1) - 1
      <4>1. CASE g = <<>>
        BY <1>2, <2>3, <2>4, <2>7, <4>1
      <4>2. CASE g # <<>>
        <5>1. /\ Len(g) \in 1 .. Len(g) /\ 1 \in 1 .. Len(g)
              /\ a[1] = g[1]
              /\ g[Len(g)] = IF SaveValues THEN Len(g) ELSE g[1] + Len(g) - 1
          BY <2>3, <2>4, <2>6, <4>2
        <5>2. g[Len(g)] \in Int /\ g[1] \in Int
          BY <2>5, <5>1
        <5> QED BY <2>3, <2>4, <2>7, <4>2, <5>1, <5>2
      <4> QED BY <4>1, <4>2
    <3> QED BY <2>4, <3>1, <3>2
  <2>10. History'
    <3> SUFFICES ASSUME NEW q \in Receivers, NEW i \in DOMAIN got'[q]
                 PROVE  got'[q][i] =
                          IF SaveValues THEN i ELSE got'[q][1] + i - 1
      BY Zenon DEF History
    <3>1. CASE q = r
      BY <2>8, <2>9, <3>1
    <3>2. CASE q # r
      BY <2>8, <3>2 DEF ForwarderInv, History
    <3> QED BY <3>1, <3>2
  <2>11. got'[r][Len(got'[r])] = event
    BY <2>3, <2>8
  <2> QED BY <1>4, <2>3, <2>8, <2>10, <2>11
<1> QED BY <1>3, <1>4

LEMMA ForwardKeeps ==
  ASSUME ForwarderInv, pump # "dead", Forward
  PROVE  ForwarderInv'
<1> DEFINE r == Head(todo)
<1>1. /\ UNCHANGED <<listening, original, isClosed, channels, shut, saved,
                     lock, next, sent, pump, from>>
      /\ todo # <<>> /\ todo' = Tail(todo)
      /\ Hand(r, sent)
  BY DEF Forward, forwarder
<1>2. pump = "forward" /\ lock = "pump" /\ sent > 0 /\ Distinct(todo)
  BY <1>1 DEF ForwarderInv, TodoInv, PumpInv
<1>3. /\ r \in Receivers
      /\ In(r, todo)
      /\ Tail(todo) \in Seq(Receivers)
      /\ Distinct(Tail(todo))
      /\ \A q : In(q, Tail(todo)) <=> In(q, todo) /\ q # r
  <2>1. todo \in Seq(Receivers)
    BY DEF ForwarderInv, TypeOK
  <2> QED BY <1>1, <1>2, <2>1, InTail
<1>4. In(r, channels) /\ \A q \in Receivers : In(q, todo) => In(q, channels)
  BY <1>3, <1>2 DEF ForwarderInv, TodoInv
<1> HIDE DEF r
<1>5. sent \in 1 .. MaxEvents /\ sent = Due(r)
  BY <1>2, <1>3, ForwarderAssumption DEF ForwarderInv, TypeOK, Due
<1>6. /\ at' \in [Receivers -> ReceiverAt]
      /\ got' \in [Receivers -> Seq(1 .. MaxEvents)]
      /\ \A q \in Receivers : q # r => at'[q] = at[q] /\ got'[q] = got[q]
      /\ at[r] \in {"read", "remove", "removed"}
      /\ at'[r] = IF at[r] = "read" THEN "busy" ELSE at[r]
      /\ at[r] = "read" =>
           got'[r] # <<>> /\ got'[r][Len(got'[r])] = sent
      /\ History'
  BY <1>1, <1>3, <1>4, <1>5, HandIsNext
<1>7. TypeOK'
  BY <1>1, <1>3, <1>6 DEF ForwarderInv, TypeOK
<1>8. DeadInv' /\ PumpInv'
  BY <1>1, <1>2 DEF ForwarderInv, DeadInv, PumpInv, Passed
<1>9. TodoInv'
  BY <1>1, <1>2, <1>3, <1>4 DEF TodoInv
<1>10. ReplayInv'
  BY <1>1, <1>2, ForwarderAssumption DEF ReplayInv
<1>11. ListInv'
  BY <1>1, <1>2, <1>4, <1>6 DEF ForwarderInv, ListInv
<1>12. NoGap'
  <2> SUFFICES ASSUME NEW q \in Receivers, In(q, channels),
                      at'[q] \in {"read", "busy"}
               PROVE  /\ got'[q] # <<>> =>
                           got'[q][Len(got'[q])] + 1 = Due(q)'
                      /\ got'[q] = <<>> /\ SaveValues => Due(q)' = 1
    BY <1>1 DEF NoGap
  <2>1. lock # q
    BY <1>2, ForwarderAssumption
  <2>2. CASE q = r
    <3>1. Due(q)' = sent + 1
      BY <1>1, <1>2, <1>3, <2>1, <2>2 DEF Due, Passed
    <3>2. got'[q] # <<>> /\ got'[q][Len(got'[q])] = sent
      BY <1>6, <2>2
    <3> QED BY <3>1, <3>2
  <2>3. CASE q # r
    <3>1. Due(q)' = Due(q)
      BY <1>1, <1>2, <1>3, <2>1, <2>3 DEF Due, Passed
    <3> QED BY <1>6, <2>3, <3>1 DEF ForwarderInv, NoGap
  <2> QED BY <2>2, <2>3
<1> QED BY <1>6, <1>7, <1>8, <1>9, <1>10, <1>11, <1>12 DEF ForwarderInv
-----------------------------------------------------------------------------
(***************************************************************************)
(* The receivers that use the lists.                                       *)
(***************************************************************************)
LEMMA GetKeeps ==
  ASSUME ForwarderInv, pump # "dead", NEW r \in Receivers, Get(r)
  PROVE  ForwarderInv'
<1>1. /\ UNCHANGED <<listening, original, isClosed, shut, saved, sent, pump,
                     todo, from, got>>
      /\ at[r] = "get"
      /\ lock = "none"
  BY DEF Get, pumpVars, Receiver
<1>2. /\ ~In(r, channels) /\ r \notin shut /\ got[r] = <<>>
      /\ pump # "forward"
      /\ todo = <<>>
      /\ at \in [Receivers -> ReceiverAt]
      /\ channels \in Seq(Receivers)
      /\ Distinct(channels)
  BY <1>1 DEF ForwarderInv, TypeOK, ListInv, PumpInv, TodoInv, Distinct
<1>3. DeadInv' /\ History'
  BY <1>1 DEF ForwarderInv, DeadInv, History
<1>4. CASE isClosed
  <2>1. /\ at' = [at EXCEPT ![r] = "nil"]
        /\ lock' = r
        /\ UNCHANGED <<channels, next>>
    BY <1>4 DEF Get, Receiver
  <2>2. TypeOK'
    BY <1>1, <2>1 DEF ForwarderInv, TypeOK, ReceiverAt
  <2>3. PumpInv' /\ TodoInv' /\ ReplayInv'
    BY <1>1, <1>2, <2>1, ForwarderAssumption
      DEF ForwarderInv, PumpInv, TodoInv, ReplayInv, Passed
  <2>4. ListInv'
    BY <1>1, <1>2, <2>1 DEF ForwarderInv, ListInv
  <2>5. NoGap'
    BY <1>1, <1>2, <2>1, ForwarderAssumption
      DEF ForwarderInv, NoGap, Due, Passed
  <2> QED BY <1>3, <2>2, <2>3, <2>4, <2>5 DEF ForwarderInv
<1>5. CASE ~isClosed
  <2>1. /\ at' = [at EXCEPT ![r] = "read"]
        /\ channels' = Append(channels, r)
        /\ lock' = IF saved > 0 THEN r ELSE "none"
        /\ next' = IF saved > 0 THEN 1 ELSE next
    BY <1>5 DEF Get, Receiver, Replays
  <2>2. /\ channels' \in Seq(Receivers)
        /\ Distinct(channels')
        /\ \A q : In(q, channels') <=> In(q, channels) \/ q = r
    BY <1>2, <2>1, InAppend
  <2>3. /\ at'[r] = "read"
        /\ \A q \in Receivers : q # r => at'[q] = at[q]
        /\ at' \in [Receivers -> ReceiverAt]
    BY <1>2, <2>1 DEF ReceiverAt
  <2>4. /\ saved = IF SaveValues THEN Passed ELSE 0
        /\ saved \in Nat
        /\ Passed \in Nat
    BY ForwarderAssumption, <1>1 DEF ForwarderInv, PumpInv, TypeOK, Passed
  <2>5. TypeOK'
    <3>1. \A i \in DOMAIN channels' : channels'[i] \notin shut
      <4>1. \A q : In(q, channels) => q \notin shut
        BY DEF ForwarderInv, TypeOK, In
      <4> QED BY <1>2, <2>2, <4>1 DEF In
    <3>2. next' \in 1 .. MaxEvents + 1
      BY <2>1, ForwarderAssumption DEF ForwarderInv, TypeOK
    <3> QED BY <1>1, <2>1, <2>2, <2>3, <3>1, <3>2
              DEF ForwarderInv, TypeOK, Distinct
  <2>6. PumpInv' /\ TodoInv'
    BY <1>1, <1>2, <2>1, <2>2, ForwarderAssumption
      DEF ForwarderInv, PumpInv, TodoInv, Passed
  <2>7. ReplayInv'
    <3>1. CASE saved > 0
      <4>1. SaveValues /\ next' <= saved + 1
        <5>1. SaveValues
          <6>1. ~SaveValues => saved = 0
            BY <2>4, Zenon
          <6> QED BY <3>1, <6>1
        <5>2. next' = 1
          BY <2>1, <3>1
        <5> QED BY <2>4, <3>1, <5>1, <5>2
      <4> QED BY <1>1, <2>1, <2>2, <3>1, <4>1 DEF ReplayInv
    <3>2. CASE ~(saved > 0)
      BY <2>1, <3>2, ForwarderAssumption DEF ReplayInv
    <3> QED BY <3>1, <3>2
  <2>8. ListInv'
    <3>1. pump # "ended"
      BY <1>5 DEF ForwarderInv, ListInv
    <3> QED BY <1>1, <2>2, <2>3, <3>1 DEF ForwarderInv, ListInv
  <2>9. NoGap'
    <3> SUFFICES ASSUME NEW q \in Receivers, In(q, channels'),
                        at'[q] \in {"read", "busy"}
                 PROVE  /\ got'[q] # <<>> =>
                             got'[q][Len(got'[q])] + 1 = Due(q)'
                        /\ got'[q] = <<>> /\ SaveValues => Due(q)' = 1
      BY DEF NoGap
    <3>1. CASE q = r
      <4>1. got'[q] = <<>>
        BY <1>1, <1>2, <3>1
      <4>2. SaveValues => Due(q)' = 1
        BY <1>1, <1>2, <2>1, <2>4, <3>1, InEmpty, ForwarderAssumption
          DEF Due, Passed
      <4> QED BY <4>1, <4>2
    <3>2. CASE q # r
      <4>1. Due(q)' = Due(q)
        BY <1>1, <1>2, <2>1, <3>2, ForwarderAssumption DEF Due, Passed
      <4> QED BY <1>1, <2>2, <2>3, <3>2, <4>1 DEF ForwarderInv, NoGap
    <3> QED BY <3>1, <3>2
  <2> QED BY <1>3, <2>5, <2>6, <2>7, <2>8, <2>9 DEF ForwarderInv
<1> QED BY <1>4, <1>5

LEMMA ReplayKeeps ==
  ASSUME ForwarderInv, pump # "dead", NEW r \in Receivers, Replay(r)
  PROVE  ForwarderInv'
<1>1. /\ UNCHANGED <<listening, original, isClosed, channels, shut, saved,
                     sent, pump, todo, from>>
      /\ lock = r
      /\ at[r] \notin {"nil", "dead"}
  BY DEF Replay, pumpVars
<1>2. SaveValues /\ In(r, channels) /\ next <= saved + 1
  BY <1>1 DEF ForwarderInv, ReplayInv
<1>3. /\ pump # "forward"
      /\ todo = <<>>
      /\ r \notin {"none", "pump"}
      /\ saved \in Nat /\ saved <= MaxEvents
      /\ next \in 1 .. MaxEvents + 1
      /\ saved = Passed
      /\ MaxEvents \in Nat
  BY <1>1, <1>2, ForwarderAssumption
    DEF ForwarderInv, TypeOK, PumpInv, TodoInv
<1>4. DeadInv'
  BY <1>1 DEF ForwarderInv, DeadInv
<1>5. Passed' = Passed
  BY <1>1 DEF Passed
<1>6. CASE next <= saved
  <2>1. Hand(r, next) /\ next' = next + 1 /\ lock' = lock
    BY <1>6 DEF Replay
  <2>2. next \in 1 .. MaxEvents /\ next = Due(r)
    BY <1>1, <1>3, <1>6 DEF Due
  <2>3. /\ at' \in [Receivers -> ReceiverAt]
        /\ got' \in [Receivers -> Seq(1 .. MaxEvents)]
        /\ \A q \in Receivers : q # r => at'[q] = at[q] /\ got'[q] = got[q]
        /\ at[r] \in {"read", "remove", "removed"}
        /\ at'[r] = IF at[r] = "read" THEN "busy" ELSE at[r]
        /\ at[r] = "read" =>
             got'[r] # <<>> /\ got'[r][Len(got'[r])] = next
        /\ History'
    BY <1>2, <2>1, <2>2, HandIsNext
  <2>4. TypeOK'
    <3>1. next' \in 1 .. MaxEvents + 1
      BY <1>3, <1>6, <2>1
    <3> QED BY <1>1, <2>1, <2>3, <3>1 DEF ForwarderInv, TypeOK
  <2>5. PumpInv' /\ TodoInv'
    BY <1>1, <1>5, <2>1 DEF ForwarderInv, PumpInv, TodoInv
  <2>6. ReplayInv'
    BY <1>1, <1>2, <1>3, <1>6, <2>1 DEF ReplayInv
  <2>7. ListInv'
    BY <1>1, <1>2, <2>3 DEF ForwarderInv, ListInv
  <2>8. NoGap'
    <3> SUFFICES ASSUME NEW q \in Receivers, In(q, channels),
                        at'[q] \in {"read", "busy"}
                 PROVE  /\ got'[q] # <<>> =>
                             got'[q][Len(got'[q])] + 1 = Due(q)'
                        /\ got'[q] = <<>> /\ SaveValues => Due(q)' = 1
      BY <1>1 DEF NoGap
    <3>1. CASE q = r
      <4>1. Due(q)' = next + 1
        BY <1>1, <2>1, <3>1 DEF Due
      <4> QED BY <2>3, <3>1, <4>1
    <3>2. CASE q # r
      <4>1. Due(q)' = Due(q)
        BY <1>1, <1>5, <2>1, <3>2 DEF Due
      <4> QED BY <2>3, <3>2, <4>1 DEF ForwarderInv, NoGap
    <3> QED BY <3>1, <3>2
  <2> QED BY <1>4, <2>3, <2>4, <2>5, <2>6, <2>7, <2>8 DEF ForwarderInv
<1>7. CASE ~(next <= saved)
  <2>1. lock' = "none" /\ UNCHANGED <<next, at, got>>
    BY <1>7 DEF Replay
  <2>2. TypeOK' /\ History'
    BY <1>1, <2>1 DEF ForwarderInv, TypeOK, History
  <2>3. PumpInv' /\ TodoInv' /\ ReplayInv' /\ ListInv'
    BY <1>1, <1>3, <1>5, <2>1, ForwarderAssumption
      DEF ForwarderInv, PumpInv, TodoInv, ReplayInv, ListInv
  <2>4. \A q \in Receivers : Due(q)' = Due(q)
    BY <1>1, <1>2, <1>3, <1>5, <1>7, <2>1, InEmpty, ForwarderAssumption
      DEF Due
  <2>5. NoGap'
    BY <1>1, <2>1, <2>4 DEF ForwarderInv, NoGap
  <2> QED BY <1>4, <2>2, <2>3, <2>5 DEF ForwarderInv
<1> QED BY <1>6, <1>7

LEMMA RemoveKeeps ==
  ASSUME ForwarderInv, pump # "dead", NEW r \in Receivers, Remove(r)
  PROVE  ForwarderInv'
<1>1. /\ UNCHANGED <<listening, original, isClosed, saved, lock, next, sent,
                     pump, todo, from, got>>
      /\ lock = "none"
      /\ at[r] = "remove" /\ at' = [at EXCEPT ![r] = "removed"]
  BY DEF Remove, pumpVars, Receiver
<1>2. /\ pump # "forward"
      /\ todo = <<>>
      /\ at \in [Receivers -> ReceiverAt]
      /\ channels \in Seq(Receivers)
      /\ Distinct(channels)
      /\ shut \subseteq Receivers
      /\ \A q : In(q, channels) => q \notin shut
  BY <1>1 DEF ForwarderInv, TypeOK, ListInv, PumpInv, TodoInv, Distinct, In
<1>3. /\ at'[r] = "removed"
      /\ \A q \in Receivers : q # r => at'[q] = at[q]
      /\ at' \in [Receivers -> ReceiverAt]
  BY <1>1, <1>2 DEF ReceiverAt
<1>4. \* Only r leaves the list, and only its channel is closed.
      /\ channels' \in Seq(Receivers)
      /\ Distinct(channels')
      /\ \A q : In(q, channels') <=> In(q, channels) /\ q # r
      /\ shut' \in {shut, shut \cup {r}}
      /\ channels = <<>> => channels' = <<>>
  <2>1. CASE channels = <<>>
    BY <1>2, <2>1, InEmpty DEF Remove
  <2>2. CASE channels # <<>>
    <3>1. In(r, channels)
      BY <1>1, <2>2 DEF ForwarderInv, ListInv
    <3>2. Index(r) \in DOMAIN channels /\ channels[Index(r)] = r
      BY <1>2, <2>2, <3>1, IndexFinds
    <3>3. channels' = TakeOut(Index(r)) /\ shut' = shut \cup {r}
      BY <2>2, <3>2 DEF Remove
    <3>4. /\ TakeOut(Index(r)) \in Seq(Receivers)
          /\ Distinct(TakeOut(Index(r)))
          /\ \A q : In(q, TakeOut(Index(r))) <=>
                      In(q, channels) /\ q # channels[Index(r)]
      BY <1>2, <3>2, TakeOutTakesOut
    <3> QED BY <2>2, <3>2, <3>3, <3>4
  <2> QED BY <2>1, <2>2
<1>5. TypeOK'
  <2>1. \A i \in DOMAIN channels' : channels'[i] \notin shut'
    BY <1>2, <1>4 DEF In
  <2>2. shut' \subseteq Receivers
    BY <1>2, <1>4
  <2> QED BY <1>1, <1>3, <1>4, <2>1, <2>2 DEF ForwarderInv, TypeOK, Distinct
<1>6. DeadInv' /\ PumpInv' /\ TodoInv' /\ ReplayInv'
  BY <1>1, <1>2, InEmpty, ForwarderAssumption
    DEF ForwarderInv, DeadInv, PumpInv, TodoInv, ReplayInv, Passed
<1>7. ListInv'
  BY <1>1, <1>3, <1>4 DEF ForwarderInv, ListInv
<1>8. NoGap' /\ History'
  BY <1>1, <1>3, <1>4 DEF ForwarderInv, NoGap, Due, Passed, History
<1> QED BY <1>5, <1>6, <1>7, <1>8 DEF ForwarderInv
-----------------------------------------------------------------------------
LEMMA StepKeeps ==
  ASSUME ForwarderInv, Next
  PROVE  ForwarderInv'
<1>1. pump # "dead"
  BY DeadStops
<1>2. CASE PumpStep
  BY <1>1, <1>2, LockKeeps, ForwardKeeps, UnlockKeeps, PumpEndsKeeps
    DEF PumpStep
<1>3. ASSUME NEW x \in Senders, SenderStep(x) \/ SendUpdate(x)
      PROVE  ForwarderInv'
  BY <1>1, <1>3, SendKeeps, PanicKeeps, SenderKeeps DEF SenderStep
<1>4. ASSUME NEW r \in Receivers, ReceiverStep(r) \/ SwapUpdates(r)
      PROVE  ForwarderInv'
  BY <1>1, <1>4, GetKeeps, ReplayKeeps, ReceiverKeeps, RemoveKeeps
    DEF ReceiverStep
<1> QED BY <1>2, <1>3, <1>4 DEF Next, Goroutines

LEMMA StutterKeeps == ForwarderInv /\ UNCHANGED vars => ForwarderInv'
  BY DEF ForwarderInv, TypeOK, DeadInv, PumpInv, TodoInv, ReplayInv, ListInv,
         NoGap, History, Due, Passed, vars, forwarder, pumpVars

LEMMA InvariantHolds == Spec => []ForwarderInv
<1>1. ForwarderInv /\ [Next]_vars => ForwarderInv'
  BY StepKeeps, StutterKeeps
<1> QED BY InitEstablishes, <1>1, PTL DEF Spec

(***************************************************************************)
(* Types: channels holds each receiver once, and none whose channel is     *)
(* closed, so that the pump never sends on a closed channel.               *)
(***************************************************************************)
THEOREM TypeCorrect == Spec => []TypeOK
<1>1. ForwarderInv => TypeOK
  BY DEF ForwarderInv
<1> QED BY InvariantHolds, <1>1, PTL

(***************************************************************************)
(* No receiver misses an event, sees one twice or sees them out of order:  *)
(* Get sends the saved values while it keeps the lock from the pump.       *)
(***************************************************************************)
THEOREM HistoryIsWhole == Spec => []History
<1>1. ForwarderInv => History
  BY DEF ForwarderInv
<1> QED BY InvariantHolds, <1>1, PTL

(***************************************************************************)
(* Remove, which takes the first receiver when it does not find its own,   *)
(* never does.                                                             *)
(***************************************************************************)
THEOREM RemoveTakesItself == Spec => []RemovesItself
<1>1. ForwarderInv => RemovesItself
  BY DEF ForwarderInv, ListInv, RemovesItself
<1> QED BY InvariantHolds, <1>1, PTL
=============================================================================
