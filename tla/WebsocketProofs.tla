--------------------------- MODULE WebsocketProofs --------------------------
(***************************************************************************)
(* What the run of Websocket shows for two swaps and three connections,    *)
(* proved for any number of swaps, of connections and of losses.           *)
(***************************************************************************)
EXTENDS Websocket, SequenceTheorems, FiniteSetTheorems, TLAPS

\* Where the caller of Subscribe may be, and where a reader may be.
CallerAt ==
  {Idle, Dead, Point("reconnect", "close"), Point("subscribed", "append")}
    \cup {Point(g, p) : g \in {"connect", "reconnect"},
                        p \in {"dial", "dialed", "copy", "write", "wait"}}
    \cup {Point(g, p) : g \in {"first", "second"}, p \in {"write", "wait"}}

ReaderAt ==
  {Idle, Dead}
    \cup {Point("read", p) : p \in {"read", "lock", "ack", "send", "failed",
                                    "drop"}}
    \cup {Point("redial", p) : p \in {"sleep", "dial", "dialed", "copy",
                                      "write", "wait"}}

\* A panic stops every goroutine, and comes only after Close.
Stopped == at[Caller] = Dead

PlaceInv ==
  /\ at[Caller] \in CallerAt
  /\ \A k \in Conns : at[k] \in ReaderAt
  /\ Stopped => closed /\ \A k \in Conns : at[k] = Dead
  /\ \A k \in Conns : at[k] = Dead => Stopped

(***************************************************************************)
(* The connection in use is the last one made, and its reader has not gone *)
(* on to dial.                                                             *)
(***************************************************************************)
ConnInv ==
  /\ conn # 0 =>
       /\ conn = used
       /\ link[conn] \in {"up", "lost"}
       /\ ~Stopped => at[conn].stage = "read"
  /\ \A k \in Conns : k > used =>
       at[k] \in {Idle, Dead} /\ subs[k] = {} /\ inbox[k] = <<>>

\* What lightzd has sent is not ahead of what it knows.
Updates == {m \in Messages : m # Ack}
Told == {m \in Messages : m # Ack => m.status <= status[m.swap]}

MessageInv ==
  /\ inbox \in [Conns -> Seq(Told)]
  /\ updates \in Seq(Told \cap Updates)
  /\ \A k \in Conns :
       /\ at[k].step = "ack" => Head(inbox[k]) = Ack
       /\ at[k].step = "send" => Head(inbox[k]) # Ack
       /\ ~Stopped /\ link[k] \notin {"up", "lost"} =>
            Len(inbox[k]) = InHand(k)
       /\ at[k].step \in {"failed", "drop"} => link[k] # "up"

\* Every acknowledgement has somebody who waits for one.
AnswerInv == ~Stopped => Cardinality(Answers) <= Cardinality(Waiting)

-----------------------------------------------------------------------------
\* A reader will dial again, and copy all of swapIds after that.
Redialing ==
  \E k \in Conns :
    at[k].stage = "redial" /\ at[k].step \in {"sleep", "dial", "dialed"}

\* A reader sleeps for longer than the caller waits.
Outlasted == \E k \in Conns : At(k, "redial", "sleep") /\ Caller \in before[k]

\* A reader of a connection that is subscribed to s reads, or has just failed.
Alive(s) ==
  \E k \in Conns :
    at[k].stage = "read" /\ s \in subs[k] /\ link[k] \in {"up", "lost"}

\* What keeps the client from being deaf to s, without a look at answers.
Served(s) ==
  \/ link[used] \in {"closed", "left"}
  \/ LeftWith(s)
  \/ Heard(s)
  \/ Redialing
  \/ \E t \in Threads :
       \/ at[t].step \in {"drop", "copy"}
       \/ at[t].stage \in Connecting /\ at[t].step = "write" /\ s \in ids[t]
  \/ \E k \in Conns :
       /\ at[k].step \in {"read", "lock", "ack", "send", "failed"}
       /\ link[k] = "lost" /\ conn # 0

\* Every swap subscribed to is served, unless another goroutine has taken the
\* answer to somebody's subscription: then a waiter is left that will time out.
ServedInv ==
  \A s \in swapIds :
    \/ Served(s)
    \/ At(Caller, "reconnect", "close")
    \/ Unanswered /\ at[Caller].stage \in {"idle", "first", "subscribed"}

\* So will be the swaps that Subscribe waits for, and those it appends.
Awaiting ==
  \/ At(Caller, "first", "wait")
  \/ At(Caller, "second", "wait")

WantInv ==
  /\ Awaiting =>
       \A s \in want :
         \/ Unanswered \/ LeftWith(s) \/ Outlasted
         \/ Alive(s) /\ conn # 0
  /\ At(Caller, "subscribed", "append") =>
       \A s \in want :
         \/ Unanswered \/ LeftWith(s) \/ Redialing
         \/ Alive(s) /\ conn # 0

\* Without a connection somebody dials, or the client has closed it itself,
\* which only the caller of Subscribe goes on from.
DialInv ==
  /\ conn = 0 => Redialing \/ link[used] \in {"closed", "left"}
  /\ link[used] = "closed" =>
       \/ at[Caller] = Idle
       \/ /\ at[Caller].stage \in {"connect", "reconnect"}
          /\ at[Caller].step \in {"dial", "dialed"}

LossInv == ~closed => DialInv /\ ServedInv /\ WantInv

WebsocketInv ==
  /\ TypeOK /\ PlaceInv /\ ConnInv /\ MessageInv /\ AnswerInv /\ LossInv
-----------------------------------------------------------------------------
(***************************************************************************)
(* The acknowledgements under way, counted.                                *)
(***************************************************************************)
AcksOf(q) ==
  UNION {{<<k, i>> : i \in {j \in DOMAIN q[k] : q[k][j] = Ack}} : k \in Conns}

LEMMA ConnsFinite == IsFiniteSet(Conns) /\ IsFiniteSet(Threads)
<1>1. MaxConns \in Int /\ 1 \in Int
  BY WebsocketAssumption
<1>2. IsFiniteSet(Conns)
  BY <1>1, FS_Interval DEF Conns
<1>3. IsFiniteSet(Conns \cup {Caller})
  BY <1>2, FS_AddElement
<1>4. Threads = Conns \cup {Caller}
  BY DEF Threads
<1> QED BY <1>2, <1>3, <1>4

LEMMA WaitingFinite ==
  /\ IsFiniteSet(Waiting) /\ Cardinality(Waiting) \in Nat
  /\ IsFiniteSet(Waiting') /\ Cardinality(Waiting') \in Nat
<1>1. Waiting \subseteq Threads /\ Waiting' \subseteq Threads
  BY DEF Waiting
<1>2. IsFiniteSet(Waiting) /\ IsFiniteSet(Waiting')
  BY <1>1, ConnsFinite, FS_Subset
<1> QED BY <1>2, FS_CardinalityType

LEMMA AcksOfMembers ==
  ASSUME NEW q
  PROVE  \A a : a \in AcksOf(q) <=>
           \E k \in Conns : \E i \in DOMAIN q[k] :
             a = <<k, i>> /\ q[k][i] = Ack
  BY DEF AcksOf

LEMMA AcksFinite ==
  ASSUME NEW S, NEW q \in [Conns -> Seq(S)]
  PROVE  IsFiniteSet(AcksOf(q)) /\ Cardinality(AcksOf(q)) \in Nat
<1> DEFINE Of(k) == {<<k, i>> : i \in {j \in DOMAIN q[k] : q[k][j] = Ack}}
<1>1. ASSUME NEW k \in Conns PROVE IsFiniteSet(Of(k))
  <2> DEFINE I == {j \in DOMAIN q[k] : q[k][j] = Ack}
             f == [i \in I |-> <<k, i>>]
  <2>1. q[k] \in Seq(S)
    OBVIOUS
  <2>2. Len(q[k]) \in Nat /\ DOMAIN q[k] = 1 .. Len(q[k])
    BY <2>1, LenProperties
  <2>3. IsFiniteSet(DOMAIN q[k])
    BY <2>2, FS_Interval
  <2>4. IsFiniteSet(I)
    BY <2>3, FS_Subset
  <2> HIDE DEF I
  <2>5. f \in Surjection(I, {<<k, i>> : i \in I})
    BY DEF Surjection
  <2>6. IsFiniteSet({<<k, i>> : i \in I})
    BY <2>4, <2>5, FS_Surjection
  <2> QED BY <2>6 DEF I
<1> DEFINE All == {Of(k) : k \in Conns}
           g == [k \in Conns |-> Of(k)]
<1>2. IsFiniteSet(All)
  <2> HIDE DEF Of
  <2>1. g \in Surjection(Conns, All)
    BY DEF Surjection
  <2> QED BY <2>1, ConnsFinite, FS_Surjection
<1>3. \A T \in All : IsFiniteSet(T)
  BY <1>1
<1>4. IsFiniteSet(UNION All)
  <2> HIDE DEF All
  <2> QED BY <1>2, <1>3, FS_UNION
<1>5. IsFiniteSet(AcksOf(q))
  BY <1>4 DEF AcksOf
<1> QED BY <1>5, FS_CardinalityType

LEMMA FewerAcks ==
  ASSUME NEW S, NEW q \in [Conns -> Seq(S)], NEW r,
         \A k \in Conns : \A i \in DOMAIN r[k] :
           r[k][i] = Ack => i \in DOMAIN q[k] /\ q[k][i] = Ack
  PROVE  Cardinality(AcksOf(r)) <= Cardinality(AcksOf(q))
<1>1. AcksOf(r) \subseteq AcksOf(q)
  BY AcksOfMembers
<1> QED BY <1>1, AcksFinite, FS_Subset

LEMMA OneMoreAck ==
  ASSUME NEW S, NEW q \in [Conns -> Seq(S)], NEW r, NEW c,
         \A k \in Conns : \A i \in DOMAIN r[k] :
           r[k][i] = Ack =>
             \/ <<k, i>> = c
             \/ i \in DOMAIN q[k] /\ q[k][i] = Ack
  PROVE  Cardinality(AcksOf(r)) <= Cardinality(AcksOf(q)) + 1
<1>1. AcksOf(r) \subseteq AcksOf(q) \cup {c}
  <2> SUFFICES ASSUME NEW a \in AcksOf(r), a # c PROVE a \in AcksOf(q)
    OBVIOUS
  <2>1a. PICK k \in Conns : \E i \in DOMAIN r[k] : a = <<k, i>> /\ r[k][i] = Ack
    BY AcksOfMembers
  <2>1. PICK i \in DOMAIN r[k] : a = <<k, i>> /\ r[k][i] = Ack
    BY <2>1a
  <2>2. i \in DOMAIN q[k] /\ q[k][i] = Ack
    BY <2>1
  <2> QED BY <2>1, <2>2, AcksOfMembers
<1>2. IsFiniteSet(AcksOf(q)) /\ Cardinality(AcksOf(q)) \in Nat
  BY AcksFinite
<1>3. /\ IsFiniteSet(AcksOf(q) \cup {c})
      /\ Cardinality(AcksOf(q) \cup {c}) \in
           {Cardinality(AcksOf(q)), Cardinality(AcksOf(q)) + 1}
  BY <1>2, FS_AddElement
<1>4. Cardinality(AcksOf(r)) <= Cardinality(AcksOf(q) \cup {c})
  BY <1>1, <1>3, FS_Subset
<1>5. IsFiniteSet(AcksOf(r))
  BY <1>1, <1>3, FS_Subset
<1>6. Cardinality(AcksOf(r)) \in Nat
  BY <1>5, FS_CardinalityType
<1> QED BY <1>2, <1>3, <1>4, <1>6

\* The first message of one connection is taken.
LEMMA AckTaken ==
  ASSUME NEW S, NEW q \in [Conns -> Seq(S)], NEW k \in Conns, q[k] # <<>>,
         NEW r, r[k] = Tail(q[k]),
         \A j \in Conns : j # k => r[j] = q[j]
  PROVE  /\ Cardinality(AcksOf(r)) <= Cardinality(AcksOf(q))
         /\ Head(q[k]) = Ack =>
              /\ Cardinality(AcksOf(q)) > 0
              /\ Cardinality(AcksOf(r)) <= Cardinality(AcksOf(q)) - 1
<1> DEFINE A == AcksOf(q)
           B == AcksOf(r)
           f == [b \in B |-> IF b[1] = k THEN <<k, b[2] + 1>> ELSE b]
<1>1. /\ q[k] \in Seq(S)
      /\ Len(q[k]) \in Nat \ {0}
      /\ DOMAIN q[k] = 1 .. Len(q[k])
  BY LenProperties, EmptySeq
<1>2. /\ Tail(q[k]) \in Seq(S)
      /\ Len(Tail(q[k])) = Len(q[k]) - 1
      /\ \A i \in 1 .. Len(Tail(q[k])) : Tail(q[k])[i] = q[k][i + 1]
      /\ Head(q[k]) = q[k][1]
  BY <1>1, HeadTailProperties
<1>3. DOMAIN Tail(q[k]) = 1 .. Len(q[k]) - 1
  BY <1>2, LenProperties
<1>4. r[k] = Tail(q[k]) /\ \A j \in Conns : j # k => r[j] = q[j]
  OBVIOUS
<1>5. /\ IsFiniteSet(A) /\ Cardinality(A) \in Nat
      /\ IsFiniteSet(A \ {<<k, 1>>})
      /\ Cardinality(A \ {<<k, 1>>}) =
           IF <<k, 1>> \in A THEN Cardinality(A) - 1 ELSE Cardinality(A)
  <2>1. IsFiniteSet(A) /\ Cardinality(A) \in Nat
    BY AcksFinite
  <2> HIDE DEF A
  <2> QED BY <2>1, FS_RemoveElement
<1>6. \A b \in B : f[b] \in A \ {<<k, 1>>}
  <2> SUFFICES ASSUME NEW b \in B PROVE f[b] \in A \ {<<k, 1>>}
    OBVIOUS
  <2>0a. PICK j \in Conns : \E i \in DOMAIN r[j] : b = <<j, i>> /\ r[j][i] = Ack
    BY AcksOfMembers, Zenon
  <2>0. PICK i \in DOMAIN r[j] : b = <<j, i>> /\ r[j][i] = Ack
    BY <2>0a
  <2>1. CASE j = k
    <3>1. /\ i \in 1 .. Len(q[k]) - 1
          /\ i + 1 \in DOMAIN q[k] /\ q[k][i + 1] = Ack
          /\ i + 1 # 1
      BY <1>1, <1>2, <1>3, <1>4, <2>0, <2>1
    <3>2. f[b] = <<k, i + 1>>
      BY <2>0, <2>1
    <3> QED BY <3>1, <3>2, AcksOfMembers
  <2>2. CASE j # k
    <3>1. f[b] = <<j, i>> /\ i \in DOMAIN q[j] /\ q[j][i] = Ack
      BY <1>4, <2>0, <2>2
    <3> QED BY <2>2, <3>1, AcksOfMembers
  <2> QED BY <2>1, <2>2
<1>7. \A b, c \in B : f[b] = f[c] => b = c
  <2> SUFFICES ASSUME NEW b \in B, NEW c \in B, f[b] = f[c] PROVE b = c
    OBVIOUS
  <2> HIDE DEF f
  <2>1a. PICK j \in Conns : \E i \in DOMAIN r[j] : b = <<j, i>> /\ r[j][i] = Ack
    BY AcksOfMembers, Zenon
  <2>1. PICK i \in DOMAIN r[j] : b = <<j, i>> /\ r[j][i] = Ack
    BY <2>1a
  <2>2a. PICK m \in Conns : \E n \in DOMAIN r[m] : c = <<m, n>> /\ r[m][n] = Ack
    BY AcksOfMembers, Zenon
  <2>2. PICK n \in DOMAIN r[m] : c = <<m, n>> /\ r[m][n] = Ack
    BY <2>2a
  <2>3. f[b] = IF j = k THEN <<k, i + 1>> ELSE <<j, i>>
    BY <2>1 DEF f
  <2>4. f[c] = IF m = k THEN <<k, n + 1>> ELSE <<m, n>>
    BY <2>2 DEF f
  <2>5. CASE j = k /\ m = k
    <3>1. i \in Int /\ n \in Int
      BY <1>1, <1>3, <1>4, <2>5
    <3>2. <<k, i + 1>> = <<k, n + 1>>
      BY <2>3, <2>4, <2>5
    <3> QED BY <2>1, <2>2, <2>5, <3>1, <3>2
  <2>6. CASE j # k \/ m # k
    BY <2>1, <2>2, <2>3, <2>4, <2>6
  <2> QED BY <2>5, <2>6
<1>8. f \in Injection(B, A \ {<<k, 1>>})
  <2> HIDE DEF A, B
  <2>1. f \in [B -> A \ {<<k, 1>>}]
    BY <1>6
  <2> HIDE DEF f
  <2> QED BY <1>7, <2>1 DEF Injection, IsInjective
<1> HIDE DEF A, B, f
<1>9. Cardinality(B) <= Cardinality(A \ {<<k, 1>>}) /\ IsFiniteSet(B)
  BY <1>5, <1>8, FS_Injection
<1>10. Cardinality(B) \in Nat
  BY <1>9, FS_CardinalityType
<1>11. Head(q[k]) = Ack => <<k, 1>> \in A
  BY <1>1, <1>2, AcksOfMembers DEF A
<1>12. <<k, 1>> \in A => Cardinality(A) > 0
  BY <1>5, FS_EmptySet
<1> QED BY <1>5, <1>9, <1>10, <1>11, <1>12 DEF A, B
-----------------------------------------------------------------------------
(***************************************************************************)
(* Where the goroutines are.                                               *)
(***************************************************************************)
LEMMA CallerIsNoReader == Caller \notin Conns /\ Threads = {Caller} \cup Conns
  BY WebsocketAssumption DEF Caller, Conns, Threads

LEMMA AfterPlaces ==
  ASSUME PlaceInv, NEW t \in Threads,
         at[t].step \in {"dial", "copy", "write", "wait"}
  PROVE  /\ t = Caller =>
              /\ at[t].stage = "connect" =>
                   AfterOk(t) = Point("first", "write") /\ AfterError(t) = Idle
              /\ at[t].stage = "reconnect" =>
                   AfterOk(t) = Point("second", "write") /\ AfterError(t) = Idle
              /\ at[t].stage = "first" =>
                   /\ AfterOk(t) = Point("subscribed", "append")
                   /\ AfterError(t) = Point("reconnect", "close")
              /\ at[t].stage = "second" =>
                   /\ AfterOk(t) = Point("subscribed", "append")
                   /\ AfterError(t) = Idle
              /\ at[t].stage \in {"connect", "reconnect", "first", "second"}
         /\ t \in Conns =>
              /\ AfterOk(t) = Idle
              /\ AfterError(t) = Point("redial", "sleep")
              /\ at[t].stage = "redial"
<1>1. CASE t = Caller
  <2>1. at[t].stage \in {"connect", "reconnect", "first", "second"}
    BY <1>1 DEF PlaceInv, CallerAt, Point, Idle, Dead
  <2> QED BY <1>1, <2>1, CallerIsNoReader DEF AfterOk, AfterError
<1>2. CASE t \in Conns
  <2>1. at[t].stage = "redial"
    BY <1>2 DEF PlaceInv, ReaderAt, Point, Idle, Dead
  <2> QED BY <1>2, <2>1, CallerIsNoReader DEF AfterOk, AfterError
<1> QED BY <1>1, <1>2, CallerIsNoReader

\* One goroutine moves.
LEMMA PlaceMoves ==
  ASSUME TypeOK, PlaceInv, NEW t \in Threads, NEW P,
         at' = [at EXCEPT ![t] = P],
         at[t] # Dead,
         t = Caller => P \in CallerAt \ {Dead},
         t \in Conns => P \in ReaderAt \ {Dead}
  PROVE  PlaceInv' /\ ~Stopped /\ ~Stopped'
<1>1. at \in [Threads -> {at[u] : u \in Threads}]
  BY DEF TypeOK
<1>2. at'[t] = P /\ \A u \in Threads : u # t => at'[u] = at[u]
  BY <1>1
<1>3. ~Stopped
  BY CallerIsNoReader DEF PlaceInv, Stopped
<1>4. \A k \in Conns : at[k] # Dead
  BY <1>3 DEF PlaceInv
<1>5. at'[Caller] \in CallerAt \ {Dead}
  BY <1>2, <1>3, CallerIsNoReader DEF PlaceInv, Stopped
<1>6. \A k \in Conns : at'[k] \in ReaderAt \ {Dead}
  BY <1>2, <1>4, CallerIsNoReader DEF PlaceInv
<1> QED BY <1>3, <1>5, <1>6 DEF PlaceInv, Stopped

\* Who is at a step that only one of the two goes through.
LEMMA PlaceOf ==
  ASSUME PlaceInv, NEW t \in Threads
  PROVE  /\ at[t].step \in {"close", "append"} => t = Caller
         /\ at[t].step \in {"read", "lock", "ack", "send", "failed", "drop",
                            "sleep"} => t \in Conns
         /\ at[t].step \in {"read", "lock", "ack", "send", "failed", "drop"}
              <=> at[t].stage = "read"
         /\ at[t].step \in {"sleep", "dial", "dialed", "copy"} =>
              at[t].stage \in Connecting
         /\ at[t].step = "append" => at[t].stage = "subscribed"
         /\ at[t].stage = "redial" => t \in Conns
         /\ at[t].step = "idle" => at[t] = Idle
         /\ at[t].step = "dead" => at[t] = Dead
         /\ at[t].step = "wait" =>
              at[t].stage \in Connecting \cup {"first", "second"}
<1>1. CASE t = Caller
  BY <1>1, CallerIsNoReader
    DEF PlaceInv, CallerAt, Point, Idle, Dead, Connecting
<1>2. CASE t \in Conns
  BY <1>2, CallerIsNoReader
    DEF PlaceInv, ReaderAt, Point, Idle, Dead, Connecting
<1> QED BY <1>1, <1>2, CallerIsNoReader

LEMMA PlaceKeeps ==
  ASSUME TypeOK, PlaceInv, ConnInv, Goroutines
  PROVE  PlaceInv'
<1> USE CallerIsNoReader
<1>1. ASSUME NEW S \in SUBSET Swaps, Subscribe(S) PROVE PlaceInv'
  <2>1. PICK P \in {Point("connect", "dial"), Point("first", "write")} :
          at' = [at EXCEPT ![Caller] = P]
    BY <1>1 DEF Subscribe, Goes
  <2>2. P \in CallerAt \ {Dead} /\ at[Caller] # Dead
    BY <1>1, <2>1 DEF Subscribe, CallerAt, Point, Dead, Idle
  <2> QED BY <2>1, <2>2, PlaceMoves
<1>2. ASSUME NEW t \in Threads, DialFails(t) \/ WriteFails(t) \/ TimeOut(t)
      PROVE  PlaceInv'
  <2>1. /\ at[t].step \in {"dial", "write", "wait"} /\ at[t] # Dead
        /\ at' = [at EXCEPT ![t] = AfterError(t)]
    BY <1>2 DEF DialFails, WriteFails, TimeOut, Goes, Dead, Point
  <2>2. /\ t = Caller => AfterError(t) \in CallerAt \ {Dead}
        /\ t \in Conns => AfterError(t) \in ReaderAt \ {Dead}
    BY <2>1, AfterPlaces DEF CallerAt, ReaderAt, Idle, Dead, Point
  <2> QED BY <2>1, <2>2, PlaceMoves
<1>3. ASSUME NEW t \in Threads, Dial(t) PROVE PlaceInv'
  <2>1. /\ at[t].step = "dial" /\ at[t] # Dead
        /\ at' = [at EXCEPT ![t] = Point(at[t].stage, "dialed")]
    BY <1>3 DEF Dial, Goes, Dead, Point
  <2>2. /\ t = Caller => Point(at[t].stage, "dialed") \in CallerAt \ {Dead}
        /\ t \in Conns => Point(at[t].stage, "dialed") \in ReaderAt \ {Dead}
    BY <2>1 DEF PlaceInv, CallerAt, ReaderAt, Idle, Dead, Point
  <2> QED BY <2>1, <2>2, PlaceMoves
<1>4. ASSUME NEW t \in Threads, Copy(t) PROVE PlaceInv'
  <2>1. /\ at[t].step = "copy" /\ at[t] # Dead
        /\ \/ at' = [at EXCEPT ![t] = AfterOk(t)]
           \/ at' = [at EXCEPT ![t] = Point(at[t].stage, "write")]
    <3>1. /\ at[t].step = "copy"
          /\ Goes(t, IF swapIds = {} THEN AfterOk(t)
                     ELSE Point(at[t].stage, "write"))
      BY <1>4 DEF Copy
    <3>2. at[t] # Dead
      BY <3>1 DEF Dead, Point
    <3>3. CASE swapIds = {}
      BY <3>1, <3>2, <3>3 DEF Goes
    <3>4. CASE swapIds # {}
      BY <3>1, <3>2, <3>4 DEF Goes
    <3> QED BY <3>3, <3>4
  <2>2. /\ t = Caller => {AfterOk(t), Point(at[t].stage, "write")} \subseteq
                            CallerAt \ {Dead}
        /\ t \in Conns => {AfterOk(t), Point(at[t].stage, "write")} \subseteq
                             ReaderAt \ {Dead}
    BY <2>1, AfterPlaces DEF PlaceInv, CallerAt, ReaderAt, Idle, Dead, Point
  <2> QED BY <2>1, <2>2, PlaceMoves
<1>5. ASSUME NEW t \in Threads, Write(t) PROVE PlaceInv'
  <2>1. /\ at[t].step = "write" /\ at[t] # Dead
        /\ at' = [at EXCEPT ![t] = Point(at[t].stage, "wait")]
    BY <1>5 DEF Write, Goes, Dead, Point
  <2>2. /\ t = Caller => Point(at[t].stage, "wait") \in CallerAt \ {Dead}
        /\ t \in Conns => Point(at[t].stage, "wait") \in ReaderAt \ {Dead}
    BY <2>1 DEF PlaceInv, CallerAt, ReaderAt, Idle, Dead, Point
  <2> QED BY <2>1, <2>2, PlaceMoves
<1>6. ASSUME NEW t \in Threads, SetConn(t) PROVE PlaceInv'
  <2> DEFINE P == Point(at[t].stage, "copy")
             n == used + 1
  <2>1. /\ at[t].step = "dialed" /\ at[t] # Dead
        /\ used < MaxConns /\ closed' = closed
        /\ at' = [at EXCEPT ![t] = P, ![n] = Point("read", "read")]
    BY <1>6 DEF SetConn, client, Dead, Point
  <2>2. n \in Conns /\ at[n] \in {Idle, Dead}
    BY <2>1, WebsocketAssumption DEF ConnInv, TypeOK, Conns
  <2>3. t # n
    BY <2>1, <2>2 DEF Idle, Dead, Point
  <2>4. ~Stopped
    BY <2>1 DEF PlaceInv, Stopped
  <2>5. /\ at'[t] = P /\ at'[n] = Point("read", "read")
        /\ \A u \in Threads : u \notin {t, n} => at'[u] = at[u]
    <3>1. at \in [Threads -> {at[u] : u \in Threads}]
      BY DEF TypeOK
    <3> HIDE DEF n, P
    <3> QED BY <2>1, <2>2, <2>3, <3>1
  <2>6. /\ t = Caller => P \in CallerAt \ {Dead}
        /\ t \in Conns => P \in ReaderAt \ {Dead}
    BY <2>1 DEF PlaceInv, CallerAt, ReaderAt, Idle, Dead, Point
  <2> HIDE DEF n, P
  <2>7. Point("read", "read") \in ReaderAt \ {Dead}
    BY DEF ReaderAt, Dead, Point
  <2>8. at'[Caller] \in CallerAt \ {Dead}
    BY <2>2, <2>4, <2>5, <2>6 DEF PlaceInv, Stopped
  <2>9. \A k \in Conns : at'[k] \in ReaderAt \ {Dead}
    BY <2>4, <2>5, <2>6, <2>7 DEF PlaceInv
  <2> QED BY <2>8, <2>9 DEF PlaceInv, Stopped
<1>7. ASSUME NEW t \in Threads, NEW k \in Conns, TakeAck(t, k)
      PROVE  PlaceInv'
  <2>1. /\ at[t].step = "wait" /\ at[t] # Dead /\ t # k
        /\ at[k] = Point("read", "ack")
        /\ at' = [at EXCEPT ![t] = AfterOk(t), ![k] = Point("read", "read")]
        /\ closed' = closed
    BY <1>7 DEF TakeAck, client, Dead, Point
  <2>2. ~Stopped
    BY <2>1 DEF PlaceInv, Stopped
  <2>3. /\ at'[t] = AfterOk(t) /\ at'[k] = Point("read", "read")
        /\ \A u \in Threads : u \notin {t, k} => at'[u] = at[u]
    <3>1. at \in [Threads -> {at[u] : u \in Threads}]
      BY DEF TypeOK
    <3> QED BY <2>1, <3>1
  <2>4. /\ t = Caller => AfterOk(t) \in CallerAt \ {Dead}
        /\ t \in Conns => AfterOk(t) \in ReaderAt \ {Dead}
    BY <2>1, AfterPlaces DEF CallerAt, ReaderAt, Idle, Dead, Point
  <2>5. Point("read", "read") \in ReaderAt \ {Dead}
    BY DEF ReaderAt, Dead, Point
  <2>6. at'[Caller] \in CallerAt \ {Dead}
    BY <2>2, <2>3, <2>4 DEF PlaceInv, Stopped
  <2>7. \A j \in Conns : at'[j] \in ReaderAt \ {Dead}
    BY <2>2, <2>3, <2>4, <2>5 DEF PlaceInv
  <2> QED BY <2>6, <2>7 DEF PlaceInv, Stopped
<1>8. ASSUME AppendIds \/ Reconnect PROVE PlaceInv'
  <2>1. /\ at[Caller].step \in {"append", "close"} /\ at[Caller] # Dead
        /\ \/ at' = [at EXCEPT ![Caller] = Idle]
           \/ at' = [at EXCEPT ![Caller] = Point("reconnect", "dial")]
    BY <1>8 DEF AppendIds, Reconnect, Goes, Dead, Point
  <2>2. {Idle, Point("reconnect", "dial")} \subseteq CallerAt \ {Dead}
    BY DEF CallerAt, Idle, Dead, Point
  <2> QED BY <2>1, <2>2, PlaceMoves
<1>9. ASSUME NEW k \in Conns,
             \/ Read(k) \/ ReadFails(k) \/ ReaderEnds(k) \/ ReaderGoesOn(k)
             \/ SetNil(k) \/ Wake(k) \/ Lock(k) \/ Send(k)
      PROVE  PlaceInv'
  <2>1. at[k] # Dead
    BY <1>9 DEF Read, ReadFails, ReaderEnds, ReaderGoesOn, SetNil, Wake, Lock,
                Send, At, Dead, Point
  <2>2. PICK P \in {Idle, Point("read", "lock"), Point("read", "failed"),
                    Point("read", "drop"), Point("redial", "sleep"),
                    Point("redial", "dial"), Point("read", "ack"),
                    Point("read", "send"), Point("read", "read")} :
          at' = [at EXCEPT ![k] = P]
    BY <1>9 DEF Read, ReadFails, ReaderEnds, ReaderGoesOn, SetNil, Wake, Lock,
                Send, Goes
  <2>3. P \in ReaderAt \ {Dead}
    BY <2>2 DEF ReaderAt, Idle, Dead, Point
  <2> QED BY <2>1, <2>2, <2>3, PlaceMoves
<1>10. ASSUME NEW k \in Conns, SendPanics(k) PROVE PlaceInv'
  <2>1. closed /\ closed' = closed /\ at' = [t \in Threads |-> Dead]
    BY <1>10 DEF SendPanics, client
  <2>2. Dead \in CallerAt /\ Dead \in ReaderAt
    BY DEF CallerAt, ReaderAt
  <2> QED BY <2>1, <2>2 DEF PlaceInv, Stopped
<1>11. ASSUME UNCHANGED at, closed => closed' PROVE PlaceInv'
  BY <1>11 DEF PlaceInv, Stopped
<1>12. ASSUME NEW k \in Conns, Lose(k) PROVE PlaceInv'
  BY <1>11, <1>12, Zenon DEF Lose
<1>13. ASSUME Consume \/ Close PROVE PlaceInv'
  BY <1>11, <1>13, Zenon DEF Consume, Close
<1>14. ASSUME NEW s \in Swaps, Report(s) PROVE PlaceInv'
  BY <1>11, <1>14, Zenon DEF Report, client
<1> QED BY <1>1, <1>2, <1>3, <1>4, <1>5, <1>6, <1>7, <1>8, <1>9, <1>10, <1>12,
           <1>13, <1>14 DEF Goroutines, CallerStep, ReaderStep
-----------------------------------------------------------------------------
(***************************************************************************)
(* Sequences of messages, and the types.                                   *)
(***************************************************************************)
LEMMA CutMessages ==
  ASSUME NEW S, NEW q \in Seq(S), NEW n \in 0 .. Len(q)
  PROVE  /\ SubSeq(q, 1, n) \in Seq(S)
         /\ Len(SubSeq(q, 1, n)) = n
         /\ \A i \in 1 .. n : SubSeq(q, 1, n)[i] = q[i]
         /\ n > 0 => Head(SubSeq(q, 1, n)) = Head(q)
<1>1. Len(q) \in Nat /\ \A i \in 1 .. Len(q) : q[i] \in S
  BY LenProperties, ElementOfSeq
<1>2. n \in Nat /\ 1 \in Int /\ n - 1 + 1 = n /\ \A i \in 1 .. n : q[i] \in S
  BY <1>1
<1>3. /\ SubSeq(q, 1, n) \in Seq(S)
      /\ Len(SubSeq(q, 1, n)) = IF 1 <= n THEN n - 1 + 1 ELSE 0
      /\ \A i \in 1 .. n - 1 + 1 : SubSeq(q, 1, n)[i] = q[1 + i - 1]
  BY <1>2, SubSeqProperties
<1>4. Len(SubSeq(q, 1, n)) = n /\ \A i \in 1 .. n : SubSeq(q, 1, n)[i] = q[i]
  BY <1>2, <1>3
<1> QED BY <1>2, <1>3, <1>4

LEMMA MoreMessages ==
  ASSUME NEW S, NEW q \in Seq(S), NEW m \in S, NEW r \in Seq(S)
  PROVE  /\ Append(q, m) \o r \in Seq(S)
         /\ Len(Append(q, m) \o r) = Len(q) + 1 + Len(r)
         /\ \A i \in 1 .. Len(q) + 1 + Len(r) :
              (Append(q, m) \o r)[i] =
                IF i <= Len(q) THEN q[i]
                ELSE IF i = Len(q) + 1 THEN m ELSE r[i - Len(q) - 1]
         /\ Len(q) > 0 => Head(Append(q, m) \o r) = Head(q)
<1> DEFINE p == Append(q, m)
<1>1. /\ p \in Seq(S) /\ Len(p) = Len(q) + 1 /\ p[Len(q) + 1] = m
      /\ \A i \in 1 .. Len(q) : p[i] = q[i]
  BY AppendProperties
<1> HIDE DEF p
<1>2. Len(q) \in Nat /\ Len(r) \in Nat
  BY LenProperties
<1>3. /\ p \o r \in Seq(S)
      /\ Len(p \o r) = Len(p) + Len(r)
      /\ \A i \in 1 .. Len(p) + Len(r) :
           (p \o r)[i] = IF i <= Len(p) THEN p[i] ELSE r[i - Len(p)]
  BY <1>1, ConcatProperties
<1>4. \A i \in 1 .. Len(q) + 1 + Len(r) :
        (p \o r)[i] =
          IF i <= Len(q) THEN q[i]
          ELSE IF i = Len(q) + 1 THEN m ELSE r[i - Len(q) - 1]
  BY <1>1, <1>2, <1>3
<1>5. Len(p \o r) = Len(q) + 1 + Len(r)
  BY <1>1, <1>2, <1>3
<1>6. Len(q) > 0 => Head(p \o r) = Head(q)
  BY <1>2, <1>3, <1>4, <1>5
<1> QED BY <1>3, <1>4, <1>5, <1>6 DEF p

LEMMA AppendMessage ==
  ASSUME NEW S, NEW q \in Seq(S), NEW m \in S
  PROVE  /\ Append(q, m) \in Seq(S)
         /\ Len(Append(q, m)) = Len(q) + 1
         /\ \A i \in 1 .. Len(q) : Append(q, m)[i] = q[i]
         /\ Append(q, m)[Len(q) + 1] = m
         /\ Len(q) > 0 => Head(Append(q, m)) = Head(q)
<1>1. Len(q) \in Nat
  BY LenProperties
<1> QED BY <1>1, AppendProperties

LEMMA TailMessages ==
  ASSUME NEW S, NEW q \in Seq(S), Len(q) > 0
  PROVE  /\ q # <<>>
         /\ Tail(q) \in Seq(S) /\ Len(Tail(q)) = Len(q) - 1
         /\ Head(q) \in S /\ Head(q) = q[1]
<1>1. q # <<>>
  BY EmptySeq
<1> QED BY <1>1, HeadTailProperties

LEMMA ReplyMessages ==
  ASSUME TypeOK, NEW S \in SUBSET Swaps, NEW reply \in SetToSeqs(S)
  PROVE  /\ [i \in DOMAIN reply |-> Update(reply[i])] \in Seq(Told \cap Updates)
         /\ \A i \in DOMAIN reply : Update(reply[i]) # Ack
<1>1. IsFiniteSet(S)
  BY WebsocketAssumption, FS_Subset
<1>2. Cardinality(S) \in Nat
  BY <1>1, FS_CardinalityType
<1>3. DOMAIN reply = 1 .. Cardinality(S) /\ \A i \in DOMAIN reply : reply[i] \in S
  BY DEF SetToSeqs
<1>4. \A s \in Swaps : Update(s) \in Told \cap Updates
  BY WebsocketAssumption DEF TypeOK, Update, Told, Updates, Messages, Ack
<1>5. \A i \in 1 .. Cardinality(S) : Update(reply[i]) \in Told \cap Updates
  BY <1>3, <1>4
<1>6. [i \in 1 .. Cardinality(S) |-> Update(reply[i])] \in Seq(Told \cap Updates)
  <2> HIDE DEF Update
  <2> QED BY <1>2, <1>5, SeqDef
<1> QED BY <1>3, <1>5, <1>6 DEF Updates

\* What is known of the messages of reader k.
LEMMA InboxFacts ==
  ASSUME TypeOK, MessageInv, NEW k \in Conns
  PROVE  /\ inbox[k] \in Seq(Told) /\ Len(inbox[k]) \in Nat
         /\ DOMAIN inbox[k] = 1 .. Len(inbox[k])
         /\ InHand(k) \in {0, 1} /\ InHand(k) <= Len(inbox[k])
         /\ InHand(k) = 1 <=> at[k].step \in {"lock", "ack", "send"}
<1>1. inbox[k] \in Seq(Told)
  BY DEF MessageInv
<1> QED BY <1>1, LenProperties DEF TypeOK, InHand

LEMMA ToldFacts ==
  /\ Told \subseteq Messages /\ Told' \subseteq Messages
  /\ Ack \in Told /\ Updates \subseteq Messages /\ Ack \notin Updates
  BY DEF Told, Messages, Updates
-----------------------------------------------------------------------------
(***************************************************************************)
(* What the actions do to the messages under way.                          *)
(***************************************************************************)
\* Messages of connection k that its reader does not have in hand are lost.
Cut(k) ==
  /\ inbox'[k] \in Seq(Told)
  /\ Len(inbox'[k]) \in InHand(k) .. Len(inbox[k])
  /\ \A i \in DOMAIN inbox'[k] :
       i \in DOMAIN inbox[k] /\ inbox'[k][i] = inbox[k][i]
  /\ InHand(k) = 1 => Head(inbox'[k]) = Head(inbox[k])

LEMMA Cuts ==
  ASSUME TypeOK, MessageInv, NEW k \in Conns,
         NEW n \in InHand(k) .. Len(inbox[k]),
         inbox' = [inbox EXCEPT ![k] = SubSeq(@, 1, n)]
  PROVE  /\ inbox' \in [Conns -> Seq(Told)]
         /\ Len(inbox'[k]) = n
         /\ \A j \in Conns : Cut(j) /\ (j # k => inbox'[j] = inbox[j])
<1>1. /\ inbox \in [Conns -> Seq(Told)]
      /\ \A j \in Conns :
           /\ inbox[j] \in Seq(Told) /\ Len(inbox[j]) \in Nat
           /\ DOMAIN inbox[j] = 1 .. Len(inbox[j])
           /\ InHand(j) \in {0, 1} /\ InHand(j) <= Len(inbox[j])
  BY InboxFacts DEF MessageInv
<1>2. n \in 0 .. Len(inbox[k])
  BY <1>1
<1> DEFINE r == SubSeq(inbox[k], 1, n)
<1>3. /\ r \in Seq(Told) /\ Len(r) = n
      /\ \A i \in 1 .. n : r[i] = inbox[k][i]
      /\ n > 0 => Head(r) = Head(inbox[k])
  BY <1>1, <1>2, CutMessages
<1>4. inbox' = [inbox EXCEPT ![k] = r]
  OBVIOUS
<1> HIDE DEF r
<1>5. DOMAIN r = 1 .. n
  BY <1>3, LenProperties
<1>6. inbox'[k] = r /\ \A j \in Conns : j # k => inbox'[j] = inbox[j]
  BY <1>1, <1>4
<1>7. inbox' \in [Conns -> Seq(Told)]
  BY <1>1, <1>3, <1>4
<1>8. Cut(k)
  BY <1>1, <1>2, <1>3, <1>5, <1>6 DEF Cut
<1>9. \A j \in Conns : j # k => Cut(j)
  BY <1>1, <1>6 DEF Cut
<1> QED BY <1>3, <1>6, <1>7, <1>8, <1>9

LEMMA Closes ==
  ASSUME TypeOK, ConnInv, MessageInv, NEW how \in {"closed", "left"},
         CloseConn(how)
  PROVE  /\ conn' = 0
         /\ inbox' \in [Conns -> Seq(Told)]
         /\ link' \in [Conns -> {"none", "up", "lost", "closed", "left"}]
         /\ \A j \in Conns :
              /\ Cut(j)
              /\ j # conn => inbox'[j] = inbox[j] /\ link'[j] = link[j]
         /\ conn # 0 =>
              /\ conn \in Conns /\ conn = used
              /\ link'[conn] = how /\ Len(inbox'[conn]) = InHand(conn)
         /\ conn = 0 => link' = link /\ inbox' = inbox
<1>1. /\ inbox \in [Conns -> Seq(Told)]
      /\ \A j \in Conns :
           /\ inbox[j] \in Seq(Told) /\ Len(inbox[j]) \in Nat
           /\ DOMAIN inbox[j] = 1 .. Len(inbox[j])
           /\ InHand(j) \in {0, 1} /\ InHand(j) <= Len(inbox[j])
  BY InboxFacts DEF MessageInv
<1>2. link \in [Conns -> {"none", "up", "lost", "closed", "left"}]
  BY DEF TypeOK
<1>3. CASE conn = 0
  <2>1. conn' = 0 /\ link' = link /\ inbox' = inbox
    BY <1>3 DEF CloseConn
  <2>2. \A j \in Conns : Cut(j)
    BY <1>1, <2>1 DEF Cut
  <2> QED BY <1>1, <1>2, <1>3, <2>1, <2>2
<1>4. CASE conn # 0
  <2>1. /\ conn' = 0 /\ link' = [link EXCEPT ![conn] = how]
        /\ inbox' = [inbox EXCEPT ![conn] = SubSeq(@, 1, InHand(conn))]
    BY <1>4 DEF CloseConn
  <2>2. conn \in Conns /\ conn = used
    BY <1>4 DEF ConnInv, TypeOK, Conns
  <2>3. InHand(conn) \in InHand(conn) .. Len(inbox[conn])
    BY <1>1, <2>2
  <2>4. /\ inbox' \in [Conns -> Seq(Told)]
        /\ Len(inbox'[conn]) = InHand(conn)
        /\ \A j \in Conns : Cut(j) /\ (j # conn => inbox'[j] = inbox[j])
    BY <2>1, <2>2, <2>3, Cuts
  <2>5. /\ link' \in [Conns -> {"none", "up", "lost", "closed", "left"}]
        /\ link'[conn] = how
        /\ \A j \in Conns : j # conn => link'[j] = link[j]
    BY <1>2, <2>1, <2>2
  <2> QED BY <1>4, <2>1, <2>2, <2>4, <2>5
<1> QED BY <1>3, <1>4

\* The reader k takes the message in its hand away.
LEMMA Takes ==
  ASSUME TypeOK, MessageInv, NEW k \in Conns, InHand(k) = 1,
         inbox' = [inbox EXCEPT ![k] = Tail(@)]
  PROVE  /\ inbox' \in [Conns -> Seq(Told)]
         /\ inbox[k] # <<>> /\ inbox'[k] = Tail(inbox[k])
         /\ Len(inbox'[k]) = Len(inbox[k]) - 1
         /\ Head(inbox[k]) \in Told
         /\ \A j \in Conns : j # k => inbox'[j] = inbox[j]
<1>1. inbox \in [Conns -> Seq(Told)] /\ Len(inbox[k]) > 0
  BY InboxFacts DEF MessageInv
<1> DEFINE r == Tail(inbox[k])
<1>2. /\ inbox[k] # <<>> /\ r \in Seq(Told) /\ Len(r) = Len(inbox[k]) - 1
      /\ Head(inbox[k]) \in Told
  BY <1>1, TailMessages
<1>3. inbox' = [inbox EXCEPT ![k] = r]
  OBVIOUS
<1> HIDE DEF r
<1>4. /\ inbox' \in [Conns -> Seq(Told)]
      /\ inbox'[k] = r /\ \A j \in Conns : j # k => inbox'[j] = inbox[j]
  BY <1>1, <1>2, <1>3
<1> QED BY <1>2, <1>4 DEF r

\* lightzd sends an answer, and the present status of each swap in it.
LEMMA Answered ==
  ASSUME TypeOK, MessageInv, NEW k \in Conns,
         NEW S \in SUBSET Swaps, NEW reply \in SetToSeqs(S),
         inbox' = [inbox EXCEPT ![k] = Append(@, Ack) \o
                     [i \in DOMAIN reply |-> Update(reply[i])]]
  PROVE  /\ inbox' \in [Conns -> Seq(Told)]
         /\ Len(inbox'[k]) >= Len(inbox[k])
         /\ Len(inbox[k]) > 0 => Head(inbox'[k]) = Head(inbox[k])
         /\ \A i \in DOMAIN inbox'[k] : inbox'[k][i] = Ack =>
              \/ i = Len(inbox[k]) + 1
              \/ i \in DOMAIN inbox[k] /\ inbox[k][i] = Ack
         /\ \A j \in Conns : j # k => inbox'[j] = inbox[j]
<1> DEFINE q == inbox[k]
           r == [i \in DOMAIN reply |-> Update(reply[i])]
           p == Append(q, Ack) \o r
<1>1. /\ inbox \in [Conns -> Seq(Told)] /\ q \in Seq(Told) /\ Len(q) \in Nat
      /\ DOMAIN q = 1 .. Len(q)
  BY InboxFacts DEF MessageInv
<1>2. r \in Seq(Told \cap Updates)
  BY ReplyMessages
<1>3. inbox' = [inbox EXCEPT ![k] = p]
  OBVIOUS
<1> HIDE DEF q, r
<1>4. /\ r \in Seq(Told) /\ Len(r) \in Nat
      /\ \A i \in 1 .. Len(r) : r[i] # Ack
  BY <1>2, SeqMonotonic, LenProperties, ElementOfSeq, ToldFacts
<1>5. Ack \in Told
  BY ToldFacts
<1>6. /\ p \in Seq(Told)
      /\ Len(p) = Len(q) + 1 + Len(r)
      /\ \A i \in 1 .. Len(q) + 1 + Len(r) :
           p[i] = IF i <= Len(q) THEN q[i]
                  ELSE IF i = Len(q) + 1 THEN Ack ELSE r[i - Len(q) - 1]
      /\ Len(q) > 0 => Head(p) = Head(q)
  BY <1>1, <1>4, <1>5, MoreMessages
<1> HIDE DEF p
<1>7. DOMAIN p = 1 .. Len(q) + 1 + Len(r) /\ Len(p) >= Len(q)
  BY <1>1, <1>4, <1>6, LenProperties
<1>8. \A i \in DOMAIN p : p[i] = Ack =>
        \/ i = Len(q) + 1
        \/ i \in DOMAIN q /\ q[i] = Ack
  <2> SUFFICES ASSUME NEW i \in DOMAIN p, p[i] = Ack, i # Len(q) + 1
               PROVE  i \in DOMAIN q /\ q[i] = Ack
    OBVIOUS
  <2>1. CASE i > Len(q)
    <3>1. i - Len(q) - 1 \in 1 .. Len(r)
      BY <1>1, <1>4, <1>7, <2>1
    <3>2. ~(i <= Len(q)) /\ i \in 1 .. Len(q) + 1 + Len(r)
      BY <1>1, <1>7, <2>1
    <3>3. p[i] = r[i - Len(q) - 1]
      BY <1>6, <3>2
    <3> HIDE DEF Ack
    <3> QED BY <1>4, <3>1, <3>3
  <2>2. CASE i <= Len(q)
    BY <1>1, <1>4, <1>6, <1>7, <2>2
  <2> QED BY <1>1, <1>7, <2>1, <2>2
<1>9. /\ inbox' \in [Conns -> Seq(Told)]
      /\ inbox'[k] = p /\ \A j \in Conns : j # k => inbox'[j] = inbox[j]
  BY <1>1, <1>3, <1>6
<1> QED BY <1>6, <1>7, <1>8, <1>9 DEF q
-----------------------------------------------------------------------------
(***************************************************************************)
(* The variables that no other invariant is about.                         *)
(***************************************************************************)
LEMMA StatusGrows ==
  ASSUME TypeOK, Goroutines
  PROVE  /\ status' \in [Swaps -> 0 .. Final]
         /\ \A s \in Swaps : status[s] <= status'[s]
         /\ Told \subseteq Told' /\ Told' \subseteq Messages
<1>1. status \in [Swaps -> 0 .. Final] /\ Final \in Nat
  BY WebsocketAssumption DEF TypeOK
<1>2. /\ status' \in [Swaps -> 0 .. Final]
      /\ \A s \in Swaps : status[s] <= status'[s]
  <2>1. CASE UNCHANGED status
    BY <1>1, <2>1
  <2>2. ASSUME NEW s \in Swaps, Report(s)
        PROVE  /\ status' \in [Swaps -> 0 .. Final]
               /\ \A u \in Swaps : status[u] <= status'[u]
    BY <1>1, <2>2 DEF Report
  <2>3. UNCHANGED status \/ \E s \in Swaps : Report(s)
    BY DEF Goroutines, CallerStep, ReaderStep, Subscribe, DialFails, Dial,
           SetConn, Copy, Write, WriteFails, TakeAck, TimeOut, AppendIds,
           Reconnect, Read, ReadFails, ReaderEnds, ReaderGoesOn, SetNil, Wake,
           Lock, Send, SendPanics, Lose, Consume, Close, OnlyMoves, lightzd
  <2> QED BY <2>1, <2>2, <2>3
<1>3. \A m \in Messages : m # Ack => m.swap \in Swaps /\ m.status \in 0 .. Final
  BY DEF Messages
<1>4. Told \subseteq Told'
  <2> SUFFICES ASSUME NEW m \in Told PROVE m \in Told'
    OBVIOUS
  <2>1. m \in Messages /\ (m # Ack => m.status <= status[m.swap])
    BY DEF Told
  <2>2. m # Ack => m.status <= status'[m.swap]
    BY <1>1, <1>2, <1>3, <2>1
  <2> QED BY <2>1, <2>2 DEF Told
<1> QED BY <1>2, <1>4 DEF Told

\* Nothing else changes the messages, the readers' lock or what was consumed.
Still == UNCHANGED <<inbox, updates, lock, link, status, seen, losses, subs>>

LEMMA StillSteps ==
  /\ \A S : Subscribe(S) => Still
  /\ \A t : Dial(t) \/ DialFails(t) \/ Copy(t) \/ WriteFails(t) \/ TimeOut(t)
       => Still
  /\ AppendIds => Still
  /\ \A k : \/ Read(k) \/ ReadFails(k) \/ ReaderEnds(k) \/ ReaderGoesOn(k)
            \/ SetNil(k) \/ Wake(k)
       => Still
  BY DEF Still, Subscribe, DialFails, Dial, Copy, WriteFails, TimeOut,
         AppendIds, Read, ReadFails, ReaderEnds, ReaderGoesOn, SetNil, Wake,
         OnlyMoves, lightzd, reading

LEMMA InboxKeeps ==
  ASSUME TypeOK, ConnInv, MessageInv, Goroutines
  PROVE  inbox' \in [Conns -> Seq(Told')]
<1>1. ASSUME inbox' \in [Conns -> Seq(Told)]
      PROVE  inbox' \in [Conns -> Seq(Told')]
  BY <1>1, StatusGrows, SeqMonotonic
<1>2. inbox \in [Conns -> Seq(Told)]
  BY DEF MessageInv
<1>3. CASE UNCHANGED inbox
  BY <1>1, <1>2, <1>3
<1>4. ASSUME NEW t \in Threads, Write(t) PROVE inbox' \in [Conns -> Seq(Told)]
  <2> DEFINE S == IF at[t].stage \in Connecting THEN ids[t] ELSE want
  <2>1. /\ conn # 0
        /\ \/ UNCHANGED inbox
           \/ \E reply \in SetToSeqs(S) :
                inbox' = [inbox EXCEPT ![conn] = Append(@, Ack) \o
                            [i \in DOMAIN reply |-> Update(reply[i])]]
    BY <1>4 DEF Write
  <2>2. S \in SUBSET Swaps /\ conn \in Conns
    BY <2>1 DEF TypeOK, Conns
  <2> HIDE DEF S
  <2> QED BY <1>2, <2>1, <2>2, Answered
<1>5. ASSUME NEW k \in Conns, Send(k) \/ \E t \in Threads : TakeAck(t, k)
      PROVE  inbox' \in [Conns -> Seq(Told)]
  <2>1. InHand(k) = 1 /\ inbox' = [inbox EXCEPT ![k] = Tail(@)]
    BY <1>5 DEF Send, TakeAck, InHand, At, Point
  <2> QED BY <2>1, Takes
<1>6. ASSUME NEW how \in {"closed", "left"}, CloseConn(how)
      PROVE  inbox' \in [Conns -> Seq(Told)]
  BY <1>6, Closes
<1>7. ASSUME Reconnect \/ Consume \/ Close PROVE inbox' \in [Conns -> Seq(Told)]
  <2>1. \/ UNCHANGED inbox \/ CloseConn("closed") \/ CloseConn("left")
    BY <1>7 DEF Reconnect, Consume, Unsubscribe, Close
  <2> QED BY <1>2, <1>6, <2>1
<1>8. ASSUME NEW s \in Swaps, Report(s) PROVE inbox' \in [Conns -> Seq(Told')]
  <2> DEFINE m == [Update(s) EXCEPT !.status = @ + 1]
  <2>1. /\ status[s] < Final /\ status' = [status EXCEPT ![s] = @ + 1]
        /\ inbox' = [k \in Conns |->
                       IF link[k] = "up" /\ s \in subs[k]
                       THEN Append(inbox[k], m) ELSE inbox[k]]
    BY <1>8 DEF Report
  <2>2. m = [type |-> "update", swap |-> s, status |-> status[s] + 1]
    BY DEF Update
  <2>3. m \in Told'
    BY <2>1, <2>2, WebsocketAssumption DEF TypeOK, Told, Messages
  <2>4. \A k \in Conns : inbox[k] \in Seq(Told')
    BY <1>2, StatusGrows, SeqMonotonic
  <2> HIDE DEF m
  <2>5. \A k \in Conns : Append(inbox[k], m) \in Seq(Told')
    BY <2>3, <2>4, AppendProperties
  <2> QED BY <2>1, <2>4, <2>5
<1>9. ASSUME NEW k \in Conns, Lose(k) PROVE inbox' \in [Conns -> Seq(Told)]
  BY <1>9, Cuts DEF Lose
<1>10. ASSUME NEW t \in Threads, SetConn(t) PROVE UNCHANGED inbox
  BY <1>10 DEF SetConn, lightzd
<1>11. ASSUME NEW k \in Conns, Lock(k) \/ SendPanics(k) PROVE UNCHANGED inbox
  BY <1>11 DEF Lock, SendPanics, lightzd
<1>12. Still => UNCHANGED inbox
  BY DEF Still
<1>13. ASSUME NEW t \in Threads, CallerStep(t)
       PROVE  inbox' \in [Conns -> Seq(Told')]
  BY <1>1, <1>3, <1>4, <1>5, <1>10, <1>12, <1>13, StillSteps DEF CallerStep
<1>14. ASSUME NEW k \in Conns, ReaderStep(k)
       PROVE  inbox' \in [Conns -> Seq(Told')]
  BY <1>1, <1>3, <1>5, <1>11, <1>12, <1>14, StillSteps DEF ReaderStep
<1> QED BY <1>1, <1>3, <1>7, <1>8, <1>9, <1>12, <1>13, <1>14, StillSteps
      DEF Goroutines
LEMMA UpdatesKeep ==
  ASSUME TypeOK, MessageInv, Goroutines
  PROVE  updates' \in Seq(Told' \cap Updates) /\ Len(updates') <= Buffer
<1>1. /\ updates \in Seq(Told \cap Updates) /\ Len(updates) <= Buffer
      /\ Len(updates) \in Nat /\ Buffer \in Nat
  BY LenProperties, WebsocketAssumption DEF MessageInv, TypeOK
<1>2. ASSUME updates' \in Seq(Told \cap Updates)
      PROVE  updates' \in Seq(Told' \cap Updates)
  <2>1. Told \cap Updates \subseteq Told' \cap Updates
    BY StatusGrows
  <2> QED BY <1>2, <2>1, SeqMonotonic
<1>3. ASSUME NEW k \in Conns, Send(k)
      PROVE  updates' \in Seq(Told \cap Updates) /\ Len(updates') <= Buffer
  <2>1. /\ at[k].step = "send" /\ Len(updates) < Buffer
        /\ updates' = Append(updates, Head(inbox[k]))
    BY <1>3 DEF Send, At, Point
  <2>2. InHand(k) = 1
    BY <2>1 DEF InHand
  <2>3. Head(inbox[k]) \in Told
    BY <2>2, InboxFacts, TailMessages
  <2>4. Head(inbox[k]) \in Told \cap Updates
    BY <2>1, <2>3, ToldFacts DEF MessageInv, Updates
  <2> HIDE DEF Updates
  <2> QED BY <1>1, <2>1, <2>4, AppendMessage
<1>4. ASSUME Consume
      PROVE  updates' \in Seq(Told \cap Updates) /\ Len(updates') <= Buffer
  <2>1. updates # <<>> /\ updates' = Tail(updates)
    BY <1>4 DEF Consume
  <2> QED BY <1>1, <2>1, HeadTailProperties
<1>5. ASSUME UNCHANGED updates
      PROVE  updates' \in Seq(Told \cap Updates) /\ Len(updates') <= Buffer
  BY <1>1, <1>5
<1>6. \/ UNCHANGED updates \/ Consume \/ \E k \in Conns : Send(k)
  BY DEF Goroutines, CallerStep, ReaderStep, Subscribe, DialFails, Dial,
         SetConn, Copy, Write, WriteFails, TakeAck, TimeOut, AppendIds,
         Reconnect, Read, ReadFails, ReaderEnds, ReaderGoesOn, SetNil, Wake,
         Lock, SendPanics, Lose, Close, Report, OnlyMoves, reading
<1> QED BY <1>2, <1>3, <1>4, <1>5, <1>6

\* The nursery does not get ahead of lightzd.
LEMMA SeenKeeps ==
  ASSUME TypeOK, MessageInv, Goroutines
  PROVE  /\ seen' \in [Swaps -> 0 .. Final]
         /\ \A s \in Swaps : seen'[s] <= status'[s]
<1>1. /\ seen \in [Swaps -> 0 .. Final] /\ Final \in Nat
      /\ status \in [Swaps -> 0 .. Final]
      /\ \A s \in Swaps : seen[s] <= status[s]
  BY WebsocketAssumption DEF TypeOK
<1>2. CASE UNCHANGED seen
  BY <1>1, <1>2, StatusGrows
<1>3. CASE Consume
  <2> DEFINE u == Head(updates)
  <2>1. u \in Told \cap Updates
    BY <1>3, HeadTailProperties DEF Consume, MessageInv
  <2>2. u.swap \in Swaps /\ u.status \in 0 .. Final /\ u.status <= status[u.swap]
    BY <2>1 DEF Told, Updates, Messages
  <2>3. seen' = [seen EXCEPT ![u.swap] = IF @ < u.status THEN u.status ELSE @]
    BY <1>3 DEF Consume
  <2>4. UNCHANGED status
    BY <1>3 DEF Consume
  <2> HIDE DEF u
  <2> QED BY <1>1, <2>2, <2>3, <2>4
<1>4. UNCHANGED seen \/ Consume
  BY DEF Goroutines, CallerStep, ReaderStep, Subscribe, DialFails, Dial,
         SetConn, Copy, Write, WriteFails, TakeAck, TimeOut, AppendIds,
         Reconnect, Read, ReadFails, ReaderEnds, ReaderGoesOn, SetNil, Wake,
         Lock, Send, SendPanics, Lose, Close, Report, OnlyMoves, lightzd
<1> QED BY <1>2, <1>3, <1>4

LEMMA PlainKeeps ==
  ASSUME TypeOK, PlaceInv, ConnInv, MessageInv, Goroutines
  PROVE  /\ conn' \in 0 .. MaxConns /\ used' \in Conns /\ conn' <= used'
         /\ subs' \in [Conns -> SUBSET Swaps]
         /\ ids' \in [Threads -> SUBSET Swaps]
         /\ want' \subseteq asked' /\ asked' \subseteq Swaps
         /\ swapIds' \subseteq asked'
         /\ losses' \in 0 .. MaxLosses
<1> USE WebsocketAssumption DEF Conns
<1>1. ASSUME NEW S \in SUBSET Swaps, Subscribe(S)
      PROVE  /\ want' \subseteq asked' /\ asked' \subseteq Swaps
             /\ swapIds' \subseteq asked'
             /\ UNCHANGED <<conn, used, subs, ids, losses>>
  BY <1>1 DEF TypeOK, Subscribe
<1>2. ASSUME NEW t \in Threads, SetConn(t)
      PROVE  /\ conn' \in 0 .. MaxConns /\ used' \in 1 .. MaxConns
             /\ conn' <= used'
             /\ UNCHANGED <<subs, ids, want, asked, swapIds, losses>>
  BY <1>2 DEF TypeOK, SetConn, lightzd
<1>3. ASSUME NEW t \in Threads, Copy(t)
      PROVE  /\ ids' \in [Threads -> SUBSET Swaps]
             /\ UNCHANGED <<conn, used, subs, want, asked, swapIds, losses>>
  BY <1>3 DEF TypeOK, Copy, lightzd
<1>4. ASSUME NEW t \in Threads, Write(t) \/ WriteFails(t)
      PROVE  /\ ids' \in [Threads -> SUBSET Swaps]
             /\ subs' \in [Conns -> SUBSET Swaps]
             /\ UNCHANGED <<conn, used, want, asked, swapIds, losses>>
  <2>1. ids' \in [Threads -> SUBSET Swaps]
    BY <1>4 DEF TypeOK, Write, WriteFails
  <2>2. UNCHANGED <<conn, used, want, asked, swapIds, losses>>
    BY <1>4 DEF Write, WriteFails, lightzd
  <2>3. CASE UNCHANGED subs
    BY <2>1, <2>2, <2>3 DEF TypeOK
  <2>4. ASSUME NEW S \in SUBSET Swaps,
               subs' = [subs EXCEPT ![conn] = @ \cup S], conn # 0
        PROVE  subs' \in [Conns -> SUBSET Swaps]
    BY <2>4 DEF TypeOK
  <2>5. \/ UNCHANGED subs
        \/ /\ conn # 0
           /\ \E S \in SUBSET Swaps : subs' = [subs EXCEPT ![conn] = @ \cup S]
    BY <1>4 DEF TypeOK, Write, WriteFails, lightzd
  <2> QED BY <2>1, <2>2, <2>3, <2>4, <2>5
<1>5. ASSUME AppendIds
      PROVE  /\ swapIds' \subseteq asked'
             /\ UNCHANGED <<conn, used, subs, ids, want, asked, losses>>
  BY <1>5 DEF TypeOK, AppendIds, lightzd
<1>6. ASSUME Reconnect \/ Close
      PROVE  conn' = 0 /\ UNCHANGED <<used, subs, ids, want, asked, swapIds,
                                      losses>>
  BY <1>6, Closes DEF Reconnect, Close
<1>7. ASSUME NEW k \in Conns, SetNil(k)
      PROVE  conn' = 0 /\ UNCHANGED <<used, subs, ids, want, asked, swapIds,
                                      losses>>
  BY <1>7 DEF SetNil, lightzd
<1>8. ASSUME NEW k \in Conns, Lose(k)
      PROVE  /\ losses' \in 0 .. MaxLosses
             /\ UNCHANGED <<conn, used, subs, ids, want, asked, swapIds>>
  BY <1>8 DEF TypeOK, Lose
<1>9. ASSUME Consume
      PROVE  /\ conn' \in {conn, 0} /\ swapIds' \subseteq asked
             /\ UNCHANGED <<used, subs, ids, want, asked, losses>>
  <2>1. UNCHANGED <<used, subs, ids, want, asked, losses>>
    BY <1>9 DEF Consume
  <2>2. \/ UNCHANGED <<swapIds, conn>>
        \/ Unsubscribe(Head(updates).swap)
    BY <1>9 DEF Consume
  <2>3. CASE Unsubscribe(Head(updates).swap)
    <3>1. swapIds' \subseteq swapIds
      BY <2>3 DEF Unsubscribe
    <3>2. conn' \in {conn, 0}
      BY <2>3, Closes DEF Unsubscribe
    <3> QED BY <2>1, <3>1, <3>2 DEF TypeOK
  <2> QED BY <2>1, <2>2, <2>3 DEF TypeOK
<1> DEFINE Same == UNCHANGED <<conn, used, subs, ids, want, asked, swapIds,
                               losses>>
<1>10. ASSUME NEW t \in Threads,
              Dial(t) \/ DialFails(t) \/ TimeOut(t)
                \/ \E k \in Conns : TakeAck(t, k)
       PROVE  Same
  BY <1>10 DEF Dial, DialFails, TimeOut, TakeAck, OnlyMoves, lightzd
<1>11. ASSUME NEW k \in Conns,
              \/ Read(k) \/ ReadFails(k) \/ ReaderEnds(k) \/ ReaderGoesOn(k)
              \/ Wake(k) \/ Lock(k) \/ Send(k) \/ SendPanics(k)
       PROVE  Same
  BY <1>11 DEF Read, ReadFails, ReaderEnds, ReaderGoesOn, Wake, Lock, Send,
               SendPanics, OnlyMoves, lightzd
<1>12. ASSUME NEW s \in Swaps, Report(s) PROVE Same
  BY <1>12 DEF Report, client
<1>13. CASE Same
  BY <1>13 DEF TypeOK
<1>14. /\ conn \in 0 .. MaxConns /\ used \in Conns /\ conn <= used
       /\ subs \in [Conns -> SUBSET Swaps]
       /\ ids \in [Threads -> SUBSET Swaps]
       /\ want \subseteq asked /\ asked \subseteq Swaps /\ swapIds \subseteq asked
       /\ losses \in 0 .. MaxLosses
  BY DEF TypeOK
<1> HIDE DEF Same
<1>15. ASSUME NEW t \in Threads, CallerStep(t)
       PROVE  \/ Same \/ SetConn(t) \/ Copy(t) \/ Write(t) \/ WriteFails(t)
  BY <1>10, <1>15 DEF CallerStep
<1>16. ASSUME NEW k \in Conns, ReaderStep(k) PROVE Same \/ SetNil(k)
  BY <1>11, <1>16 DEF ReaderStep
<1>17. \/ Same
       \/ \E S \in SUBSET Swaps : Subscribe(S)
       \/ \E t \in Threads : SetConn(t) \/ Copy(t) \/ Write(t) \/ WriteFails(t)
       \/ AppendIds \/ Reconnect \/ Close \/ Consume
       \/ \E k \in Conns : SetNil(k) \/ Lose(k)
  BY <1>12, <1>15, <1>16 DEF Goroutines
<1> QED BY <1>1, <1>2, <1>3, <1>4, <1>5, <1>6, <1>7, <1>8, <1>9, <1>13, <1>14,
           <1>17

LEMMA LinkKeeps ==
  ASSUME TypeOK, ConnInv, MessageInv, Goroutines
  PROVE  /\ link' \in [Conns -> {"none", "up", "lost", "closed", "left"}]
         /\ \A k \in Conns : k > used' <=> link'[k] = "none"
<1>1. /\ link \in [Conns -> {"none", "up", "lost", "closed", "left"}]
      /\ \A k \in Conns : k > used <=> link[k] = "none"
      /\ used \in Conns /\ Conns = 1 .. MaxConns /\ MaxConns \in Nat
  BY WebsocketAssumption DEF TypeOK, Conns
<1>2. CASE UNCHANGED <<link, used>>
  BY <1>1, <1>2
<1>3. ASSUME NEW t \in Threads, SetConn(t)
      PROVE  /\ link' \in [Conns -> {"none", "up", "lost", "closed", "left"}]
             /\ \A k \in Conns : k > used' <=> link'[k] = "none"
  <2>1. /\ used < MaxConns /\ used' = used + 1
        /\ link' = [link EXCEPT ![used + 1] = "up"]
    BY <1>3 DEF SetConn
  <2> QED BY <1>1, <2>1
<1>4. ASSUME NEW k \in Conns, Lose(k)
      PROVE  /\ link' \in [Conns -> {"none", "up", "lost", "closed", "left"}]
             /\ \A j \in Conns : j > used' <=> link'[j] = "none"
  <2>1. used' = used /\ link[k] = "up" /\ link' = [link EXCEPT ![k] = "lost"]
    BY <1>4 DEF Lose
  <2> QED BY <1>1, <2>1
<1>5. ASSUME NEW how \in {"closed", "left"}, CloseConn(how), used' = used
      PROVE  /\ link' \in [Conns -> {"none", "up", "lost", "closed", "left"}]
             /\ \A k \in Conns : k > used' <=> link'[k] = "none"
  <2>1. CASE conn = 0
    BY <1>2, <1>5, <2>1, Closes
  <2>2. CASE conn # 0
    <3>1. /\ link' \in [Conns -> {"none", "up", "lost", "closed", "left"}]
          /\ conn \in Conns /\ conn = used /\ link'[conn] = how
          /\ \A j \in Conns : j # conn => link'[j] = link[j]
      BY <1>5, <2>2, Closes
    <3> QED BY <1>1, <1>5, <3>1
  <2> QED BY <2>1, <2>2
<1>6. ASSUME Reconnect \/ Consume \/ Close
      PROVE  /\ used' = used
             /\ UNCHANGED link \/ CloseConn("closed") \/ CloseConn("left")
  BY <1>6 DEF Reconnect, Consume, Unsubscribe, Close
<1>7. \/ UNCHANGED <<link, used>>
      \/ \E t \in Threads : SetConn(t)
      \/ \E k \in Conns : Lose(k)
      \/ Reconnect \/ Consume \/ Close
  BY DEF Goroutines, CallerStep, ReaderStep, Subscribe, DialFails, Dial,
         Copy, Write, WriteFails, TakeAck, TimeOut, AppendIds, Read, ReadFails,
         ReaderEnds, ReaderGoesOn, SetNil, Wake, Lock, Send, SendPanics,
         Report, OnlyMoves, client
<1> QED BY <1>2, <1>3, <1>4, <1>5, <1>6, <1>7

-----------------------------------------------------------------------------
(***************************************************************************)
(* How the goroutines move.                                                *)
(***************************************************************************)
\* Goroutine t is at P next, and nobody else has moved.
Only(t, P) == at'[t] = P /\ \A u \in Threads : u # t => at'[u] = at[u]

LEMMA OneMoves ==
  ASSUME TypeOK, NEW t \in Threads, NEW P, at' = [at EXCEPT ![t] = P]
  PROVE  Only(t, P)
<1>1. at \in [Threads -> {at[u] : u \in Threads}]
  BY DEF TypeOK
<1> QED BY <1>1 DEF Only

LEMMA AtShape ==
  ASSUME TypeOK, Goroutines
  PROVE  at' = [t \in Threads |-> at'[t]]
<1>1. at = [t \in Threads |-> at[t]]
  BY DEF TypeOK
<1>2. ASSUME NEW t, NEW P, at' = [at EXCEPT ![t] = P]
      PROVE  at' = [u \in Threads |-> at'[u]]
  BY <1>1, <1>2
<1>3. ASSUME NEW t, NEW k, NEW P, NEW Q,
             at' = [at EXCEPT ![t] = P, ![k] = Q]
      PROVE  at' = [u \in Threads |-> at'[u]]
  BY <1>1, <1>3
<1>4. \/ UNCHANGED at
      \/ at' = [t \in Threads |-> Dead]
      \/ \E t, P : at' = [at EXCEPT ![t] = P]
      \/ \E t, k, P, Q : at' = [at EXCEPT ![t] = P, ![k] = Q]
  <2>1. ASSUME NEW t, CallerStep(t)
        PROVE  \/ \E P : at' = [at EXCEPT ![t] = P]
               \/ \E k, P, Q : at' = [at EXCEPT ![t] = P, ![k] = Q]
    <3>1. ASSUME SetConn(t)
          PROVE  at' = [at EXCEPT ![t] = Point(at[t].stage, "copy"),
                                  ![used + 1] = Point("read", "read")]
      BY <3>1 DEF SetConn
    <3>2. ASSUME NEW k, TakeAck(t, k)
          PROVE  at' = [at EXCEPT ![t] = AfterOk(t),
                                  ![k] = Point("read", "read")]
      BY <3>2 DEF TakeAck
    <3>3. \/ Dial(t) \/ DialFails(t) \/ Copy(t) \/ Write(t) \/ WriteFails(t)
             \/ TimeOut(t)
          => \E P : at' = [at EXCEPT ![t] = P]
      BY DEF Dial, DialFails, Copy, Write, WriteFails, TimeOut, Goes
    <3> QED BY <2>1, <3>1, <3>2, <3>3 DEF CallerStep
  <2>2. ASSUME NEW k, ReaderStep(k)
        PROVE  \/ at' = [t \in Threads |-> Dead]
               \/ \E P : at' = [at EXCEPT ![k] = P]
    BY <2>2 DEF ReaderStep, Read, ReadFails, ReaderEnds, ReaderGoesOn, SetNil,
                Wake, Lock, Send, SendPanics, Goes
  <2>3. ASSUME NEW S, Subscribe(S)
        PROVE  \E P : at' = [at EXCEPT ![Caller] = P]
    BY <2>3 DEF Subscribe, Goes
  <2>4. AppendIds \/ Reconnect => \E P : at' = [at EXCEPT ![Caller] = P]
    BY DEF AppendIds, Reconnect, Goes
  <2>5. Consume \/ Close => UNCHANGED at
    BY DEF Consume, Close
  <2>6. \A k : Lose(k) => UNCHANGED at
    BY DEF Lose
  <2>7. \A s : Report(s) => UNCHANGED at
    BY DEF Report, client
  <2> QED BY <2>1, <2>2, <2>3, <2>4, <2>5, <2>6, <2>7 DEF Goroutines
<1> QED BY <1>1, <1>2, <1>3, <1>4

LEMMA Connects ==
  ASSUME TypeOK, PlaceInv, ConnInv, NEW t \in Threads, SetConn(t)
  PROVE  /\ used' \in Conns /\ used' = used + 1 /\ conn' = used'
         /\ t # used' /\ at[used'] = Idle
         /\ at'[t] = Point(at[t].stage, "copy")
         /\ at'[used'] = Point("read", "read")
         /\ \A u \in Threads : u \notin {t, used'} => at'[u] = at[u]
         /\ link'[used'] = "up" /\ subs[used'] = {} /\ inbox[used'] = <<>>
         /\ \A k \in Conns : k # used' => link'[k] = link[k]
         /\ ~Stopped
<1>1. /\ at[t].step = "dialed" /\ used < MaxConns
      /\ used' = used + 1 /\ conn' = used + 1
      /\ link' = [link EXCEPT ![used + 1] = "up"]
      /\ at' = [at EXCEPT ![t] = Point(@.stage, "copy"),
                          ![used + 1] = Point("read", "read")]
  BY DEF SetConn
<1>2. /\ used \in Conns /\ Conns = 1 .. MaxConns /\ MaxConns \in Nat
      /\ at \in [Threads -> {at[u] : u \in Threads}]
      /\ link \in [Conns -> {"none", "up", "lost", "closed", "left"}]
  BY WebsocketAssumption DEF TypeOK, Conns
<1>3. used' \in Conns /\ used' > used
  BY <1>1, <1>2
<1>4. /\ at[used'] \in {Idle, Dead} /\ subs[used'] = {} /\ inbox[used'] = <<>>
  BY <1>3 DEF ConnInv
<1>5. t # used'
  BY <1>1, <1>4 DEF Idle, Dead, Point
<1>6. ~Stopped
  BY <1>1, CallerIsNoReader DEF PlaceInv, Stopped, Dead, Point
<1>7. at[used'] = Idle
  BY <1>3, <1>4, <1>6 DEF PlaceInv
<1>8. used' \in Threads
  BY <1>3, CallerIsNoReader
<1>9. /\ at'[t] = Point(at[t].stage, "copy")
      /\ at'[used'] = Point("read", "read")
      /\ \A u \in Threads : u \notin {t, used'} => at'[u] = at[u]
  BY <1>1, <1>2, <1>5, <1>8
<1>10. /\ link'[used'] = "up"
       /\ \A k \in Conns : k # used' => link'[k] = link[k]
  BY <1>1, <1>2, <1>3
<1> QED BY <1>1, <1>3, <1>4, <1>5, <1>6, <1>7, <1>9, <1>10

LEMMA Handed ==
  ASSUME TypeOK, PlaceInv, MessageInv, NEW t \in Threads, NEW k \in Conns,
         TakeAck(t, k)
  PROVE  /\ t # k /\ ~Stopped
         /\ at[k] = Point("read", "ack") /\ InHand(k) = 1
         /\ Head(inbox[k]) = Ack /\ lock' = 0
         /\ at'[t] = AfterOk(t) /\ at'[k] = Point("read", "read")
         /\ \A u \in Threads : u \notin {t, k} => at'[u] = at[u]
<1>1. /\ at[t].step = "wait" /\ at[k] = Point("read", "ack") /\ lock' = 0
      /\ at' = [at EXCEPT ![t] = AfterOk(t), ![k] = Point("read", "read")]
  BY DEF TakeAck
<1>2. at \in [Threads -> {at[u] : u \in Threads}]
  BY DEF TypeOK
<1>3. t # k /\ k \in Threads
  BY <1>1, CallerIsNoReader DEF Point
<1>4. /\ at'[t] = AfterOk(t) /\ at'[k] = Point("read", "read")
      /\ \A u \in Threads : u \notin {t, k} => at'[u] = at[u]
  BY <1>1, <1>2, <1>3
<1>5. ~Stopped
  BY <1>1 DEF PlaceInv, Stopped, Dead, Point
<1>6. InHand(k) = 1 /\ Head(inbox[k]) = Ack
  BY <1>1 DEF InHand, Point, MessageInv
<1> QED BY <1>1, <1>3, <1>4, <1>5, <1>6

\* What a reader does, in short.
LEMMA ReaderMoves ==
  ASSUME TypeOK, PlaceInv, ConnInv, MessageInv, Goroutines, NEW k \in Conns
  PROVE  \/ at'[k] = at[k]
         \/ at'[k] = Dead /\ Stopped'
         \/ /\ k = used' /\ used' > used /\ conn' = used'
            /\ at'[k] = Point("read", "read")
         \/ /\ at[k] \notin {Idle, Dead}
            /\ at[k].stage = "read" /\ conn' # 0 => at'[k].stage = "read"
<1> DEFINE Goal ==
      \/ at'[k] = at[k]
      \/ at'[k] = Dead /\ Stopped'
      \/ /\ k = used' /\ used' > used /\ conn' = used'
         /\ at'[k] = Point("read", "read")
      \/ /\ at[k] \notin {Idle, Dead}
         /\ at[k].stage = "read" /\ conn' # 0 => at'[k].stage = "read"
<1> USE CallerIsNoReader
<1>1. ASSUME NEW t \in Threads, NEW P, at' = [at EXCEPT ![t] = P],
             t \in Conns => /\ at[t] \notin {Idle, Dead}
                            /\ \/ at[t].stage # "read" \/ conn' = 0
                               \/ P.stage = "read"
      PROVE  Goal
  BY <1>1, OneMoves DEF Only
<1>2. ASSUME NEW t \in Threads, CallerStep(t) PROVE Goal
  <2>1. CASE SetConn(t)
    <3>1. /\ at[t].step = "dialed"
          /\ used' > used
      BY <2>1 DEF SetConn, TypeOK, Conns
    <3>2. t \in Conns => at[t].stage # "read" /\ at[t] \notin {Idle, Dead}
      BY <3>1 DEF PlaceInv, ReaderAt, Point, Idle, Dead
    <3> QED BY <2>1, <3>1, <3>2, Connects
  <2>2. ASSUME NEW j \in Conns, TakeAck(t, j) PROVE Goal
    <3>1. at[t].step = "wait"
      BY <2>2 DEF TakeAck
    <3>2. t \in Conns => at[t].stage # "read" /\ at[t] \notin {Idle, Dead}
      BY <3>1 DEF PlaceInv, ReaderAt, Point, Idle, Dead
    <3>3. at[j] \notin {Idle, Dead} /\ at'[j].stage = "read"
      BY <2>2, Handed DEF Point, Idle, Dead
    <3> QED BY <2>2, <3>2, <3>3, Handed
  <2>3. CASE Dial(t) \/ DialFails(t) \/ Copy(t) \/ Write(t) \/ WriteFails(t)
               \/ TimeOut(t)
    <3>1. /\ at[t].step \in {"dial", "copy", "write", "wait"}
          /\ \E P : at' = [at EXCEPT ![t] = P]
      BY <2>3 DEF Dial, DialFails, Copy, Write, WriteFails, TimeOut, Goes
    <3>2. t \in Conns => at[t].stage # "read" /\ at[t] \notin {Idle, Dead}
      BY <3>1 DEF PlaceInv, ReaderAt, Point, Idle, Dead
    <3> QED BY <1>1, <3>1, <3>2
  <2> QED BY <1>2, <2>1, <2>2, <2>3 DEF CallerStep
<1>3. ASSUME NEW j \in Conns, ReaderStep(j) PROVE Goal
  <2>1. CASE SendPanics(j)
    <3>1. at' = [t \in Threads |-> Dead]
      BY <2>1 DEF SendPanics
    <3> QED BY <3>1 DEF Stopped
  <2>2. CASE ReaderEnds(j) \/ SetNil(j)
    <3>1. conn' = 0 /\ at[j].stage = "read"
          /\ \E P : at' = [at EXCEPT ![j] = P]
      BY <2>2 DEF ReaderEnds, SetNil, Goes, At, Point, OnlyMoves
    <3>2. at[j] \notin {Idle, Dead}
      BY <3>1 DEF Idle, Dead, Point
    <3> QED BY <1>1, <3>1, <3>2
  <2>3. CASE Wake(j)
    <3>1. /\ at[j].stage = "redial"
          /\ at' = [at EXCEPT ![j] = Point("redial", "dial")]
      BY <2>3 DEF Wake, Goes, At, Point
    <3>2. at[j] \notin {Idle, Dead}
      BY <3>1 DEF Idle, Dead, Point
    <3> QED BY <1>1, <3>1, <3>2
  <2>4. CASE Read(j) \/ ReadFails(j) \/ ReaderGoesOn(j) \/ Lock(j) \/ Send(j)
    <3>1. /\ at[j].stage = "read"
          /\ \E P : at' = [at EXCEPT ![j] = P] /\ P.stage = "read"
      BY <2>4 DEF Read, ReadFails, ReaderGoesOn, Lock, Send, Goes, At, Point
    <3>2. at[j] \notin {Idle, Dead}
      BY <3>1 DEF Idle, Dead, Point
    <3> QED BY <1>1, <3>1, <3>2
  <2> QED BY <1>3, <2>1, <2>2, <2>3, <2>4 DEF ReaderStep
<1>4. ASSUME \/ \E S \in SUBSET Swaps : Subscribe(S)
             \/ AppendIds \/ Reconnect
      PROVE  Goal
  <2>1. \E P : at' = [at EXCEPT ![Caller] = P]
    BY <1>4 DEF Subscribe, AppendIds, Reconnect, Goes
  <2> QED BY <1>1, <2>1
<1>5. ASSUME \/ Consume \/ Close
             \/ \E j \in Conns : Lose(j)
             \/ \E s \in Swaps : Report(s)
      PROVE  Goal
  <2>1. UNCHANGED at
    BY <1>5 DEF Consume, Close, Lose, Report, client
  <2> QED BY <2>1
<1> HIDE DEF Goal
<1>6. Goal
  BY <1>2, <1>3, <1>4, <1>5 DEF Goroutines
<1> QED BY <1>6 DEF Goal

\* What becomes of a connection.
LEMMA LinkMoves ==
  ASSUME TypeOK, PlaceInv, ConnInv, MessageInv, Goroutines
  PROVE  /\ \/ used' = used /\ conn' \in {conn, 0}
            \/ used' = used + 1 /\ conn' = used' /\ link'[used'] = "up"
         /\ \A k \in Conns :
              \/ link'[k] = link[k]
              \/ link[k] = "up" /\ link'[k] = "lost"
              \/ k = conn /\ conn' = 0 /\ link'[k] \in {"closed", "left"}
              \/ k = used' /\ used' > used
<1> DEFINE Goal ==
      /\ \/ used' = used /\ conn' \in {conn, 0}
         \/ used' = used + 1 /\ conn' = used' /\ link'[used'] = "up"
      /\ \A k \in Conns :
           \/ link'[k] = link[k]
           \/ link[k] = "up" /\ link'[k] = "lost"
           \/ k = conn /\ conn' = 0 /\ link'[k] \in {"closed", "left"}
           \/ k = used' /\ used' > used
<1>1. ASSUME UNCHANGED <<link, used>>, conn' \in {conn, 0} PROVE Goal
  BY <1>1
<1>2. ASSUME NEW t \in Threads, SetConn(t) PROVE Goal
  <2>1. used \in Nat
    BY DEF TypeOK, Conns
  <2> QED BY <1>2, <2>1, Connects
<1>3. ASSUME NEW k \in Conns, Lose(k) PROVE Goal
  <2>1. /\ used' = used /\ conn' = conn /\ link[k] = "up"
        /\ link' = [link EXCEPT ![k] = "lost"]
    BY <1>3 DEF Lose
  <2>2. link \in [Conns -> {"none", "up", "lost", "closed", "left"}]
    BY DEF TypeOK
  <2> QED BY <2>1, <2>2
<1>4. ASSUME NEW how \in {"closed", "left"}, CloseConn(how), used' = used
      PROVE  Goal
  BY <1>4, Closes
<1>5. ASSUME Reconnect \/ Consume \/ Close
      PROVE  /\ used' = used
             /\ \/ UNCHANGED <<link, conn>>
                \/ CloseConn("closed") \/ CloseConn("left")
  BY <1>5 DEF Reconnect, Consume, Unsubscribe, Close
<1>6. ASSUME NEW t \in Threads, CallerStep(t)
      PROVE  UNCHANGED <<link, used, conn>> \/ SetConn(t)
  BY <1>6 DEF CallerStep, DialFails, Dial, Copy, Write, WriteFails, TakeAck,
              TimeOut, OnlyMoves
<1>7. ASSUME NEW k \in Conns, ReaderStep(k)
      PROVE  UNCHANGED <<link, used>> /\ conn' \in {conn, 0}
  BY <1>7 DEF ReaderStep, Read, ReadFails, ReaderEnds, ReaderGoesOn, SetNil,
              Wake, Lock, Send, SendPanics, OnlyMoves
<1>8. ASSUME NEW s \in Swaps, Report(s) PROVE UNCHANGED <<link, used, conn>>
  BY <1>8 DEF Report, client
<1>9. ASSUME NEW S \in SUBSET Swaps, Subscribe(S)
      PROVE  UNCHANGED <<link, used, conn>>
  BY <1>9 DEF Subscribe
<1>10. AppendIds => UNCHANGED <<link, used, conn>>
  BY DEF AppendIds
<1> HIDE DEF Goal
<1>11. ASSUME UNCHANGED <<link, used, conn>> PROVE Goal
  BY <1>1, <1>11
<1>12. Reconnect \/ Consume \/ Close => Goal
  BY <1>4, <1>5, <1>11
<1>13. Goal
  BY <1>1, <1>2, <1>3, <1>6, <1>7, <1>8, <1>9, <1>10, <1>11, <1>12
    DEF Goroutines
<1> QED BY <1>13 DEF Goal

LEMMA UnusedKeeps ==
  ASSUME TypeOK, PlaceInv, ConnInv, MessageInv, Goroutines,
         NEW k \in Conns, k > used
  PROVE  subs'[k] = {} /\ inbox'[k] = <<>>
<1>1. /\ subs[k] = {} /\ inbox[k] = <<>> /\ at[k] \in {Idle, Dead}
      /\ link[k] = "none" /\ k # conn /\ Len(inbox[k]) = 0
      /\ subs \in [Conns -> SUBSET Swaps]
      /\ inbox \in [Conns -> Seq(Told)]
  BY DEF ConnInv, TypeOK, Conns, MessageInv
<1>2. InHand(k) = 0
  BY <1>1 DEF InHand, Idle, Dead, Point
<1>3. CASE UNCHANGED <<subs, inbox>>
  BY <1>1, <1>3
<1>4. ASSUME NEW t \in Threads, Write(t) PROVE subs'[k] = {} /\ inbox'[k] = <<>>
  <2>1. /\ subs' = subs
           \/ \E S : subs' = [subs EXCEPT ![conn] = @ \cup S]
        /\ inbox' = inbox
           \/ \E q : inbox' = [inbox EXCEPT ![conn] = q]
    BY <1>4 DEF Write
  <2> QED BY <1>1, <2>1
<1>5. ASSUME NEW j \in Conns, Send(j) \/ \E t \in Threads : TakeAck(t, j)
      PROVE  subs'[k] = {} /\ inbox'[k] = <<>>
  <2>1. /\ at[j].step \in {"send", "ack"} /\ subs' = subs
        /\ inbox' = [inbox EXCEPT ![j] = Tail(@)]
    BY <1>5 DEF Send, TakeAck, At, Point
  <2>2. j # k
    BY <1>1, <2>1 DEF Idle, Dead, Point
  <2> QED BY <1>1, <2>1, <2>2
<1>6. ASSUME subs' = subs, Cut(k) PROVE subs'[k] = {} /\ inbox'[k] = <<>>
  <2>1. inbox'[k] \in Seq(Told) /\ Len(inbox'[k]) = 0
    BY <1>1, <1>2, <1>6 DEF Cut
  <2> QED BY <1>1, <1>6, <2>1, EmptySeq
<1>7. ASSUME Reconnect \/ Consume \/ Close
      PROVE  subs'[k] = {} /\ inbox'[k] = <<>>
  <2>1. /\ subs' = subs
        /\ UNCHANGED inbox \/ CloseConn("closed") \/ CloseConn("left")
    BY <1>7 DEF Reconnect, Consume, Unsubscribe, Close
  <2> QED BY <1>1, <1>6, <2>1, Closes
<1>8. ASSUME NEW j \in Conns, Lose(j) PROVE subs'[k] = {} /\ inbox'[k] = <<>>
  <2>1. subs' = subs
    BY <1>8 DEF Lose
  <2> QED BY <1>6, <1>8, <2>1, Cuts DEF Lose
<1>9. ASSUME NEW s \in Swaps, Report(s) PROVE subs'[k] = {} /\ inbox'[k] = <<>>
  BY <1>1, <1>9 DEF Report
<1>10. ASSUME \/ \E t \in Threads : SetConn(t)
              \/ \E j \in Conns : Lock(j) \/ SendPanics(j)
              \/ Still
       PROVE  UNCHANGED <<subs, inbox>>
  BY <1>10 DEF SetConn, Lock, SendPanics, Still, lightzd
<1>11. ASSUME NEW t \in Threads, CallerStep(t)
       PROVE  subs'[k] = {} /\ inbox'[k] = <<>>
  BY <1>3, <1>4, <1>5, <1>10, <1>11, StillSteps DEF CallerStep
<1>12. ASSUME NEW j \in Conns, ReaderStep(j)
       PROVE  subs'[k] = {} /\ inbox'[k] = <<>>
  BY <1>3, <1>5, <1>10, <1>12, StillSteps DEF ReaderStep
<1> QED BY <1>3, <1>7, <1>8, <1>9, <1>10, <1>11, <1>12, StillSteps
      DEF Goroutines

LEMMA ConnKeeps ==
  ASSUME TypeOK, PlaceInv, ConnInv, MessageInv, Goroutines, PlaceInv'
  PROVE  ConnInv'
<1>1. used \in Conns /\ Conns \subseteq Nat \ {0} /\ conn \in Nat /\ conn <= used
  BY DEF TypeOK, Conns
<1>2. used' = used \/ used' = used + 1
  BY LinkMoves
<1>3. ASSUME NEW k \in Conns, k > used'
      PROVE  at'[k] \in {Idle, Dead} /\ subs'[k] = {} /\ inbox'[k] = <<>>
  <2>1. k > used /\ k # used' /\ k \in Nat
    BY <1>1, <1>2, <1>3
  <2>2. at[k] \in {Idle, Dead}
    BY <2>1 DEF ConnInv
  <2>3. at'[k] \in {Idle, Dead}
    BY <2>1, <2>2, ReaderMoves
  <2> QED BY <2>1, <2>3, UnusedKeeps
<1>4. ASSUME conn' # 0
      PROVE  /\ conn' = used' /\ link'[conn'] \in {"up", "lost"}
             /\ ~Stopped' => at'[conn'].stage = "read"
  <2>1. CASE used' = used + 1 /\ conn' = used' /\ link'[used'] = "up"
    <3>1. \E t \in Threads : SetConn(t)
      <4>1. used' # used
        BY <1>1, <2>1
      <4> QED BY <4>1 DEF Goroutines, CallerStep, ReaderStep, Subscribe,
             DialFails, Dial, Copy, Write, WriteFails, TakeAck, TimeOut,
             AppendIds, Reconnect, Read, ReadFails, ReaderEnds, ReaderGoesOn,
             SetNil, Wake, Lock, Send, SendPanics, Lose, Consume, Close,
             Report, OnlyMoves, client
    <3>2. at'[used'] = Point("read", "read")
      BY <3>1, Connects
    <3> QED BY <2>1, <3>2 DEF Point
  <2>2. CASE used' = used /\ conn' = conn
    <3>1. /\ conn \in Conns /\ conn = used /\ link[conn] \in {"up", "lost"}
          /\ ~Stopped => at[conn].stage = "read"
      BY <1>1, <1>4, <2>2 DEF ConnInv
    <3>2. link'[conn] \in {"up", "lost"}
      BY <1>1, <1>4, <2>2, <3>1, LinkMoves
    <3>3. ASSUME ~Stopped' PROVE at'[conn].stage = "read"
      <4>1. CASE at'[conn] = at[conn]
        <5>1. ~Stopped
          BY <3>1, <3>3, <4>1 DEF PlaceInv
        <5> QED BY <3>1, <4>1, <5>1
      <4>2. CASE at[conn] \notin {Idle, Dead} /\
                 (at[conn].stage = "read" /\ conn' # 0 => at'[conn].stage = "read")
        <5>1. ~Stopped
          BY <3>1, <4>2 DEF PlaceInv
        <5> QED BY <1>4, <3>1, <4>2, <5>1
      <4> QED BY <1>1, <2>2, <3>1, <3>3, <4>1, <4>2, ReaderMoves
    <3> QED BY <2>2, <3>1, <3>2, <3>3
  <2> QED BY <1>4, <2>1, <2>2, LinkMoves
<1> QED BY <1>3, <1>4 DEF ConnInv
-----------------------------------------------------------------------------
(***************************************************************************)
(* The message that a reader has in hand, and the lock it holds.           *)
(***************************************************************************)
Holding == {"lock", "ack", "send"}

HandOf(k) ==
  /\ InHand(k) <= Len(inbox[k])
  /\ lock = k <=> At(k, "read", "ack") \/ At(k, "read", "send")
  /\ at[k].step = "ack" => Head(inbox[k]) = Ack
  /\ at[k].step = "send" => Head(inbox[k]) # Ack
  /\ ~Stopped /\ link[k] \notin {"up", "lost"} => Len(inbox[k]) = InHand(k)
  /\ at[k].step \in {"failed", "drop"} => link[k] # "up"

HandInv == \A k \in Conns : HandOf(k)

LEMMA HandHolds == TypeOK /\ MessageInv => HandInv
  BY DEF TypeOK, MessageInv, HandInv, HandOf

LEMMA HandSame ==
  ASSUME HandInv, PlaceInv, lock' = lock, ~Stopped' => ~Stopped, NEW k \in Conns,
         \/ at'[k] = at[k]
         \/ at[k].step \notin Holding /\ at'[k].step \notin Holding,
         Len(inbox'[k]) \in Nat, InHand(k) <= Len(inbox'[k]),
         InHand(k) = 1 => Head(inbox'[k]) = Head(inbox[k]),
         ~Stopped /\ link'[k] \notin {"up", "lost"} =>
           Len(inbox'[k]) = InHand(k),
         at'[k].step \in {"failed", "drop"} => link'[k] # "up"
  PROVE  HandOf(k)'
<1>1. HandOf(k)
  BY DEF HandInv
<1>2. CASE at'[k] = at[k]
  BY <1>1, <1>2 DEF HandOf, InHand, At
<1>3. CASE at[k].step \notin Holding /\ at'[k].step \notin Holding
  <2>1. InHand(k) = 0 /\ InHand(k)' = 0
    BY <1>3 DEF InHand, Holding
  <2>2. /\ ~(At(k, "read", "ack") \/ At(k, "read", "send"))
        /\ ~(At(k, "read", "ack") \/ At(k, "read", "send"))'
    BY <1>3 DEF At, Point, Holding
  <2> QED BY <1>1, <1>3, <2>1, <2>2 DEF HandOf, Holding
<1> QED BY <1>2, <1>3

\* Nothing is taken, and nobody takes anything in hand.
LEMMA HandStill ==
  ASSUME TypeOK, PlaceInv, MessageInv, HandInv, Still,
         NEW t \in Threads, NEW P, at' = [at EXCEPT ![t] = P],
         at[t].step \notin Holding \cup {"dead"}, P.step \notin Holding,
         t \in Conns /\ P.step \in {"failed", "drop"} => link[t] # "up"
  PROVE  HandInv'
<1>1. Only(t, P)
  BY OneMoves
<1>2. ~Stopped
  BY CallerIsNoReader DEF PlaceInv, Stopped, Dead, Point
<1>3. UNCHANGED <<inbox, lock, link>>
  BY DEF Still
<1>4. ASSUME NEW k \in Conns PROVE HandOf(k)'
  <2>1. /\ Len(inbox[k]) \in Nat /\ InHand(k) <= Len(inbox[k])
        /\ at[k].step \in {"failed", "drop"} => link[k] # "up"
        /\ link[k] \notin {"up", "lost"} => Len(inbox[k]) = InHand(k)
    BY <1>2, InboxFacts DEF HandInv, HandOf
  <2>2. \/ at'[k] = at[k]
        \/ at[k].step \notin Holding /\ at'[k].step \notin Holding
    BY <1>1, CallerIsNoReader DEF Only
  <2>3. at'[k].step \in {"failed", "drop"} => link'[k] # "up"
    BY <1>1, <1>3, <2>1, CallerIsNoReader DEF Only
  <2> QED BY <1>2, <1>3, <2>1, <2>2, <2>3, HandSame
<1> QED BY <1>4 DEF HandInv

\* Messages of a connection are lost: all but the one in hand, if it closes.
LEMMA HandCut ==
  ASSUME PlaceInv, MessageInv, TypeOK, HandInv, lock' = lock,
         ~Stopped' => ~Stopped,
         \A k \in Conns :
           /\ at'[k] = at[k] /\ Cut(k)
           /\ \/ link'[k] = link[k] /\ (inbox'[k] = inbox[k] \/ link[k] = "up")
              \/ link'[k] = "lost"
              \/ link'[k] # "up" /\ Len(inbox'[k]) = InHand(k)
  PROVE  HandInv'
<1>1. ASSUME NEW k \in Conns PROVE HandOf(k)'
  <2>1. /\ Len(inbox'[k]) \in Nat /\ InHand(k) <= Len(inbox'[k])
        /\ InHand(k) = 1 => Head(inbox'[k]) = Head(inbox[k])
    BY InboxFacts DEF Cut
  <2>2. /\ at[k].step \in {"failed", "drop"} => link[k] # "up"
        /\ ~Stopped /\ link[k] \notin {"up", "lost"} =>
             Len(inbox[k]) = InHand(k)
    BY DEF HandInv, HandOf
  <2> QED BY <2>1, <2>2, HandSame
<1> QED BY <1>1 DEF HandInv

\* More messages come.
LEMMA HandMore ==
  ASSUME PlaceInv, MessageInv, TypeOK, HandInv, lock' = lock, link' = link,
         ~Stopped' => ~Stopped,
         \A k \in Conns :
           /\ \/ at'[k] = at[k]
              \/ /\ at[k].step \notin Holding
                 /\ at'[k].step \notin Holding \cup {"failed", "drop"}
           /\ Len(inbox'[k]) \in Nat /\ Len(inbox'[k]) >= Len(inbox[k])
           /\ Len(inbox[k]) > 0 => Head(inbox'[k]) = Head(inbox[k])
           /\ inbox'[k] = inbox[k] \/ link[k] \in {"up", "lost"}
  PROVE  HandInv'
<1>1. ASSUME NEW k \in Conns PROVE HandOf(k)'
  <2>1. /\ InHand(k) \in {0, 1} /\ InHand(k) <= Len(inbox[k])
        /\ Len(inbox[k]) \in Nat
    BY InboxFacts
  <2>2. /\ at[k].step \in {"failed", "drop"} => link[k] # "up"
        /\ ~Stopped /\ link[k] \notin {"up", "lost"} =>
             Len(inbox[k]) = InHand(k)
    BY DEF HandInv, HandOf
  <2>3. /\ InHand(k) <= Len(inbox'[k])
        /\ InHand(k) = 1 => Head(inbox'[k]) = Head(inbox[k])
    BY <2>1
  <2> QED BY <2>1, <2>2, <2>3, HandSame
<1> QED BY <1>1 DEF HandInv

\* Reader k takes what it has in hand away, and gives the lock up.
LEMMA HandTaken ==
  ASSUME PlaceInv, MessageInv, TypeOK, HandInv, ~Stopped,
         NEW k \in Conns, at[k].step \in {"ack", "send"},
         inbox' = [inbox EXCEPT ![k] = Tail(@)], lock' = 0, link' = link,
         at'[k] = Point("read", "read"),
         \A j \in Conns : j # k =>
           \/ at'[j] = at[j]
           \/ /\ at[j].step \notin Holding
              /\ at'[j].step \notin Holding \cup {"failed", "drop"}
  PROVE  HandInv'
<1> USE CallerIsNoReader
<1>1. InHand(k) = 1 /\ at[k].stage = "read"
  BY PlaceOf DEF InHand
<1>2. /\ Len(inbox'[k]) = Len(inbox[k]) - 1 /\ Len(inbox[k]) \in Nat
      /\ \A j \in Conns : j # k => inbox'[j] = inbox[j]
  BY <1>1, Takes, InboxFacts
<1>3. lock = k
  BY <1>1, PlaceOf DEF HandInv, HandOf, At, Point, PlaceInv, ReaderAt, Idle,
                       Dead
<1>4. HandOf(k)'
  <2>1. InHand(k)' = 0 /\ Len(inbox[k]) - 1 \in Nat
    BY <1>1, <1>2, InboxFacts DEF InHand, Point
  <2>2. link[k] \notin {"up", "lost"} => Len(inbox[k]) = 1
    BY <1>1 DEF HandInv, HandOf
  <2> QED BY <1>2, <2>1, <2>2 DEF HandOf, At, Point, Conns
<1>5. ASSUME NEW j \in Conns, j # k PROVE HandOf(j)'
  <2>1. HandOf(j) /\ inbox'[j] = inbox[j]
    BY <1>2, <1>5 DEF HandInv
  <2>2. lock # j /\ j # 0
    BY <1>3, <1>5 DEF Conns
  <2>3. ~At(j, "read", "ack") /\ ~At(j, "read", "send")
    BY <2>1, <2>2 DEF HandOf
  <2>4. CASE at'[j] = at[j]
    <3>1. /\ InHand(j)' = InHand(j)
          /\ ~At(j, "read", "ack")' /\ ~At(j, "read", "send")'
      BY <2>3, <2>4 DEF InHand, At
    <3> QED BY <2>1, <2>2, <2>4, <3>1 DEF HandOf
  <2>5. CASE /\ at[j].step \notin Holding
             /\ at'[j].step \notin Holding \cup {"failed", "drop"}
    <3>1. /\ InHand(j)' = InHand(j)
          /\ ~At(j, "read", "ack")' /\ ~At(j, "read", "send")'
      BY <2>5 DEF InHand, At, Point, Holding
    <3> QED BY <2>1, <2>2, <2>5, <3>1 DEF HandOf, Holding
  <2> QED BY <1>5, <2>4, <2>5
<1> QED BY <1>4, <1>5 DEF HandInv

LEMMA HandKeeps ==
  ASSUME TypeOK, PlaceInv, ConnInv, MessageInv, Goroutines, PlaceInv'
  PROVE  HandInv' /\ lock' \in 0 .. MaxConns
<1> USE CallerIsNoReader
<1>0. /\ HandInv
      /\ \A k \in Conns :
           /\ Len(inbox[k]) \in Nat /\ InHand(k) \in {0, 1}
           /\ InHand(k) <= Len(inbox[k])
           /\ InHand(k) = 1 <=> at[k].step \in {"lock", "ack", "send"}
  BY HandHolds, InboxFacts
<1>1. ASSUME NEW S \in SUBSET Swaps, Subscribe(S) PROVE HandInv'
  <2>1. PICK P \in {Point("connect", "dial"), Point("first", "write")} :
          at' = [at EXCEPT ![Caller] = P]
    BY <1>1 DEF Subscribe, Goes
  <2>2. at[Caller] = Idle /\ Still
    BY <1>1, StillSteps DEF Subscribe
  <2>3. /\ at[Caller].step \notin Holding \cup {"dead"}
        /\ P.step \notin Holding
    BY <2>1, <2>2 DEF Idle, Point, Holding
  <2> QED BY <1>0, <2>1, <2>2, <2>3, HandStill
<1>2. ASSUME NEW t \in Threads,
             Dial(t) \/ DialFails(t) \/ Copy(t) \/ WriteFails(t) \/ TimeOut(t)
      PROVE  HandInv'
  <2>1. /\ at[t].step \in {"dial", "copy", "write", "wait"} /\ Still
        /\ \/ at' = [at EXCEPT ![t] = Point(at[t].stage, "dialed")]
           \/ at' = [at EXCEPT ![t] = AfterError(t)]
           \/ at' = [at EXCEPT ![t] = IF swapIds = {} THEN AfterOk(t)
                                      ELSE Point(at[t].stage, "write")]
    BY <1>2, StillSteps DEF Dial, DialFails, Copy, WriteFails, TimeOut, Goes
  <2>2. {AfterOk(t).step, AfterError(t).step} \subseteq
          {"write", "append", "idle", "close", "sleep"}
    BY <2>1, AfterPlaces DEF Idle, Point
  <2>3. PICK P : at' = [at EXCEPT ![t] = P] /\
                 P.step \in {"dialed", "write", "append", "idle", "close",
                             "sleep"}
    BY <2>1, <2>2 DEF Point
  <2> QED BY <1>0, <2>1, <2>3, HandStill DEF Holding
<1>3. ASSUME AppendIds PROVE HandInv'
  <2>1. /\ at[Caller].step = "append" /\ Still
        /\ at' = [at EXCEPT ![Caller] = Idle]
    BY <1>3, StillSteps DEF AppendIds, Goes
  <2> QED BY <1>0, <2>1, HandStill DEF Holding, Idle, Point
<1>4. ASSUME NEW k \in Conns,
             ReaderEnds(k) \/ ReaderGoesOn(k) \/ SetNil(k) \/ Wake(k)
      PROVE  HandInv'
  <2>1. /\ at[k].step \in {"failed", "drop", "sleep"} /\ Still
        /\ \/ at' = [at EXCEPT ![k] = Idle]
           \/ /\ at' = [at EXCEPT ![k] = Point("read", "drop")]
              /\ at[k].step = "failed"
           \/ at' = [at EXCEPT ![k] = Point("redial", "sleep")]
           \/ at' = [at EXCEPT ![k] = Point("redial", "dial")]
    BY <1>4, StillSteps
      DEF ReaderEnds, ReaderGoesOn, SetNil, Wake, Goes, At, Point
  <2>2. at[k].step = "failed" => link[k] # "up"
    BY DEF MessageInv
  <2>3. at[k].step \notin Holding \cup {"dead"}
    BY <2>1 DEF Holding
  <2>4. PICK P \in {Idle, Point("read", "drop"), Point("redial", "sleep"),
                    Point("redial", "dial")} :
          /\ at' = [at EXCEPT ![k] = P]
          /\ P = Point("read", "drop") => at[k].step = "failed"
    BY <2>1 DEF Idle, Point
  <2>5. P.step \notin Holding
    BY <2>4 DEF Holding, Idle, Point
  <2>6. P.step \in {"failed", "drop"} => link[k] # "up"
    BY <2>2, <2>4 DEF Idle, Point
  <2> QED BY <1>0, <2>1, <2>3, <2>4, <2>5, <2>6, HandStill
<1>5. ASSUME NEW k \in Conns, ReadFails(k) PROVE HandInv'
  <2>1. /\ at[k] = Point("read", "read") /\ link[k] # "up"
        /\ at' = [at EXCEPT ![k] = Point("read", "failed")]
    BY <1>5 DEF ReadFails, Goes, At
  <2>2. Still
    BY <1>5, StillSteps
  <2>3. /\ at[k].step \notin Holding \cup {"dead"}
        /\ Point("read", "failed").step \notin Holding
    BY <2>1 DEF Holding, Point
  <2> QED BY <1>0, <2>1, <2>2, <2>3, HandStill
<1>6. ASSUME NEW k \in Conns, Read(k) \/ Lock(k) PROVE HandInv'
  <2>1. UNCHANGED <<inbox, link>>
    BY <1>6 DEF Read, Lock, OnlyMoves, lightzd
  <2>2. CASE Read(k)
    <3>1. /\ At(k, "read", "read") /\ link[k] \in {"up", "lost"}
          /\ inbox[k] # <<>> /\ lock' = lock
          /\ at' = [at EXCEPT ![k] = Point("read", "lock")]
      BY <2>2 DEF Read, Goes, OnlyMoves, reading
    <3>2. Len(inbox[k]) >= 1
      <4>1. inbox[k] \in Seq(Told)
        BY DEF MessageInv
      <4> QED BY <3>1, <4>1, EmptySeq
    <3>3. Only(k, Point("read", "lock"))
      BY <3>1, OneMoves
    <3>4. HandOf(k)'
      <4>1. InHand(k)' = 1 /\ ~At(k, "read", "ack")' /\ ~At(k, "read", "send")'
        BY <3>3 DEF Only, InHand, At, Point
      <4>2. ~At(k, "read", "ack") /\ ~At(k, "read", "send")
        BY <3>1 DEF At, Point
      <4> QED BY <1>0, <2>1, <3>1, <3>2, <3>3, <4>1, <4>2
            DEF HandOf, HandInv, Only, Point
    <3>5. ~Stopped
      BY <3>1 DEF PlaceInv, At, Point, Dead
    <3>6. ASSUME NEW j \in Conns, j # k PROVE HandOf(j)'
      <4>1. at'[j] = at[j] /\ HandOf(j)
        BY <1>0, <3>3, <3>6 DEF Only, HandInv
      <4> QED BY <2>1, <3>1, <3>5, <4>1 DEF HandOf, InHand, At
    <3> QED BY <3>4, <3>6 DEF HandInv
  <2>3. CASE Lock(k)
    <3> DEFINE P == Point("read", IF Head(inbox[k]) = Ack THEN "ack" ELSE "send")
    <3>1. /\ At(k, "read", "lock") /\ lock = 0 /\ lock' = k
          /\ at' = [at EXCEPT ![k] = P]
      BY <2>3 DEF Lock, Goes
    <3>2a. k # 0 /\ k \in Threads
      BY DEF Conns
    <3>2b. Only(k, P)
      <4> HIDE DEF P
      <4> QED BY <3>1, <3>2a, OneMoves
    <3>2. Only(k, P) /\ k # 0
      BY <3>2a, <3>2b
    <3>3. P = Point("read", "ack") \/ P = Point("read", "send")
      OBVIOUS
    <3>3a. /\ P = Point("read", "ack") => Head(inbox[k]) = Ack
           /\ P = Point("read", "send") => Head(inbox[k]) # Ack
      BY DEF Point
    <3> HIDE DEF P
    <3>4. HandOf(k)'
      <4>1. /\ InHand(k)' = 1 /\ InHand(k) = 1
            /\ At(k, "read", "ack")' \/ At(k, "read", "send")'
        BY <3>1, <3>2, <3>3 DEF Only, InHand, At, Point
      <4>2. ~Stopped
        BY <3>1 DEF PlaceInv, At, Point, Dead
      <4>3. HandOf(k) /\ at'[k] = P
        BY <1>0, <3>2 DEF HandInv, Only
      <4>4. /\ at'[k].step = "ack" => Head(inbox[k]) = Ack
            /\ at'[k].step = "send" => Head(inbox[k]) # Ack
            /\ at'[k].step \notin {"failed", "drop"}
        BY <3>3, <3>3a, <4>3 DEF Point
      <4>5. Len(inbox[k]) >= 1
        BY <1>0, <4>1
      <4> QED BY <1>0, <2>1, <3>1, <4>1, <4>2, <4>3, <4>4, <4>5 DEF HandOf
    <3>6. ASSUME NEW j \in Conns, j # k PROVE HandOf(j)'
      <4>1. at'[j] = at[j] /\ HandOf(j) /\ j # 0
        BY <1>0, <3>2, <3>6 DEF Only, HandInv, Conns
      <4>2. ~At(j, "read", "ack") /\ ~At(j, "read", "send")
        BY <3>1, <4>1 DEF HandOf
      <4>3. Stopped => at[k] = Dead
        BY DEF PlaceInv
      <4> QED BY <2>1, <3>1, <3>6, <4>1, <4>2, <4>3
            DEF HandOf, InHand, At, Dead, Point
    <3> QED BY <3>4, <3>6 DEF HandInv
  <2> QED BY <1>6, <2>2, <2>3
<1>7. ASSUME NEW t \in Threads, NEW k \in Conns, TakeAck(t, k) PROVE HandInv'
  <2>1. /\ inbox' = [inbox EXCEPT ![k] = Tail(@)] /\ link' = link
        /\ at[t].step = "wait"
    BY <1>7 DEF TakeAck
  <2>2. AfterOk(t).step \in {"write", "append", "idle"}
    BY <2>1, AfterPlaces DEF Idle, Point
  <2>3. \A j \in Conns : j # k =>
          \/ at'[j] = at[j]
          \/ /\ at[j].step \notin Holding
             /\ at'[j].step \notin Holding \cup {"failed", "drop"}
    BY <1>7, <2>1, <2>2, Handed DEF Holding
  <2>4. at[k].step = "ack"
    BY <1>7, Handed DEF Point
  <2> QED BY <1>0, <1>7, <2>1, <2>3, <2>4, Handed, HandTaken
<1>8. ASSUME NEW k \in Conns, Send(k) PROVE HandInv'
  <2>1. /\ inbox' = [inbox EXCEPT ![k] = Tail(@)] /\ link' = link
        /\ at[k] = Point("read", "send") /\ lock' = 0
        /\ at' = [at EXCEPT ![k] = Point("read", "read")]
    BY <1>8 DEF Send, Goes, At
  <2>2. Only(k, Point("read", "read"))
    BY <2>1, OneMoves
  <2>3. ~Stopped /\ at[k].step = "send"
    BY <2>1 DEF PlaceInv, Dead, Point
  <2>4. \A j \in Conns : j # k => at'[j] = at[j]
    BY <2>2 DEF Only
  <2>5. at'[k] = Point("read", "read")
    BY <2>2 DEF Only
  <2> QED BY <1>0, <2>1, <2>3, <2>4, <2>5, HandTaken
<1>9. ASSUME NEW k \in Conns, SendPanics(k) PROVE HandInv'
  <2>1. at' = [t \in Threads |-> Dead] /\ lock' = 0 /\ UNCHANGED inbox
    BY <1>9 DEF SendPanics, lightzd
  <2>2. ASSUME NEW j \in Conns PROVE HandOf(j)'
    <3>1. InHand(j)' = 0 /\ ~At(j, "read", "ack")' /\ ~At(j, "read", "send")'
      BY <2>1 DEF InHand, At, Dead, Point
    <3>2. Stopped'
      BY <2>1 DEF Stopped
    <3> QED BY <1>0, <2>1, <3>1, <3>2 DEF HandOf, Conns, Dead, Point
  <2> QED BY <2>2 DEF HandInv
<1>10. ASSUME NEW t \in Threads, SetConn(t) PROVE HandInv'
  <2>1. UNCHANGED <<inbox, lock>> /\ at[t].step = "dialed"
    BY <1>10 DEF SetConn, lightzd, reading
  <2>1a. \A k \in Conns : k # used' => link'[k] = link[k]
    BY <1>10, Connects
  <2>2. ASSUME NEW k \in Conns PROVE HandOf(k)'
    <3>1. ~Stopped
      BY <1>10, Connects
    <3>2. \/ at'[k] = at[k]
          \/ /\ at[k].step \notin Holding
             /\ at'[k].step \notin Holding \cup {"failed", "drop"}
      <4>1. CASE k = t
        <5>1. at'[k] = Point(at[t].stage, "copy")
          BY <1>10, <4>1, Connects
        <5> QED BY <2>1, <4>1, <5>1 DEF Holding, Point
      <4>2. CASE k = used'
        <5>1. at'[k] = Point("read", "read") /\ at[k] = Idle
          BY <1>10, <4>2, Connects
        <5> QED BY <5>1 DEF Holding, Idle, Point
      <4>3. CASE k \notin {t, used'}
        BY <1>10, <4>3, Connects
      <4> QED BY <4>1, <4>2, <4>3
    <3>3. \/ link'[k] = link[k]
          \/ k = used' /\ link'[k] = "up" /\ at'[k].step = "read"
      <4>1. CASE k = used'
        <5>1. at'[k] = Point("read", "read") /\ link'[k] = "up"
          BY <1>10, <4>1, Connects
        <5> QED BY <4>1, <5>1 DEF Point
      <4>2. CASE k # used'
        BY <2>1a, <4>2
      <4> QED BY <4>1, <4>2
    <3>4. /\ at[k].step \in {"failed", "drop"} => link[k] # "up"
          /\ link[k] \notin {"up", "lost"} => Len(inbox[k]) = InHand(k)
      BY <1>0, <3>1 DEF HandInv, HandOf
    <3> QED BY <1>0, <2>1, <3>1, <3>2, <3>3, <3>4, HandSame
  <2> QED BY <2>2 DEF HandInv
<1>11. ASSUME NEW t \in Threads, Write(t) PROVE HandInv'
  <2> DEFINE S == IF at[t].stage \in Connecting THEN ids[t] ELSE want
  <2>1. /\ conn # 0 /\ at[t].step = "write"
        /\ at' = [at EXCEPT ![t] = Point(at[t].stage, "wait")]
        /\ UNCHANGED <<link, lock>>
        /\ \/ UNCHANGED inbox
           \/ \E reply \in SetToSeqs(S) :
                inbox' = [inbox EXCEPT ![conn] = Append(@, Ack) \o
                            [i \in DOMAIN reply |-> Update(reply[i])]]
    BY <1>11 DEF Write, Goes, reading
  <2>2. S \in SUBSET Swaps /\ conn \in Conns /\ link[conn] \in {"up", "lost"}
    BY <2>1 DEF TypeOK, Conns, ConnInv
  <2>3a. Only(t, Point(at[t].stage, "wait"))
    BY <2>1, OneMoves
  <2>3b. ~Stopped
    BY <2>1 DEF PlaceInv, Stopped, Dead, Point
  <2>3. Only(t, Point(at[t].stage, "wait")) /\ ~Stopped
    BY <2>3a, <2>3b
  <2> HIDE DEF S
  <2>4. \A k \in Conns :
          /\ Len(inbox'[k]) \in Nat /\ Len(inbox'[k]) >= Len(inbox[k])
          /\ Len(inbox[k]) > 0 => Head(inbox'[k]) = Head(inbox[k])
          /\ inbox'[k] = inbox[k] \/ k = conn
    <3>1. CASE UNCHANGED inbox
      BY <1>0, <3>1
    <3>2. ASSUME NEW reply \in SetToSeqs(S),
                 inbox' = [inbox EXCEPT ![conn] = Append(@, Ack) \o
                            [i \in DOMAIN reply |-> Update(reply[i])]]
          PROVE  \A k \in Conns :
                   /\ Len(inbox'[k]) \in Nat /\ Len(inbox'[k]) >= Len(inbox[k])
                   /\ Len(inbox[k]) > 0 => Head(inbox'[k]) = Head(inbox[k])
                   /\ inbox'[k] = inbox[k] \/ k = conn
      <4>1. /\ inbox' \in [Conns -> Seq(Told)]
            /\ Len(inbox'[conn]) >= Len(inbox[conn])
            /\ Len(inbox[conn]) > 0 => Head(inbox'[conn]) = Head(inbox[conn])
            /\ \A j \in Conns : j # conn => inbox'[j] = inbox[j]
        BY <2>2, <3>2, Answered
      <4> QED BY <1>0, <2>2, <4>1, LenProperties
    <3> QED BY <2>1, <3>1, <3>2
  <2>5. \A k \in Conns :
           \/ at'[k] = at[k]
           \/ /\ at[k].step \notin Holding
              /\ at'[k].step \notin Holding \cup {"failed", "drop"}
    BY <2>1, <2>3 DEF Only, Holding, Point
  <2> QED BY <1>0, <2>1, <2>2, <2>3, <2>4, <2>5, HandMore
<1>12. ASSUME Reconnect \/ Consume \/ Close PROVE HandInv'
  <2>1. /\ lock' = lock
        /\ UNCHANGED <<inbox, link>> \/ CloseConn("closed") \/ CloseConn("left")
    BY <1>12 DEF Reconnect, Consume, Unsubscribe, Close, reading
  <2>2. at' = at \/ at' = [at EXCEPT ![Caller] = Point("reconnect", "dial")]
    BY <1>12 DEF Reconnect, Consume, Close, Goes
  <2>3. (\A k \in Conns : at'[k] = at[k]) /\ (~Stopped' => ~Stopped)
    <3>1. CASE at' = at
      BY <3>1 DEF Stopped
    <3>2. CASE at' # at
      <4>1. at[Caller].step = "close"
        BY <1>12, <3>2 DEF Reconnect, Consume, Close
      <4>2. ~Stopped
        BY <4>1 DEF Stopped, Dead, Point
      <4> QED BY <2>2, <3>2, <4>2, OneMoves DEF Only
    <3> QED BY <3>1, <3>2
  <2>4. \A k \in Conns :
          /\ Cut(k)
          /\ \/ link'[k] = link[k] /\ inbox'[k] = inbox[k]
             \/ link'[k] # "up" /\ Len(inbox'[k]) = InHand(k)
    <3>1. CASE UNCHANGED <<inbox, link>>
      BY <3>1, InboxFacts DEF Cut
    <3>2. ASSUME NEW how \in {"closed", "left"}, CloseConn(how)
          PROVE  \A k \in Conns :
                   /\ Cut(k)
                   /\ \/ link'[k] = link[k] /\ inbox'[k] = inbox[k]
                      \/ link'[k] # "up" /\ Len(inbox'[k]) = InHand(k)
      BY <3>2, Closes
    <3> QED BY <2>1, <3>1, <3>2
  <2> QED BY <1>0, <2>1, <2>3, <2>4, HandCut
<1>13. ASSUME NEW k \in Conns, Lose(k) PROVE HandInv'
  <2>1. /\ at' = at /\ lock' = lock /\ link' = [link EXCEPT ![k] = "lost"]
        /\ \A j \in Conns : Cut(j) /\ (j # k => inbox'[j] = inbox[j])
    BY <1>13, Cuts DEF Lose, reading
  <2>2. \A j \in Conns : link'[j] = IF j = k THEN "lost" ELSE link[j]
    BY <2>1 DEF TypeOK
  <2>3. ~Stopped' => ~Stopped
    BY <2>1 DEF Stopped
  <2> QED BY <1>0, <2>1, <2>2, <2>3, HandCut
<1>14. ASSUME NEW s \in Swaps, Report(s) PROVE HandInv'
  <2> DEFINE m == [Update(s) EXCEPT !.status = @ + 1]
  <2>1. /\ at' = at /\ lock' = lock /\ link' = link
        /\ inbox' = [k \in Conns |->
                       IF link[k] = "up" /\ s \in subs[k]
                       THEN Append(inbox[k], m) ELSE inbox[k]]
    BY <1>14 DEF Report, client, reading
  <2> HIDE DEF m
  <2>2. \A k \in Conns :
          /\ Len(inbox'[k]) \in Nat /\ Len(inbox'[k]) >= Len(inbox[k])
          /\ Len(inbox[k]) > 0 => Head(inbox'[k]) = Head(inbox[k])
          /\ inbox'[k] = inbox[k] \/ link[k] = "up"
    <3> SUFFICES ASSUME NEW k \in Conns
                 PROVE  /\ Len(inbox'[k]) \in Nat
                        /\ Len(inbox'[k]) >= Len(inbox[k])
                        /\ Len(inbox[k]) > 0 => Head(inbox'[k]) = Head(inbox[k])
                        /\ inbox'[k] = inbox[k] \/ link[k] = "up"
      OBVIOUS
    <3>1a. inbox'[k] = IF link[k] = "up" /\ s \in subs[k]
                       THEN Append(inbox[k], m) ELSE inbox[k]
      BY <2>1
    <3>1. \/ inbox'[k] = inbox[k]
          \/ link[k] = "up" /\ inbox'[k] = Append(inbox[k], m)
      BY <3>1a
    <3>2. inbox[k] \in Seq({Head(inbox[k])} \cup Told \cup {m})
      BY SeqMonotonic DEF MessageInv
    <3>3. /\ Len(Append(inbox[k], m)) = Len(inbox[k]) + 1
          /\ Len(inbox[k]) > 0 => Head(Append(inbox[k], m)) = Head(inbox[k])
      BY <3>2, AppendMessage
    <3> QED BY <1>0, <3>1, <3>3
  <2>3. ~Stopped' => ~Stopped
    BY <2>1 DEF Stopped
  <2> QED BY <1>0, <2>1, <2>2, <2>3, HandMore
<1>15. lock' \in 0 .. MaxConns
  <2>1. lock' = lock \/ lock' = 0 \/ lock' \in Conns
    BY DEF Goroutines, CallerStep, ReaderStep, Subscribe, DialFails, Dial,
           SetConn, Copy, Write, WriteFails, TakeAck, TimeOut, AppendIds,
           Reconnect, Read, ReadFails, ReaderEnds, ReaderGoesOn, SetNil, Wake,
           Lock, Send, SendPanics, Lose, Consume, Close, Report, OnlyMoves,
           reading
  <2> QED BY <2>1, WebsocketAssumption DEF TypeOK, Conns
<1>16. ASSUME NEW t \in Threads, CallerStep(t) PROVE HandInv'
  BY <1>2, <1>7, <1>10, <1>11, <1>16 DEF CallerStep
<1>17. ASSUME NEW k \in Conns, ReaderStep(k) PROVE HandInv'
  BY <1>4, <1>5, <1>6, <1>8, <1>9, <1>17 DEF ReaderStep
<1> QED BY <1>1, <1>3, <1>12, <1>13, <1>14, <1>15, <1>16, <1>17 DEF Goroutines

LEMMA MessageKeeps ==
  ASSUME TypeOK, PlaceInv, ConnInv, MessageInv, Goroutines, PlaceInv'
  PROVE  MessageInv'
<1>1. HandInv'
  BY HandKeeps
<1>2. inbox' \in [Conns -> Seq(Told')]
  BY InboxKeeps
<1>3. updates' \in Seq(Told' \cap Updates)
  BY UpdatesKeep
<1> QED BY <1>1, <1>2, <1>3 DEF MessageInv, HandInv, HandOf

LEMMA PlaceTypes ==
  CallerAt \cup ReaderAt \subseteq
    [stage : Connecting \cup {"idle", "dead", "first", "second", "subscribed",
                              "read"},
     step  : {"idle", "dead", "dial", "dialed", "copy", "write", "wait",
              "append", "close", "read", "lock", "ack", "send", "failed",
              "drop", "sleep"}]
  BY DEF CallerAt, ReaderAt, Idle, Dead, Point, Connecting

LEMMA TypeKeeps ==
  ASSUME TypeOK, PlaceInv, ConnInv, MessageInv, Next, PlaceInv'
  PROVE  TypeOK'
<1>1. Goroutines /\ Elapses
  BY DEF Next
<1>2. /\ conn' \in 0 .. MaxConns /\ used' \in Conns /\ conn' <= used'
      /\ subs' \in [Conns -> SUBSET Swaps]
      /\ ids' \in [Threads -> SUBSET Swaps]
      /\ want' \subseteq asked' /\ asked' \subseteq Swaps
      /\ swapIds' \subseteq asked'
      /\ losses' \in 0 .. MaxLosses
  BY <1>1, PlainKeeps
<1>3. /\ link' \in [Conns -> {"none", "up", "lost", "closed", "left"}]
      /\ \A k \in Conns : k > used' <=> link'[k] = "none"
  BY <1>1, LinkKeeps
<1>4. inbox' \in [Conns -> Seq(Messages)]
  <2>1. inbox' \in [Conns -> Seq(Told')] /\ Told' \subseteq Messages
    BY <1>1, InboxKeeps, ToldFacts
  <2>2. \A k \in Conns : inbox'[k] \in Seq(Messages)
    BY <2>1, SeqMonotonic
  <2> QED BY <2>1, <2>2
<1>5. updates' \in Seq(Messages) /\ Len(updates') <= Buffer
  <2>1. updates' \in Seq(Told' \cap Updates) /\ Told' \cap Updates \subseteq Messages
    BY <1>1, UpdatesKeep, ToldFacts
  <2> QED BY <1>1, <2>1, UpdatesKeep, SeqMonotonic
<1>6. at' \in [Threads ->
                [stage : Connecting \cup {"idle", "dead", "first", "second",
                                         "subscribed", "read"},
                 step  : {"idle", "dead", "dial", "dialed", "copy", "write",
                          "wait", "append", "close", "read", "lock", "ack",
                          "send", "failed", "drop", "sleep"}]]
  <2>1. at' = [t \in Threads |-> at'[t]]
    BY <1>1, AtShape
  <2>2. \A t \in Threads : at'[t] \in CallerAt \cup ReaderAt
    BY CallerIsNoReader DEF PlaceInv
  <2> HIDE DEF CallerAt, ReaderAt
  <2> QED BY <2>1, <2>2, PlaceTypes
<1>7. /\ HandInv' /\ lock' \in 0 .. MaxConns
  BY <1>1, HandKeeps
<1>8. /\ seen' \in [Swaps -> 0 .. Final] /\ status' \in [Swaps -> 0 .. Final]
      /\ \A s \in Swaps : seen'[s] <= status'[s]
  BY <1>1, SeenKeeps, StatusGrows
<1>9. closed' \in BOOLEAN
  <2>1. closed' = closed \/ closed' = TRUE
    BY <1>1 DEF Goroutines, CallerStep, ReaderStep, Subscribe, DialFails, Dial,
         SetConn, Copy, Write, WriteFails, TakeAck, TimeOut, AppendIds,
         Reconnect, Read, ReadFails, ReaderEnds, ReaderGoesOn, SetNil, Wake,
         Lock, Send, SendPanics, Lose, Consume, Close, Report, OnlyMoves,
         client
  <2>2. closed \in BOOLEAN
    BY DEF TypeOK
  <2> QED BY <2>1, <2>2, Zenon
<1>10. before' \in [Conns -> SUBSET Threads]
  <2>1. before \in [Conns -> SUBSET Threads] /\ Waiting' \subseteq Threads
    BY DEF TypeOK, Waiting
  <2> QED BY <1>1, <2>1 DEF Elapses
<1>11. /\ \A k \in Conns : InHand(k)' <= Len(inbox'[k])
       /\ \A k \in Conns :
            lock' = k <=> At(k, "read", "ack")' \/ At(k, "read", "send")'
  BY <1>7 DEF HandInv, HandOf
<1> QED BY <1>2, <1>3, <1>4, <1>5, <1>6, <1>7, <1>8, <1>9, <1>10, <1>11
      DEF TypeOK
-----------------------------------------------------------------------------
(***************************************************************************)
(* Answers and who waits for them.                                         *)
(***************************************************************************)
LEMMA AnswersAreAcks == Answers = AcksOf(inbox) /\ Answers' = AcksOf(inbox')
  BY DEF Answers, AcksOf

LEMMA AnswersFinite ==
  ASSUME TypeOK
  PROVE  IsFiniteSet(Answers) /\ Cardinality(Answers) \in Nat
<1>1. inbox \in [Conns -> Seq(Messages)]
  BY DEF TypeOK
<1> QED BY <1>1, AcksFinite, AnswersAreAcks

LEMMA WaitingSame ==
  ASSUME \A t \in Threads : at'[t].step = "wait" <=> at[t].step = "wait"
  PROVE  Waiting' = Waiting
  BY DEF Waiting

\* Goroutine t does not wait before the step, nor after it.
LEMMA WaitingStill ==
  ASSUME NEW t \in Threads, NEW P, TypeOK, at' = [at EXCEPT ![t] = P],
         at[t].step # "wait", P.step # "wait"
  PROVE  Waiting' = Waiting
<1>1. Only(t, P)
  BY OneMoves
<1> QED BY <1>1, WaitingSame DEF Only

LEMMA WaitsNoMore ==
  ASSUME NEW t \in Threads, at[t].step = "wait", at'[t].step # "wait",
         \A u \in Threads : u # t =>
           (at'[u].step = "wait" <=> at[u].step = "wait")
  PROVE  /\ Waiting' = Waiting \ {t} /\ t \in Waiting
         /\ Cardinality(Waiting') = Cardinality(Waiting) - 1
         /\ Cardinality(Waiting) \in Nat \ {0}
<1>1. Waiting' = Waiting \ {t} /\ t \in Waiting
  BY DEF Waiting
<1>2. IsFiniteSet(Waiting) /\ Cardinality(Waiting) \in Nat
  BY WaitingFinite
<1>3. Cardinality(Waiting \ {t}) = Cardinality(Waiting) - 1
  BY <1>1, <1>2, FS_RemoveElement
<1>4. Cardinality(Waiting) # 0
  BY <1>1, <1>2, FS_EmptySet
<1> QED BY <1>1, <1>2, <1>3, <1>4

LEMMA CutAcks ==
  ASSUME TypeOK, MessageInv, \A k \in Conns : Cut(k)
  PROVE  Cardinality(Answers') <= Cardinality(Answers)
<1>1. inbox \in [Conns -> Seq(Told)]
  BY DEF MessageInv
<1>2. \A k \in Conns : \A i \in DOMAIN inbox'[k] :
        inbox'[k][i] = Ack => i \in DOMAIN inbox[k] /\ inbox[k][i] = Ack
  BY DEF Cut
<1> HIDE DEF Ack
<1> QED BY <1>1, <1>2, FewerAcks, AnswersAreAcks

\* An answer that nobody waits for any more is not under way.
LEMMA NoneUnderWay ==
  ASSUME TypeOK, PlaceInv, MessageInv, ~Stopped, ~AckUnderWay
  PROVE  Answers = {} /\ Cardinality(Answers) = 0
<1>1. ASSUME NEW k \in Conns, NEW i \in DOMAIN inbox[k], inbox[k][i] = Ack
      PROVE  FALSE
  <2>1. link[k] \notin {"up", "lost"}
    BY <1>1 DEF AckUnderWay
  <2>2. Len(inbox[k]) = InHand(k)
    BY <2>1 DEF MessageInv
  <2>3. i = 1 /\ InHand(k) = 1
    BY <2>2, InboxFacts
  <2>4. Head(inbox[k]) = Ack
    BY <1>1, <2>2, <2>3, InboxFacts, TailMessages
  <2> QED BY <2>3, <2>4 DEF AckUnderWay
<1>2. Answers = {}
  BY <1>1 DEF Answers
<1> QED BY <1>2, FS_EmptySet

\* The sorts of steps, by what they do to answers and to waiting.
Quiet == Cardinality(Answers') <= Cardinality(Answers) /\ Waiting' = Waiting

Asks(t) ==
  /\ Write(t)
  /\ Cardinality(Answers') <= Cardinality(Answers) + 1
  /\ link[conn] # "up" => Cardinality(Answers') <= Cardinality(Answers)
  /\ Cardinality(Waiting') = Cardinality(Waiting) + 1
  /\ Waiting' = Waiting \cup {t}

Gets(t) ==
  /\ \E k \in Conns : TakeAck(t, k)
  /\ Cardinality(Answers) > 0
  /\ Cardinality(Answers') <= Cardinality(Answers) - 1
  /\ Cardinality(Waiting') = Cardinality(Waiting) - 1
  /\ Waiting' = Waiting \ {t}

GivesUp(t) ==
  /\ TimeOut(t)
  /\ Cardinality(Answers) = 0 /\ Cardinality(Answers') = 0
  /\ Cardinality(Waiting') = Cardinality(Waiting) - 1
  /\ Waiting' = Waiting \ {t}

LEMMA WriteAsks ==
  ASSUME TypeOK, PlaceInv, ConnInv, MessageInv, NEW t \in Threads, Write(t)
  PROVE  Asks(t)
<1> DEFINE S == IF at[t].stage \in Connecting THEN ids[t] ELSE want
<1>1. /\ conn # 0 /\ at[t].step = "write"
      /\ at' = [at EXCEPT ![t] = Point(at[t].stage, "wait")]
      /\ IF link[conn] = "up"
         THEN \E reply \in SetToSeqs(S) :
                inbox' = [inbox EXCEPT ![conn] = Append(@, Ack) \o
                            [i \in DOMAIN reply |-> Update(reply[i])]]
         ELSE UNCHANGED inbox
  BY DEF Write, Goes
<1>2. S \in SUBSET Swaps /\ conn \in Conns
  BY <1>1 DEF TypeOK, Conns
<1> HIDE DEF S
<1>3. inbox \in [Conns -> Seq(Told)] /\ Cardinality(Answers) \in Nat
  BY AnswersFinite DEF MessageInv
<1>4. /\ Cardinality(Answers') <= Cardinality(Answers) + 1
      /\ link[conn] # "up" => Cardinality(Answers') <= Cardinality(Answers)
  <2>1. CASE link[conn] # "up"
    <3>1. UNCHANGED inbox
      BY <1>1, <2>1
    <3>2. Answers' = Answers
      BY <3>1, AnswersAreAcks
    <3> QED BY <1>3, <3>2
  <2>2. CASE link[conn] = "up"
    <3>1. PICK reply \in SetToSeqs(S) :
            inbox' = [inbox EXCEPT ![conn] = Append(@, Ack) \o
                        [i \in DOMAIN reply |-> Update(reply[i])]]
      BY <1>1, <2>2
    <3>2. /\ \A i \in DOMAIN inbox'[conn] : inbox'[conn][i] = Ack =>
               \/ i = Len(inbox[conn]) + 1
               \/ i \in DOMAIN inbox[conn] /\ inbox[conn][i] = Ack
          /\ \A j \in Conns : j # conn => inbox'[j] = inbox[j]
      BY <1>2, <3>1, Answered
    <3> DEFINE c == <<conn, Len(inbox[conn]) + 1>>
    <3>3. \A k \in Conns : \A i \in DOMAIN inbox'[k] :
            inbox'[k][i] = Ack =>
              \/ <<k, i>> = c
              \/ i \in DOMAIN inbox[k] /\ inbox[k][i] = Ack
      BY <3>2
    <3> HIDE DEF c
    <3>4. Cardinality(AcksOf(inbox')) <= Cardinality(AcksOf(inbox)) + 1
      <4> HIDE DEF Ack
      <4> QED BY <1>3, <3>3, OneMoreAck
    <3> QED BY <2>2, <3>4, AnswersAreAcks
  <2> QED BY <2>1, <2>2
<1>5. Only(t, Point(at[t].stage, "wait"))
  BY <1>1, OneMoves
<1>6. Waiting' = Waiting \cup {t} /\ t \notin Waiting
  BY <1>1, <1>5 DEF Waiting, Only, Point
<1>7. Cardinality(Waiting \cup {t}) = Cardinality(Waiting) + 1
  BY <1>6, WaitingFinite, FS_AddElement
<1> QED BY <1>4, <1>6, <1>7 DEF Asks

LEMMA TakeAckGets ==
  ASSUME TypeOK, PlaceInv, MessageInv, NEW t \in Threads, NEW k \in Conns,
         TakeAck(t, k)
  PROVE  Gets(t)
<1>1. /\ at[t].step = "wait" /\ inbox' = [inbox EXCEPT ![k] = Tail(@)]
  BY DEF TakeAck
<1>2. /\ t # k /\ InHand(k) = 1 /\ Head(inbox[k]) = Ack
      /\ at'[t] = AfterOk(t) /\ at'[k] = Point("read", "read")
      /\ at[k] = Point("read", "ack")
      /\ \A u \in Threads : u \notin {t, k} => at'[u] = at[u]
  BY Handed
<1>3. AfterOk(t).step # "wait"
  BY <1>1, AfterPlaces, CallerIsNoReader DEF Point, Idle
<1>4. \A u \in Threads : u # t => (at'[u].step = "wait" <=> at[u].step = "wait")
  <2> SUFFICES ASSUME NEW u \in Threads, u # t
               PROVE  at'[u].step = "wait" <=> at[u].step = "wait"
    OBVIOUS
  <2>1. CASE u = k
    BY <1>2, <2>1 DEF Point
  <2> QED BY <1>2, <2>1
<1>5. /\ Waiting' = Waiting \ {t} /\ t \in Waiting
      /\ Cardinality(Waiting') = Cardinality(Waiting) - 1
  BY <1>1, <1>2, <1>3, <1>4, WaitsNoMore
<1>6. /\ inbox[k] # <<>> /\ inbox'[k] = Tail(inbox[k])
      /\ \A j \in Conns : j # k => inbox'[j] = inbox[j]
  BY <1>1, <1>2, Takes
<1>7. inbox \in [Conns -> Seq(Told)]
  BY DEF MessageInv
<1>8. /\ Cardinality(AcksOf(inbox)) > 0
      /\ Cardinality(AcksOf(inbox')) <= Cardinality(AcksOf(inbox)) - 1
  <2> HIDE DEF Ack
  <2> QED BY <1>2, <1>6, <1>7, AckTaken
<1> QED BY <1>5, <1>8, AnswersAreAcks DEF Gets

LEMMA TimeOutGivesUp ==
  ASSUME TypeOK, PlaceInv, MessageInv, NEW t \in Threads, TimeOut(t),
         "late" \notin Faults
  PROVE  GivesUp(t)
<1>1. /\ at[t].step = "wait" /\ ~AckUnderWay /\ UNCHANGED inbox
      /\ at' = [at EXCEPT ![t] = AfterError(t)]
  BY DEF TimeOut, Goes, OnlyMoves, lightzd
<1>2. ~Stopped
  BY <1>1, CallerIsNoReader DEF PlaceInv, Stopped, Dead, Point
<1>3. Cardinality(Answers) = 0
  BY <1>1, <1>2, NoneUnderWay
<1>4. Answers' = Answers
  BY <1>1, AnswersAreAcks
<1>5. Only(t, AfterError(t))
  BY <1>1, OneMoves
<1>6. AfterError(t).step # "wait"
  BY <1>1, AfterPlaces, CallerIsNoReader DEF Point, Idle
<1>7. /\ Waiting' = Waiting \ {t}
      /\ Cardinality(Waiting') = Cardinality(Waiting) - 1
  BY <1>1, <1>5, <1>6, WaitsNoMore DEF Only
<1> QED BY <1>3, <1>4, <1>7 DEF GivesUp

\* All the other steps are quiet.
LEMMA AnswerSteps ==
  ASSUME TypeOK, PlaceInv, ConnInv, MessageInv, Goroutines, ~Stopped',
         "late" \notin Faults
  PROVE  Quiet \/ \E t \in Threads : Asks(t) \/ Gets(t) \/ GivesUp(t)
<1> USE CallerIsNoReader
<1>0. Cardinality(Answers) \in Nat /\ inbox \in [Conns -> Seq(Told)]
  BY AnswersFinite DEF MessageInv
<1>1. ASSUME UNCHANGED inbox PROVE Cardinality(Answers') <= Cardinality(Answers)
  <2>1. Answers' = Answers
    BY <1>1, AnswersAreAcks
  <2> QED BY <1>0, <2>1
<1>2. ASSUME NEW S \in SUBSET Swaps, Subscribe(S) PROVE Quiet
  <2>1. PICK P \in {Point("connect", "dial"), Point("first", "write")} :
          at' = [at EXCEPT ![Caller] = P]
    BY <1>2 DEF Subscribe, Goes
  <2>2. at[Caller].step # "wait" /\ P.step # "wait" /\ UNCHANGED inbox
    BY <1>2, <2>1 DEF Subscribe, Idle, Point
  <2> QED BY <1>1, <2>1, <2>2, WaitingStill DEF Quiet
<1>3. ASSUME NEW t \in Threads,
             Dial(t) \/ DialFails(t) \/ Copy(t) \/ WriteFails(t)
      PROVE  Quiet
  <2>1. /\ at[t].step \in {"dial", "copy", "write"} /\ UNCHANGED inbox
        /\ \/ at' = [at EXCEPT ![t] = Point(at[t].stage, "dialed")]
           \/ at' = [at EXCEPT ![t] = AfterError(t)]
           \/ at' = [at EXCEPT ![t] = IF swapIds = {} THEN AfterOk(t)
                                      ELSE Point(at[t].stage, "write")]
    BY <1>3 DEF Dial, DialFails, Copy, WriteFails, Goes, OnlyMoves, lightzd
  <2>2. {AfterOk(t).step, AfterError(t).step} \subseteq
          {"write", "append", "idle", "close", "sleep"}
    BY <2>1, AfterPlaces DEF Idle, Point
  <2>3. PICK P : at' = [at EXCEPT ![t] = P] /\
                 P.step \in {"dialed", "write", "append", "idle", "close",
                             "sleep"}
    BY <2>1, <2>2 DEF Point
  <2> QED BY <1>1, <2>1, <2>3, WaitingStill DEF Quiet
<1>4. ASSUME AppendIds PROVE Quiet
  <2>1. /\ at[Caller].step = "append" /\ UNCHANGED inbox
        /\ at' = [at EXCEPT ![Caller] = Idle]
    BY <1>4 DEF AppendIds, Goes, lightzd
  <2>2. Idle.step # "wait"
    BY DEF Idle, Point
  <2> QED BY <1>1, <2>1, <2>2, WaitingStill DEF Quiet
<1>5. ASSUME NEW k \in Conns,
             \/ Read(k) \/ ReadFails(k) \/ ReaderEnds(k) \/ ReaderGoesOn(k)
             \/ SetNil(k) \/ Wake(k) \/ Lock(k)
      PROVE  Quiet
  <2>1. UNCHANGED inbox
    BY <1>5 DEF Read, ReadFails, ReaderEnds, ReaderGoesOn, SetNil, Wake, Lock,
                OnlyMoves, lightzd
  <2>2. at[k].step \in {"read", "lock", "failed", "drop", "sleep"}
    BY <1>5 DEF Read, ReadFails, ReaderEnds, ReaderGoesOn, SetNil, Wake, Lock,
                At, Point
  <2>3. PICK P \in {Idle, Point("read", "lock"), Point("read", "failed"),
                    Point("read", "drop"), Point("redial", "sleep"),
                    Point("redial", "dial"), Point("read", "ack"),
                    Point("read", "send")} :
          at' = [at EXCEPT ![k] = P]
    BY <1>5 DEF Read, ReadFails, ReaderEnds, ReaderGoesOn, SetNil, Wake, Lock,
                Goes
  <2>4. P.step # "wait"
    BY <2>3 DEF Idle, Point
  <2> QED BY <1>1, <2>1, <2>2, <2>3, <2>4, WaitingStill DEF Quiet
<1>6. ASSUME NEW k \in Conns, Send(k) PROVE Quiet
  <2>1. /\ at[k].step = "send" /\ inbox' = [inbox EXCEPT ![k] = Tail(@)]
        /\ at' = [at EXCEPT ![k] = Point("read", "read")]
    BY <1>6 DEF Send, Goes, At, Point
  <2>2. InHand(k) = 1 /\ Point("read", "read").step # "wait"
    BY <2>1 DEF InHand, Point
  <2>3. /\ inbox[k] # <<>> /\ inbox'[k] = Tail(inbox[k])
        /\ \A j \in Conns : j # k => inbox'[j] = inbox[j]
    BY <2>1, <2>2, Takes
  <2>4. Cardinality(AcksOf(inbox')) <= Cardinality(AcksOf(inbox))
    <3> HIDE DEF Ack
    <3> QED BY <1>0, <2>3, AckTaken
  <2> QED BY <2>1, <2>2, <2>4, WaitingStill, AnswersAreAcks DEF Quiet
<1>7. ASSUME NEW t \in Threads, SetConn(t) PROVE Quiet
  <2>1. UNCHANGED inbox /\ at[t].step = "dialed"
    BY <1>7 DEF SetConn, lightzd
  <2>2. /\ at'[t] = Point(at[t].stage, "copy") /\ at[used'] = Idle
        /\ at'[used'] = Point("read", "read")
        /\ \A u \in Threads : u \notin {t, used'} => at'[u] = at[u]
    BY <1>7, Connects
  <2>3. \A u \in Threads : at'[u].step = "wait" <=> at[u].step = "wait"
    <3> SUFFICES ASSUME NEW u \in Threads
                 PROVE  at'[u].step = "wait" <=> at[u].step = "wait"
      OBVIOUS
    <3>1. CASE u = t
      BY <2>1, <2>2, <3>1 DEF Point
    <3>2. CASE u = used'
      BY <2>2, <3>2 DEF Point, Idle
    <3> QED BY <2>2, <3>1, <3>2
  <2> QED BY <1>1, <2>1, <2>3, WaitingSame DEF Quiet
<1>8. ASSUME Reconnect \/ Consume \/ Close PROVE Quiet
  <2>1. UNCHANGED inbox \/ CloseConn("closed") \/ CloseConn("left")
    BY <1>8 DEF Reconnect, Consume, Unsubscribe, Close
  <2>2. Cardinality(Answers') <= Cardinality(Answers)
    BY <1>1, <2>1, Closes, CutAcks
  <2>3. \/ at' = at
        \/ /\ at[Caller].step = "close"
           /\ at' = [at EXCEPT ![Caller] = Point("reconnect", "dial")]
    BY <1>8 DEF Reconnect, Consume, Close, Goes
  <2>4. Point("reconnect", "dial").step # "wait"
    BY DEF Point
  <2>5. Waiting' = Waiting
    BY <2>3, <2>4, WaitingStill, WaitingSame
  <2> QED BY <2>2, <2>5 DEF Quiet
<1>9. ASSUME NEW k \in Conns, Lose(k) PROVE Quiet
  <2>1. at' = at
    BY <1>9 DEF Lose
  <2> QED BY <1>9, <2>1, Cuts, CutAcks, WaitingSame DEF Quiet, Lose
<1>10. ASSUME NEW s \in Swaps, Report(s) PROVE Quiet
  <2> DEFINE m == [Update(s) EXCEPT !.status = @ + 1]
  <2>1. /\ at' = at
        /\ inbox' = [k \in Conns |->
                       IF link[k] = "up" /\ s \in subs[k]
                       THEN Append(inbox[k], m) ELSE inbox[k]]
    BY <1>10 DEF Report, client
  <2>2. m # Ack
    BY DEF Update, Ack
  <2> HIDE DEF m
  <2>3. ASSUME NEW k \in Conns, NEW i \in DOMAIN inbox'[k], inbox'[k][i] = Ack
        PROVE  i \in DOMAIN inbox[k] /\ inbox[k][i] = Ack
    <3>1. inbox'[k] = IF link[k] = "up" /\ s \in subs[k]
                      THEN Append(inbox[k], m) ELSE inbox[k]
      BY <2>1
    <3>2. CASE inbox'[k] = inbox[k]
      BY <2>3, <3>2
    <3>3. CASE inbox'[k] = Append(inbox[k], m)
      <4> DEFINE T == Told \cup {m}
      <4>1. inbox[k] \in Seq(T) /\ m \in T
        BY <1>0, SeqMonotonic
      <4> HIDE DEF T
      <4>2. /\ Append(inbox[k], m) \in Seq(T)
            /\ Len(Append(inbox[k], m)) = Len(inbox[k]) + 1
            /\ \A j \in 1 .. Len(inbox[k]) : Append(inbox[k], m)[j] = inbox[k][j]
            /\ Append(inbox[k], m)[Len(inbox[k]) + 1] = m
        BY <4>1, AppendMessage
      <4>3. /\ DOMAIN inbox'[k] = 1 .. Len(inbox[k]) + 1
            /\ DOMAIN inbox[k] = 1 .. Len(inbox[k]) /\ Len(inbox[k]) \in Nat
        BY <3>3, <4>1, <4>2, LenProperties
      <4>4. i # Len(inbox[k]) + 1
        <5> HIDE DEF Ack
        <5> QED BY <2>2, <2>3, <3>3, <4>2
      <4>5. i \in 1 .. Len(inbox[k])
        BY <4>3, <4>4
      <4> QED BY <2>3, <3>3, <4>2, <4>3, <4>5
    <3>4. inbox'[k] = inbox[k] \/ inbox'[k] = Append(inbox[k], m)
      BY <3>1
    <3> QED BY <3>2, <3>3, <3>4
  <2>4. Cardinality(AcksOf(inbox')) <= Cardinality(AcksOf(inbox))
    <3> HIDE DEF Ack
    <3> QED BY <1>0, <2>3, FewerAcks
  <2> QED BY <2>1, <2>4, WaitingSame, AnswersAreAcks DEF Quiet
<1>11. ASSUME NEW t \in Threads, CallerStep(t)
       PROVE  Quiet \/ Asks(t) \/ Gets(t) \/ GivesUp(t)
  BY <1>3, <1>7, <1>11, WriteAsks, TakeAckGets, TimeOutGivesUp DEF CallerStep
<1>12. ASSUME NEW k \in Conns, SendPanics(k) PROVE FALSE
  BY <1>12 DEF SendPanics, Stopped
<1>13. ASSUME NEW k \in Conns, ReaderStep(k) PROVE Quiet
  BY <1>5, <1>6, <1>12, <1>13 DEF ReaderStep
<1> QED BY <1>2, <1>4, <1>8, <1>9, <1>10, <1>11, <1>13 DEF Goroutines

LEMMA AnswerKeeps ==
  ASSUME TypeOK, PlaceInv, ConnInv, MessageInv, AnswerInv, Goroutines, TypeOK',
         PlaceInv', "late" \notin Faults
  PROVE  AnswerInv'
<1>1. SUFFICES ASSUME ~Stopped'
               PROVE  Cardinality(Answers') <= Cardinality(Waiting')
  BY DEF AnswerInv
<1>2. ~Stopped
  <2>1. ASSUME Stopped PROVE Stopped'
    <3>1. \A t \in Threads : at[t] = Dead
      BY <2>1, CallerIsNoReader DEF PlaceInv, Stopped
    <3>2. \A k \in Conns : at'[k] = Dead
      <4> SUFFICES ASSUME NEW k \in Conns PROVE at'[k] = Dead
        OBVIOUS
      <4>1. used \in Nat
        BY DEF TypeOK, Conns
      <4>2. ASSUME NEW t \in Threads, SetConn(t) PROVE FALSE
        BY <2>1, <4>2, Connects
      <4>3. at[k] = Dead /\ (at'[k] = at[k] \/ at'[k] = Dead \/ used' > used)
        BY <3>1, ReaderMoves, CallerIsNoReader
      <4>4. used' = used
        BY <4>2 DEF Goroutines, CallerStep, ReaderStep, Subscribe,
             DialFails, Dial, Copy, Write, WriteFails, TakeAck, TimeOut,
             AppendIds, Reconnect, Read, ReadFails, ReaderEnds, ReaderGoesOn,
             SetNil, Wake, Lock, Send, SendPanics, Lose, Consume, Close,
             Report, OnlyMoves, client
      <4> QED BY <4>1, <4>3, <4>4
    <3>3. 1 \in Conns
      BY WebsocketAssumption DEF Conns
    <3> QED BY <3>2, <3>3 DEF PlaceInv
  <2> QED BY <1>1, <2>1
<1>3. /\ Cardinality(Answers) <= Cardinality(Waiting)
      /\ Cardinality(Answers) \in Nat /\ Cardinality(Answers') \in Nat
      /\ Cardinality(Waiting) \in Nat /\ Cardinality(Waiting') \in Nat
  <2>1. Cardinality(Answers)' \in Nat
    <3>1. inbox' \in [Conns -> Seq(Messages)]
      BY DEF TypeOK
    <3> QED BY <3>1, AcksFinite, AnswersAreAcks
  <2> QED BY <1>2, <2>1, AnswersFinite, WaitingFinite DEF AnswerInv
<1>4. CASE Quiet
  BY <1>3, <1>4 DEF Quiet
<1>5. ASSUME NEW t \in Threads, Asks(t) \/ Gets(t) \/ GivesUp(t)
      PROVE  Cardinality(Answers') <= Cardinality(Waiting')
  BY <1>3, <1>5 DEF Asks, Gets, GivesUp
<1> QED BY <1>1, <1>4, <1>5, AnswerSteps
-----------------------------------------------------------------------------
(***************************************************************************)
(* Who takes the step.                                                     *)
(***************************************************************************)
Moves(t) ==
  \/ CallerStep(t)
  \/ /\ t = Caller
     /\ (\E S \in SUBSET Swaps : Subscribe(S)) \/ AppendIds \/ Reconnect
  \/ /\ t \in Conns
     /\ \/ ReaderStep(t)
        \/ \E u \in Threads : TakeAck(u, t)
        \/ t = used' /\ \E u \in Threads : SetConn(u)

LEMMA WhoMoves ==
  ASSUME TypeOK, PlaceInv, ConnInv, MessageInv, Goroutines, ~Stopped',
         NEW t \in Threads
  PROVE  Moves(t) \/ (at'[t] = at[t] /\ ids'[t] = ids[t])
<1> USE CallerIsNoReader
<1> DEFINE Stays(u) == at'[u] = at[u] /\ ids'[u] = ids[u]
<1>0. ids \in [Threads -> SUBSET Swaps]
  BY DEF TypeOK
<1>1. ASSUME NEW u \in Threads, NEW P, at' = [at EXCEPT ![u] = P],
             \/ UNCHANGED ids
             \/ \E I : ids' = [ids EXCEPT ![u] = I],
             t # u
      PROVE  Stays(t)
  BY <1>0, <1>1, OneMoves DEF Only
<1>2. ASSUME NEW u \in Threads, CallerStep(u), t # u PROVE Moves(t) \/ Stays(t)
  <2>1. ASSUME Dial(u) \/ DialFails(u) \/ Copy(u) \/ Write(u) \/ WriteFails(u)
                 \/ TimeOut(u)
        PROVE  Stays(t)
    <3>1. /\ \E P : at' = [at EXCEPT ![u] = P]
          /\ \/ UNCHANGED ids
             \/ \E I : ids' = [ids EXCEPT ![u] = I]
      BY <2>1 DEF Dial, DialFails, Copy, Write, WriteFails, TimeOut, Goes,
                  OnlyMoves
    <3> QED BY <1>1, <1>2, <3>1
  <2>2. ASSUME SetConn(u), t # used' PROVE Stays(t)
    <3>1. UNCHANGED ids
      BY <2>2 DEF SetConn
    <3> QED BY <1>2, <2>2, <3>1, Connects
  <2>3. ASSUME NEW k \in Conns, TakeAck(u, k), t # k PROVE Stays(t)
    <3>1. UNCHANGED ids
      BY <2>3 DEF TakeAck
    <3> QED BY <1>2, <2>3, <3>1, Handed
  <2>4. ASSUME SetConn(u), t = used' PROVE Moves(t)
    BY <2>4, Connects DEF Moves
  <2>5. ASSUME NEW k \in Conns, TakeAck(u, k), t = k PROVE Moves(t)
    BY <2>5 DEF Moves
  <2> HIDE DEF Stays
  <2> QED BY <1>2, <2>1, <2>2, <2>3, <2>4, <2>5 DEF CallerStep
<1>3. ASSUME NEW k \in Conns, ReaderStep(k), t # k PROVE Stays(t)
  <2>1. ~SendPanics(k)
    BY DEF SendPanics, Stopped
  <2>2. UNCHANGED ids /\ \E P : at' = [at EXCEPT ![k] = P]
    <3>1. CASE Read(k) \/ ReadFails(k) \/ ReaderEnds(k) \/ ReaderGoesOn(k)
      BY <3>1 DEF Read, ReadFails, ReaderEnds, ReaderGoesOn, Goes, OnlyMoves
    <3>2. CASE SetNil(k) \/ Wake(k)
      BY <3>2 DEF SetNil, Wake, Goes, OnlyMoves
    <3>3. CASE Lock(k) \/ Send(k)
      BY <3>3 DEF Lock, Send, Goes
    <3> QED BY <1>3, <2>1, <3>1, <3>2, <3>3 DEF ReaderStep
  <2> QED BY <1>1, <1>3, <2>2
<1>4. ASSUME \/ \E S \in SUBSET Swaps : Subscribe(S)
             \/ AppendIds \/ Reconnect,
             t # Caller
      PROVE  Stays(t)
  <2>1. UNCHANGED ids /\ \E P : at' = [at EXCEPT ![Caller] = P]
    BY <1>4 DEF Subscribe, AppendIds, Reconnect, Goes
  <2> QED BY <1>1, <1>4, <2>1
<1>5. ASSUME \/ Consume \/ Close
             \/ \E k \in Conns : Lose(k)
             \/ \E s \in Swaps : Report(s)
      PROVE  Stays(t)
  BY <1>5 DEF Consume, Close, Lose, Report, client
<1> HIDE DEF Stays
<1>6. Moves(t) \/ Stays(t)
  <2>1. ASSUME NEW u \in Threads, CallerStep(u) PROVE Moves(t) \/ Stays(t)
    BY <1>2, <2>1 DEF Moves
  <2>2. ASSUME NEW k \in Conns, ReaderStep(k) PROVE Moves(t) \/ Stays(t)
    BY <1>3, <2>2 DEF Moves
  <2>3. ASSUME \/ \E S \in SUBSET Swaps : Subscribe(S)
               \/ AppendIds \/ Reconnect
        PROVE  Moves(t) \/ Stays(t)
    BY <1>4, <2>3 DEF Moves
  <2> QED BY <1>5, <2>1, <2>2, <2>3 DEF Goroutines
<1> QED BY <1>6 DEF Stays

\* Where a reader that reads gets to.
Reads == {"read", "lock", "ack", "send"}

LEMMA ReaderGoes ==
  ASSUME TypeOK, PlaceInv, ConnInv, MessageInv, Goroutines, ~Stopped',
         NEW k \in Conns
  PROVE  /\ at[k].step \in Reads =>
              \/ at'[k].step \in Reads
              \/ /\ at'[k].step = "failed" /\ link[k] # "up"
                 /\ link' = link /\ conn' = conn /\ used' = used
         /\ at[k].step = "failed" =>
              \/ at'[k].step = "failed"
              \/ at'[k].step = "drop" /\ conn' = conn
              \/ conn = 0
         /\ at[k].step = "drop" =>
              at'[k].step = "drop" \/ at'[k] = Point("redial", "sleep")
         /\ at[k].stage = "redial" /\ at[k].step \in {"sleep", "dial", "dialed"}
              => \/ /\ at'[k].stage = "redial"
                    /\ at'[k].step \in {"sleep", "dial", "dialed"}
                 \/ SetConn(k)
<1> USE CallerIsNoReader
<1>1. CASE at'[k] = at[k]
  BY <1>1
<1>2. CASE Read(k) \/ Lock(k) \/ Send(k)
  <2>1. PICK P \in {"lock", "ack", "send", "read"} :
          at' = [at EXCEPT ![k] = Point("read", P)]
    BY <1>2 DEF Read, Lock, Send, Goes
  <2>2. at'[k] = Point("read", P)
    BY <2>1, OneMoves DEF Only
  <2>3. at[k].step \in {"read", "lock", "send"}
    BY <1>2 DEF Read, Lock, Send, At, Point
  <2> QED BY <2>2, <2>3 DEF Reads, Point
<1>3. CASE ReadFails(k)
  <2>1. /\ at[k] = Point("read", "read") /\ link[k] # "up"
        /\ at' = [at EXCEPT ![k] = Point("read", "failed")]
        /\ UNCHANGED <<link, conn, used>>
    BY <1>3 DEF ReadFails, At, Goes, OnlyMoves
  <2>2. at'[k] = Point("read", "failed")
    BY <2>1, OneMoves DEF Only
  <2> QED BY <2>1, <2>2 DEF Point
<1>4. CASE ReaderEnds(k)
  <2>1. at[k] = Point("read", "failed") /\ conn = 0
    BY <1>4 DEF ReaderEnds, At
  <2> QED BY <2>1 DEF Point, Reads
<1>5. CASE ReaderGoesOn(k)
  <2>1. /\ at[k] = Point("read", "failed") /\ conn' = conn
        /\ at' = [at EXCEPT ![k] = Point("read", "drop")]
    BY <1>5 DEF ReaderGoesOn, At, Goes, OnlyMoves
  <2>2. at'[k] = Point("read", "drop")
    BY <2>1, OneMoves DEF Only
  <2> QED BY <2>1, <2>2 DEF Point, Reads
<1>6. CASE SetNil(k)
  <2>1. /\ at[k] = Point("read", "drop")
        /\ at' = [at EXCEPT ![k] = Point("redial", "sleep")]
    BY <1>6 DEF SetNil, At, Goes
  <2>2. at'[k] = Point("redial", "sleep")
    BY <2>1, OneMoves DEF Only
  <2> QED BY <2>1, <2>2 DEF Point, Reads
<1>7. CASE Wake(k)
  <2>1. /\ at[k] = Point("redial", "sleep")
        /\ at' = [at EXCEPT ![k] = Point("redial", "dial")]
    BY <1>7 DEF Wake, At, Goes
  <2>2. at'[k] = Point("redial", "dial")
    BY <2>1, OneMoves DEF Only
  <2> QED BY <2>1, <2>2 DEF Point, Reads
<1>8. CASE SendPanics(k)
  BY <1>8 DEF SendPanics, Stopped
<1>9. CASE Dial(k)
  <2>1. /\ at[k].step = "dial"
        /\ at' = [at EXCEPT ![k] = Point(at[k].stage, "dialed")]
    BY <1>9 DEF Dial, Goes
  <2>2. at'[k] = Point(at[k].stage, "dialed")
    BY <2>1, OneMoves DEF Only
  <2> QED BY <2>1, <2>2 DEF Point, Reads
<1>10. CASE DialFails(k)
  <2>1. /\ at[k].step = "dial"
        /\ at' = [at EXCEPT ![k] = AfterError(k)]
    BY <1>10 DEF DialFails, Goes
  <2>2. at'[k] = Point("redial", "sleep")
    BY <2>1, OneMoves, AfterPlaces DEF Only
  <2> QED BY <2>1, <2>2 DEF Point, Reads
<1>11. CASE Copy(k) \/ Write(k) \/ WriteFails(k) \/ TimeOut(k)
              \/ \E j \in Conns : TakeAck(k, j)
  <2>1. at[k].step \in {"copy", "write", "wait"}
    BY <1>11 DEF Copy, Write, WriteFails, TimeOut, TakeAck
  <2> QED BY <2>1 DEF Reads
<1>12. CASE SetConn(k)
  <2>1. at[k].step = "dialed"
    BY <1>12 DEF SetConn
  <2> QED BY <1>12, <2>1 DEF Reads
<1>13. ASSUME NEW u \in Threads, TakeAck(u, k)
       PROVE  at[k].step \in Reads /\ at'[k].step \in Reads /\ at[k].stage = "read"
  BY <1>13, Handed DEF Reads, Point
<1>14. ASSUME NEW u \in Threads, SetConn(u), k = used' PROVE at[k] = Idle
  BY <1>14, Connects
<1>15. CASE at[k] = Idle
  BY <1>15 DEF Idle, Point, Reads
<1>16. CASE at[k].step \in Reads /\ at'[k].step \in Reads /\ at[k].stage = "read"
  BY <1>16 DEF Reads
<1>17. \/ at'[k] = at[k] \/ CallerStep(k) \/ ReaderStep(k)
       \/ \E u \in Threads : TakeAck(u, k)
       \/ k = used' /\ \E u \in Threads : SetConn(u)
  BY WhoMoves DEF Moves
<1>18. CASE CallerStep(k)
  BY <1>9, <1>10, <1>11, <1>12, <1>18 DEF CallerStep
<1>19. CASE ReaderStep(k)
  BY <1>2, <1>3, <1>4, <1>5, <1>6, <1>7, <1>8, <1>19 DEF ReaderStep
<1> QED BY <1>1, <1>13, <1>14, <1>15, <1>16, <1>17, <1>18, <1>19

LEMMA Steps ==
  ASSUME TypeOK, PlaceInv, ConnInv, MessageInv, Goroutines, ~Stopped',
         NEW t \in Threads
  PROVE  /\ at[t].step = "copy" => at'[t] = at[t] \/ Copy(t)
         /\ at[t].step = "write" =>
              \/ at'[t] = at[t] /\ ids'[t] = ids[t]
              \/ Write(t) \/ WriteFails(t)
         /\ at[t].step = "wait" =>
              \/ at'[t] = at[t] \/ TimeOut(t)
              \/ \E k \in Conns : TakeAck(t, k)
         /\ at[t].step = "dial" => at'[t] = at[t] \/ Dial(t) \/ DialFails(t)
         /\ at[t].step = "dialed" => at'[t] = at[t] \/ SetConn(t)
         /\ at[t].step = "append" => at'[t] = at[t] \/ AppendIds
         /\ at[t].step = "close" => at'[t] = at[t] \/ Reconnect
         /\ at[t] = Idle /\ t = Caller =>
              at'[t] = at[t] \/ \E S \in SUBSET Swaps : Subscribe(S)
<1>1. CallerStep(t) =>
        \/ at[t].step = "dial" /\ (Dial(t) \/ DialFails(t))
        \/ at[t].step = "dialed" /\ SetConn(t)
        \/ at[t].step = "copy" /\ Copy(t)
        \/ at[t].step = "write" /\ (Write(t) \/ WriteFails(t))
        \/ at[t].step = "wait" /\ TimeOut(t)
        \/ at[t].step = "wait" /\ \E k \in Conns : TakeAck(t, k)
  BY DEF CallerStep, Dial, DialFails, SetConn, Copy, Write, WriteFails, TimeOut,
         TakeAck
<1>2. ReaderStep(t) =>
        at[t].step \in {"read", "lock", "send", "failed", "drop", "sleep"}
  BY DEF ReaderStep, Read, ReadFails, ReaderEnds, ReaderGoesOn, SetNil, Wake,
         Lock, Send, SendPanics, At, Point
<1>3. \A S : Subscribe(S) => at[Caller] = Idle
  BY DEF Subscribe
<1>4. /\ AppendIds => at[Caller].step = "append"
      /\ Reconnect => at[Caller].step = "close"
  BY DEF AppendIds, Reconnect
<1>5. (\E u \in Threads : TakeAck(u, t)) => at[t].step = "ack"
  BY DEF TakeAck, Point
<1>6. t = used' /\ (\E u \in Threads : SetConn(u)) => at[t] = Idle /\ t \in Conns
  BY Connects
<1>7. Idle.step = "idle"
  BY DEF Idle, Point
<1>8. Moves(t) \/ (at'[t] = at[t] /\ ids'[t] = ids[t])
  BY WhoMoves
<1> QED BY <1>1, <1>2, <1>3, <1>4, <1>5, <1>6, <1>7, <1>8, CallerIsNoReader
      DEF Moves

LEMMA ClosedStays ==
  ASSUME PlaceInv, PlaceInv', Goroutines, ~closed'
  PROVE  /\ ~closed /\ ~Stopped /\ ~Stopped'
         /\ ~Close /\ \A k \in Conns : ~SendPanics(k)
<1>1. closed => closed'
  <2>1. ASSUME closed PROVE closed'
    <3>1. closed' = closed \/ closed' = TRUE
      BY DEF Goroutines, CallerStep, ReaderStep, Subscribe, DialFails, Dial,
         SetConn, Copy, Write, WriteFails, TakeAck, TimeOut, AppendIds,
         Reconnect, Read, ReadFails, ReaderEnds, ReaderGoesOn, SetNil, Wake,
         Lock, Send, SendPanics, Lose, Consume, Close, Report, OnlyMoves,
         client
    <3> QED BY <2>1, <3>1, Zenon
  <2> QED BY <2>1
<1>2. ~closed /\ ~Stopped /\ ~Stopped'
  BY <1>1 DEF PlaceInv
<1>3. ~Close
  BY DEF Close
<1>4. \A k \in Conns : ~SendPanics(k)
  BY <1>2 DEF SendPanics
<1> QED BY <1>2, <1>3, <1>4

LEMMA SubsGrow ==
  ASSUME TypeOK, Goroutines
  PROVE  \A k \in Conns : subs[k] \subseteq subs'[k]
<1>1. UNCHANGED subs \/ \E t \in Threads : Write(t)
  BY DEF Goroutines, CallerStep, ReaderStep, Subscribe, DialFails, Dial,
         SetConn, Copy, WriteFails, TakeAck, TimeOut, AppendIds,
         Reconnect, Read, ReadFails, ReaderEnds, ReaderGoesOn, SetNil, Wake,
         Lock, Send, SendPanics, Lose, Consume, Close, Report, OnlyMoves,
         lightzd
<1>2. ASSUME NEW t \in Threads, Write(t)
      PROVE  \A k \in Conns : subs[k] \subseteq subs'[k]
  <2>1. \/ UNCHANGED subs
        \/ \E S : subs' = [subs EXCEPT ![conn] = @ \cup S]
    BY <1>2 DEF Write
  <2>2. subs \in [Conns -> SUBSET Swaps]
    BY DEF TypeOK
  <2> QED BY <2>1, <2>2
<1> QED BY <1>1, <1>2

LEMMA LeftStays ==
  ASSUME TypeOK, PlaceInv, ConnInv, MessageInv, Goroutines, NEW s \in Swaps,
         LeftWith(s)
  PROVE  LeftWith(s)'
<1>1. PICK k \in Conns : /\ link[k] = "left"
                         /\ \E j \in Conns : j <= k /\ s \in subs[j]
  BY DEF LeftWith
<1>2. link'[k] = "left"
  <2>1. k # conn
    BY <1>1 DEF ConnInv, Conns
  <2>2. k <= used /\ used \in Nat /\ k \in Nat
    BY <1>1 DEF TypeOK, Conns
  <2>3. used' \in Nat /\ (used' > used => used' = used + 1)
    BY <2>2, LinkMoves
  <2> QED BY <1>1, <2>1, <2>2, <2>3, LinkMoves
<1> QED BY <1>1, <1>2, SubsGrow DEF LeftWith

LEMMA RedialStays ==
  ASSUME TypeOK, PlaceInv, ConnInv, MessageInv, Goroutines, ~Stopped', Redialing
  PROVE  Redialing' \/ \E t \in Threads : SetConn(t)
<1>1. PICK k \in Conns :
        at[k].stage = "redial" /\ at[k].step \in {"sleep", "dial", "dialed"}
  BY DEF Redialing
<1> QED BY <1>1, ReaderGoes, CallerIsNoReader DEF Redialing

\* The reader of the connection in use.
LEMMA InUse ==
  ASSUME TypeOK, PlaceInv, ConnInv, ~Stopped, conn # 0
  PROVE  /\ conn \in Conns /\ conn = used /\ link[conn] \in {"up", "lost"}
         /\ at[conn].stage = "read"
         /\ at[conn].step \in Reads \cup {"failed", "drop"}
<1>1. /\ conn \in Conns /\ conn = used /\ link[conn] \in {"up", "lost"}
      /\ at[conn].stage = "read"
  BY DEF TypeOK, Conns, ConnInv
<1>2. at[conn].step \in Reads \cup {"failed", "drop"}
  BY <1>1, PlaceOf, CallerIsNoReader DEF Reads
<1> QED BY <1>1, <1>2

\* A lost connection in use is noticed by its reader.
Noticed ==
  \/ \E t \in Threads : at[t].step = "drop"
  \/ \E k \in Conns :
       at[k].step \in Reads \cup {"failed"} /\ link[k] = "lost" /\ conn # 0

LEMMA LossNoticed ==
  ASSUME TypeOK, PlaceInv, ConnInv, ~Stopped, conn # 0, link[conn] # "up"
  PROVE  Noticed
<1>1. /\ conn \in Conns /\ link[conn] = "lost"
      /\ at[conn].step \in Reads \cup {"failed", "drop"}
  BY InUse
<1> QED BY <1>1, CallerIsNoReader DEF Noticed

LEMMA AliveServed ==
  ASSUME PlaceInv, MessageInv, NEW s, Alive(s), conn # 0
  PROVE  Heard(s) \/ Noticed
<1>1. PICK k \in Conns : /\ at[k].stage = "read" /\ s \in subs[k]
                         /\ link[k] \in {"up", "lost"}
  BY DEF Alive
<1>2. at[k].step \in {"read", "lock", "ack", "send", "failed", "drop"}
  BY <1>1, PlaceOf, CallerIsNoReader
<1>3. CASE at[k].step \in {"read", "lock", "ack", "send"}
  BY <1>1, <1>3 DEF Heard
<1>4. CASE at[k].step = "failed"
  <2>1. link[k] = "lost"
    BY <1>1, <1>4 DEF MessageInv
  <2> QED BY <1>4, <2>1 DEF Noticed
<1>5. CASE at[k].step = "drop"
  BY <1>5, CallerIsNoReader DEF Noticed
<1> QED BY <1>2, <1>3, <1>4, <1>5

LEMMA ServedBy ==
  ASSUME NEW s
  PROVE  /\ Served(s) <=>
              \/ link[used] \in {"closed", "left"} \/ LeftWith(s) \/ Heard(s)
              \/ Redialing \/ Noticed
              \/ \E t \in Threads :
                   \/ at[t].step = "copy"
                   \/ /\ at[t].stage \in Connecting /\ at[t].step = "write"
                      /\ s \in ids[t]
         /\ Served(s)' <=>
              \/ link'[used'] \in {"closed", "left"} \/ LeftWith(s)' \/ Heard(s)'
              \/ Redialing' \/ Noticed'
              \/ \E t \in Threads :
                   \/ at'[t].step = "copy"
                   \/ /\ at'[t].stage \in Connecting /\ at'[t].step = "write"
                      /\ s \in ids'[t]
  BY DEF Served, Noticed, Reads

-----------------------------------------------------------------------------
(***************************************************************************)
(* What keeps the client from being deaf lasts, or something else does.    *)
(***************************************************************************)
\* The client has no connection any more.
LEMMA ConnGoes ==
  ASSUME TypeOK, PlaceInv, ConnInv, MessageInv, Goroutines, conn # 0, conn' = 0
  PROVE  /\ used' = used
         /\ \/ \E k \in Conns : SetNil(k)
            \/ (Reconnect \/ Close) /\ link'[used'] = "closed"
            \/ Consume /\ link'[used'] = "left"
<1>1. used' = used
  <2>1. used \in Nat /\ used + 1 # 0
    BY DEF TypeOK, Conns
  <2> QED BY <2>1, LinkMoves
<1>2. ASSUME NEW how \in {"closed", "left"}, CloseConn(how)
      PROVE  link'[used'] = how
  BY <1>1, <1>2, Closes
<1>3. CASE Reconnect \/ Close
  <2>1. CloseConn("closed")
    BY <1>3 DEF Reconnect, Close
  <2> QED BY <1>1, <1>2, <1>3, <2>1
<1>4. CASE Consume
  <2>1. CloseConn("left")
    BY <1>4 DEF Consume, Unsubscribe
  <2> QED BY <1>1, <1>2, <1>4, <2>1
<1>5. \/ UNCHANGED conn \/ used' = used + 1
      \/ Reconnect \/ Consume \/ Close \/ \E k \in Conns : SetNil(k)
  BY DEF Goroutines, CallerStep, ReaderStep, Subscribe, DialFails, Dial,
         SetConn, Copy, Write, WriteFails, TakeAck, TimeOut, AppendIds, Read,
         ReadFails, ReaderEnds, ReaderGoesOn, Wake, Lock, Send, SendPanics,
         Lose, Report, OnlyMoves, client
<1>6. used' # used + 1
  BY <1>1 DEF TypeOK, Conns
<1> QED BY <1>1, <1>3, <1>4, <1>5, <1>6

LEMMA NilRedials == ASSUME TypeOK, NEW k \in Conns, SetNil(k)
                    PROVE  Redialing' /\ at'[k] = Point("redial", "sleep")
<1>1. at' = [at EXCEPT ![k] = Point("redial", "sleep")]
  BY DEF SetNil, Goes
<1>2. at'[k] = Point("redial", "sleep")
  BY <1>1, OneMoves, CallerIsNoReader DEF Only
<1> QED BY <1>2 DEF Redialing, Point

LEMMA NoticedStays ==
  ASSUME TypeOK, PlaceInv, ConnInv, MessageInv, Goroutines, ~Stopped', Noticed
  PROVE  Noticed' \/ Redialing' \/ link'[used'] \in {"closed", "left"}
<1>1. ASSUME NEW t \in Threads, at[t].step = "drop"
      PROVE  Noticed' \/ Redialing'
  <2>1. t \in Conns
    BY <1>1, PlaceOf
  <2>2. at'[t].step = "drop" \/ at'[t] = Point("redial", "sleep")
    BY <1>1, <2>1, ReaderGoes
  <2> QED BY <2>1, <2>2 DEF Noticed, Redialing, Point
<1>2. ASSUME NEW k \in Conns, at[k].step \in Reads \cup {"failed"},
             link[k] = "lost", conn # 0
      PROVE  Noticed' \/ Redialing' \/ link'[used'] \in {"closed", "left"}
  <2>1. at'[k].step \in Reads \cup {"failed", "drop"}
    BY <1>2, ReaderGoes
  <2>2. CASE conn' = 0
    BY <1>2, <2>2, ConnGoes, NilRedials
  <2>3. CASE conn' # 0
    <3>1. k <= used /\ used \in Nat /\ k \in Nat
      BY <1>2 DEF TypeOK, Conns
    <3>2. link'[k] = "lost"
      BY <1>2, <2>3, <3>1, LinkMoves
    <3> QED BY <2>1, <2>3, <3>2, CallerIsNoReader DEF Noticed
  <2> QED BY <2>2, <2>3
<1> QED BY <1>1, <1>2 DEF Noticed

LEMMA LinkStays ==
  ASSUME TypeOK, PlaceInv, ConnInv, MessageInv, Goroutines,
         link[used] \in {"closed", "left"}
  PROVE  \/ used' = used /\ link'[used'] = link[used]
         \/ \E t \in Threads : SetConn(t)
<1>1. used # conn /\ used \in Conns /\ used \in Nat
  BY DEF ConnInv, TypeOK, Conns
<1>2. CASE used' = used
  BY <1>1, <1>2, LinkMoves
<1>3. used' = used \/ \E t \in Threads : SetConn(t)
  BY DEF Goroutines, CallerStep, ReaderStep, Subscribe, DialFails, Dial,
         Copy, Write, WriteFails, TakeAck, TimeOut, AppendIds,
         Reconnect, Read, ReadFails, ReaderEnds, ReaderGoesOn, SetNil, Wake,
         Lock, Send, SendPanics, Lose, Consume, Close, Report, OnlyMoves,
         client
<1> QED BY <1>2, <1>3

LEMMA ConnectCopies ==
  ASSUME TypeOK, PlaceInv, ConnInv, NEW t \in Threads, SetConn(t)
  PROVE  at'[t].step = "copy"
<1>1. at'[t] = Point(at[t].stage, "copy")
  BY Connects
<1> QED BY <1>1 DEF Point

\* Without a connection, somebody dials or the client closed the last one.
LEMMA DialServes ==
  ASSUME TypeOK, PlaceInv, ConnInv, MessageInv, Goroutines, ~Stopped', DialInv,
         conn = 0
  PROVE  \/ Redialing' \/ link'[used'] \in {"closed", "left"}
         \/ \E t \in Threads : at'[t].step = "copy"
<1>1. CASE Redialing
  BY <1>1, RedialStays, ConnectCopies
<1>2. CASE link[used] \in {"closed", "left"}
  BY <1>2, LinkStays, ConnectCopies
<1> QED BY <1>1, <1>2 DEF DialInv

LEMMA HeardStays ==
  ASSUME TypeOK, PlaceInv, ConnInv, MessageInv, Goroutines, ~Stopped', DialInv,
         NEW s \in Swaps, Heard(s)
  PROVE  Served(s)'
<1>1. PICK k \in Conns : /\ at[k].step \in Reads /\ s \in subs[k]
                         /\ link[k] \in {"up", "lost"}
  BY DEF Heard, Reads
<1>2. k <= used /\ used \in Nat /\ k \in Nat
  BY <1>1 DEF TypeOK, Conns
<1>3. s \in subs'[k]
  BY <1>1, SubsGrow
<1>4. CASE at'[k].step \in Reads
  <2>1. CASE link'[k] \in {"up", "lost"}
    <3>1. Heard(s)'
      BY <1>3, <1>4, <2>1 DEF Heard, Reads
    <3> QED BY <3>1, ServedBy
  <2>2. CASE link'[k] \notin {"up", "lost"}
    <3>1. k = conn /\ conn' = 0 /\ link'[k] \in {"closed", "left"}
      BY <1>1, <1>2, <2>2, LinkMoves
    <3>2. k = used /\ conn # 0
      BY <3>1 DEF ConnInv, Conns
    <3>3. used' = used
      BY <3>1, <3>2, ConnGoes
    <3> QED BY <3>1, <3>2, <3>3, ServedBy
  <2> QED BY <2>1, <2>2
<1>5. CASE at'[k].step = "failed" /\ link[k] # "up" /\ link' = link /\ conn' = conn
  <2>1. CASE conn # 0
    <3>1. Noticed'
      BY <1>1, <1>5, <2>1 DEF Noticed
    <3> QED BY <3>1, ServedBy
  <2>2. CASE conn = 0
    BY <2>2, DialServes, ServedBy
  <2> QED BY <2>1, <2>2
<1> QED BY <1>1, <1>4, <1>5, ReaderGoes

LEMMA ServedStays ==
  ASSUME TypeOK, PlaceInv, ConnInv, MessageInv, Goroutines, ~closed, ~Stopped',
         DialInv, NEW s \in swapIds, Served(s)
  PROVE  Served(s)'
<1>0. s \in Swaps
  BY DEF TypeOK
<1>1. CASE link[used] \in {"closed", "left"}
  BY <1>1, LinkStays, ConnectCopies, ServedBy
<1>2. CASE LeftWith(s)
  BY <1>0, <1>2, LeftStays, ServedBy
<1>3. CASE Heard(s)
  BY <1>0, <1>3, HeardStays
<1>4. CASE Redialing
  BY <1>4, RedialStays, ConnectCopies, ServedBy
<1>5. CASE Noticed
  BY <1>5, NoticedStays, ServedBy
<1>6. ASSUME NEW t \in Threads, at[t].step = "copy" PROVE Served(s)'
  <2>1. CASE at'[t] = at[t]
    BY <1>6, <2>1, ServedBy
  <2>2. CASE Copy(t)
    <3>1. /\ ids' = [ids EXCEPT ![t] = swapIds]
          /\ at' = [at EXCEPT ![t] = Point(at[t].stage, "write")]
      BY <2>2 DEF Copy, Goes
    <3>2. Only(t, Point(at[t].stage, "write"))
      BY <3>1, OneMoves
    <3>3. at[t].stage \in Connecting
      BY <1>6, PlaceOf
    <3>4. ids'[t] = swapIds
      BY <3>1 DEF TypeOK
    <3>5. /\ at'[t].stage \in Connecting /\ at'[t].step = "write"
          /\ s \in ids'[t]
      BY <3>2, <3>3, <3>4 DEF Only, Point
    <3> QED BY <3>5, ServedBy
  <2> QED BY <1>6, <2>1, <2>2, Steps
<1>7. ASSUME NEW t \in Threads, at[t].stage \in Connecting,
             at[t].step = "write", s \in ids[t]
      PROVE  Served(s)'
  <2>0. ~Stopped
    BY <1>7 DEF PlaceInv, Stopped, Dead, Point, Threads
  <2>1. CASE at'[t] = at[t] /\ ids'[t] = ids[t]
    BY <1>7, <2>1, ServedBy
  <2>2. CASE Write(t)
    <3>1. /\ conn # 0 /\ UNCHANGED <<link, conn, used>>
          /\ link[conn] = "up" => subs' = [subs EXCEPT ![conn] = @ \cup ids[t]]
          /\ at' = [at EXCEPT ![t] = Point(at[t].stage, "wait")]
      BY <1>7, <2>2 DEF Write, Goes
    <3>2. /\ conn \in Conns /\ conn = used /\ link[conn] \in {"up", "lost"}
          /\ at[conn].stage = "read"
          /\ at[conn].step \in Reads \cup {"failed", "drop"}
      BY <2>0, <3>1, InUse
    <3>3. conn # t
      BY <1>7, <3>2 DEF Reads
    <3>4. at'[conn] = at[conn]
      BY <3>1, <3>2, <3>3, OneMoves, CallerIsNoReader DEF Only
    <3>5. CASE link[conn] = "up"
      <4>1. s \in subs'[conn]
        BY <1>7, <3>1, <3>2, <3>5 DEF TypeOK
      <4>2. at[conn].step \in Reads
        BY <3>2, <3>5 DEF MessageInv
      <4>3. Heard(s)'
        BY <3>1, <3>2, <3>4, <3>5, <4>1, <4>2 DEF Heard, Reads
      <4> QED BY <4>3, ServedBy
    <3>6. CASE link[conn] = "lost"
      <4>1. Noticed'
        BY <3>1, <3>2, <3>4, <3>6, CallerIsNoReader DEF Noticed
      <4> QED BY <4>1, ServedBy
    <3> QED BY <3>2, <3>5, <3>6
  <2>3. CASE WriteFails(t)
    <3>1. /\ UNCHANGED <<link, conn, used, closed>>
          /\ ~closed /\ conn # 0 => link[conn] # "up"
          /\ at' = [at EXCEPT ![t] = AfterError(t)]
      BY <2>3 DEF WriteFails, Goes
    <3>2. CASE conn = 0
      BY <3>2, DialServes, ServedBy
    <3>3. CASE conn # 0 /\ link[conn] # "up"
      <4>1. Noticed
        BY <2>0, <3>3, LossNoticed
      <4> QED BY <4>1, NoticedStays, ServedBy
    <3> QED BY <3>1, <3>2, <3>3
  <2> QED BY <1>7, <2>1, <2>2, <2>3, Steps
<1> QED BY <1>1, <1>2, <1>3, <1>4, <1>5, <1>6, <1>7, ServedBy

-----------------------------------------------------------------------------
(***************************************************************************)
(* LossInv.                                                                *)
(***************************************************************************)
\* Once more waiters than answers, always more waiters than answers, unless
\* somebody has just given up.
LEMMA UnansweredStays ==
  ASSUME TypeOK, PlaceInv, ConnInv, MessageInv, Goroutines, TypeOK', ~Stopped',
         "late" \notin Faults, Unanswered
  PROVE  Unanswered' \/ \E t \in Threads : TimeOut(t)
<1>1. /\ Cardinality(Answers) < Cardinality(Waiting)
      /\ Cardinality(Answers) \in Nat /\ Cardinality(Answers') \in Nat
      /\ Cardinality(Waiting) \in Nat /\ Cardinality(Waiting') \in Nat
  <2>1. inbox' \in [Conns -> Seq(Messages)]
    BY DEF TypeOK
  <2>2. Cardinality(Answers') \in Nat
    BY <2>1, AcksFinite, AnswersAreAcks
  <2> QED BY <2>2, AnswersFinite, WaitingFinite DEF Unanswered
<1>2. CASE Quiet
  BY <1>1, <1>2 DEF Quiet, Unanswered
<1>3. ASSUME NEW t \in Threads, Asks(t) \/ Gets(t) PROVE Unanswered'
  BY <1>1, <1>3 DEF Asks, Gets, Unanswered
<1>4. ASSUME NEW t \in Threads, GivesUp(t) PROVE TimeOut(t)
  BY <1>4 DEF GivesUp
<1> QED BY <1>2, <1>3, <1>4, AnswerSteps

\* Whoever still waits when another gives up will not be answered.
LEMMA StillWaiting ==
  ASSUME TypeOK, PlaceInv, MessageInv, NEW t \in Threads, TimeOut(t),
         "late" \notin Faults, NEW u \in Threads, at'[u].step = "wait"
  PROVE  Unanswered'
<1>1. Cardinality(Answers') = 0
  BY TimeOutGivesUp DEF GivesUp
<1>2. u \in Waiting'
  BY DEF Waiting
<1>3. /\ IsFiniteSet(Waiting') /\ Cardinality(Waiting') \in Nat
  BY WaitingFinite
<1>4. Cardinality(Waiting') # 0
  BY <1>2, <1>3, FS_EmptySet
<1> QED BY <1>1, <1>3, <1>4 DEF Unanswered

\* A reader that gives up dials again, the caller of Subscribe connects again.
LEMMA GiveUpDials ==
  ASSUME TypeOK, PlaceInv, NEW t \in Threads, TimeOut(t)
  PROVE  /\ at[t].step = "wait" /\ at'[t] = AfterError(t)
         /\ t \in Conns => Redialing' /\ at'[Caller] = at[Caller]
         /\ t = Caller /\ at[t].stage = "first" =>
              At(Caller, "reconnect", "close")'
<1>1. at[t].step = "wait" /\ at' = [at EXCEPT ![t] = AfterError(t)]
  BY DEF TimeOut, Goes
<1>2. Only(t, AfterError(t))
  BY <1>1, OneMoves
<1>3. t \in Conns => Redialing' /\ at'[Caller] = at[Caller]
  BY <1>1, <1>2, AfterPlaces, CallerIsNoReader DEF Redialing, Only, Point
<1>4. t = Caller /\ at[t].stage = "first" => At(Caller, "reconnect", "close")'
  BY <1>1, <1>2, AfterPlaces DEF Only, At
<1> QED BY <1>1, <1>2, <1>3, <1>4 DEF Only

LEMMA DialKeeps ==
  ASSUME TypeOK, PlaceInv, ConnInv, MessageInv, Goroutines, ~closed', ~Stopped',
         DialInv
  PROVE  DialInv'
<1> USE CallerIsNoReader
<1>1. ASSUME conn' = 0 PROVE Redialing' \/ link'[used'] \in {"closed", "left"}
  <2>1. ASSUME NEW t \in Threads, SetConn(t) PROVE FALSE
    <3>1. used' \in Conns /\ conn' = used'
      BY <2>1, Connects
    <3> QED BY <1>1, <3>1 DEF Conns
  <2>2. CASE conn = 0
    BY <2>1, <2>2, RedialStays, LinkStays DEF DialInv
  <2>3. CASE conn # 0
    BY <1>1, <2>3, ConnGoes, NilRedials
  <2> QED BY <2>2, <2>3
<1>2. ASSUME link'[used'] = "closed"
      PROVE  \/ at'[Caller] = Idle
             \/ /\ at'[Caller].stage \in {"connect", "reconnect"}
                /\ at'[Caller].step \in {"dial", "dialed"}
  <2>1. ASSUME NEW t \in Threads, SetConn(t) PROVE FALSE
    <3>1. link'[used'] = "up"
      BY <2>1, Connects
    <3> QED BY <1>2, <3>1
  <2>2. used' = used
    BY <2>1 DEF Goroutines, CallerStep, ReaderStep, Subscribe, DialFails, Dial,
         Copy, Write, WriteFails, TakeAck, TimeOut, AppendIds,
         Reconnect, Read, ReadFails, ReaderEnds, ReaderGoesOn, SetNil, Wake,
         Lock, Send, SendPanics, Lose, Consume, Close, Report, OnlyMoves,
         client
  <2>3. CASE Reconnect
    <3>1. at' = [at EXCEPT ![Caller] = Point("reconnect", "dial")]
      BY <2>3 DEF Reconnect, Goes
    <3>2. at'[Caller] = Point("reconnect", "dial")
      BY <3>1, OneMoves DEF Only
    <3> QED BY <3>2 DEF Point
  <2>4. CASE link[used] = "closed" /\ ~Reconnect
    <3>0. conn = 0
      BY <2>4 DEF ConnInv
    <3>1. CASE at[Caller] = Idle
      <4>1. ASSUME NEW S \in SUBSET Swaps, Subscribe(S)
            PROVE  at'[Caller] = Point("connect", "dial")
        <5>1. at' = [at EXCEPT ![Caller] = Point("connect", "dial")]
          BY <3>0, <4>1 DEF Subscribe, Goes
        <5> QED BY <5>1, OneMoves DEF Only
      <4>2. at'[Caller] = at[Caller] \/ \E S \in SUBSET Swaps : Subscribe(S)
        BY <3>1, Steps
      <4> QED BY <3>1, <4>1, <4>2 DEF Point
    <3>2. CASE /\ at[Caller].stage \in {"connect", "reconnect"}
               /\ at[Caller].step = "dial"
      <4>1. CASE Dial(Caller)
        <5> DEFINE P == Point(at[Caller].stage, "dialed")
        <5>1. at' = [at EXCEPT ![Caller] = P] /\ Caller \in Threads
          BY <4>1 DEF Dial, Goes
        <5>2. at'[Caller] = P
          <6> HIDE DEF P
          <6> QED BY <5>1, OneMoves DEF Only
        <5>3. at'[Caller].stage = at[Caller].stage /\ at'[Caller].step = "dialed"
          BY <5>2 DEF Point
        <5> QED BY <3>2, <5>3
      <4>2. CASE DialFails(Caller)
        <5>1. at' = [at EXCEPT ![Caller] = AfterError(Caller)]
          BY <4>2 DEF DialFails, Goes
        <5>2. at'[Caller] = Idle
          BY <3>2, <5>1, OneMoves, AfterPlaces DEF Only
        <5> QED BY <5>2
      <4>3. CASE at'[Caller] = at[Caller]
        BY <3>2, <4>3
      <4> QED BY <3>2, <4>1, <4>2, <4>3, Steps
    <3>3. CASE /\ at[Caller].stage \in {"connect", "reconnect"}
               /\ at[Caller].step = "dialed"
      BY <2>1, <3>3, Steps
    <3> QED BY <2>4, <3>1, <3>2, <3>3 DEF DialInv
  <2>5. link[used] = "closed" \/ Reconnect
    <3>1. CASE conn = 0
      <4>1. used \in Conns /\ used # conn
        BY <3>1 DEF TypeOK, Conns
      <4>2. used \in Nat /\ ~(used > used)
        BY DEF TypeOK, Conns
      <4> QED BY <1>2, <2>2, <4>1, <4>2, LinkMoves
    <3>2. CASE conn # 0
      <4>1. conn = used /\ link[used] \in {"up", "lost"} /\ used \in Conns
        BY <3>2 DEF ConnInv, TypeOK, Conns
      <4>2. used \in Nat /\ ~(used > used)
        BY DEF TypeOK, Conns
      <4>3. conn' = 0
        BY <1>2, <2>2, <4>1, <4>2, LinkMoves
      <4>4. ASSUME NEW k \in Conns, SetNil(k) PROVE FALSE
        <5>1. link' = link
          BY <4>4 DEF SetNil
        <5> QED BY <1>2, <2>2, <4>1, <5>1
      <4>5. ASSUME Close PROVE FALSE
        BY <4>5 DEF Close
      <4> QED BY <1>2, <3>2, <4>3, <4>4, <4>5, ConnGoes
    <3> QED BY <3>1, <3>2
  <2> QED BY <2>3, <2>4, <2>5
<1> QED BY <1>1, <1>2 DEF DialInv

LEMMA CallerArrives ==
  ASSUME TypeOK, PlaceInv, ConnInv, MessageInv, Goroutines, ~Stopped'
  PROVE  /\ at'[Caller].step \in {"wait", "append"} => want' = want
         /\ at'[Caller].step = "wait" => at'[Caller] = at[Caller] \/ Write(Caller)
         /\ at'[Caller].step = "append" =>
              \/ at'[Caller] = at[Caller]
              \/ Awaiting /\ \E k \in Conns : TakeAck(Caller, k)
<1> USE CallerIsNoReader
<1>0. ASSUME NEW P, at' = [at EXCEPT ![Caller] = P] PROVE at'[Caller] = P
  <2>1. Caller \in Threads
    OBVIOUS
  <2> QED BY <1>0, <2>1, OneMoves DEF Only
<1>1. ASSUME NEW S \in SUBSET Swaps, Subscribe(S)
      PROVE  at'[Caller].step \in {"dial", "write"}
  <2>1. PICK P \in {Point("connect", "dial"), Point("first", "write")} :
          at' = [at EXCEPT ![Caller] = P]
    BY <1>1 DEF Subscribe, Goes
  <2>2. at'[Caller] = P
    BY <1>0, <2>1
  <2> QED BY <2>1, <2>2 DEF Point
<1>2. want' = want \/ \E S \in SUBSET Swaps : Subscribe(S)
  BY DEF Goroutines, CallerStep, ReaderStep, DialFails, Dial,
         SetConn, Copy, Write, WriteFails, TakeAck, TimeOut, AppendIds,
         Reconnect, Read, ReadFails, ReaderEnds, ReaderGoesOn, SetNil, Wake,
         Lock, Send, SendPanics, Lose, Consume, Close, Report, OnlyMoves,
         client
<1>3. CASE Dial(Caller)
  <2> DEFINE P == Point(at[Caller].stage, "dialed")
  <2>1. at' = [at EXCEPT ![Caller] = P]
    BY <1>3 DEF Dial, Goes
  <2>2. P.step = "dialed"
    BY DEF Point
  <2> HIDE DEF P
  <2> QED BY <1>0, <2>1, <2>2
<1>4. CASE SetConn(Caller)
  <2>1. at'[Caller].step = "copy"
    BY <1>4, ConnectCopies
  <2> QED BY <2>1
<1>5. CASE DialFails(Caller) \/ WriteFails(Caller) \/ TimeOut(Caller)
  <2>1. /\ at[Caller].step \in {"dial", "write", "wait"}
        /\ at' = [at EXCEPT ![Caller] = AfterError(Caller)]
    BY <1>5 DEF DialFails, WriteFails, TimeOut, Goes
  <2>2. AfterError(Caller).step \in {"idle", "close"}
    BY <2>1, AfterPlaces DEF Idle, Point
  <2>3. at'[Caller] = AfterError(Caller)
    BY <1>0, <2>1
  <2> QED BY <2>2, <2>3
<1>6. CASE Copy(Caller)
  <2> DEFINE P == Point(at[Caller].stage, "write")
  <2>1. /\ at[Caller].step = "copy"
        /\ \/ at' = [at EXCEPT ![Caller] = AfterOk(Caller)]
           \/ at' = [at EXCEPT ![Caller] = P]
    BY <1>6 DEF Copy, Goes
  <2>2. at[Caller].stage \in Connecting
    BY <2>1, PlaceOf
  <2>3. AfterOk(Caller).step \in {"write", "idle"}
    BY <2>1, <2>2, AfterPlaces DEF Connecting, Idle, Point
  <2>4. P.step = "write"
    BY DEF Point
  <2> HIDE DEF P
  <2>5. at'[Caller] \in {P, AfterOk(Caller)}
    BY <1>0, <2>1
  <2> QED BY <2>3, <2>4, <2>5
<1>7. ASSUME NEW k \in Conns, TakeAck(Caller, k)
      PROVE  /\ at'[Caller].step # "wait"
             /\ at'[Caller].step = "append" => Awaiting
  <2>1. at[Caller].step = "wait" /\ at'[Caller] = AfterOk(Caller)
    BY <1>7, Handed DEF TakeAck
  <2>2. /\ at[Caller].stage \in {"connect", "reconnect"} =>
             AfterOk(Caller).step = "write"
        /\ AfterOk(Caller).step # "wait"
        /\ at[Caller].stage \in {"connect", "reconnect", "first", "second"}
    BY <2>1, AfterPlaces DEF Point
  <2>3. at[Caller].stage \in {"first", "second"} => Awaiting
    BY <2>1 DEF Awaiting, At, PlaceInv, CallerAt, Point, Idle, Dead
  <2> QED BY <2>1, <2>2, <2>3
<1>8. CASE AppendIds \/ Reconnect
  <2>1. \/ at' = [at EXCEPT ![Caller] = Idle]
        \/ at' = [at EXCEPT ![Caller] = Point("reconnect", "dial")]
    BY <1>8 DEF AppendIds, Reconnect, Goes
  <2>2. at'[Caller] \in {Idle, Point("reconnect", "dial")}
    BY <1>0, <2>1
  <2> QED BY <1>1, <1>2, <2>2 DEF Idle, Point
<1>9. \/ at'[Caller] = at[Caller] \/ CallerStep(Caller)
      \/ (\E S \in SUBSET Swaps : Subscribe(S)) \/ AppendIds \/ Reconnect
  BY WhoMoves DEF Moves
<1>10. at'[Caller].step \in {"wait", "append"} => want' = want
  BY <1>1, <1>2
<1>11. CASE Write(Caller)
  <2> DEFINE P == Point(at[Caller].stage, "wait")
  <2>1. at' = [at EXCEPT ![Caller] = P]
    BY <1>11 DEF Write, Goes
  <2>2. P.step = "wait"
    BY DEF Point
  <2> HIDE DEF P
  <2> QED BY <1>0, <1>10, <1>11, <2>1, <2>2
<1>12. CASE CallerStep(Caller)
  <2>1. \/ Dial(Caller) \/ SetConn(Caller) \/ Copy(Caller) \/ Write(Caller)
        \/ DialFails(Caller) \/ WriteFails(Caller) \/ TimeOut(Caller)
        \/ \E k \in Conns : TakeAck(Caller, k)
    BY <1>12 DEF CallerStep
  <2>2. CASE \E k \in Conns : TakeAck(Caller, k)
    BY <1>7, <1>10, <2>2
  <2> QED BY <1>3, <1>4, <1>5, <1>6, <1>11, <2>1, <2>2
<1> QED BY <1>1, <1>8, <1>9, <1>10, <1>12

LEMMA SleeperStays ==
  ASSUME TypeOK, PlaceInv, ConnInv, MessageInv, Goroutines, ~Stopped',
         NEW k \in Conns, At(k, "redial", "sleep"), before[k] # {}
  PROVE  At(k, "redial", "sleep")'
<1>1. at[k].step = "sleep"
  BY DEF At, Point
<1>2. ~CallerStep(k)
  BY <1>1 DEF CallerStep, Dial, DialFails, SetConn, Copy, Write, WriteFails,
              TimeOut, TakeAck
<1>3. ~ReaderStep(k)
  BY <1>1 DEF ReaderStep, Read, ReadFails, ReaderEnds, ReaderGoesOn, SetNil,
              Wake, Lock, Send, SendPanics, At, Point
<1>4. \A u \in Threads : ~TakeAck(u, k)
  BY <1>1 DEF TakeAck, Point
<1>5. ASSUME NEW u \in Threads, SetConn(u) PROVE k # used'
  <2>1. at[used'] = Idle
    BY <1>5, Connects
  <2> QED BY <1>1, <2>1 DEF Idle, Point
<1>6. at'[k] = at[k]
  BY <1>2, <1>3, <1>4, <1>5, WhoMoves, CallerIsNoReader DEF Moves
<1> QED BY <1>6 DEF At

LEMMA AliveStays ==
  ASSUME TypeOK, PlaceInv, ConnInv, MessageInv, Goroutines, ~closed', ~Stopped',
         NEW s \in Swaps, Alive(s), conn # 0
  PROVE  \/ Alive(s)' /\ conn' # 0
         \/ \E k \in Conns : SetNil(k)
         \/ LeftWith(s)' \/ Reconnect
<1>1. PICK k \in Conns : /\ at[k].stage = "read" /\ s \in subs[k]
                         /\ link[k] \in {"up", "lost"}
  BY DEF Alive
<1>2. k <= used /\ used \in Nat /\ k \in Nat /\ used \in Conns
  BY <1>1 DEF TypeOK, Conns
<1>3. s \in subs'[k]
  BY <1>1, SubsGrow
<1>4. CASE conn' # 0
  <2>1. link'[k] \in {"up", "lost"}
    BY <1>1, <1>2, <1>4, LinkMoves
  <2>2. at'[k].stage = "read"
    BY <1>1, <1>2, <1>4, ReaderMoves
  <2> QED BY <1>3, <1>4, <2>1, <2>2 DEF Alive
<1>5. CASE conn' = 0
  <2>1. ASSUME Consume, link'[used'] = "left", used' = used PROVE LeftWith(s)'
    BY <1>2, <1>3, <2>1 DEF LeftWith
  <2>2. ~Close
    BY DEF Close
  <2> QED BY <1>5, <2>1, <2>2, ConnGoes
<1> QED BY <1>4, <1>5

LEMMA ServedKeeps ==
  ASSUME TypeOK, PlaceInv, ConnInv, MessageInv, Goroutines, TypeOK', PlaceInv',
         ~closed', DialInv, ServedInv, WantInv, "late" \notin Faults
  PROVE  ServedInv'
<1> USE CallerIsNoReader
<1>0. ~closed /\ ~Stopped /\ ~Stopped'
  BY ClosedStays
<1> DEFINE Good(s) ==
      \/ Served(s)'
      \/ At(Caller, "reconnect", "close")'
      \/ Unanswered' /\ at'[Caller].stage \in {"idle", "first", "subscribed"}
<1>1. ASSUME NEW s \in swapIds, Served(s) PROVE Good(s)
  BY <1>0, <1>1, ServedStays
<1>2. ASSUME NEW s, At(Caller, "reconnect", "close") PROVE Good(s)
  <2>1. CASE at'[Caller] = at[Caller]
    BY <1>2, <2>1 DEF At
  <2>2. CASE Reconnect
    <3>1. CASE conn = 0
      BY <1>0, <3>1, DialServes, ServedBy
    <3>2. CASE conn # 0
      <4>1. CloseConn("closed") /\ used' = used
        BY <2>2 DEF Reconnect
      <4>2. link'[used'] = "closed"
        BY <3>2, <4>1, Closes
      <4> QED BY <4>2, ServedBy
    <3> QED BY <3>1, <3>2
  <2>3. at[Caller].step = "close"
    BY <1>2 DEF At, Point
  <2> QED BY <1>0, <2>1, <2>2, <2>3, Steps
<1>3. ASSUME NEW s, NEW t \in Threads, TimeOut(t),
             at[Caller].stage \in {"idle", "first", "subscribed"}
      PROVE  Good(s)
  <2>1. CASE t = Caller
    <3>1. at[Caller].step = "wait"
      BY <1>3, <2>1, GiveUpDials
    <3>2. at[Caller].stage = "first"
      BY <1>3, <3>1, PlaceOf DEF Connecting
    <3> QED BY <1>3, <2>1, <3>2, GiveUpDials
  <2>2. CASE t \in Conns
    <3>1. Redialing'
      BY <1>3, <2>2, GiveUpDials
    <3> QED BY <3>1, ServedBy
  <2> QED BY <2>1, <2>2
<1>4. ASSUME NEW s, Unanswered',
             at[Caller].stage \in {"idle", "first", "subscribed"}
      PROVE  Good(s)
  <2>0. at[Caller] \in {Idle, Point("first", "write"), Point("first", "wait"),
                        Point("subscribed", "append")}
    BY <1>0, <1>4 DEF PlaceInv, CallerAt, Point, Idle, Dead
  <2>1. CASE at'[Caller] = at[Caller]
    BY <1>4, <2>1
  <2>2. ASSUME NEW S \in SUBSET Swaps, Subscribe(S) PROVE Good(s)
    <3>1. CASE conn = 0
      BY <1>0, <3>1, DialServes, ServedBy
    <3>2. CASE conn # 0
      <4>1. at' = [at EXCEPT ![Caller] = Point("first", "write")]
        BY <2>2, <3>2 DEF Subscribe, Goes
      <4>2. at'[Caller] = Point("first", "write")
        BY <4>1, OneMoves DEF Only
      <4> QED BY <1>4, <4>2 DEF Point
    <3> QED BY <3>1, <3>2
  <2>3. CASE AppendIds
    <3>1. at' = [at EXCEPT ![Caller] = Idle]
      BY <2>3 DEF AppendIds, Goes
    <3>2. at'[Caller] = Idle
      BY <3>1, OneMoves DEF Only
    <3> QED BY <1>4, <3>2 DEF Point, Idle
  <2>4. CASE at[Caller] = Point("first", "write")
    <3>0. at[Caller].stage = "first" /\ at[Caller].step = "write"
      BY <2>4 DEF Point
    <3>1. CASE Write(Caller)
      <4>1. at' = [at EXCEPT ![Caller] = Point("first", "wait")]
        BY <3>0, <3>1 DEF Write, Goes
      <4>2. at'[Caller] = Point("first", "wait")
        BY <4>1, OneMoves DEF Only
      <4> QED BY <1>4, <4>2 DEF Point
    <3>2. CASE WriteFails(Caller)
      <4>1. at' = [at EXCEPT ![Caller] = AfterError(Caller)]
        BY <3>2 DEF WriteFails, Goes
      <4>2. at'[Caller] = Point("reconnect", "close")
        BY <3>0, <4>1, OneMoves, AfterPlaces DEF Only
      <4> QED BY <4>2 DEF At
    <3> QED BY <1>0, <2>1, <3>0, <3>1, <3>2, Steps
  <2>5. CASE at[Caller] = Point("first", "wait")
    <3>0. at[Caller].stage = "first" /\ at[Caller].step = "wait"
      BY <2>5 DEF Point
    <3>1. ASSUME NEW k \in Conns, TakeAck(Caller, k) PROVE Good(s)
      <4>1. at'[Caller] = Point("subscribed", "append")
        BY <3>0, <3>1, Handed, AfterPlaces
      <4> QED BY <1>4, <4>1 DEF Point
    <3> QED BY <1>0, <1>3, <1>4, <2>1, <3>0, <3>1, Steps
  <2>6. CASE at[Caller] = Point("subscribed", "append")
    <3>1. at[Caller].step = "append"
      BY <2>6 DEF Point
    <3> QED BY <1>0, <2>1, <2>3, <3>1, Steps
  <2>7. CASE at[Caller] = Idle
    BY <1>0, <2>1, <2>2, <2>7, Steps
  <2> QED BY <2>0, <2>4, <2>5, <2>6, <2>7
<1>5. ASSUME NEW s, Unanswered,
             at[Caller].stage \in {"idle", "first", "subscribed"}
      PROVE  Good(s)
  BY <1>0, <1>3, <1>4, <1>5, UnansweredStays
<1>6. ASSUME NEW s \in want, AppendIds PROVE Good(s)
  <2>0. s \in Swaps
    BY DEF TypeOK
  <2>1. at[Caller].step = "append"
    BY <1>6 DEF AppendIds
  <2>2. At(Caller, "subscribed", "append") /\ at[Caller].stage = "subscribed"
    BY <2>1, PlaceOf DEF At, PlaceInv, CallerAt, Point, Idle, Dead
  <2>3. \/ Unanswered \/ LeftWith(s) \/ Redialing
        \/ Alive(s) /\ conn # 0
    BY <2>2 DEF WantInv
  <2>4. CASE LeftWith(s)
    BY <2>0, <2>4, LeftStays, ServedBy
  <2>5. CASE Redialing
    BY <1>0, <2>5, RedialStays, ConnectCopies, ServedBy
  <2>6. CASE Alive(s) /\ conn # 0
    <3>1. Heard(s) \/ Noticed
      BY <2>6, AliveServed
    <3> QED BY <1>0, <2>0, <3>1, HeardStays, NoticedStays, ServedBy
  <2> QED BY <1>5, <2>2, <2>3, <2>4, <2>5, <2>6
<1>7. \/ swapIds' \subseteq swapIds
      \/ /\ AppendIds
         /\ swapIds' = swapIds \cup want
  BY DEF Goroutines, CallerStep, ReaderStep, Subscribe, DialFails, Dial,
         SetConn, Copy, Write, WriteFails, TakeAck, TimeOut, AppendIds,
         Reconnect, Read, ReadFails, ReaderEnds, ReaderGoesOn, SetNil, Wake,
         Lock, Send, SendPanics, Lose, Consume, Unsubscribe, Close, Report,
         OnlyMoves, client
<1>8. ASSUME NEW s \in swapIds PROVE Good(s)
  BY <1>1, <1>2, <1>5 DEF ServedInv
<1> HIDE DEF Good
<1>9. \A s \in swapIds' : Good(s)
  BY <1>6, <1>7, <1>8
<1> QED BY <1>9 DEF Good, ServedInv

\* The connection in use gets what the caller subscribes to, or nobody will
\* answer.
LEMMA WriteWants ==
  ASSUME TypeOK, PlaceInv, ConnInv, MessageInv, AnswerInv, TypeOK', ~Stopped,
         Write(Caller), at[Caller].stage \in {"first", "second"}, NEW s \in want
  PROVE  \/ Unanswered'
         \/ Alive(s)' /\ conn' # 0
<1> USE CallerIsNoReader
<1>1. /\ conn # 0 /\ conn' = conn /\ link' = link
      /\ at' = [at EXCEPT ![Caller] = Point(at[Caller].stage, "wait")]
      /\ link[conn] = "up" =>
           subs' = [subs EXCEPT ![conn] = @ \cup want]
  BY DEF Write, Goes, Connecting
<1>2. /\ conn \in Conns /\ link[conn] \in {"up", "lost"}
      /\ at[conn].stage = "read" /\ conn # Caller
  BY <1>1, InUse DEF Caller
<1>3. CASE link[conn] = "up"
  <2>1. at'[conn] = at[conn]
    BY <1>1, <1>2, OneMoves DEF Only
  <2>2. s \in subs'[conn]
    BY <1>1, <1>2, <1>3 DEF TypeOK
  <2> QED BY <1>1, <1>2, <2>1, <2>2 DEF Alive
<1>4. CASE link[conn] # "up"
  <2>1. /\ Cardinality(Answers') <= Cardinality(Answers)
        /\ Cardinality(Waiting') = Cardinality(Waiting) + 1
    BY <1>4, WriteAsks DEF Asks
  <2>2. /\ Cardinality(Answers) <= Cardinality(Waiting)
        /\ Cardinality(Answers) \in Nat /\ Cardinality(Waiting) \in Nat
    BY AnswersFinite, WaitingFinite DEF AnswerInv
  <2>3. inbox' \in [Conns -> Seq(Messages)]
    BY DEF TypeOK
  <2>4. Cardinality(Answers') \in Nat
    BY <2>3, AcksFinite, AnswersAreAcks
  <2> QED BY <2>1, <2>2, <2>4 DEF Unanswered
<1> QED BY <1>3, <1>4

\* Whoever is not answered gives up, and if that is a reader it dials again.
LEMMA UnansweredDials ==
  ASSUME TypeOK, PlaceInv, ConnInv, MessageInv, Goroutines, TypeOK', ~Stopped',
         "late" \notin Faults, Unanswered
  PROVE  /\ at'[Caller].step = "wait" => Unanswered'
         /\ at'[Caller].step = "append" => Unanswered' \/ Redialing'
<1> USE CallerIsNoReader
<1>1. CASE Unanswered'
  BY <1>1
<1>2. ASSUME NEW t \in Threads, TimeOut(t), at'[Caller].step = "wait"
      PROVE  Unanswered'
  BY <1>2, StillWaiting
<1>3. ASSUME NEW t \in Threads, TimeOut(t), at'[Caller].step = "append"
      PROVE  Redialing'
  <2>1. CASE t \in Conns
    BY <1>3, <2>1, GiveUpDials
  <2>2. CASE t = Caller
    <3>1. at[t].step = "wait" /\ at'[Caller] = AfterError(t)
      BY <1>3, <2>2, GiveUpDials
    <3>2. AfterError(t).step # "append"
      BY <2>2, <3>1, AfterPlaces DEF Idle, Point
    <3> QED BY <1>3, <3>1, <3>2
  <2> QED BY <2>1, <2>2
<1> QED BY <1>1, <1>2, <1>3, UnansweredStays

\* A reader that sleeps while the caller waits sleeps for longer.
LEMMA OutlastedStays ==
  ASSUME TypeOK, PlaceInv, ConnInv, MessageInv, Next, ~Stopped', Outlasted
  PROVE  /\ Redialing'
         /\ at'[Caller].step = "wait" => Outlasted'
<1> USE CallerIsNoReader
<1>1. PICK k \in Conns : At(k, "redial", "sleep") /\ Caller \in before[k]
  BY DEF Outlasted
<1>2. At(k, "redial", "sleep")'
  BY <1>1, SleeperStays DEF Next
<1>3. at[k].step = "sleep"
  BY <1>1 DEF At, Point
<1>4. before'[k] = before[k] \cap Waiting'
  BY <1>3 DEF Next, Elapses
<1>5. at'[Caller].step = "wait" => Caller \in Waiting'
  BY DEF Waiting
<1>6. Redialing'
  BY <1>2 DEF Redialing, At, Point
<1> QED BY <1>1, <1>2, <1>4, <1>5, <1>6 DEF Outlasted

\* Who has just fallen asleep sleeps for longer than the caller waits.
LEMMA NilOutlasts ==
  ASSUME TypeOK, Next, NEW k \in Conns, SetNil(k), at'[Caller].step = "wait"
  PROVE  Outlasted'
<1>1. at'[k] = Point("redial", "sleep") /\ at[k] = Point("read", "drop")
  BY NilRedials DEF SetNil, At
<1>2. before'[k] = Waiting'
  BY <1>1 DEF Next, Elapses, Point
<1>3. Caller \in Waiting'
  BY CallerIsNoReader DEF Waiting
<1> QED BY <1>1, <1>2, <1>3 DEF Outlasted, At

LEMMA WantKeeps ==
  ASSUME TypeOK, PlaceInv, ConnInv, MessageInv, AnswerInv, Next, TypeOK',
         PlaceInv', ~closed', DialInv, WantInv, "late" \notin Faults
  PROVE  WantInv'
<1> USE CallerIsNoReader
<1>0. ~closed /\ ~Stopped /\ ~Stopped' /\ Goroutines /\ want \subseteq Swaps
  BY ClosedStays DEF Next, TypeOK
<1>1. ASSUME at[Caller].step # "close" PROVE ~Reconnect
  BY <1>1 DEF Reconnect
<1>2. ASSUME NEW s \in want, Alive(s), conn # 0, at[Caller].step # "close"
      PROVE  \/ Alive(s)' /\ conn' # 0
             \/ \E k \in Conns : SetNil(k)
             \/ LeftWith(s)'
  BY <1>0, <1>1, <1>2, AliveStays
<1>3. ASSUME Awaiting', NEW s \in want'
      PROVE  \/ Unanswered' \/ LeftWith(s)' \/ Outlasted'
             \/ Alive(s)' /\ conn' # 0
  <2>1. at'[Caller].step = "wait" /\ at'[Caller].stage \in {"first", "second"}
    BY <1>3 DEF Awaiting, At, Point
  <2>2. want' = want /\ s \in want
    BY <1>0, <1>3, <2>1, CallerArrives
  <2>3. CASE Write(Caller)
    <3> DEFINE P == Point(at[Caller].stage, "wait")
    <3>1. at' = [at EXCEPT ![Caller] = P] /\ Caller \in Threads
      BY <2>3 DEF Write, Goes
    <3>2. P.stage = at[Caller].stage
      BY DEF Point
    <3> HIDE DEF P
    <3>3. at'[Caller] = P
      BY <3>1, OneMoves DEF Only
    <3>4. at[Caller].stage \in {"first", "second"}
      BY <2>1, <3>2, <3>3
    <3> QED BY <1>0, <2>2, <2>3, <3>4, WriteWants
  <2>4. CASE at'[Caller] = at[Caller]
    <3>1. Awaiting /\ at[Caller].step # "close"
      BY <1>3, <2>1, <2>4 DEF Awaiting, At
    <3>2. \/ Unanswered \/ LeftWith(s) \/ Outlasted
          \/ Alive(s) /\ conn # 0
      BY <2>2, <3>1 DEF WantInv
    <3>3. CASE Unanswered
      BY <1>0, <2>1, <3>3, UnansweredDials
    <3>4. CASE LeftWith(s)
      BY <1>0, <2>2, <3>4, LeftStays
    <3>5. CASE Outlasted
      BY <1>0, <2>1, <3>5, OutlastedStays
    <3>6. CASE Alive(s) /\ conn # 0
      BY <1>2, <2>1, <2>2, <3>1, <3>6, NilOutlasts
    <3> QED BY <3>2, <3>3, <3>4, <3>5, <3>6
  <2> QED BY <1>0, <2>1, <2>3, <2>4, CallerArrives
<1>4. ASSUME At(Caller, "subscribed", "append")', NEW s \in want'
      PROVE  \/ Unanswered' \/ LeftWith(s)' \/ Redialing'
             \/ Alive(s)' /\ conn' # 0
  <2>1. at'[Caller].step = "append"
    BY <1>4 DEF At, Point
  <2>2. want' = want /\ s \in want
    BY <1>0, <1>4, <2>1, CallerArrives
  <2>3. ASSUME Unanswered PROVE Unanswered' \/ Redialing'
    BY <1>0, <2>1, <2>3, UnansweredDials
  <2>4. ASSUME LeftWith(s) PROVE LeftWith(s)'
    BY <1>0, <2>2, <2>4, LeftStays
  <2>5. ASSUME Alive(s) /\ conn # 0, at[Caller].step # "close"
        PROVE  \/ LeftWith(s)' \/ Redialing'
               \/ Alive(s)' /\ conn' # 0
    BY <1>2, <2>2, <2>5, NilRedials
  <2>6. CASE at'[Caller] = at[Caller]
    <3>1. At(Caller, "subscribed", "append") /\ at[Caller].step = "append"
      BY <1>4, <2>1, <2>6 DEF At
    <3>2. \/ Unanswered \/ LeftWith(s) \/ Redialing
          \/ Alive(s) /\ conn # 0
      BY <2>2, <3>1 DEF WantInv
    <3>3. CASE Redialing
      <4>1. \A t \in Threads : ~SetConn(t)
        BY <3>1 DEF SetConn
      <4> QED BY <1>0, <3>3, <4>1, RedialStays
    <3> QED BY <2>3, <2>4, <2>5, <3>1, <3>2, <3>3
  <2>7. CASE Awaiting
    <3>1. at[Caller].step # "close"
      BY <2>7 DEF Awaiting, At, Point
    <3>2. \/ Unanswered \/ LeftWith(s) \/ Outlasted
          \/ Alive(s) /\ conn # 0
      BY <2>2, <2>7 DEF WantInv
    <3>3. Outlasted => Redialing'
      BY <1>0, OutlastedStays
    <3> QED BY <2>3, <2>4, <2>5, <3>1, <3>2, <3>3
  <2> QED BY <1>0, <2>1, <2>6, <2>7, CallerArrives
<1> QED BY <1>3, <1>4 DEF WantInv

LEMMA LossKeeps ==
  ASSUME WebsocketInv, Next, TypeOK', PlaceInv', "late" \notin Faults
  PROVE  LossInv'
<1> SUFFICES ASSUME ~closed' PROVE DialInv' /\ ServedInv' /\ WantInv'
  BY DEF LossInv
<1>1. ~closed /\ ~Stopped' /\ Goroutines /\ PlaceInv
  BY ClosedStays DEF WebsocketInv, Next
<1>2. /\ TypeOK /\ ConnInv /\ MessageInv /\ AnswerInv
      /\ DialInv /\ ServedInv /\ WantInv
  BY <1>1 DEF WebsocketInv, LossInv
<1>3. DialInv'
  BY <1>1, <1>2, DialKeeps
<1>4. ServedInv'
  BY <1>1, <1>2, ServedKeeps
<1>5. WantInv'
  BY <1>1, <1>2, WantKeeps
<1> QED BY <1>3, <1>4, <1>5
-----------------------------------------------------------------------------
(***************************************************************************)
(* The invariants hold.                                                    *)
(***************************************************************************)
BaseInv == TypeOK /\ PlaceInv /\ ConnInv /\ MessageInv

LEMMA InitEstablishes == Init => WebsocketInv
<1> SUFFICES ASSUME Init PROVE WebsocketInv
  OBVIOUS
<1> USE CallerIsNoReader
<1>1. 1 \in Conns /\ Conns \subseteq Nat \ {0} /\ \A k \in Conns : 1 <= k
  BY WebsocketAssumption DEF Conns
<1>2. /\ at[Caller] = Idle /\ at[1] = Point("read", "read")
      /\ \A k \in Conns : k # 1 => at[k] = Idle
      /\ at \in [Threads -> {Idle, Point("read", "read")}]
  BY <1>1 DEF Init, Caller
<1>3. \A t \in Threads : at[t].step \in {"idle", "read"}
  BY <1>2 DEF Idle, Point
<1>4. inbox \in [Conns -> Seq({})] /\ updates \in Seq({})
  BY DEF Init
<1>5. \A k \in Conns : inbox[k] = <<>> /\ InHand(k) = 0 /\ Len(inbox[k]) = 0
  BY <1>3 DEF Init, InHand
<1>6. TypeOK
  <2>1. inbox \in [Conns -> Seq(Messages)] /\ updates \in Seq(Messages)
    BY DEF Init
  <2>2. at \in [Threads ->
              [stage : Connecting \cup {"idle", "dead", "first", "second",
                                       "subscribed", "read"},
               step  : {"idle", "dead", "dial", "dialed", "copy", "write",
                        "wait", "append", "close", "read", "lock", "ack",
                        "send", "failed", "drop", "sleep"}]]
    BY <1>2 DEF Idle, Point
  <2>3. \A k \in Conns : k > used <=> link[k] = "none"
    BY <1>1 DEF Init
  <2>4. \A k \in Conns :
          lock = k <=> At(k, "read", "ack") \/ At(k, "read", "send")
    <3>1. \A k \in Conns : ~At(k, "read", "ack") /\ ~At(k, "read", "send")
      BY <1>3 DEF At, Point
    <3>2. \A k \in Conns : lock # k
      BY <1>1 DEF Init
    <3> QED BY <3>1, <3>2
  <2>5. \A k \in Conns : InHand(k) <= Len(inbox[k])
    BY <1>5
  <2>6. Len(updates) <= Buffer
    BY WebsocketAssumption DEF Init
  <2>7. link \in [Conns -> {"none", "up", "lost", "closed", "left"}]
    BY DEF Init
  <2>8. /\ subs \in [Conns -> SUBSET Swaps] /\ ids \in [Threads -> SUBSET Swaps]
        /\ want \subseteq asked /\ asked \subseteq Swaps
        /\ swapIds \subseteq asked /\ closed \in BOOLEAN
        /\ before \in [Conns -> SUBSET Threads]
    BY DEF Init
  <2>9. /\ status \in [Swaps -> 0 .. Final] /\ seen \in [Swaps -> 0 .. Final]
        /\ \A s \in Swaps : seen[s] <= status[s]
        /\ losses \in 0 .. MaxLosses /\ lock \in 0 .. MaxConns
        /\ conn \in 0 .. MaxConns /\ used \in Conns /\ conn <= used
    BY <1>1, WebsocketAssumption DEF Init, Conns
  <2> QED BY <2>1, <2>2, <2>3, <2>4, <2>5, <2>6, <2>7, <2>8, <2>9 DEF TypeOK
<1>7. PlaceInv
  BY <1>2 DEF PlaceInv, CallerAt, ReaderAt, Stopped, Idle, Dead, Point
<1>8. ConnInv
  BY <1>1, <1>2 DEF Init, ConnInv, Point
<1>9. MessageInv
  <2>1. inbox \in [Conns -> Seq(Told)] /\ updates \in Seq(Told \cap Updates)
    BY DEF Init
  <2> QED BY <1>1, <1>3, <1>5, <2>1 DEF MessageInv
<1>10. AnswerInv
  <2>1. Answers = {}
    BY <1>5 DEF Answers
  <2>2. Cardinality(Answers) = 0
    BY <2>1, FS_EmptySet
  <2> QED BY <2>2, WaitingFinite DEF AnswerInv
<1>11. LossInv
  <2>1. conn = 1 /\ link[used] = "up" /\ swapIds = {}
    BY <1>1 DEF Init
  <2>2. ~Awaiting /\ ~At(Caller, "subscribed", "append")
    BY <1>2 DEF Awaiting, At, Idle, Point
  <2> QED BY <2>1, <2>2 DEF LossInv, DialInv, ServedInv, WantInv
<1> QED BY <1>6, <1>7, <1>8, <1>9, <1>10, <1>11 DEF WebsocketInv

LEMMA BaseKeeps == BaseInv /\ Next => BaseInv'
<1> SUFFICES ASSUME BaseInv, Next PROVE BaseInv'
  OBVIOUS
<1>1. TypeOK /\ PlaceInv /\ ConnInv /\ MessageInv /\ Goroutines
  BY DEF BaseInv, Next
<1>2. PlaceInv'
  BY <1>1, PlaceKeeps
<1>3. ConnInv' /\ MessageInv' /\ TypeOK'
  BY <1>1, <1>2, ConnKeeps, MessageKeeps, TypeKeeps
<1> QED BY <1>2, <1>3 DEF BaseInv

LEMMA StepKeeps ==
  "late" \notin Faults => (WebsocketInv /\ Next => WebsocketInv')
<1> SUFFICES ASSUME "late" \notin Faults, WebsocketInv, Next
             PROVE  WebsocketInv'
  OBVIOUS
<1>1. /\ TypeOK /\ PlaceInv /\ ConnInv /\ MessageInv /\ AnswerInv
      /\ Goroutines
  BY DEF WebsocketInv, Next
<1>2. TypeOK' /\ PlaceInv' /\ ConnInv' /\ MessageInv'
  BY <1>1, BaseKeeps DEF BaseInv
<1>3. AnswerInv'
  BY <1>1, <1>2, AnswerKeeps
<1>4. LossInv'
  BY <1>2, LossKeeps
<1> QED BY <1>2, <1>3, <1>4 DEF WebsocketInv

LEMMA BaseStutters == BaseInv /\ UNCHANGED vars => BaseInv'
  BY DEF BaseInv, TypeOK, PlaceInv, ConnInv, MessageInv, Told, Stopped, InHand,
         At, vars, client, reading, lightzd

LEMMA StutterKeeps == WebsocketInv /\ UNCHANGED vars => WebsocketInv'
<1> SUFFICES ASSUME WebsocketInv, UNCHANGED vars PROVE WebsocketInv'
  OBVIOUS
<1>1. TypeOK' /\ PlaceInv' /\ ConnInv' /\ MessageInv'
  BY BaseStutters DEF WebsocketInv, BaseInv
<1>2. Answers' = Answers /\ Waiting' = Waiting
  BY DEF Answers, Waiting, vars, client, lightzd
<1>3. AnswerInv'
  BY <1>2 DEF WebsocketInv, AnswerInv, Stopped, vars, client
<1>4. Unanswered' <=> Unanswered
  BY <1>2 DEF Unanswered
<1>5. /\ \A s : LeftWith(s)' <=> LeftWith(s)
      /\ \A s : Alive(s)' <=> Alive(s)
      /\ \A s : Served(s)' <=> Served(s)
      /\ Redialing' <=> Redialing
      /\ Outlasted' <=> Outlasted
      /\ Awaiting' <=> Awaiting
  BY DEF LeftWith, Alive, Served, Heard, Redialing, Outlasted, Awaiting, At,
         vars, client, lightzd
<1>6. LossInv'
  BY <1>4, <1>5 DEF WebsocketInv, LossInv, DialInv, ServedInv, WantInv, At,
         vars, client
<1> QED BY <1>1, <1>3, <1>6 DEF WebsocketInv

(***************************************************************************)
(* Types, for every fault: updatesLock belongs to the reader that handles  *)
(* a message, which still is in front of what its connection brought, and  *)
(* the nursery is never ahead of lightzd (ws.go:120-202).                  *)
(***************************************************************************)
THEOREM TypeCorrect == Spec => []TypeOK
<1>1. Init => BaseInv
  BY InitEstablishes DEF WebsocketInv, BaseInv
<1>2. BaseInv /\ [Next]_vars => BaseInv'
  BY BaseKeeps, BaseStutters
<1>3. BaseInv => TypeOK
  BY DEF BaseInv
<1> QED BY <1>1, <1>2, <1>3, PTL DEF Spec

LEMMA InvariantHolds == "late" \notin Faults => (Spec => []WebsocketInv)
<1> SUFFICES ASSUME "late" \notin Faults PROVE Spec => []WebsocketInv
  OBVIOUS
<1>1. WebsocketInv /\ [Next]_vars => WebsocketInv'
  BY StepKeeps, StutterKeeps
<1> QED BY InitEstablishes, <1>1, PTL DEF Spec

(***************************************************************************)
(* As long as answers come within five seconds, a reader that holds        *)
(* updatesLock with an acknowledgement finds somebody who waits for one:   *)
(* there are never more acknowledgements than waiters (ws.go:171-202).     *)
(***************************************************************************)
THEOREM AcksAreAwaited == "late" \notin Faults => (Spec => []AckIsAwaited)
<1> SUFFICES ASSUME "late" \notin Faults PROVE Spec => []AckIsAwaited
  OBVIOUS
<1>1. WebsocketInv => AckIsAwaited
  <2> SUFFICES ASSUME WebsocketInv, NEW k \in Conns, At(k, "read", "ack")
               PROVE  \E t \in Threads : at[t].step = "wait"
    BY DEF AckIsAwaited
  <2>1. TypeOK /\ PlaceInv /\ MessageInv /\ AnswerInv
    BY DEF WebsocketInv
  <2>2. at[k].step = "ack" /\ at[k] # Dead
    BY DEF At, Point, Dead
  <2>3. ~Stopped
    BY <2>1, <2>2 DEF PlaceInv
  <2>4. Head(inbox[k]) = Ack /\ Len(inbox[k]) # 0
    BY <2>1, <2>2 DEF MessageInv, TypeOK, InHand
  <2>5. 1 \in DOMAIN inbox[k] /\ inbox[k][1] = Ack
    BY <2>1, <2>4 DEF TypeOK
  <2>6. <<k, 1>> \in Answers
    BY <2>5 DEF Answers
  <2>7. Cardinality(Answers) # 0
    BY <2>1, <2>6, AnswersFinite, FS_EmptySet
  <2>8. Cardinality(Waiting) # 0
    BY <2>1, <2>3, <2>7, AnswersFinite, WaitingFinite DEF AnswerInv
  <2>9. Waiting # {}
    BY <2>8, FS_EmptySet
  <2> QED BY <2>9 DEF Waiting
<1> QED BY InvariantHolds, <1>1, PTL

(***************************************************************************)
(* As long as answers come within five seconds, a lost connection never    *)
(* makes the client deaf to a swap it subscribed to: a reader still reads  *)
(* its updates, somebody connects again and copies swapIds, or whoever is  *)
(* left without an answer does (ws.go:120-166, 192-276).                   *)
(***************************************************************************)
THEOREM LossesAreRepaired == "late" \notin Faults => (Spec => []LossIsRepaired)
<1> SUFFICES ASSUME "late" \notin Faults PROVE Spec => []LossIsRepaired
  OBVIOUS
<1>1. WebsocketInv => LossIsRepaired
  <2> SUFFICES ASSUME WebsocketInv, NEW s \in Swaps, Deaf(s)
               PROVE  link[used] \in {"closed", "left"} \/ LeftWith(s)
    BY DEF LossIsRepaired
  <2>1. s \in swapIds /\ ~closed /\ ~Heard(s) /\ ~Recovering
    BY DEF Deaf
  <2>2. \/ Served(s) \/ At(Caller, "reconnect", "close") \/ Unanswered
    BY <2>1 DEF WebsocketInv, LossInv, ServedInv
  <2>3. ~At(Caller, "reconnect", "close") /\ ~Unanswered
    BY <2>1, CallerIsNoReader DEF Recovering, At, Point
  <2>4. ~Redialing
    BY <2>1, CallerIsNoReader DEF Recovering, Redialing
  <2>5. ~\E t \in Threads :
           \/ at[t].step \in {"drop", "copy"}
           \/ at[t].stage \in Connecting /\ at[t].step = "write" /\ s \in ids[t]
    BY <2>1 DEF Recovering
  <2>6. ~\E k \in Conns :
           /\ at[k].step \in {"read", "lock", "ack", "send", "failed"}
           /\ link[k] = "lost" /\ conn # 0
    BY <2>1 DEF Recovering
  <2> QED BY <2>1, <2>2, <2>3, <2>4, <2>5, <2>6 DEF Served
<1> QED BY InvariantHolds, <1>1, PTL
-----------------------------------------------------------------------------
(***************************************************************************)
(* No update is lost on a connection that is up: the present status of a   *)
(* swap is under way over it, in the channel Updates or handled.           *)
(***************************************************************************)
Has(q, m) == \E i \in DOMAIN q : q[i] = m

Carried(k, s) ==
  \/ seen[s] = status[s]
  \/ Has(inbox[k], Update(s))
  \/ Has(updates, Update(s))

CarriedInv ==
  \A k \in Conns : link[k] = "up" => \A s \in subs[k] : Carried(k, s)

LEMMA HasAppend ==
  ASSUME NEW S, NEW q \in Seq(S), NEW m \in S
  PROVE  /\ Has(Append(q, m), m)
         /\ \A x : Has(q, x) => Has(Append(q, m), x)
<1> DEFINE r == Append(q, m)
<1>1. /\ r \in Seq(S) /\ Len(r) = Len(q) + 1 /\ r[Len(q) + 1] = m
      /\ \A i \in 1 .. Len(q) : r[i] = q[i]
  BY AppendMessage
<1> HIDE DEF r
<1>2. /\ Len(q) \in Nat /\ DOMAIN q = 1 .. Len(q)
      /\ DOMAIN r = 1 .. Len(q) + 1
  BY <1>1, LenProperties
<1>3. Len(q) + 1 \in DOMAIN r /\ DOMAIN q \subseteq DOMAIN r
  BY <1>2
<1>4. Has(r, m) /\ \A x : Has(q, x) => Has(r, x)
  BY <1>1, <1>2, <1>3 DEF Has
<1> QED BY <1>4 DEF r

LEMMA HasTail ==
  ASSUME NEW S, NEW q \in Seq(S), q # <<>>, NEW x, Has(q, x), x # Head(q)
  PROVE  Has(Tail(q), x)
<1>1. PICK i \in DOMAIN q : q[i] = x
  BY DEF Has
<1>2. /\ Len(q) \in Nat /\ Len(q) > 0 /\ DOMAIN q = 1 .. Len(q)
  BY LenProperties, EmptySeq
<1> DEFINE r == Tail(q)
<1>3. /\ r \in Seq(S) /\ Len(r) = Len(q) - 1 /\ Head(q) = q[1]
      /\ \A j \in 1 .. Len(q) - 1 : r[j] = q[j + 1]
  BY <1>2, HeadTailProperties
<1> HIDE DEF r
<1>4. i # 1 /\ i \in 1 .. Len(q)
  BY <1>1, <1>2, <1>3
<1>5. i - 1 \in 1 .. Len(q) - 1 /\ (i - 1) + 1 = i
  BY <1>2, <1>4
<1>6. r[i - 1] = x /\ DOMAIN r = 1 .. Len(q) - 1
  BY <1>1, <1>2, <1>3, <1>5, LenProperties
<1> QED BY <1>5, <1>6 DEF Has, r

LEMMA ReplyHas ==
  ASSUME NEW S \in SUBSET Swaps, NEW reply \in SetToSeqs(S), NEW s \in S
  PROVE  \E i \in DOMAIN reply : reply[i] = s
<1> DEFINE n == Cardinality(S)
<1>1. IsFiniteSet(S) /\ n \in Nat
  BY WebsocketAssumption, FS_Subset, FS_CardinalityType
<1>2. /\ reply \in [1 .. n -> S]
      /\ \A i, j \in 1 .. n : i # j => reply[i] # reply[j]
  BY DEF SetToSeqs
<1> HIDE DEF n
<1>3. IsFiniteSet(1 .. n) /\ Cardinality(1 .. n) = n
  BY <1>1, FS_Interval
<1>4. reply \in Injection(1 .. n, S)
  BY <1>2 DEF Injection, IsInjective
<1>5. reply \in Surjection(1 .. n, S)
  BY <1>1, <1>3, <1>4, FS_Injection DEF n
<1> QED BY <1>2, <1>5 DEF Surjection

\* The answer carries the present status of every swap it is about.
LEMMA HasAnswer ==
  ASSUME TypeOK, MessageInv, NEW k \in Conns,
         NEW S \in SUBSET Swaps, NEW reply \in SetToSeqs(S),
         inbox' = [inbox EXCEPT ![k] = Append(@, Ack) \o
                     [i \in DOMAIN reply |-> Update(reply[i])]]
  PROVE  /\ \A s \in S : Has(inbox'[k], Update(s))
         /\ \A x : Has(inbox[k], x) => Has(inbox'[k], x)
         /\ \A j \in Conns : j # k => inbox'[j] = inbox[j]
<1> DEFINE q == inbox[k]
           r == [i \in DOMAIN reply |-> Update(reply[i])]
           p == Append(q, Ack) \o r
<1>1. /\ inbox \in [Conns -> Seq(Told)] /\ q \in Seq(Told) /\ Len(q) \in Nat
      /\ DOMAIN q = 1 .. Len(q)
  BY InboxFacts DEF MessageInv
<1>2. r \in Seq(Told \cap Updates)
  BY ReplyMessages
<1>3. inbox' = [inbox EXCEPT ![k] = p]
  OBVIOUS
<1>4. \A s \in S : Has(r, Update(s))
  <2> SUFFICES ASSUME NEW s \in S PROVE Has(r, Update(s))
    OBVIOUS
  <2>1. PICK i \in DOMAIN reply : reply[i] = s
    BY ReplyHas
  <2> HIDE DEF Update
  <2> QED BY <2>1 DEF Has
<1> HIDE DEF q, r
<1>5. /\ r \in Seq(Told) /\ Len(r) \in Nat /\ DOMAIN r = 1 .. Len(r)
  BY <1>2, SeqMonotonic, LenProperties
<1>6. /\ p \in Seq(Told)
      /\ Len(p) = Len(q) + 1 + Len(r)
      /\ \A i \in 1 .. Len(q) + 1 + Len(r) :
           p[i] = IF i <= Len(q) THEN q[i]
                  ELSE IF i = Len(q) + 1 THEN Ack ELSE r[i - Len(q) - 1]
  BY <1>1, <1>5, ToldFacts, MoreMessages
<1> HIDE DEF p
<1>7. DOMAIN p = 1 .. Len(q) + 1 + Len(r)
  BY <1>6, LenProperties
<1>8. ASSUME NEW x, Has(q, x) PROVE Has(p, x)
  <2>1. PICK i \in DOMAIN q : q[i] = x
    BY <1>8 DEF Has
  <2>2. i \in 1 .. Len(q) + 1 + Len(r) /\ i <= Len(q)
    BY <1>1, <1>5, <2>1
  <2>3. p[i] = q[i]
    BY <1>6, <2>2
  <2> QED BY <1>7, <2>1, <2>2, <2>3 DEF Has
<1>9. ASSUME NEW x, Has(r, x) PROVE Has(p, x)
  <2>1. PICK i \in DOMAIN r : r[i] = x
    BY <1>9 DEF Has
  <2> DEFINE j == Len(q) + 1 + i
  <2>2. /\ j \in 1 .. Len(q) + 1 + Len(r) /\ ~(j <= Len(q))
        /\ j # Len(q) + 1 /\ j - Len(q) - 1 = i
    BY <1>1, <1>5, <2>1
  <2> HIDE DEF j, Ack
  <2>3. p[j] = r[i]
    BY <1>6, <2>2
  <2> QED BY <1>7, <2>1, <2>2, <2>3 DEF Has
<1>10. inbox'[k] = p /\ \A j \in Conns : j # k => inbox'[j] = inbox[j]
  BY <1>1, <1>3
<1> QED BY <1>4, <1>8, <1>9, <1>10 DEF q

LEMMA CarriedStays ==
  ASSUME CarriedInv, UNCHANGED <<status, seen>>,
         \A k \in Conns :
           link'[k] = "up" =>
             /\ link[k] = "up" /\ subs'[k] = subs[k]
             /\ \A s \in subs[k] : Has(inbox[k], Update(s)) =>
                  Has(inbox'[k], Update(s)) \/ Has(updates', Update(s)),
         \A s \in Swaps : Has(updates, Update(s)) => Has(updates', Update(s)),
         TypeOK
  PROVE  CarriedInv'
<1> SUFFICES ASSUME NEW k \in Conns, link'[k] = "up", NEW s \in subs'[k]
             PROVE  Carried(k, s)'
  BY DEF CarriedInv
<1>1. link[k] = "up" /\ s \in subs[k] /\ s \in Swaps
  BY DEF TypeOK
<1>2. Carried(k, s) /\ Update(s)' = Update(s)
  BY <1>1 DEF CarriedInv, Update
<1> HIDE DEF Update
<1> QED BY <1>1, <1>2 DEF Carried

LEMMA CarriedKeeps ==
  ASSUME TypeOK, PlaceInv, ConnInv, MessageInv, Goroutines, CarriedInv
  PROVE  CarriedInv'
<1> USE CallerIsNoReader
<1>0. /\ inbox \in [Conns -> Seq(Told)] /\ updates \in Seq(Told \cap Updates)
      /\ subs \in [Conns -> SUBSET Swaps]
      /\ link \in [Conns -> {"none", "up", "lost", "closed", "left"}]
      /\ \A s \in Swaps : Update(s) # Ack
  BY DEF MessageInv, TypeOK, Update, Ack
<1>1. ASSUME UNCHANGED <<inbox, updates, link, subs, status, seen>>
      PROVE  CarriedInv'
  BY <1>1, CarriedStays
<1>2. ASSUME NEW t \in Threads, SetConn(t) PROVE CarriedInv'
  <2>1. UNCHANGED <<inbox, updates, subs, status, seen>>
    BY <1>2 DEF SetConn, lightzd, reading
  <2>2. subs[used'] = {} /\ \A k \in Conns : k # used' => link'[k] = link[k]
    BY <1>2, Connects
  <2> SUFFICES ASSUME NEW k \in Conns, link'[k] = "up", NEW s \in subs'[k]
               PROVE  Carried(k, s)'
    BY DEF CarriedInv
  <2>3. link[k] = "up" /\ s \in subs[k]
    BY <2>1, <2>2
  <2> QED BY <2>1, <2>3 DEF CarriedInv, Carried, Update
<1>3. ASSUME NEW t \in Threads, Write(t) PROVE CarriedInv'
  <2> DEFINE S == IF at[t].stage \in Connecting THEN ids[t] ELSE want
  <2>1. /\ conn # 0 /\ UNCHANGED <<updates, status, seen, link>>
        /\ \/ UNCHANGED <<inbox, subs>>
           \/ /\ subs' = [subs EXCEPT ![conn] = @ \cup S]
              /\ \E reply \in SetToSeqs(S) :
                   inbox' = [inbox EXCEPT ![conn] = Append(@, Ack) \o
                               [i \in DOMAIN reply |-> Update(reply[i])]]
    BY <1>3 DEF Write, reading
  <2>2. S \in SUBSET Swaps /\ conn \in Conns
    BY <2>1 DEF TypeOK, Conns
  <2> HIDE DEF S
  <2>3. CASE UNCHANGED <<inbox, subs>>
    BY <1>1, <2>1, <2>3
  <2>4. CASE /\ subs' = [subs EXCEPT ![conn] = @ \cup S]
             /\ \E reply \in SetToSeqs(S) :
                  inbox' = [inbox EXCEPT ![conn] = Append(@, Ack) \o
                              [i \in DOMAIN reply |-> Update(reply[i])]]
    <3>1. /\ \A s \in S : Has(inbox'[conn], Update(s))
          /\ \A x : Has(inbox[conn], x) => Has(inbox'[conn], x)
          /\ \A j \in Conns : j # conn => inbox'[j] = inbox[j]
      BY <2>2, <2>4, HasAnswer
    <3> SUFFICES ASSUME NEW k \in Conns, link'[k] = "up", NEW s \in subs'[k]
                 PROVE  Carried(k, s)'
      BY DEF CarriedInv
    <3>2. \/ s \in subs[k]
          \/ k = conn /\ s \in S
      BY <1>0, <2>2, <2>4
    <3>3. Update(s)' = Update(s)
      BY <2>1 DEF Update
    <3> HIDE DEF Update
    <3>4. CASE s \in subs[k]
      <4>1. Carried(k, s)
        BY <2>1, <3>4 DEF CarriedInv
      <4>2. Has(inbox[k], Update(s)) => Has(inbox'[k], Update(s))
        BY <3>1
      <4> QED BY <2>1, <3>3, <4>1, <4>2 DEF Carried
    <3>5. CASE k = conn /\ s \in S
      BY <3>1, <3>3, <3>5 DEF Carried
    <3> QED BY <3>2, <3>4, <3>5
  <2> QED BY <2>1, <2>3, <2>4
<1>4. ASSUME NEW t \in Threads, NEW k \in Conns, TakeAck(t, k)
      PROVE  CarriedInv'
  <2>1. /\ InHand(k) = 1 /\ Head(inbox[k]) = Ack
        /\ inbox' = [inbox EXCEPT ![k] = Tail(@)]
        /\ UNCHANGED <<updates, link, subs, status, seen>>
    BY <1>4, Handed DEF TakeAck
  <2>2. /\ inbox[k] # <<>> /\ inbox'[k] = Tail(inbox[k])
        /\ \A j \in Conns : j # k => inbox'[j] = inbox[j]
    BY <2>1, Takes
  <2>3. \A s \in Swaps :
          Has(inbox[k], Update(s)) => Has(inbox'[k], Update(s))
    <3> HIDE DEF Update, Ack
    <3> QED BY <1>0, <2>1, <2>2, HasTail
  <2>4. \A j \in Conns : \A s \in subs[j] :
          Has(inbox[j], Update(s)) => Has(inbox'[j], Update(s))
    BY <1>0, <2>2, <2>3
  <2> QED BY <2>1, <2>4, CarriedStays
<1>5. ASSUME NEW k \in Conns, Send(k) PROVE CarriedInv'
  <2>1. /\ InHand(k) = 1 /\ at[k].step = "send"
        /\ inbox' = [inbox EXCEPT ![k] = Tail(@)]
        /\ updates' = Append(updates, Head(inbox[k]))
        /\ UNCHANGED <<link, subs, status, seen>>
    BY <1>5 DEF Send, InHand, At, Point
  <2>2. /\ inbox[k] # <<>> /\ inbox'[k] = Tail(inbox[k])
        /\ Head(inbox[k]) \in Told
        /\ \A j \in Conns : j # k => inbox'[j] = inbox[j]
    BY <2>1, Takes
  <2>3. Head(inbox[k]) \in Told \cap Updates
    BY <2>1, <2>2, ToldFacts DEF MessageInv, Updates
  <2> HIDE DEF Updates
  <2>4. /\ Has(updates', Head(inbox[k]))
        /\ \A x : Has(updates, x) => Has(updates', x)
    BY <1>0, <2>1, <2>3, HasAppend
  <2>5. \A x : Has(inbox[k], x) => Has(inbox'[k], x) \/ Has(updates', x)
    BY <1>0, <2>2, <2>4, HasTail
  <2>6. \A j \in Conns : \A s \in subs[j] : Has(inbox[j], Update(s)) =>
          Has(inbox'[j], Update(s)) \/ Has(updates', Update(s))
    <3> HIDE DEF Update
    <3> QED BY <2>2, <2>5
  <2> QED BY <2>1, <2>4, <2>6, CarriedStays
<1>6. ASSUME NEW how \in {"closed", "left"}, CloseConn(how)
      PROVE  \A k \in Conns : link'[k] = "up" =>
               link[k] = "up" /\ inbox'[k] = inbox[k]
  BY <1>6, Closes
<1>7. ASSUME Reconnect \/ Close PROVE CarriedInv'
  <2>1. CloseConn("closed") /\ UNCHANGED <<updates, subs, status, seen>>
    BY <1>7 DEF Reconnect, Close, reading
  <2> QED BY <1>6, <2>1, CarriedStays
<1>8. ASSUME Consume PROVE CarriedInv'
  <2> DEFINE u == Head(updates)
  <2>1. /\ updates # <<>> /\ updates' = Tail(updates)
        /\ seen' = [seen EXCEPT ![u.swap] = IF @ < u.status THEN u.status ELSE @]
        /\ UNCHANGED <<subs, status>>
        /\ \/ CloseConn("left")
           \/ UNCHANGED <<link, inbox>>
    BY <1>8 DEF Consume, Unsubscribe
  <2>2. \A k \in Conns : link'[k] = "up" =>
          link[k] = "up" /\ inbox'[k] = inbox[k]
    BY <1>6, <2>1
  <2>3. u \in Told \cap Updates
    BY <2>1, HeadTailProperties DEF MessageInv
  <2>4. /\ u.swap \in Swaps /\ u.status \in Nat /\ u.status <= status[u.swap]
        /\ u = [type |-> "update", swap |-> u.swap, status |-> u.status]
    BY <2>3, WebsocketAssumption DEF Told, Updates, Messages
  <2>5. /\ seen \in [Swaps -> Nat] /\ status \in [Swaps -> Nat]
        /\ \A s \in Swaps : seen[s] <= status[s]
    BY WebsocketAssumption DEF TypeOK
  <2> HIDE DEF u
  <2> SUFFICES ASSUME NEW k \in Conns, link'[k] = "up", NEW s \in subs'[k]
               PROVE  Carried(k, s)'
    BY DEF CarriedInv
  <2>6. s \in Swaps /\ Carried(k, s) /\ Update(s)' = Update(s)
    BY <1>0, <2>1, <2>2 DEF CarriedInv, Update
  <2>7. CASE seen[s] = status[s]
    <3>1. seen'[s] = status'[s]
      BY <2>1, <2>4, <2>5, <2>6, <2>7
    <3> QED BY <3>1 DEF Carried
  <2>8. CASE Has(inbox[k], Update(s))
    BY <2>2, <2>6, <2>8 DEF Carried
  <2>9. CASE Has(updates, Update(s)) /\ u # Update(s)
    <3>1. Has(Tail(updates), Update(s))
      <4> HIDE DEF Update, Updates
      <4> QED BY <1>0, <2>1, <2>9, HasTail DEF u
    <3> QED BY <2>1, <2>6, <3>1 DEF Carried
  <2>10. CASE u = Update(s)
    <3>1. u.swap = s /\ u.status = status[s]
      BY <2>10 DEF Update
    <3>2. seen'[s] = status'[s]
      BY <2>1, <2>5, <2>6, <3>1
    <3> QED BY <3>2 DEF Carried
  <2> QED BY <2>6, <2>7, <2>8, <2>9, <2>10 DEF Carried
<1>9. ASSUME NEW x \in Swaps, Report(x) PROVE CarriedInv'
  <2> DEFINE m == [Update(x) EXCEPT !.status = @ + 1]
  <2>1. /\ status[x] < Final /\ status' = [status EXCEPT ![x] = @ + 1]
        /\ inbox' = [k \in Conns |->
                       IF link[k] = "up" /\ x \in subs[k]
                       THEN Append(inbox[k], m) ELSE inbox[k]]
        /\ UNCHANGED <<updates, link, subs, seen>>
    BY <1>9 DEF Report, client, reading
  <2>2. m = Update(x)'
    BY <2>1 DEF TypeOK, Update
  <2>3. m \in Messages
    BY <2>1, WebsocketAssumption DEF TypeOK, Messages, Update
  <2> HIDE DEF m
  <2>4. \A k \in Conns : inbox[k] \in Seq(Messages)
    BY DEF TypeOK
  <2>5. \A k \in Conns : link[k] = "up" /\ x \in subs[k] =>
          /\ Has(inbox'[k], m)
          /\ \A y : Has(inbox[k], y) => Has(inbox'[k], y)
    BY <2>1, <2>3, <2>4, HasAppend
  <2> SUFFICES ASSUME NEW k \in Conns, link'[k] = "up", NEW s \in subs'[k]
               PROVE  Carried(k, s)'
    BY DEF CarriedInv
  <2>6. link[k] = "up" /\ s \in subs[k] /\ Carried(k, s) /\ s \in Swaps
    BY <1>0, <2>1 DEF CarriedInv
  <2>7. CASE s = x
    BY <2>2, <2>5, <2>6, <2>7 DEF Carried
  <2>8. CASE s # x
    <3>1. status'[s] = status[s]
      BY <2>1, <2>6, <2>8 DEF TypeOK
    <3>2. Update(s)' = Update(s)
      BY <3>1 DEF Update
    <3>3. Has(inbox[k], Update(s)) => Has(inbox'[k], Update(s))
      BY <2>1, <2>5
    <3> HIDE DEF Update
    <3> QED BY <2>1, <2>6, <3>1, <3>2, <3>3 DEF Carried
  <2> QED BY <2>7, <2>8
<1>10. ASSUME NEW k \in Conns, Lose(k) PROVE CarriedInv'
  <2>1. /\ link' = [link EXCEPT ![k] = "lost"]
        /\ \E q : inbox' = [inbox EXCEPT ![k] = q]
        /\ UNCHANGED <<updates, subs, status, seen>>
    BY <1>10 DEF Lose, reading
  <2>2. \A j \in Conns : link'[j] = "up" =>
          link[j] = "up" /\ inbox'[j] = inbox[j]
    BY <1>0, <2>1
  <2> QED BY <2>1, <2>2, CarriedStays
<1>11. ASSUME NEW k \in Conns, Lock(k) \/ SendPanics(k) PROVE CarriedInv'
  BY <1>1, <1>11 DEF Lock, SendPanics, lightzd
<1>12. Still => CarriedInv'
  BY <1>1 DEF Still
<1> HIDE DEF CarriedInv
<1>13. ASSUME NEW t \in Threads, CallerStep(t) PROVE CarriedInv'
  BY <1>2, <1>3, <1>4, <1>12, <1>13, StillSteps DEF CallerStep
<1>14. ASSUME NEW k \in Conns, ReaderStep(k) PROVE CarriedInv'
  BY <1>5, <1>11, <1>12, <1>14, StillSteps DEF ReaderStep
<1> QED BY <1>7, <1>8, <1>9, <1>10, <1>12, <1>13, <1>14, StillSteps
      DEF Goroutines

(***************************************************************************)
(* As long as answers come within five seconds, in the end the nursery has *)
(* handled the present status of every swap it subscribed to, whatever     *)
(* connections were lost: a swap that is not served by a connection that   *)
(* is up still has somebody to serve it, so that the client is not at rest *)
(* (ws.go:120-202).                                                        *)
(***************************************************************************)
THEOREM NothingIsLost == "late" \notin Faults => (Spec => []NothingIsMissed)
<1> SUFFICES ASSUME "late" \notin Faults PROVE Spec => []NothingIsMissed
  OBVIOUS
<1>1. Init => CarriedInv
  BY DEF Init, CarriedInv
<1>2. CarriedInv /\ WebsocketInv /\ [Next]_vars => CarriedInv'
  <2>1. CarriedInv /\ WebsocketInv /\ Next => CarriedInv'
    BY CarriedKeeps DEF WebsocketInv, Next
  <2>2. CarriedInv /\ UNCHANGED vars => CarriedInv'
    BY DEF CarriedInv, Carried, Has, Update, vars, client, reading, lightzd
  <2> QED BY <2>1, <2>2
<1>3. CarriedInv /\ WebsocketInv => NothingIsMissed
  <2> SUFFICES ASSUME CarriedInv, WebsocketInv, Resting, NEW s \in swapIds
               PROVE  \/ seen[s] = status[s] \/ closed
                      \/ link[used] \in {"closed", "left"} \/ LeftWith(s)
    BY DEF NothingIsMissed
  <2>1. /\ at[Caller] = Idle /\ updates = <<>>
        /\ \A k \in Conns :
             \/ at[k].step = "idle" /\ at[k].stage = "idle"
             \/ /\ at[k].step = "read" /\ at[k].stage = "read"
                /\ link[k] = "up" /\ inbox[k] = <<>>
    BY DEF Resting, At, Idle, Point
  <2>2. \A t \in Threads : at[t].step \in {"idle", "read"}
    BY <2>1, CallerIsNoReader DEF Idle, Point
  <2>3. ~Redialing /\ ~At(Caller, "reconnect", "close")
    BY <2>1 DEF Redialing, At, Idle, Point
  <2>4. ~Unanswered
    <3>1. Waiting = {}
      BY <2>2 DEF Waiting
    <3>2. Cardinality(Waiting) = 0
      BY <3>1, FS_EmptySet
    <3> QED BY <3>2, AnswersFinite DEF Unanswered, WebsocketInv
  <2>5. CASE Heard(s)
    <3>1. PICK k \in Conns : /\ at[k].step \in {"read", "lock", "ack", "send"}
                             /\ s \in subs[k]
      BY <2>5 DEF Heard
    <3>2. link[k] = "up" /\ inbox[k] = <<>>
      BY <2>1, <3>1
    <3>3. Carried(k, s)
      BY <3>1, <3>2 DEF CarriedInv
    <3> QED BY <2>1, <3>2, <3>3 DEF Carried, Has
  <2>6. CASE closed
    BY <2>6
  <2>7. CASE ~closed /\ ~Heard(s)
    <3>1. Served(s)
      BY <2>3, <2>4, <2>7 DEF WebsocketInv, LossInv, ServedInv
    <3>2. ~\E k \in Conns :
             /\ at[k].step \in {"read", "lock", "ack", "send", "failed"}
             /\ link[k] = "lost" /\ conn # 0
      BY <2>1
    <3>3. ~\E t \in Threads :
             \/ at[t].step \in {"drop", "copy"}
             \/ /\ at[t].stage \in Connecting /\ at[t].step = "write"
                /\ s \in ids[t]
      BY <2>2
    <3> QED BY <2>3, <2>7, <3>1, <3>2, <3>3 DEF Served
  <2> QED BY <2>5, <2>6, <2>7
<1> QED BY InvariantHolds, <1>1, <1>2, <1>3, PTL DEF Spec
=============================================================================
