----------------------- MODULE CreateTransactionProofs -----------------------
(***************************************************************************)
(* What a call of createTransaction knows at each of its steps, whichever  *)
(* component runs it, whatever other calls and lightzd do meanwhile.       *)
(***************************************************************************)
EXTENDS CreateTransaction, TLAPS

\* The outputs that are left are there; those that will be recorded are inputs
\* of the transaction; those that are recorded have been spent by the client.
CallInv ==
  \A t \in Threads :
    /\ job[t].pc = "construct" =>
         \A s \in Swaps : s \in job[t].outs => coins[s] # "none"
    /\ job[t].pc = "broadcast" => Paying(t) \subseteq job[t].ins
    /\ job[t].pc = "record" =>
         \A s \in Swaps : s \in job[t].todo => coins[s] = "client"

JobsTyped == job \in [Threads -> Job]

\* Coins that are locked up do not vanish, and the client keeps what it has.
CoinsKept ==
  \A s \in Swaps : /\ coins[s] # "none" => coins'[s] # "none"
                   /\ coins[s] = "client" => coins'[s] = "client"

\* populateOutputs drops what is missing at least.
PopulateStep(t) ==
  \E missing, bad \in SUBSET Swaps :
    Missing(t) \subseteq missing /\ Populate(t, missing, bad)

ConstructStep(t) ==
  \E refused, small \in SUBSET Swaps :
    ConstructRefund(t, refused, small) \/ ConstructClaim(t, small)

BroadcastStep(t) == Broadcast(t) \/ Rebroadcast(t) \/ BroadcastUnanswered(t)

\* The steps of the call of t after its start.
CallStep(t) ==
  \/ PopulateStep(t)
  \/ ConstructStep(t)
  \/ ConstructFails(t) \/ BroadcastFails(t)
  \/ BroadcastStep(t)
  \/ \E s \in Swaps : Record(t, s)
  \/ Finish(t)
  \/ Return(t)

\* No other call moves, and no output is added to this one.
CallMoves(t) ==
  /\ JobsTyped' /\ CallInv'
  /\ \A u \in Threads \ {t} : job'[u] = job[u]
  /\ job'[t].outs \subseteq job[t].outs
  /\ job'[t].todo \subseteq job[t].todo \cup job[t].outs

-----------------------------------------------------------------------------
\* The thread without a call is well formed.
LEMMA NoJobTyped == NoJob \in Job
BY DEF NoJob, Job, JobStep

\* Calls are not disturbed by coins that move.
LEMMA CallsKept ==
  ASSUME CallInv, CoinsKept, UNCHANGED job
  PROVE  CallInv'
BY DEF CallInv, CoinsKept, Paying

\* A call that moves to a point where it knows what it should know there.
LEMMA CallMoved ==
  ASSUME JobsTyped, CallInv, CoinsKept, NEW t \in Threads, NEW j \in Job,
         job' = [job EXCEPT ![t] = j],
         j.outs \subseteq job[t].outs,
         j.todo \subseteq job[t].todo \cup job[t].outs,
         j.pc = "construct" =>
           \A s \in Swaps : s \in j.outs => coins'[s] # "none",
         j.pc = "broadcast" => j.outs \ j.errs \subseteq j.ins,
         j.pc = "record" => \A s \in Swaps : s \in j.todo => coins'[s] = "client"
  PROVE  CallMoves(t)
<1>1. job' \in [Threads -> Job] /\ job'[t] = j
  BY DEF JobsTyped
<1>2. \A u \in Threads \ {t} : job'[u] = job[u]
  BY DEF JobsTyped
<1>3. CallInv'
  <2> SUFFICES ASSUME NEW u \in Threads
               PROVE  /\ job'[u].pc = "construct" =>
                           \A s \in Swaps : s \in job'[u].outs => coins'[s] # "none"
                      /\ job'[u].pc = "broadcast" =>
                           job'[u].outs \ job'[u].errs \subseteq job'[u].ins
                      /\ job'[u].pc = "record" =>
                           \A s \in Swaps :
                             s \in job'[u].todo => coins'[s] = "client"
    BY DEF CallInv, Paying
  <2>1. CASE u = t
    BY <1>1, <2>1
  <2>2. CASE u # t
    BY <1>2, <2>2 DEF CallInv, CoinsKept, Paying
  <2> QED
    BY <2>1, <2>2
<1> QED
  BY <1>1, <1>2, <1>3 DEF CallMoves, JobsTyped

LEMMA CallEnds ==
  ASSUME JobsTyped, CallInv, CoinsKept, NEW t \in Threads,
         NEW pc \in {"idle", "ok", "err"},
         job' = [job EXCEPT ![t] = [NoJob EXCEPT !.pc = pc]]
  PROVE  CallMoves(t)
<1> DEFINE j == [NoJob EXCEPT !.pc = pc]
<1>1. j \in Job /\ j.outs = {} /\ j.todo = {} /\ j.pc = pc
  BY DEF NoJob, Job, JobStep
<1> HIDE DEF j
<1>2. job' = [job EXCEPT ![t] = j]
  BY DEF j
<1> QED
  BY <1>1, <1>2, CallMoved

LEMMA CallFails ==
  ASSUME JobsTyped, CallInv, CoinsKept, NEW t \in Threads, Fail(t)
  PROVE  CallMoves(t)
BY CallEnds DEF Fail

\* A call starts with the outputs it is given.
LEMMA CallStarts ==
  ASSUME JobsTyped, CallInv, CoinsKept, NEW t \in Threads,
         NEW outs \in SUBSET Swaps, NEW coop \in SUBSET Swaps,
         Start(t, outs, coop)
  PROVE  /\ JobsTyped' /\ CallInv'
         /\ \A u \in Threads \ {t} : job'[u] = job[u]
         /\ job[t].pc = "idle" /\ job'[t].pc = "populate"
         /\ job'[t].outs = outs /\ job'[t].todo = {}
<1> DEFINE j == [NoJob EXCEPT !.pc = "populate", !.outs = outs, !.coop = coop]
<1>1. j \in Job /\ j.outs = outs /\ j.todo = {} /\ j.pc = "populate"
  BY DEF NoJob, Job, JobStep
<1> HIDE DEF j
<1>2. job' = [job EXCEPT ![t] = j]
  BY DEF Start, j
<1>3. job' \in [Threads -> Job] /\ job'[t] = j /\ job[t].pc = "idle"
      /\ \A u \in Threads \ {t} : job'[u] = job[u]
  BY <1>1, <1>2 DEF JobsTyped, Start
<1>4. CallInv'
  <2> SUFFICES ASSUME NEW u \in Threads, u # t
               PROVE  /\ job[u].pc = "construct" =>
                           \A s \in Swaps : s \in job[u].outs => coins'[s] # "none"
                      /\ job[u].pc = "broadcast" =>
                           job[u].outs \ job[u].errs \subseteq job[u].ins
                      /\ job[u].pc = "record" =>
                           \A s \in Swaps :
                             s \in job[u].todo => coins'[s] = "client"
    BY <1>1, <1>3 DEF CallInv, Paying
  <2> QED
    BY DEF CallInv, CoinsKept, Paying
<1> QED
  BY <1>1, <1>3, <1>4 DEF JobsTyped

\* What populateOutputs leaves is not missing.
LEMMA CallPopulates ==
  ASSUME JobsTyped, CallInv, CoinsKept, NEW t \in Threads, PopulateStep(t)
  PROVE  CallMoves(t)
<1>1. PICK missing \in SUBSET Swaps, bad \in SUBSET Swaps :
        Missing(t) \subseteq missing /\ Populate(t, missing, bad)
  BY DEF PopulateStep
<1>2. CASE Fail(t)
  BY <1>2, CallFails
<1> DEFINE j == [job[t] EXCEPT !.pc = "construct", !.outs = job[t].outs \ bad,
                               !.coop = job[t].coop \ bad]
<1>3. CASE job' = [job EXCEPT ![t] = j]
  <2>1. job[t] \in Job
    BY DEF JobsTyped
  <2>2. /\ j \in Job /\ j.outs = job[t].outs \ bad /\ j.todo = job[t].todo
        /\ j.pc = "construct"
    BY <2>1 DEF Job, JobStep
  <2> HIDE DEF j
  <2>3. \A s \in Swaps : s \in j.outs => coins'[s] # "none"
    BY <1>1, <2>2 DEF Missing, Populate, CoinsKept
  <2> QED
    BY <1>3, <2>2, <2>3, CallMoved
<1> QED
  BY <1>1, <1>2, <1>3 DEF Populate

\* ConstructTransaction spends every output that it does not drop.
LEMMA CallConstructs ==
  ASSUME JobsTyped, CallInv, CoinsKept, NEW t \in Threads, ConstructStep(t)
  PROVE  CallMoves(t)
<1>1. PICK refused \in SUBSET Swaps, small \in SUBSET Swaps :
        ConstructRefund(t, refused, small) \/ ConstructClaim(t, small)
  BY DEF ConstructStep
<1>2. CASE Fail(t)
  BY <1>2, CallFails
<1>3. ASSUME NEW ins \in SUBSET Swaps, NEW errs \in SUBSET Swaps,
             job[t].outs \ errs \subseteq ins,
             job' = [job EXCEPT ![t].pc = "broadcast", ![t].ins = ins,
                                ![t].errs = errs]
      PROVE  CallMoves(t)
  <2> DEFINE j == [job[t] EXCEPT !.pc = "broadcast", !.ins = ins, !.errs = errs]
  <2>1. job[t] \in Job
    BY DEF JobsTyped
  <2>2. /\ j \in Job /\ j.outs = job[t].outs /\ j.todo = job[t].todo
        /\ j.pc = "broadcast" /\ j.ins = ins /\ j.errs = errs
    BY <2>1 DEF Job, JobStep
  <2>3. job' = [job EXCEPT ![t] = j]
    BY <1>3
  <2> HIDE DEF j
  <2> QED
    BY <1>3, <2>2, <2>3, CallMoved
<1>4. job[t].outs \in SUBSET Swaps
  BY DEF JobsTyped, Job
<1>5. CASE ConstructClaim(t, small)
  BY <1>3, <1>4, <1>5 DEF ConstructClaim
<1>6. CASE ConstructRefund(t, refused, small) /\ ~Fail(t)
  <2>1. /\ job[t].outs \ refused \in SUBSET Swaps
        /\ refused \cup small \in SUBSET Swaps
        /\ job[t].outs \ (refused \cup small) \subseteq job[t].outs \ refused
    BY <1>4
  <2> QED
    BY <1>3, <1>6, <2>1 DEF ConstructRefund
<1> QED
  BY <1>1, <1>2, <1>5, <1>6

\* The broadcast only touches coins that nobody has spent.
LEMMA BroadcastKeepsCoins ==
  ASSUME NEW t \in Threads, BroadcastStep(t)
  PROVE  CoinsKept
BY DEF BroadcastStep, Broadcast, Rebroadcast, BroadcastUnanswered, Spend, Valid,
       Unspent, CoinsKept

\* What is broadcast is the client's.
LEMMA CallBroadcasts ==
  ASSUME JobsTyped, CallInv, NEW t \in Threads, BroadcastStep(t)
  PROVE  CallMoves(t) /\ CoinsKept
<1>1. CoinsKept
  BY BroadcastKeepsCoins
<1>2. job[t] \in Job
  BY DEF JobsTyped
<1>3. CASE BroadcastUnanswered(t)
  <2> DEFINE j == [job[t] EXCEPT !.pc = "unanswered"]
  <2>1. /\ j \in Job /\ j.outs = job[t].outs /\ j.todo = job[t].todo
        /\ j.pc = "unanswered"
    BY <1>2 DEF Job, JobStep
  <2>2. job' = [job EXCEPT ![t] = j]
    BY <1>3 DEF BroadcastUnanswered
  <2> HIDE DEF j
  <2> QED
    BY <1>1, <2>1, <2>2, CallMoved
<1>4. CASE Broadcast(t) \/ Rebroadcast(t)
  <2> DEFINE j == [job[t] EXCEPT !.pc = "record", !.todo = Paying(t)]
  <2>1. /\ j \in Job /\ j.outs = job[t].outs /\ j.todo = Paying(t)
        /\ j.pc = "record"
    BY <1>2 DEF Job, JobStep, Paying
  <2>2. job' = [job EXCEPT ![t] = j]
    BY <1>4 DEF Broadcast, Rebroadcast
  <2>3. Paying(t) \subseteq job[t].ins
    BY <1>4 DEF Broadcast, Rebroadcast, CallInv
  <2>4. \A s \in Swaps : s \in job[t].ins => coins'[s] = "client"
    BY <1>4 DEF Broadcast, Rebroadcast, Spend
  <2> HIDE DEF j
  <2> QED
    BY <1>1, <2>1, <2>2, <2>3, <2>4, CallMoved DEF Paying
<1> QED
  BY <1>1, <1>3, <1>4 DEF BroadcastStep

\* One record after the other.
LEMMA CallRecords ==
  ASSUME JobsTyped, CallInv, NEW t \in Threads, NEW s \in Swaps, Record(t, s)
  PROVE  CallMoves(t) /\ CoinsKept
<1>1. CoinsKept
  BY DEF Record, CoinsKept
<1>2. PICK failed \in {{}, {s}} :
        job' = [job EXCEPT ![t].todo = @ \ {s},
                           ![t].errs = @ \cup failed,
                           ![t].pc = IF job[t].todo = {s} THEN "finish"
                                     ELSE "record"]
  BY DEF Record
<1> DEFINE pc == IF job[t].todo = {s} THEN "finish" ELSE "record"
<1> DEFINE j == [job[t] EXCEPT !.todo = job[t].todo \ {s},
                               !.errs = job[t].errs \cup failed, !.pc = pc]
<1>3. pc \in {"finish", "record"}
  OBVIOUS
<1> HIDE DEF pc
<1>4. job[t] \in Job
  BY DEF JobsTyped
<1>5. /\ j \in Job /\ j.outs = job[t].outs /\ j.todo = job[t].todo \ {s}
      /\ j.pc \in {"finish", "record"}
  BY <1>3, <1>4 DEF Job, JobStep
<1>6. job' = [job EXCEPT ![t] = j]
  BY <1>2 DEF pc
<1>7. \A x \in Swaps : x \in job[t].todo => coins'[x] = "client"
  BY <1>1 DEF Record, CallInv, CoinsKept
<1> HIDE DEF j
<1> QED
  BY <1>1, <1>5, <1>6, <1>7, CallMoved

\* Every step of a call keeps what calls know, and touches no other call.
LEMMA CallStepMoves ==
  ASSUME JobsTyped, CallInv, CoinsKept, NEW t \in Threads, CallStep(t)
  PROVE  CallMoves(t)
<1>1. CASE Finish(t)
  BY <1>1, CallEnds DEF Finish
<1>2. CASE Return(t)
  <2>1. NoJob = [NoJob EXCEPT !.pc = "idle"]
    BY DEF NoJob
  <2> QED
    BY <1>2, <2>1, CallEnds DEF Return
<1> QED
  BY <1>1, <1>2, CallPopulates, CallConstructs, CallFails, CallBroadcasts,
     CallRecords
  DEF CallStep, ConstructFails, BroadcastFails

\* A call that moves is one that has started.
LEMMA CallStepRuns ==
  ASSUME NEW t \in Threads, CallStep(t)
  PROVE  Running(t)
BY DEF CallStep, PopulateStep, Populate, ConstructStep, ConstructRefund,
       ConstructClaim, ConstructFails, BroadcastFails, BroadcastStep, Broadcast,
       Rebroadcast, BroadcastUnanswered, Record, Finish, Return, Returned, Running
=============================================================================
