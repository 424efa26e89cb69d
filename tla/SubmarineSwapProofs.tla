------------------------- MODULE SubmarineSwapProofs ------------------------
(***************************************************************************)
(* Proofs about submarine swaps, for any number of swaps and goroutines,   *)
(* any timeouts, any faults and any behaviour of lightzd.                  *)
(***************************************************************************)
EXTENDS SubmarineSwap, SequenceTheorems, TLAPS

-----------------------------------------------------------------------------
(***************************************************************************)
(* Lemmas about the operators the actions are built from.                  *)
(***************************************************************************)

\* The process with no update at hand is well formed.
LEMMA NoUpdateType == NoUpdate \in Update
BY SubmarineAssumption DEF NoUpdate, Update, UpdateStep, NoRow, Row, SwapState,
   LockupId, SwapUpdateEvent, CompletedStatus, FailedStatus

\* The thread without a call is well formed.
LEMMA NoJobType == NoJob \in Job
BY DEF NoJob, Job, JobStep

\* Writing a column keeps a row a row.
LEMMA RowExcept ==
  ASSUME NEW r \in Row
  PROVE  /\ \A v \in SwapState : [r EXCEPT !.state = v] \in Row
         /\ \A v \in SwapUpdateEvent : [r EXCEPT !.status = v] \in Row
         /\ \A v \in LockupId : [r EXCEPT !.lockup = v] \in Row
         /\ \A v \in BOOLEAN : /\ [r EXCEPT !.invoice = v] \in Row
                              /\ [r EXCEPT !.preimage = v] \in Row
                              /\ [r EXCEPT !.refund = v] \in Row
                              /\ [r EXCEPT !.dest = v] \in Row
BY DEF Row

\* What TypeOK says of the table and of the swap processUpdate works on.
RowsOK ==
  /\ row \in [Swaps -> Row]
  /\ \A s \in Swaps : ~Exists(s) => row[s] = NoRow
  /\ h \in Update
  /\ h.pc # "idle" => Exists(h.swap)

\* And of all the rest.
RestOK ==
  /\ coins \in [Swaps -> Coins]
  /\ job \in [Threads -> Job]
  /\ invoice \in [Swaps -> Invoice]
  /\ srv \in [Swaps -> SwapUpdateEvent]
  /\ paid \in [Swaps -> BOOLEAN]
  /\ signed \in [Swaps -> BOOLEAN]
  /\ height \in 0 .. MaxHeight
  /\ daemon \in {"running", "down", "panicked"}
  /\ crashes \in 0 .. MaxCrashes
  /\ sub \subseteq Swaps
  /\ live \subseteq Swaps
  /\ updates \in [Swaps -> Seq(SwapUpdateEvent)]
  /\ newBlock \in BOOLEAN
  /\ creating \in [Swaps -> {"no", "pay", "register"}]

\* The two parts together are TypeOK.
LEMMA TypeParts == TypeOK <=> RowsOK /\ RestOK
BY DEF TypeOK, RowsOK, RestOK

\* The same of the next state.
LEMMA TypePartsNext == TypeOK' <=> RowsOK' /\ RestOK'
BY DEF TypeOK, RowsOK, RestOK

\* A write to a row keeps the table in order.
LEMMA RowWritten ==
  ASSUME RowsOK, NEW x \in Swaps, NEW r \in Row, r.state # "NONE",
         row' = [row EXCEPT ![x] = r],
         h' \in Update, h'.pc = "idle" \/ (h'.swap = h.swap /\ h.pc # "idle")
  PROVE  RowsOK'
<1>1. row' \in [Swaps -> Row]
  BY DEF RowsOK
<1>2. \A s \in Swaps : row'[s] = IF s = x THEN r ELSE row[s]
  BY DEF RowsOK
<1>3. \A s \in Swaps : Exists(s)' \/ row'[s] = NoRow
  BY <1>2 DEF RowsOK, Exists
<1>4. \A s \in Swaps : Exists(s) => Exists(s)'
  BY <1>2 DEF RowsOK, Exists
<1>5. h'.pc # "idle" => Exists(h.swap)' /\ h'.swap = h.swap
  BY <1>4 DEF RowsOK, Update
<1> QED
  BY <1>1, <1>3, <1>5 DEF RowsOK, Exists

\* Subscribing keeps what it keeps, and appends a status.
LEMMA SubscribeType ==
  ASSUME NEW S, NEW kept, TypeOK, Subscribe(S, kept),
         \A s \in Swaps : kept[s] \in 0 .. Len(updates[s])
  PROVE  updates' \in [Swaps -> Seq(SwapUpdateEvent)]
<1> SUFFICES ASSUME NEW s \in Swaps
             PROVE  (LET old == SubSeq(updates[s], 1, kept[s])
                     IN  IF Trusted /\ s \in S THEN Append(old, srv[s]) ELSE old)
                      \in Seq(SwapUpdateEvent)
  BY DEF Subscribe
<1>1. updates[s] \in Seq(SwapUpdateEvent) /\ srv[s] \in SwapUpdateEvent
  BY DEF TypeOK
<1>2. SubSeq(updates[s], 1, kept[s]) \in Seq(SwapUpdateEvent)
  BY <1>1, SubSeqProperties
<1> QED
  BY <1>1, <1>2, AppendProperties

-----------------------------------------------------------------------------
(***************************************************************************)
(* Type correctness.                                                       *)
(***************************************************************************)
LEMMA TypeInit == Init => TypeOK
<1> SUFFICES ASSUME Init PROVE TypeOK
  OBVIOUS
<1>1. NoRow \in Row /\ \A s \in Old : OldRow(OldStatus[s]) \in Row
  BY SubmarineAssumption
  DEF NoRow, OldRow, Row, LockupId, SwapState, SwapUpdateEvent, FailedStatus
<1>2. /\ row \in [Swaps -> Row]
      /\ \A s \in Swaps : ~Exists(s) => row[s] = NoRow
  BY <1>1 DEF Init, Exists, OldRow
<1>3. RowsOK
  BY <1>2, NoUpdateType DEF Init, NoUpdate, RowsOK
<1>4. coins \in [Swaps -> Coins] /\ srv \in [Swaps -> SwapUpdateEvent]
  BY SubmarineAssumption DEF Init, Coins, SwapUpdateEvent, FailedStatus
<1>5. invoice \in [Swaps -> Invoice] /\ job \in [Threads -> Job]
  BY NoJobType DEF Init, Invoice
<1>6. height \in 0 .. MaxHeight /\ crashes \in 0 .. MaxCrashes
  BY SubmarineAssumption DEF Init
<1>7. updates \in [Swaps -> Seq(SwapUpdateEvent)]
  BY EmptySeq DEF Init
<1>8. RestOK
  BY <1>4, <1>5, <1>6, <1>7, SubmarineAssumption DEF Init, RestOK
<1> QED
  BY <1>3, <1>8, TypeParts

\* What handleSwapStatus does to its copy of the swap keeps it well formed.
LEMMA UpdateExcept ==
  ASSUME NEW u \in Update, NEW p \in UpdateStep
  PROVE  /\ [u EXCEPT !.pc = p] \in Update
         /\ [u EXCEPT !.pc = p, !.batch = TRUE] \in Update
         /\ [u EXCEPT !.pc = p, !.mem.lockup = "right"] \in Update
         /\ [u EXCEPT !.pc = p, !.mem.invoice = TRUE] \in Update
         /\ [u EXCEPT !.pc = p, !.mem.preimage = TRUE] \in Update
         /\ [u EXCEPT !.pc = p, !.mem.status = u.ev] \in Update
         /\ [u EXCEPT !.pc = p, !.mem.state = "SERVER_ERROR"] \in Update
<1>1. "SERVER_ERROR" \in SwapState
  BY DEF SwapState
<1> QED
  BY <1>1 DEF Update, Row, LockupId

\* Every step of createTransaction leaves the calls well formed.
LEMMA JobSteps ==
  ASSUME job \in [Threads -> Job], coins \in [Swaps -> Coins],
         NEW t \in Threads
  PROVE  /\ \A outs, coop \in SUBSET Swaps :
              Start(t, outs, coop) => job' \in [Threads -> Job]
         /\ Return(t) => job' \in [Threads -> Job]
         /\ \A missing : \A bad \in SUBSET Swaps :
              Populate(t, missing, bad) => job' \in [Threads -> Job]
         /\ ConstructFails(t) => job' \in [Threads -> Job]
         /\ \A refused, small \in SUBSET Swaps :
              ConstructRefund(t, refused, small) => job' \in [Threads -> Job]
         /\ Broadcast(t) => job' \in [Threads -> Job]
         /\ Rebroadcast(t) => job' \in [Threads -> Job]
         /\ BroadcastUnanswered(t) => job' \in [Threads -> Job]
         /\ BroadcastFails(t) => job' \in [Threads -> Job]
         /\ \A s \in Swaps : Record(t, s) => job' \in [Threads -> Job]
         /\ Finish(t) => job' \in [Threads -> Job]
<1>1. ASSUME NEW outs \in SUBSET Swaps, NEW coop \in SUBSET Swaps,
             Start(t, outs, coop)
      PROVE  job' \in [Threads -> Job]
  BY <1>1 DEF Start, NoJob, Job, JobStep
<1>2. ASSUME Return(t) PROVE job' \in [Threads -> Job]
  BY <1>2, NoJobType DEF Return
<1>3. ASSUME Fail(t) PROVE job' \in [Threads -> Job]
  BY <1>3 DEF Fail, NoJob, Job, JobStep
<1>4. ASSUME NEW missing, NEW bad \in SUBSET Swaps, Populate(t, missing, bad)
      PROVE  job' \in [Threads -> Job]
  BY <1>3, <1>4 DEF Populate, Job, JobStep
<1>5. ASSUME NEW refused \in SUBSET Swaps, NEW small \in SUBSET Swaps,
             ConstructRefund(t, refused, small)
      PROVE  job' \in [Threads -> Job]
  <2>1. CASE refused = job[t].outs
    BY <1>3, <1>5, <2>1 DEF ConstructRefund
  <2>2. CASE refused # job[t].outs
    <3>1. job[t] \in Job
      OBVIOUS
    <3>2. [job[t] EXCEPT !.pc = "broadcast", !.ins = job[t].outs \ refused,
                         !.errs = refused \cup small] \in Job
      BY <3>1 DEF Job, JobStep
    <3>3. job' = [job EXCEPT ![t] =
                   [job[t] EXCEPT !.pc = "broadcast",
                                  !.ins = job[t].outs \ refused,
                                  !.errs = refused \cup small]]
      BY <1>5, <2>2, <3>1 DEF ConstructRefund, Job
    <3> QED
      BY <3>2, <3>3
  <2> QED
    BY <2>1, <2>2
<1>6. ASSUME Broadcast(t) \/ Rebroadcast(t) \/ BroadcastUnanswered(t)
      PROVE  job' \in [Threads -> Job]
  BY <1>6 DEF Broadcast, Rebroadcast, BroadcastUnanswered, Paying, Job, JobStep
<1>7. ASSUME NEW s \in Swaps, Record(t, s) PROVE job' \in [Threads -> Job]
  <2>1. PICK failed \in SUBSET Swaps :
          job' = [job EXCEPT ![t].todo = @ \ {s},
                             ![t].errs = @ \cup failed,
                             ![t].pc = IF job[t].todo = {s} THEN "finish"
                                       ELSE "record"]
    BY <1>7 DEF Record
  <2>2. (IF job[t].todo = {s} THEN "finish" ELSE "record") \in JobStep
    BY DEF JobStep
  <2>3. job[t] \in Job
    OBVIOUS
  <2>4. [job[t] EXCEPT !.todo = @ \ {s},
                       !.errs = @ \cup failed,
                       !.pc = IF job[t].todo = {s} THEN "finish"
                              ELSE "record"] \in Job
    BY <2>2, <2>3 DEF Job
  <2> QED BY <2>1, <2>4
<1>8. ASSUME Finish(t) PROVE job' \in [Threads -> Job]
  BY <1>8 DEF Finish, NoJob, Job, JobStep
<1> QED
  BY <1>1, <1>2, <1>3, <1>4, <1>5, <1>6, <1>7, <1>8
  DEF ConstructFails, BroadcastFails

\* The table is in order after every step of the daemon that leaves it alone.
LEMMA RowsKept ==
  ASSUME RowsOK, UNCHANGED row,
         h' \in Update, h'.pc = "idle" \/ Exists(h'.swap)
  PROVE  RowsOK'
BY DEF RowsOK, Exists

\* No step of the daemon or its environment writes a column of a row that does
\* not exist, or a value the column can not hold.
LEMMA TypeRows == TypeOK /\ Next => RowsOK'
<1> SUFFICES ASSUME TypeOK, Next PROVE RowsOK'
  OBVIOUS
<1>0. RowsOK /\ RestOK
  BY TypeParts
<1>u. h \in Update /\ h.swap \in Swaps /\ h.ev \in SwapUpdateEvent
  BY <1>0 DEF RowsOK, Update
<1>r. \A s \in Swaps : row[s] \in Row
  BY <1>0 DEF RowsOK
<1>e. h.pc # "idle" => row[h.swap].state # "NONE"
  BY <1>0 DEF RowsOK, Exists
<1>n. NoUpdate \in Update /\ NoUpdate.pc = "idle"
  BY NoUpdateType DEF NoUpdate
<1>s. "status" \in UpdateStep /\ "storeInvoice" \in UpdateStep
  BY DEF UpdateStep
<1>k. ASSUME UNCHANGED row, h' \in {h, NoUpdate} PROVE RowsOK'
  <2>1. h' \in Update /\ (h'.pc = "idle" \/ Exists(h'.swap))
    BY <1>k, <1>0, <1>n DEF RowsOK
  <2> QED BY <1>k, <1>0, <2>1, RowsKept
<1>w. ASSUME NEW x \in Swaps, NEW r \in Row, r.state # "NONE",
             row' = [row EXCEPT ![x] = r], h' \in {h, NoUpdate}
      PROVE  RowsOK'
  <2>1. h' \in Update /\ (h'.pc = "idle" \/ (h'.swap = h.swap /\ h.pc # "idle"))
    <3>1. CASE h' = h
      BY <3>1, <1>u
    <3>2. CASE h' = NoUpdate
      BY <3>2, <1>n
    <3> QED BY <3>1, <3>2, <1>w
  <2> QED BY <1>w, <1>0, <2>1, RowWritten
<1>a. \A s \in Swaps : row[s].state # "NONE" => [row[s] EXCEPT !.state = "ERROR"] \in Row
  BY <1>r, RowExcept DEF SwapState
<1>b. ASSUME HandleError PROVE RowsOK'
  <2> DEFINE r == [row[h.swap] EXCEPT !.state = "ERROR"]
  <2>1. r \in Row /\ r.state # "NONE"
    BY <1>u, <1>r DEF Row, SwapState
  <2>2. row' = [row EXCEPT ![h.swap] = r] /\ h' = NoUpdate
    BY <1>b DEF HandleError
  <2> QED BY <2>1, <2>2, <1>u, <1>w
<1>1. ASSUME NEW s \in Swaps, CreateSwap(s) PROVE RowsOK'
  <2>1. PICK own \in BOOLEAN, dest \in BOOLEAN :
          row' = [row EXCEPT ![s] =
                    [NoRow EXCEPT !.state = "PENDING", !.invoice = ~own,
                                  !.preimage = own, !.dest = dest]]
    BY <1>1 DEF CreateSwap
  <2> DEFINE r == [NoRow EXCEPT !.state = "PENDING", !.invoice = ~own,
                                !.preimage = own, !.dest = dest]
  <2>2. r \in Row /\ r.state # "NONE"
    BY DEF NoRow, Row, LockupId, SwapState, SwapUpdateEvent
  <2>3. h' = h
    BY <1>1 DEF CreateSwap, wsVars
  <2> QED BY <2>1, <2>2, <2>3, <1>w
<1>2. ASSUME NEW s \in Swaps, SendToAddress(s) PROVE RowsOK'
  <2> DEFINE r == [row[s] EXCEPT !.state = "ERROR"]
  <2>1. r \in Row /\ r.state # "NONE"
    BY <1>r DEF Row, SwapState
  <2>2. h' = h /\ (UNCHANGED row \/ row' = [row EXCEPT ![s] = r])
    BY <1>2 DEF SendToAddress, wsVars
  <2> QED BY <2>1, <2>2, <1>w, <1>k
<1>3. ASSUME NEW s \in Swaps, ProcessUpdate(s) PROVE RowsOK'
  <2>1. PICK ev \in IF Trusted THEN {Head(updates[s])} ELSE AnyStatus :
          IF ev = row[s].status /\ ev # "TransactionMempool"
          THEN UNCHANGED h
          ELSE h' = [pc    |-> IF NeedsLockup(ev, row[s]) THEN "lockup"
                               ELSE Dispatch(ev, row[s]),
                     swap  |-> s,
                     ev    |-> ev,
                     mem   |-> row[s],
                     batch |-> FALSE]
    BY <1>3 DEF ProcessUpdate
  <2>2. ev \in SwapUpdateEvent
    <3>1. CASE Trusted
      <4>1. updates[s] \in Seq(SwapUpdateEvent) /\ updates[s] # <<>>
        BY <1>0, <1>3, <3>1 DEF RestOK, ProcessUpdate
      <4> QED BY <3>1, <2>1, <4>1, HeadTailProperties
    <3>2. CASE ~Trusted
      BY <3>2, <2>1 DEF AnyStatus, SwapUpdateEvent, CompletedStatus, FailedStatus
    <3> QED BY <3>1, <3>2
  <2>3. Dispatch(ev, row[s]) \in UpdateStep
    BY DEF Dispatch, UpdateStep
  <2>4. Exists(s) /\ UNCHANGED row
    BY <1>3 DEF ProcessUpdate, QueryAnySwap
  <2>5. CASE UNCHANGED h
    BY <2>4, <2>5, <1>k
  <2>6. CASE h' = [pc    |-> IF NeedsLockup(ev, row[s]) THEN "lockup"
                             ELSE Dispatch(ev, row[s]),
                   swap  |-> s,
                   ev    |-> ev,
                   mem   |-> row[s],
                   batch |-> FALSE]
    <3>1. h' \in Update /\ h'.swap = s
      BY <2>6, <2>2, <2>3, <1>r DEF Update, UpdateStep
    <3> QED BY <3>1, <2>4, <1>0, RowsKept
  <2> QED BY <2>1, <2>5, <2>6
<1>4. ASSUME FetchLockup PROVE RowsOK'
  <2>1. CASE HandleError
    BY <2>1, <1>b
  <2> DEFINE r == [row[h.swap] EXCEPT !.lockup = "right"]
             e(id) == [row[h.swap] EXCEPT !.lockup = id, !.state = "ERROR"]
  <2>2. r \in Row /\ r.state = row[h.swap].state
    BY <1>u, <1>r DEF Row, LockupId
  <2>3. \A id \in {"right", "wrong"} : e(id) \in Row /\ e(id).state # "NONE"
    BY <1>u, <1>r DEF Row, LockupId, SwapState
  <2>4. h.pc # "idle"
    BY <1>4 DEF FetchLockup
  <2>5. CASE /\ row' = [row EXCEPT ![h.swap].lockup = "right"]
             /\ h' = [h EXCEPT !.pc = Dispatch(h.ev, h.mem), !.mem.lockup = "right"]
    <3>1. Dispatch(h.ev, h.mem) \in UpdateStep
      BY DEF Dispatch, UpdateStep
    <3>2. h' \in Update /\ h'.swap = h.swap
      BY <2>5, <3>1, <1>u, UpdateExcept DEF Update
    <3> QED BY <2>5, <3>2, <2>2, <2>4, <1>e, <1>u, <1>0, RowWritten
  <2>6. CASE /\ \E id \in {"right", "wrong"} : row' = [row EXCEPT ![h.swap] = e(id)]
             /\ h' = NoUpdate
    BY <2>6, <2>3, <1>u, <1>w
  <2> QED BY <1>4, <2>1, <2>5, <2>6 DEF FetchLockup
<1>5. ASSUME CreateInvoice PROVE RowsOK'
  <2>1. CASE HandleError
    BY <2>1, <1>b
  <2>2. CASE h' = [h EXCEPT !.pc = "storeInvoice"] /\ UNCHANGED row
    <3>1. h' \in Update /\ h'.swap = h.swap
      BY <2>2, <1>u, <1>s, UpdateExcept DEF Update
    <3>2. Exists(h.swap)
      BY <1>5, <1>e DEF CreateInvoice, Exists
    <3> QED BY <2>2, <3>1, <3>2, <1>0, RowsKept
  <2> QED BY <1>5, <2>1, <2>2 DEF CreateInvoice
<1>6. ASSUME StoreInvoice PROVE RowsOK'
  <2> DEFINE r == [row[h.swap] EXCEPT !.invoice = TRUE]
  <2>1. r \in Row /\ r.state = row[h.swap].state /\ h.pc # "idle"
    BY <1>6, <1>u, <1>r DEF Row, StoreInvoice
  <2>2. h' \in Update /\ h'.swap = h.swap
    BY <1>6, <1>u, <1>s, UpdateExcept DEF StoreInvoice, Update
  <2>3. row' = [row EXCEPT ![h.swap] = r]
    BY <1>6 DEF StoreInvoice
  <2> QED BY <2>1, <2>2, <2>3, <1>e, <1>u, <1>0, RowWritten
<1>7. ASSUME ClaimPending PROVE RowsOK'
  <2>0. h.pc # "idle" /\ Exists(h.swap)
    BY <1>7, <1>e DEF ClaimPending, Exists
  <2>1. CASE HandleError
    BY <2>1, <1>b
  <2>2. CASE h' = [h EXCEPT !.pc = "status", !.batch = TRUE] /\ UNCHANGED row
    <3>1. h' \in Update /\ h'.swap = h.swap
      BY <2>2, <1>u, <1>s, UpdateExcept DEF Update
    <3> QED BY <2>0, <2>2, <3>1, <1>0, RowsKept
  <2>3. CASE h' = [h EXCEPT !.pc = "status"] /\ UNCHANGED row
    <3>1. h' \in Update /\ h'.swap = h.swap
      BY <2>3, <1>u, <1>s, UpdateExcept DEF Update
    <3> QED BY <2>0, <2>3, <3>1, <1>0, RowsKept
  <2>4. CASE /\ h' = [h EXCEPT !.pc = "status", !.mem.preimage = TRUE]
             /\ row' = [row EXCEPT ![h.swap].preimage = TRUE]
    <3> DEFINE r == [row[h.swap] EXCEPT !.preimage = TRUE]
    <3>1. r \in Row /\ r.state = row[h.swap].state
      BY <1>u, <1>r DEF Row
    <3>2. h' \in Update /\ h'.swap = h.swap
      BY <2>4, <1>u, <1>s, UpdateExcept DEF Update
    <3> QED BY <2>0, <2>4, <3>1, <3>2, <1>e, <1>u, <1>0, RowWritten
  <2> QED
    BY <1>7, <2>1, <2>2, <2>3, <2>4 DEF ClaimPending, CooperativeSwapClaim
<1>8. ASSUME UpdateSwapStatus PROVE RowsOK'
  <2> DEFINE r == [row[h.swap] EXCEPT !.status = h.ev]
             next == AfterStatus(h.ev, h.mem, h.batch)
  <2>1. r \in Row /\ r.state = row[h.swap].state /\ h.pc # "idle"
    BY <1>8, <1>u, <1>r DEF Row, UpdateSwapStatus
  <2>2. next \in UpdateStep
    BY DEF AfterStatus, UpdateStep
  <2>3. row' = [row EXCEPT ![h.swap] = r]
    BY <1>8 DEF UpdateSwapStatus
  <2>4. CASE h' = NoUpdate
    BY <2>1, <2>3, <2>4, <1>e, <1>u, <1>w
  <2>5. CASE h' = [h EXCEPT !.pc = next, !.mem.status = h.ev]
    <3>1. h' \in Update /\ h'.swap = h.swap
      BY <2>2, <2>5, <1>u, UpdateExcept DEF Update
    <3> QED BY <2>1, <2>3, <3>1, <1>e, <1>u, <1>0, RowWritten
  <2> QED BY <1>8, <2>4, <2>5 DEF UpdateSwapStatus
<1>9. ASSUME Complete PROVE RowsOK'
  <2>1. CASE HandleError
    BY <2>1, <1>b
  <2> DEFINE r == [row[h.swap] EXCEPT !.preimage = TRUE, !.state = "SUCCESSFUL"]
  <2>2. CASE row' = [row EXCEPT ![h.swap] = r] /\ h' = NoUpdate
    <3>1. r \in Row /\ r.state # "NONE"
      BY <1>u, <1>r DEF Row, SwapState
    <3> QED BY <2>2, <3>1, <1>u, <1>w
  <2> QED BY <1>9, <2>1, <2>2 DEF Complete
<1>10. ASSUME RefundFailed PROVE RowsOK'
  <2>1. CASE HandleError
    BY <2>1, <1>b
  <2> DEFINE r == [row[h.swap] EXCEPT !.state = "SERVER_ERROR"]
  <2>2. r \in Row /\ r.state # "NONE" /\ h.pc # "idle"
    BY <1>10, <1>u, <1>r DEF Row, SwapState, RefundFailed
  <2>3. CASE row' = [row EXCEPT ![h.swap] = r] /\ h' = NoUpdate
    BY <2>2, <2>3, <1>u, <1>w
  <2>4. CASE /\ row' = [row EXCEPT ![h.swap] = r]
             /\ h' = [h EXCEPT !.pc = "refund", !.mem.state = "SERVER_ERROR"]
    <3>1. h' \in Update /\ h'.swap = h.swap
      <4>1. "refund" \in UpdateStep
        BY DEF UpdateStep
      <4> QED BY <2>4, <4>1, <1>u, UpdateExcept DEF Update
    <3> QED BY <2>2, <2>4, <3>1, <1>u, <1>0, RowWritten
  <2> QED BY <1>10, <2>1, <2>3, <2>4 DEF RefundFailed
<1>11. ASSUME RefundReturned PROVE RowsOK'
  BY <1>11, <1>b, <1>k DEF RefundReturned
<1>12. ASSUME NEW t \in Threads, NEW s \in Swaps, RefundSwap(t, s)
       PROVE  RowsOK'
  <2> DEFINE r == [row[s] EXCEPT !.dest = TRUE]
  <2>1. row[s].state # "NONE"
    BY <1>12, <1>0 DEF RefundSwap, Refundable, RowsOK, Exists, NoRow
  <2>2. r \in Row /\ r.state # "NONE"
    BY <2>1, <1>r DEF Row
  <2>3. row' = [row EXCEPT ![s] = r] /\ h' = h
    BY <1>12 DEF RefundSwap, wsVars
  <2> QED BY <2>2, <2>3, <1>w
<1>13. ASSUME NEW S \in SUBSET Swaps, SetErrors(S), UNCHANGED h PROVE RowsOK'
  <2>1. \A s \in Swaps : row'[s] = IF s \in S THEN [row[s] EXCEPT !.state = "ERROR"]
                                   ELSE row[s]
    BY <1>13 DEF SetErrors
  <2>2. \A s \in Swaps : row'[s] \in Row /\ (row'[s].state # "NONE" \/ row'[s] = row[s])
    BY <2>1, <1>r DEF Row, SwapState
  <2>3. \A s \in Swaps : Exists(s) => Exists(s)'
    BY <2>2 DEF Exists
  <2>4. row' \in [Swaps -> Row]
    BY <2>2, <1>13 DEF SetErrors
  <2>5. \A s \in Swaps : ~Exists(s)' => row'[s] = NoRow
    BY <2>2, <2>3, <1>0 DEF Exists, RowsOK
  <2> QED BY <2>3, <2>4, <2>5, <1>13, <1>0, <1>u DEF RowsOK
<1>14. ASSUME NEW t \in Threads, RefundSwaps(t) PROVE RowsOK'
  <2>0. job[t] \in Job
    BY <1>0 DEF RestOK
  <2>1. ASSUME JobUnchanged PROVE UNCHANGED h
    BY <2>1 DEF JobUnchanged
  <2>2. CASE PopulateOutputs(t)
    <3>1. PICK bad \in SUBSET job[t].outs : SetErrors(bad)
      BY <2>2 DEF PopulateOutputs
    <3>2. bad \in SUBSET Swaps /\ UNCHANGED h
      BY <2>0, <2>1, <2>2 DEF Job, PopulateOutputs
    <3> QED BY <3>1, <3>2, <1>13
  <2>3. CASE ConstructTransaction(t)
    <3>1. PICK refused \in SUBSET job[t].coop :
            SetErrors(IF refused = job[t].outs THEN refused ELSE {})
      BY <2>3 DEF ConstructTransaction
    <3>2. refused \in SUBSET Swaps /\ UNCHANGED h
      BY <2>0, <2>1, <2>3 DEF Job, ConstructTransaction
    <3> QED BY <3>1, <3>2, <1>13
  <2>4. CASE TransactionFails(t)
    <3>1. job[t].outs \in SUBSET Swaps
      BY <2>0 DEF Job
    <3> QED BY <3>1, <2>1, <2>4, <1>13 DEF TransactionFails
  <2>5. CASE ConstructTransactionPanics(t)
    BY <2>5, <1>k DEF ConstructTransactionPanics, Panic, StopDaemon
  <2>6. CASE BroadcastTransaction(t)
    BY <2>1, <2>6, <1>k DEF BroadcastTransaction
  <2>7. CASE SetTransaction(t)
    <3>1. PICK s \in job[t].todo :
            row' = [row EXCEPT ![s].state = "REFUNDED", ![s].refund = TRUE]
      BY <2>7 DEF SetTransaction
    <3> DEFINE r == [row[s] EXCEPT !.state = "REFUNDED", !.refund = TRUE]
    <3>2. s \in Swaps /\ UNCHANGED h
      BY <2>0, <2>1, <2>7 DEF Job, SetTransaction
    <3>3. r \in Row /\ r.state # "NONE"
      BY <3>2, <1>r DEF Row, SwapState
    <3>4. row' = [row EXCEPT ![s] = r]
      BY <3>1
    <3> QED BY <3>2, <3>3, <3>4, <1>w
  <2>8. CASE FinishTransaction(t)
    <3>1. job[t].errs \in SUBSET Swaps
      BY <2>0 DEF Job
    <3> QED BY <3>1, <2>1, <2>8, <1>13 DEF FinishTransaction
  <2>9. CASE RefundSwapsReturns(t)
    BY <2>1, <2>9, <1>k DEF RefundSwapsReturns
  <2> QED
    BY <1>14, <2>2, <2>3, <2>4, <2>5, <2>6, <2>7, <2>8, <2>9 DEF RefundSwaps
<1>15. ASSUME FetchLockupPanics \/ Crash PROVE RowsOK'
  BY <1>15, <1>k DEF FetchLockupPanics, Panic, Crash, StopDaemon
<1>16. ASSUME NEW s \in Swaps, RegisterSwap(s) PROVE RowsOK'
  BY <1>16, <1>k DEF RegisterSwap
<1>17. ASSUME Reconnect \/ RecoverSwaps PROVE RowsOK'
  BY <1>17, <1>k DEF Reconnect, Resubscribe, RecoverSwaps
<1>18. ASSUME CheckRefundableSwaps \/ RegisterBlock PROVE RowsOK'
  BY <1>18, <1>k DEF CheckRefundableSwaps, RegisterBlock, wsVars
<1>19. ASSUME NEW s \in Swaps, Environment(s) PROVE RowsOK'
  BY <1>19, <1>k
  DEF Environment, UserLocksCoins, LockupConfirms, ServerSeesLockup,
      ServerTriesToPay, ServerPays, ServerGivesUp, ServerClaims,
      ServerReports, wsVars
<1> QED
  BY <1>1, <1>2, <1>3, <1>4, <1>5, <1>6, <1>7, <1>8, <1>9, <1>10, <1>11,
     <1>12, <1>14, <1>15, <1>16, <1>17, <1>18, <1>19
  DEF Next, HandleSwapStatus

\* Nor does any step spoil what is outside the table.
LEMMA TypeRest == TypeOK /\ Next => RestOK'
<1> SUFFICES ASSUME TypeOK, Next PROVE RestOK'
  OBVIOUS
<1>0. RowsOK /\ RestOK
  BY TypeParts
<1>h. h \in Update /\ h.swap \in Swaps
  BY <1>0 DEF RowsOK, Update
<1> USE DEF RestOK, rpcVars, srvVars, netVars, wsVars, sysVars
<1>1. ASSUME NEW s \in Swaps, CreateSwap(s) PROVE RestOK'
  <2>1. /\ invoice' \in [Swaps -> Invoice]
        /\ srv' \in [Swaps -> SwapUpdateEvent]
        /\ creating' \in [Swaps -> {"no", "pay", "register"}]
    BY <1>1, <1>0 DEF CreateSwap, Invoice, SwapUpdateEvent
  <2> QED BY <1>1, <1>0, <2>1 DEF CreateSwap
<1>2. ASSUME NEW s \in Swaps, SendToAddress(s) PROVE RestOK'
  BY <1>2, <1>0 DEF SendToAddress, Coins
<1>3. ASSUME NEW s \in Swaps, RegisterSwap(s) PROVE RestOK'
  <2>1. updates' \in [Swaps -> Seq(SwapUpdateEvent)]
    BY <1>0, <1>3, SubscribeType, LenProperties DEF RegisterSwap, AllKept
  <2>2. live' \subseteq Swaps /\ sub' \subseteq Swaps
    BY <1>0, <1>3 DEF RegisterSwap
  <2> QED BY <1>0, <1>3, <2>1, <2>2 DEF RegisterSwap
<1>4. ASSUME Reconnect PROVE RestOK'
  <2>1. PICK n \in 0 .. MaxUpdates - 1 :
          Subscribe(sub, [s \in Swaps |-> IF n < Len(updates[s]) THEN n
                                          ELSE Len(updates[s])])
    BY <1>4 DEF Reconnect, Resubscribe
  <2>2. \A s \in Swaps : Len(updates[s]) \in Nat
    BY <1>0, LenProperties
  <2>3. updates' \in [Swaps -> Seq(SwapUpdateEvent)]
    BY <2>1, <2>2, SubmarineAssumption, SubscribeType
  <2> QED BY <1>0, <1>4, <2>3 DEF Reconnect, Resubscribe
<1>5. ASSUME NEW s \in Swaps, ProcessUpdate(s) PROVE RestOK'
  <2>1. updates' \in [Swaps -> Seq(SwapUpdateEvent)]
    <3>1. CASE Trusted
      BY <1>0, <1>5, <3>1, HeadTailProperties DEF ProcessUpdate
    <3>2. CASE ~Trusted
      BY <1>0, <1>5, <3>2 DEF ProcessUpdate
    <3> QED BY <3>1, <3>2
  <2> QED BY <1>0, <1>5, <2>1 DEF ProcessUpdate
<1>6. ASSUME FetchLockup PROVE RestOK'
  BY <1>0, <1>6 DEF FetchLockup, HandleError
<1>7. ASSUME CreateInvoice PROVE RestOK'
  <2>1. invoice' \in [Swaps -> Invoice]
    BY <1>0, <1>7 DEF CreateInvoice, Invoice
  <2> QED BY <1>0, <1>7, <2>1 DEF CreateInvoice, HandleError
<1>8. ASSUME StoreInvoice PROVE RestOK'
  BY <1>0, <1>8 DEF StoreInvoice
<1>9. ASSUME ClaimPending PROVE RestOK'
  BY <1>0, <1>9 DEF ClaimPending, CooperativeSwapClaim, HandleError
<1>10. ASSUME UpdateSwapStatus PROVE RestOK'
  BY <1>0, <1>10 DEF UpdateSwapStatus, SendSwapUpdate, Unsubscribe
<1>11. ASSUME Complete PROVE RestOK'
  BY <1>0, <1>11 DEF Complete, SendSwapUpdate, Unsubscribe, HandleError
<1>12. ASSUME RefundFailed PROVE RestOK'
  <2>1. {h.swap} \in SUBSET Swaps /\ Cooperative({h.swap}) \in SUBSET Swaps
    BY <1>h DEF Cooperative
  <2>2. job' \in [Threads -> Job]
    BY <1>0, <1>12, <2>1, JobSteps, SubmarineAssumption DEF RefundFailed
  <2> QED BY <1>0, <1>12, <2>2 DEF RefundFailed, HandleError
<1>13. ASSUME RefundReturned PROVE RestOK'
  <2>1. job' \in [Threads -> Job]
    BY <1>0, <1>13, JobSteps, SubmarineAssumption DEF RefundReturned
  <2> QED BY <1>0, <1>13, <2>1 DEF RefundReturned, HandleError
<1>14. ASSUME CheckRefundableSwaps PROVE RestOK'
  <2> DEFINE outs == {s \in Swaps : Refundable(s, height) /\ row[s].dest}
  <2>1. outs \in SUBSET Swaps /\ Cooperative(outs) \in SUBSET Swaps
    BY DEF Cooperative
  <2>2. Start(Block, outs, Cooperative(outs)) \/ UNCHANGED job
    BY <1>14 DEF CheckRefundableSwaps
  <2>3. job' \in [Threads -> Job]
    BY <1>0, <2>1, <2>2, JobSteps, SubmarineAssumption
  <2> QED BY <1>0, <1>14, <2>3 DEF CheckRefundableSwaps
<1>15. ASSUME NEW t \in Threads, NEW s \in Swaps, RefundSwap(t, s)
       PROVE  RestOK'
  <2>1. {s} \in SUBSET Swaps /\ Cooperative({s}) \in SUBSET Swaps
    BY DEF Cooperative
  <2>2. job' \in [Threads -> Job]
    BY <1>0, <1>15, <2>1, JobSteps DEF RefundSwap
  <2> QED BY <1>0, <1>15, <2>2 DEF RefundSwap
<1>16. ASSUME Panic \/ Crash PROVE RestOK'
  <2>1. job' \in [Threads -> Job]
    BY <1>16, NoJobType DEF Panic, Crash, StopDaemon
  <2>2. updates' \in [Swaps -> Seq(SwapUpdateEvent)]
    BY <1>16, EmptySeq DEF Panic, Crash, StopDaemon
  <2>3. crashes' \in 0 .. MaxCrashes
    BY <1>0, <1>16, SubmarineAssumption DEF Panic, Crash, StopDaemon
  <2> QED BY <1>0, <1>16, <2>1, <2>2, <2>3 DEF Panic, Crash, StopDaemon
<1>17. ASSUME NEW t \in Threads, RefundSwaps(t) PROVE RestOK'
  <2>0. job[t] \in Job
    BY <1>0
  <2> USE DEF JobUnchanged
  <2>1. CASE PopulateOutputs(t)
    <3>1. PICK wrong \in SUBSET WrongId(t), bad \in SUBSET job[t].outs :
            Populate(t, Missing(t) \cup wrong, bad)
      BY <2>1 DEF PopulateOutputs
    <3>2. bad \in SUBSET Swaps
      BY <2>0 DEF Job
    <3>3. job' \in [Threads -> Job] /\ UNCHANGED coins
      BY <3>1, <3>2, <1>0, JobSteps DEF Populate
    <3> QED BY <1>0, <2>1, <3>3 DEF PopulateOutputs
  <2>2. CASE ConstructTransaction(t)
    <3>1. PICK refused \in SUBSET job[t].coop, small \in SUBSET job[t].outs :
            ConstructRefund(t, refused, small)
      BY <2>2 DEF ConstructTransaction
    <3>2. refused \in SUBSET Swaps /\ small \in SUBSET Swaps
      BY <2>0 DEF Job
    <3>3. job' \in [Threads -> Job] /\ UNCHANGED coins
      BY <3>1, <3>2, <1>0, JobSteps DEF ConstructRefund
    <3> QED BY <1>0, <2>2, <3>3 DEF ConstructTransaction
  <2>3. CASE TransactionFails(t)
    <3>1. job' \in [Threads -> Job] /\ UNCHANGED coins
      BY <2>3, <1>0, JobSteps DEF TransactionFails, ConstructFails, BroadcastFails
    <3> QED BY <1>0, <2>3, <3>1 DEF TransactionFails
  <2>4. CASE ConstructTransactionPanics(t)
    BY <2>4, <1>16 DEF ConstructTransactionPanics
  <2>5. CASE BroadcastTransaction(t)
    <3>1. job' \in [Threads -> Job]
      BY <2>5, <1>0, JobSteps DEF BroadcastTransaction
    <3>2. coins' \in [Swaps -> Coins]
      BY <2>5, <1>0
      DEF BroadcastTransaction, Broadcast, Rebroadcast, BroadcastUnanswered,
          Spend, Coins
    <3> QED BY <1>0, <2>5, <3>1, <3>2 DEF BroadcastTransaction
  <2>6. CASE SetTransaction(t)
    <3>1. PICK s \in job[t].todo : Record(t, s) /\ Unsubscribe(s)
      BY <2>6 DEF SetTransaction
    <3>2. s \in Swaps
      BY <2>0 DEF Job
    <3>3. job' \in [Threads -> Job] /\ UNCHANGED coins
      BY <3>1, <3>2, <1>0, JobSteps DEF Record
    <3> QED BY <1>0, <2>6, <3>1, <3>3 DEF SetTransaction, Unsubscribe
  <2>7. CASE FinishTransaction(t)
    <3>1. job' \in [Threads -> Job] /\ UNCHANGED coins
      BY <2>7, <1>0, JobSteps DEF FinishTransaction, Finish
    <3> QED BY <1>0, <2>7, <3>1 DEF FinishTransaction
  <2>8. CASE RefundSwapsReturns(t)
    <3>1. job' \in [Threads -> Job]
      BY <2>8, <1>0, JobSteps DEF RefundSwapsReturns
    <3> QED BY <1>0, <2>8, <3>1 DEF RefundSwapsReturns
  <2> QED
    BY <1>17, <2>1, <2>2, <2>3, <2>4, <2>5, <2>6, <2>7, <2>8 DEF RefundSwaps
<1>18. ASSUME RecoverSwaps PROVE RestOK'
  <2>1. updates' \in [Swaps -> Seq(SwapUpdateEvent)]
    BY <1>0, <1>18, SubscribeType, LenProperties DEF RecoverSwaps, AllKept
  <2> QED BY <1>0, <1>18, <2>1 DEF RecoverSwaps
<1>19. ASSUME RegisterBlock PROVE RestOK'
  BY <1>0, <1>19, SubmarineAssumption DEF RegisterBlock
<1>20. ASSUME NEW s \in Swaps, NEW ev \in SwapUpdateEvent, Report(s, ev)
       PROVE  /\ srv' \in [Swaps -> SwapUpdateEvent]
              /\ updates' \in [Swaps -> Seq(SwapUpdateEvent)]
  <2>1. srv' \in [Swaps -> SwapUpdateEvent]
    BY <1>0, <1>20 DEF Report
  <2>2. updates[s] \in Seq(SwapUpdateEvent)
    BY <1>0
  <2>3. Append(updates[s], ev) \in Seq(SwapUpdateEvent)
    BY <2>2, AppendProperties
  <2>4. updates' \in [Swaps -> Seq(SwapUpdateEvent)]
    BY <1>0, <1>20, <2>3 DEF Report
  <2> QED BY <2>1, <2>4
<1>21. ASSUME NEW s \in Swaps, Environment(s) PROVE RestOK'
  <2>1. CASE UserLocksCoins(s) \/ LockupConfirms(s)
    BY <1>0, <2>1 DEF UserLocksCoins, LockupConfirms, Coins
  <2>2. ASSUME NEW ev \in SwapUpdateEvent, ServerReports(s, ev) PROVE RestOK'
    BY <1>0, <1>20, <2>2 DEF ServerReports
  <2>3. CASE ServerSeesLockup(s) \/ ServerTriesToPay(s) \/ ServerGivesUp(s)
    BY <2>2, <2>3
    DEF ServerSeesLockup, ServerTriesToPay, ServerGivesUp, SwapUpdateEvent,
        FailedStatus
  <2>4. CASE ServerPays(s)
    <3>1. "TransactionClaimPending" \in SwapUpdateEvent
      BY DEF SwapUpdateEvent
    <3> QED BY <1>0, <1>20, <2>4, <3>1 DEF ServerPays
  <2>5. CASE ServerClaims(s)
    <3>1. "TransactionClaimed" \in SwapUpdateEvent
      BY DEF SwapUpdateEvent, CompletedStatus
    <3> QED BY <1>0, <1>20, <2>5, <3>1 DEF ServerClaims, Coins
  <2> QED BY <1>21, <2>1, <2>3, <2>4, <2>5 DEF Environment
<1> QED
  BY <1>1, <1>2, <1>3, <1>4, <1>5, <1>6, <1>7, <1>8, <1>9, <1>10, <1>11,
     <1>12, <1>13, <1>14, <1>15, <1>16, <1>17, <1>18, <1>19, <1>21
  DEF Next, HandleSwapStatus, FetchLockupPanics

\* TypeOK is inductive.
LEMMA TypeNext == TypeOK /\ [Next]_vars => TypeOK'
<1>1. ASSUME TypeOK, UNCHANGED vars PROVE TypeOK'
  BY <1>1 DEF TypeOK, Exists, vars, rpcVars, srvVars, netVars, wsVars, sysVars
<1> QED
  BY <1>1, TypeRows, TypeRest, TypePartsNext

\* In every reachable state the variables have their types, and no column of
\* a swap without a row is written.
THEOREM TypeCorrect == Spec => []TypeOK
BY TypeInit, TypeNext, PTL DEF Spec
-----------------------------------------------------------------------------
(***************************************************************************)
(* No signature and no success without a payment.                          *)
(*                                                                         *)
(* ProofOfPayment is not inductive: processUpdate decides on a copy of the *)
(* row, and a preimage in the copy is taken for a checked one.  PaymentInv *)
(* adds that a preimage is proof wherever it is kept.                      *)
(***************************************************************************)
\* A preimage in the database was revealed by the payment.
PreimageIsProof ==
  \A s \in Swaps : invoice[s] = "external" /\ row[s].preimage => paid[s]

\* The state SUCCESSFUL is never without one.
SuccessHasPreimage ==
  \A s \in Swaps :
    invoice[s] = "external" /\ row[s].state = "SUCCESSFUL" => row[s].preimage

\* Nor is a preimage in the copy handleSwapStatus works with without payment.
CopyIsProof ==
  h.pc # "idle" /\ invoice[h.swap] = "external" /\ h.mem.preimage
    => paid[h.swap]

\* The inductive invariant.
PaymentInv ==
  SignedOnlyIfPaid /\ PreimageIsProof /\ SuccessHasPreimage /\ CopyIsProof

\* A daemon that starts has given no signature away; no invoice of a swap of an
\* earlier run was paid yet.
LEMMA PaymentInit == Init => PaymentInv
BY NoUpdateType
DEF Init, PaymentInv, SignedOnlyIfPaid, PreimageIsProof, SuccessHasPreimage,
    CopyIsProof, NoUpdate, NoRow, OldRow

\* A step that stores no preimage and no success keeps PaymentInv.
LEMMA PaymentKept ==
  ASSUME TypeOK, PaymentInv,
         UNCHANGED signed,
         \A s \in Swaps : invoice'[s] = "external" => invoice[s] = "external",
         \A s \in Swaps : paid[s] => paid'[s],
         \A s \in Swaps : /\ row'[s].preimage = row[s].preimage
                          /\ row'[s].state # "SUCCESSFUL" \/ row'[s].state = row[s].state,
         \/ h'.pc = "idle"
         \/ /\ h.pc # "idle"
            /\ h'.swap = h.swap
            /\ h'.mem.preimage = h.mem.preimage
  PROVE  PaymentInv'
<1>1. h.swap \in Swaps
  BY DEF TypeOK, Update
<1> QED
  BY <1>1 DEF PaymentInv, SignedOnlyIfPaid, PreimageIsProof, SuccessHasPreimage,
              CopyIsProof

\* Every step keeps PaymentInv.  Those that store a preimage or a success are
\* CreateSwap, ClaimPending and Complete, and those that copy one ProcessUpdate.
LEMMA PaymentNext == TypeOK /\ TypeOK' /\ PaymentInv /\ Next => PaymentInv'
<1> SUFFICES ASSUME TypeOK, TypeOK', PaymentInv, Next PROVE PaymentInv'
  OBVIOUS
<1>t. /\ row \in [Swaps -> Row]
      /\ h \in Update /\ h.swap \in Swaps /\ h.mem \in Row
      /\ job \in [Threads -> Job]
  BY DEF TypeOK, Update
<1>n. NoUpdate.pc = "idle"
  BY DEF NoUpdate
<1>k. ASSUME UNCHANGED <<signed, paid, invoice, row>>, h' \in {h, NoUpdate}
      PROVE  PaymentInv'
  BY <1>k, <1>n, PaymentKept
<1>e. ASSUME NEW S \in SUBSET Swaps, UNCHANGED <<signed, paid>>,
             \A s \in Swaps : invoice'[s] = "external" => invoice[s] = "external",
             row' = [s \in Swaps |-> IF s \in S
                                     THEN [row[s] EXCEPT !.state = "ERROR"]
                                     ELSE row[s]],
             h' \in {h, NoUpdate}
      PROVE  PaymentInv'
  <2>1. \A s \in Swaps : /\ row'[s].preimage = row[s].preimage
                         /\ \/ row'[s].state # "SUCCESSFUL"
                            \/ row'[s].state = row[s].state
    BY <1>e, <1>t DEF Row
  <2> QED BY <1>e, <1>n, <2>1, PaymentKept
<1>b. ASSUME HandleError, UNCHANGED <<signed, paid>>,
             \A s \in Swaps : invoice'[s] = "external" => invoice[s] = "external"
      PROVE  PaymentInv'
  <2>1. row' = [s \in Swaps |-> IF s \in {h.swap}
                                THEN [row[s] EXCEPT !.state = "ERROR"]
                                ELSE row[s]]
    BY <1>b, <1>t DEF HandleError
  <2> QED BY <1>b, <1>e, <1>t, <2>1 DEF HandleError
<1> USE DEF rpcVars, srvVars, netVars, wsVars, sysVars
<1>1. ASSUME NEW s \in Swaps, CreateSwap(s) PROVE PaymentInv'
  <2>1. PICK own \in BOOLEAN, dest \in BOOLEAN :
          /\ row' = [row EXCEPT ![s] =
                       [NoRow EXCEPT !.state = "PENDING", !.invoice = ~own,
                                     !.preimage = own, !.dest = dest]]
          /\ invoice' = [invoice EXCEPT ![s] = IF own THEN "none"
                                               ELSE "external"]
    BY <1>1 DEF CreateSwap
  <2>2. row'[s].state = "PENDING" /\ row'[s].preimage = own
    BY <2>1, <1>t DEF NoRow
  <2>3. invoice'[s] = "external" => ~own
    BY <2>1 DEF TypeOK
  <2>4. \A x \in Swaps \ {s} : row'[x] = row[x] /\ invoice'[x] = invoice[x]
    BY <2>1 DEF TypeOK
  <2>5. UNCHANGED <<paid, signed, h>> /\ (h.pc # "idle" => h.swap # s)
    BY <1>1 DEF CreateSwap, TypeOK
  <2> QED
    BY <2>2, <2>3, <2>4, <2>5, <1>t
    DEF PaymentInv, SignedOnlyIfPaid, PreimageIsProof, SuccessHasPreimage,
        CopyIsProof
<1>2. ASSUME NEW s \in Swaps, SendToAddress(s) PROVE PaymentInv'
  <2>1. CASE UNCHANGED row
    BY <1>2, <2>1, <1>k DEF SendToAddress
  <2>2. CASE row' = [row EXCEPT ![s].state = "ERROR"]
    <3>1. row' = [x \in Swaps |-> IF x \in {s}
                                  THEN [row[x] EXCEPT !.state = "ERROR"]
                                  ELSE row[x]]
      BY <2>2, <1>t
    <3> QED BY <1>2, <3>1, <1>e DEF SendToAddress
  <2> QED BY <1>2, <2>1, <2>2 DEF SendToAddress
<1>3. ASSUME NEW s \in Swaps, ProcessUpdate(s) PROVE PaymentInv'
  <2>1. CASE UNCHANGED h
    BY <1>3, <2>1, <1>k DEF ProcessUpdate
  <2>2. CASE h'.swap = s /\ h'.mem = row[s]
    BY <1>3, <2>2
    DEF ProcessUpdate, PaymentInv, SignedOnlyIfPaid, PreimageIsProof,
        SuccessHasPreimage, CopyIsProof
  <2> QED BY <1>3, <2>1, <2>2 DEF ProcessUpdate
<1>4. ASSUME FetchLockup PROVE PaymentInv'
  <2>1. CASE HandleError
    BY <1>4, <2>1, <1>b DEF FetchLockup
  <2>2. CASE /\ row' = [row EXCEPT ![h.swap].lockup = "right"]
             /\ h' = [h EXCEPT !.pc = Dispatch(h.ev, h.mem), !.mem.lockup = "right"]
    <3>1. \A s \in Swaps : /\ row'[s].preimage = row[s].preimage
                           /\ row'[s].state = row[s].state
      BY <2>2, <1>t DEF Row
    <3>2. h'.swap = h.swap /\ h'.mem.preimage = h.mem.preimage
      BY <2>2, <1>t DEF Update, Row
    <3> QED BY <1>4, <3>1, <3>2, PaymentKept DEF FetchLockup
  <2>3. CASE /\ \E id \in {"right", "wrong"} :
                  row' = [row EXCEPT ![h.swap].lockup = id,
                                     ![h.swap].state = "ERROR"]
             /\ h' = NoUpdate
    <3>1. \A s \in Swaps : /\ row'[s].preimage = row[s].preimage
                           /\ \/ row'[s].state # "SUCCESSFUL"
                              \/ row'[s].state = row[s].state
      BY <2>3, <1>t DEF Row
    <3> QED BY <1>4, <2>3, <3>1, <1>n, PaymentKept DEF FetchLockup
  <2> QED BY <1>4, <2>1, <2>2, <2>3 DEF FetchLockup
<1>5. ASSUME CreateInvoice PROVE PaymentInv'
  <2>1. \A s \in Swaps : invoice'[s] = "external" => invoice[s] = "external"
    BY <1>5 DEF CreateInvoice, TypeOK
  <2>2. CASE HandleError
    BY <1>5, <2>1, <2>2, <1>b DEF CreateInvoice
  <2>3. CASE h' = [h EXCEPT !.pc = "storeInvoice"] /\ UNCHANGED row
    <3>1. h'.swap = h.swap /\ h'.mem = h.mem /\ h.pc # "idle"
      BY <1>5, <2>3, <1>t DEF CreateInvoice, Update
    <3> QED BY <1>5, <2>1, <2>3, <3>1, PaymentKept DEF CreateInvoice
  <2> QED BY <1>5, <2>2, <2>3 DEF CreateInvoice
<1>6. ASSUME StoreInvoice PROVE PaymentInv'
  <2>1. \A s \in Swaps : /\ row'[s].preimage = row[s].preimage
                         /\ row'[s].state = row[s].state
    BY <1>6, <1>t DEF StoreInvoice, Row
  <2>2. h'.swap = h.swap /\ h'.mem.preimage = h.mem.preimage /\ h.pc # "idle"
    BY <1>6, <1>t DEF StoreInvoice, Update, Row
  <2> QED BY <1>6, <2>1, <2>2, PaymentKept DEF StoreInvoice
<1>7. ASSUME ClaimPending PROVE PaymentInv'
  <2>1. CASE HandleError /\ UNCHANGED signed
    BY <1>7, <2>1, <1>b DEF ClaimPending
  <2>2. CASE /\ h' \in {[h EXCEPT !.pc = "status", !.batch = TRUE],
                        [h EXCEPT !.pc = "status"]}
             /\ UNCHANGED <<row, signed>>
    <3>1. h'.swap = h.swap /\ h'.mem = h.mem /\ h.pc # "idle"
      BY <1>7, <2>2, <1>t DEF ClaimPending, Update
    <3> QED BY <1>7, <2>2, <3>1, PaymentKept DEF ClaimPending
  <2>3. CASE /\ PreimageIsValid(h.swap)
             /\ row' = [row EXCEPT ![h.swap].preimage = TRUE]
             /\ h' = [h EXCEPT !.pc = "status", !.mem.preimage = TRUE]
             /\ \/ signed' = [signed EXCEPT ![h.swap] = TRUE]
                \/ UNCHANGED signed
    <3>1. paid[h.swap]
      BY <2>3 DEF PreimageIsValid
    <3>2. \A s \in Swaps : row'[s].state = row[s].state
      BY <2>3, <1>t DEF Row
    <3>3. \A s \in Swaps : s # h.swap => row'[s].preimage = row[s].preimage
      BY <2>3, <1>t
    <3>4. row'[h.swap].preimage
      BY <2>3, <1>t DEF Row
    <3>5. \A s \in Swaps : signed'[s] => signed[s] \/ s = h.swap
      BY <2>3 DEF TypeOK
    <3>6. h'.swap = h.swap
      BY <2>3, <1>t DEF Update
    <3> QED
      BY <1>7, <3>1, <3>2, <3>3, <3>4, <3>5, <3>6
      DEF ClaimPending, PaymentInv, SignedOnlyIfPaid, PreimageIsProof,
          SuccessHasPreimage, CopyIsProof
  <2> QED
    BY <1>7, <2>1, <2>2, <2>3 DEF ClaimPending, CooperativeSwapClaim
<1>8. ASSUME UpdateSwapStatus PROVE PaymentInv'
  <2>1. \A s \in Swaps : /\ row'[s].preimage = row[s].preimage
                         /\ row'[s].state = row[s].state
    BY <1>8, <1>t DEF UpdateSwapStatus, Row
  <2>2. CASE h' = NoUpdate
    BY <1>8, <2>1, <2>2, <1>n, PaymentKept DEF UpdateSwapStatus
  <2>3. CASE h' = [h EXCEPT !.pc = AfterStatus(h.ev, h.mem, h.batch),
                            !.mem.status = h.ev]
    <3>1. h'.swap = h.swap /\ h'.mem.preimage = h.mem.preimage /\ h.pc # "idle"
      BY <1>8, <2>3, <1>t DEF UpdateSwapStatus, Update, Row
    <3> QED BY <1>8, <2>1, <3>1, PaymentKept DEF UpdateSwapStatus
  <2> QED BY <1>8, <2>2, <2>3 DEF UpdateSwapStatus
<1>9. ASSUME Complete PROVE PaymentInv'
  <2>1. CASE HandleError
    BY <1>9, <2>1, <1>b DEF Complete
  <2>2. CASE /\ h.mem.preimage \/ PreimageIsValid(h.swap)
             /\ row' = [row EXCEPT ![h.swap].preimage = TRUE,
                                   ![h.swap].state = "SUCCESSFUL"]
             /\ h' = NoUpdate
    <3>1. invoice[h.swap] = "external" => paid[h.swap]
      BY <1>9, <2>2 DEF Complete, PreimageIsValid, PaymentInv, CopyIsProof
    <3>2. \A s \in Swaps : s # h.swap => row'[s] = row[s]
      BY <2>2, <1>t
    <3>3. row'[h.swap].preimage
      BY <2>2, <1>t DEF Row
    <3> QED
      BY <1>9, <2>2, <3>1, <3>2, <3>3, <1>n
      DEF Complete, PaymentInv, SignedOnlyIfPaid, PreimageIsProof,
          SuccessHasPreimage, CopyIsProof
  <2> QED BY <1>9, <2>1, <2>2 DEF Complete
<1>10. ASSUME RefundFailed PROVE PaymentInv'
  <2>1. CASE HandleError
    BY <1>10, <2>1, <1>b DEF RefundFailed
  <2>2. CASE /\ row' = [row EXCEPT ![h.swap].state = "SERVER_ERROR"]
             /\ h' \in {NoUpdate, [h EXCEPT !.pc = "refund",
                                            !.mem.state = "SERVER_ERROR"]}
    <3>1. \A s \in Swaps : /\ row'[s].preimage = row[s].preimage
                           /\ \/ row'[s].state # "SUCCESSFUL"
                              \/ row'[s].state = row[s].state
      BY <2>2, <1>t DEF Row
    <3>2. \/ h'.pc = "idle"
          \/ h'.swap = h.swap /\ h'.mem.preimage = h.mem.preimage
      <4> DEFINE u == [h EXCEPT !.pc = "refund", !.mem.state = "SERVER_ERROR"]
      <4>1. u.swap = h.swap /\ u.mem.preimage = h.mem.preimage
        BY <1>t DEF Update, Row
      <4> HIDE DEF u
      <4>2. h' = NoUpdate \/ h' = u
        BY <2>2 DEF u
      <4> QED BY <4>1, <4>2, <1>n
    <3>3. h.pc # "idle"
      BY <1>10 DEF RefundFailed
    <3> QED BY <1>10, <3>1, <3>2, <3>3, PaymentKept DEF RefundFailed
  <2> QED BY <1>10, <2>1, <2>2 DEF RefundFailed
<1>11. ASSUME RefundReturned PROVE PaymentInv'
  BY <1>11, <1>b, <1>k DEF RefundReturned
<1>12. ASSUME NEW t \in Threads, NEW s \in Swaps, RefundSwap(t, s)
       PROVE  PaymentInv'
  <2>1. \A x \in Swaps : /\ row'[x].preimage = row[x].preimage
                         /\ row'[x].state = row[x].state
    BY <1>12, <1>t DEF RefundSwap, Row
  <2>2. h' = h
    BY <1>12 DEF RefundSwap
  <2> QED BY <1>12, <2>1, <2>2, PaymentKept DEF RefundSwap
<1>13. ASSUME NEW t \in Threads, RefundSwaps(t) PROVE PaymentInv'
  <2> USE DEF JobUnchanged
  <2>0. job[t] \in Job
    BY <1>t
  <2>1. CASE PopulateOutputs(t)
    <3>1. PICK bad \in SUBSET Swaps : SetErrors(bad)
      BY <2>0, <2>1 DEF PopulateOutputs, Job
    <3> QED BY <2>1, <3>1, <1>e DEF PopulateOutputs, SetErrors
  <2>2. CASE ConstructTransaction(t)
    <3>1. PICK refused \in SUBSET Swaps : SetErrors(refused)
      BY <2>0, <2>2 DEF ConstructTransaction, Job
    <3> QED BY <2>2, <3>1, <1>e DEF ConstructTransaction, SetErrors
  <2>3. CASE TransactionFails(t) \/ FinishTransaction(t)
    <3>1. job[t].outs \in SUBSET Swaps /\ job[t].errs \in SUBSET Swaps
      BY <2>0 DEF Job
    <3> QED
      BY <2>3, <3>1, <1>e DEF TransactionFails, FinishTransaction, SetErrors
  <2>4. CASE ConstructTransactionPanics(t)
    BY <2>4, <1>k DEF ConstructTransactionPanics, Panic, StopDaemon
  <2>5. CASE BroadcastTransaction(t) \/ RefundSwapsReturns(t)
    BY <2>5, <1>k DEF BroadcastTransaction, RefundSwapsReturns
  <2>6. CASE SetTransaction(t)
    <3>1. PICK s \in Swaps :
            row' = [row EXCEPT ![s].state = "REFUNDED", ![s].refund = TRUE]
      BY <2>0, <2>6 DEF SetTransaction, Job
    <3>2. \A x \in Swaps : /\ row'[x].preimage = row[x].preimage
                           /\ \/ row'[x].state # "SUCCESSFUL"
                              \/ row'[x].state = row[x].state
      BY <3>1, <1>t DEF Row
    <3>3. h' = h
      BY <2>6 DEF SetTransaction
    <3> QED BY <2>6, <3>2, <3>3, PaymentKept DEF SetTransaction
  <2> QED
    BY <1>13, <2>1, <2>2, <2>3, <2>4, <2>5, <2>6 DEF RefundSwaps
<1>14. ASSUME FetchLockupPanics \/ Crash PROVE PaymentInv'
  BY <1>14, <1>k DEF FetchLockupPanics, Panic, Crash, StopDaemon
<1>15. ASSUME NEW s \in Swaps, RegisterSwap(s) PROVE PaymentInv'
  BY <1>15, <1>k DEF RegisterSwap
<1>16. ASSUME Reconnect \/ RecoverSwaps PROVE PaymentInv'
  BY <1>16, <1>k DEF Reconnect, Resubscribe, RecoverSwaps
<1>17. ASSUME CheckRefundableSwaps \/ RegisterBlock PROVE PaymentInv'
  BY <1>17, <1>k DEF CheckRefundableSwaps, RegisterBlock
<1>18. ASSUME NEW s \in Swaps, Environment(s) PROVE PaymentInv'
  <2>1. CASE ServerPays(s)
    <3>1. \A x \in Swaps : paid[x] => paid'[x]
      BY <2>1 DEF ServerPays, TypeOK
    <3>2. UNCHANGED <<row, h, signed, invoice>>
      BY <2>1 DEF ServerPays
    <3> QED BY <3>1, <3>2, PaymentKept
  <2>2. CASE ~ServerPays(s)
    BY <1>18, <2>2, <1>k
    DEF Environment, UserLocksCoins, LockupConfirms, ServerSeesLockup,
        ServerTriesToPay, ServerGivesUp, ServerClaims, ServerReports
  <2> QED BY <2>1, <2>2
<1> QED
  BY <1>1, <1>2, <1>3, <1>4, <1>5, <1>6, <1>7, <1>8, <1>9, <1>10, <1>11,
     <1>12, <1>13, <1>14, <1>15, <1>16, <1>17, <1>18
  DEF Next, HandleSwapStatus

\* A step that changes nothing keeps PaymentInv.
LEMMA PaymentStutters == PaymentInv /\ UNCHANGED vars => PaymentInv'
BY DEF PaymentInv, SignedOnlyIfPaid, PreimageIsProof, SuccessHasPreimage,
       CopyIsProof, vars, rpcVars, srvVars, netVars, wsVars, sysVars

\* PaymentInv holds in every reachable state.
LEMMA PaymentAlways == Spec => []PaymentInv
<1>1. TypeOK /\ TypeOK' /\ PaymentInv /\ [Next]_vars => PaymentInv'
  BY PaymentNext, PaymentStutters
<1> QED
  BY <1>1, PaymentInit, TypeCorrect, PTL DEF Spec

\* cooperativeSwapClaim gives our signature away only for a paid invoice,
\* whatever lightzd answers and whatever fails.
THEOREM SignaturesAreEarned == Spec => []SignedOnlyIfPaid
<1>1. PaymentInv => SignedOnlyIfPaid
  BY DEF PaymentInv
<1> QED
  BY <1>1, PaymentAlways, PTL

\* The state SUCCESSFUL of a swap for an invoice of the user stands for a
\* payment, and the preimage that proves it is in the database.
THEOREM SuccessIsProven == Spec => []ProofOfPayment
<1>1. PaymentInv => ProofOfPayment
  BY DEF PaymentInv, PreimageIsProof, SuccessHasPreimage, ProofOfPayment
<1> QED
  BY <1>1, PaymentAlways, PTL
-----------------------------------------------------------------------------
(***************************************************************************)
(* A refund in the database is one on chain.                               *)
(*                                                                         *)
(* The rows are written long after the broadcast, by one of several        *)
(* goroutines.  RefundInv adds what a call that is about to record knows:  *)
(* the outputs it records are inputs of its transaction, and once that is  *)
(* broadcast their coins are the client's, and stay so.                    *)
(***************************************************************************)
\* Coins are locked only for a swap the client knows.
NoRowNoCoins == \A s \in Swaps : ~Exists(s) => coins[s] = "none"

\* SendToAddress locks coins that are not locked yet.
PayingNothingYet ==
  \A s \in Swaps : creating[s] = "pay" => Exists(s) /\ coins[s] = "none"

\* Every output that will be recorded is an input of the transaction.
PaysItsInputs ==
  \A t \in Threads : job[t].pc = "broadcast" => Paying(t) \subseteq job[t].ins

\* Every output that is recorded has been spent by the client.
RecordsItsOwn ==
  \A t \in Threads :
    job[t].pc = "record" =>
      \A s \in Swaps : s \in job[t].todo => coins[s] = "client"

\* The inductive invariant.
RefundInv ==
  /\ RefundIsOnChain
  /\ NoRowNoCoins
  /\ PayingNothingYet
  /\ PaysItsInputs
  /\ RecordsItsOwn

\* Nothing is refunded when the daemon starts.
LEMMA RefundInit == Init => RefundInv
BY DEF Init, RefundInv, RefundIsOnChain, NoRowNoCoins, PayingNothingYet,
       PaysItsInputs, RecordsItsOwn, NoJob, NoRow, OldRow, Exists

\* A step records a refund only of coins the client has, and drops no row.
RowsStep ==
  \A s \in Swaps :
    /\ Exists(s) => Exists(s)'
    /\ \/ /\ row'[s].refund = row[s].refund
          /\ row'[s].state # "REFUNDED" \/ row'[s].state = row[s].state
       \/ row'[s].refund /\ coins'[s] = "client"

\* The client keeps what it has, and only coins of a known swap move.
CoinsStep ==
  \A s \in Swaps : /\ coins[s] = "client" => coins'[s] = "client"
                   /\ coins'[s] = coins[s] \/ Exists(s)

\* A call that comes to its broadcast or its records comes there in order.
JobsStep ==
  \A t \in Threads :
    \/ job'[t] = job[t]
    \/ job'[t].pc \notin {"broadcast", "record"}
    \/ job'[t].pc = "broadcast" /\ Paying(t)' \subseteq job'[t].ins
    \/ /\ job'[t].pc = "record"
       /\ \A s \in Swaps : s \in job'[t].todo => coins'[s] = "client"

\* No call starts to pay for coins that are locked, or that get locked now.
CreatingStep ==
  \A s \in Swaps :
    creating'[s] = "pay" =>
      /\ creating[s] = "pay" \/ (Exists(s)' /\ coins[s] = "none")
      /\ coins'[s] = coins[s]

\* A step of this kind keeps RefundInv.
LEMMA RefundKept ==
  ASSUME RefundInv, RowsStep, CoinsStep, JobsStep, CreatingStep
  PROVE  RefundInv'
<1>1. RefundIsOnChain'
  BY DEF RefundInv, RefundIsOnChain, RowsStep, CoinsStep
<1>2. NoRowNoCoins' /\ PayingNothingYet'
  BY DEF RefundInv, NoRowNoCoins, PayingNothingYet, RowsStep, CoinsStep,
         CreatingStep
<1>3. PaysItsInputs'
  BY DEF RefundInv, PaysItsInputs, JobsStep, Paying
<1>4. RecordsItsOwn'
  BY DEF RefundInv, RecordsItsOwn, JobsStep, CoinsStep
<1> QED
  BY <1>1, <1>2, <1>3, <1>4 DEF RefundInv

\* A step that leaves coins, calls and the RPC calls alone, and at most writes
\* columns of one row that have nothing to do with a refund.
LEMMA RefundKeptByWrite ==
  ASSUME TypeOK, RefundInv, NEW x \in Swaps, NEW r \in Row,
         row' = [row EXCEPT ![x] = r],
         r.refund = row[x].refund, r.state # "NONE",
         r.state # "REFUNDED" \/ r.state = row[x].state,
         CoinsStep, JobsStep, CreatingStep
  PROVE  RefundInv'
<1>1. \A s \in Swaps : row'[s] = IF s = x THEN r ELSE row[s]
  BY DEF TypeOK
<1>2. RowsStep
  BY <1>1 DEF RowsStep, Exists
<1> QED BY <1>2, RefundKept

\* setError of any set of outputs is such a step.
LEMMA RefundKeptByErrors ==
  ASSUME TypeOK, RefundInv, NEW S \in SUBSET Swaps, SetErrors(S),
         CoinsStep, JobsStep, CreatingStep
  PROVE  RefundInv'
<1>1. \A s \in Swaps :
        row'[s] = IF s \in S THEN [row[s] EXCEPT !.state = "ERROR"] ELSE row[s]
  BY DEF SetErrors
<1>2. \A s \in Swaps : row[s] \in Row
  BY DEF TypeOK
<1>3. \A s \in Swaps : row'[s].refund = row[s].refund
                       /\ (row'[s].state = "ERROR" \/ row'[s].state = row[s].state)
  BY <1>1, <1>2 DEF Row
<1>4. RowsStep
  BY <1>3 DEF RowsStep, Exists
<1> QED BY <1>4, RefundKept

\* What the steps of createTransaction do to the call and to the coins.
LEMMA RefundJobs ==
  ASSUME job \in [Threads -> Job], coins \in [Swaps -> Coins], RefundInv,
         NEW t \in Threads
  PROVE  /\ \A outs, coop : Start(t, outs, coop) => JobsStep
         /\ Return(t) => JobsStep
         /\ \A missing, bad : Populate(t, missing, bad) => JobsStep
         /\ ConstructFails(t) => JobsStep
         /\ \A refused, small : ConstructRefund(t, refused, small) => JobsStep
         /\ Broadcast(t) => JobsStep
         /\ Rebroadcast(t) => JobsStep
         /\ BroadcastUnanswered(t) => JobsStep
         /\ BroadcastFails(t) => JobsStep
         /\ \A s \in Swaps : Record(t, s) => JobsStep
         /\ Finish(t) => JobsStep
<1>0. job[t] \in Job
  OBVIOUS
<1>k. ASSUME NEW j, job' = [job EXCEPT ![t] = j],
             j.pc \notin {"broadcast", "record"}
      PROVE  JobsStep
  BY <1>k DEF JobsStep
<1>r. ASSUME NEW j, job' = [job EXCEPT ![t] = j], j.pc = "record",
             \A s \in Swaps : s \in j.todo => coins'[s] = "client"
      PROVE  JobsStep
  BY <1>r DEF JobsStep
<1>f. ASSUME Fail(t) PROVE JobsStep
  BY <1>f, <1>k DEF Fail, NoJob
<1>1. ASSUME NEW outs, NEW coop, Start(t, outs, coop) PROVE JobsStep
  BY <1>1, <1>k DEF Start, NoJob
<1>2. ASSUME Return(t) \/ Finish(t) PROVE JobsStep
  BY <1>2, <1>k DEF Return, Finish, NoJob
<1>3. ASSUME NEW missing, NEW bad, Populate(t, missing, bad) PROVE JobsStep
  <2>1. CASE Fail(t)
    BY <2>1, <1>f
  <2> DEFINE j == [job[t] EXCEPT !.pc = "construct", !.outs = @ \ bad,
                                 !.coop = @ \ bad]
  <2>2. CASE job' = [job EXCEPT ![t] = j]
    <3>1. j.pc = "construct"
      BY <1>0 DEF Job
    <3> QED BY <2>2, <3>1, <1>k
  <2> QED BY <1>3, <2>1, <2>2 DEF Populate
<1>4. ASSUME NEW refused, NEW small, ConstructRefund(t, refused, small)
      PROVE  JobsStep
  <2>1. CASE Fail(t)
    BY <2>1, <1>f
  <2>2. CASE job' = [job EXCEPT ![t].pc = "broadcast",
                                ![t].ins = job[t].outs \ refused,
                                ![t].errs = refused \cup small]
    <3>1. /\ job'[t].pc = "broadcast"
          /\ job'[t].ins = job[t].outs \ refused
          /\ job'[t].errs = refused \cup small
          /\ job'[t].outs = job[t].outs
      BY <2>2, <1>0 DEF Job
    <3>2. Paying(t)' \subseteq job'[t].ins
      BY <3>1 DEF Paying
    <3>3. \A u \in Threads \ {t} : job'[u] = job[u]
      BY <2>2
    <3> QED BY <3>1, <3>2, <3>3 DEF JobsStep
  <2> QED BY <1>4, <2>1, <2>2 DEF ConstructRefund
<1>5. ASSUME Broadcast(t) \/ Rebroadcast(t) PROVE JobsStep
  <2> DEFINE j == [job[t] EXCEPT !.pc = "record", !.todo = Paying(t)]
  <2>1. j.pc = "record" /\ j.todo = Paying(t) /\ job' = [job EXCEPT ![t] = j]
    BY <1>0, <1>5 DEF Job, Broadcast, Rebroadcast
  <2>2. Paying(t) \subseteq job[t].ins
    BY <1>5 DEF Broadcast, Rebroadcast, RefundInv, PaysItsInputs
  <2>3. \A s \in Swaps : s \in job[t].ins => coins'[s] = "client"
    BY <1>5 DEF Broadcast, Rebroadcast, Spend
  <2> QED BY <2>1, <2>2, <2>3, <1>r
<1>6. ASSUME BroadcastUnanswered(t) PROVE JobsStep
  <2> DEFINE j == [job[t] EXCEPT !.pc = "unanswered"]
  <2>1. j.pc = "unanswered" /\ job' = [job EXCEPT ![t] = j]
    BY <1>0, <1>6 DEF Job, BroadcastUnanswered
  <2> QED BY <2>1, <1>k
<1>7. ASSUME NEW s \in Swaps, Record(t, s) PROVE JobsStep
  <2>1. PICK failed :
          job' = [job EXCEPT ![t].todo = @ \ {s},
                             ![t].errs = @ \cup failed,
                             ![t].pc = IF job[t].todo = {s} THEN "finish"
                                       ELSE "record"]
    BY <1>7 DEF Record
  <2> DEFINE j == [job[t] EXCEPT !.todo = @ \ {s},
                                 !.errs = @ \cup failed,
                                 !.pc = IF job[t].todo = {s} THEN "finish"
                                        ELSE "record"]
  <2>2. j.todo = job[t].todo \ {s} /\ j.pc \in {"finish", "record"}
    BY <1>0 DEF Job
  <2>3. job' = [job EXCEPT ![t] = j]
    BY <2>1
  <2>4. \A x \in Swaps : x \in job[t].todo => coins'[x] = "client"
    BY <1>7 DEF Record, RefundInv, RecordsItsOwn
  <2> HIDE DEF j
  <2> QED BY <2>2, <2>3, <2>4, <1>k, <1>r
<1> QED
  BY <1>1, <1>2, <1>3, <1>4, <1>5, <1>6, <1>7, <1>f
  DEF ConstructFails, BroadcastFails

\* Every step keeps RefundInv.  The broadcast and SetTransaction are what the
\* invariant is about; the steps in between belong to other goroutines.
LEMMA RefundNext == TypeOK /\ RefundInv /\ Next => RefundInv'
<1> SUFFICES ASSUME TypeOK, RefundInv, Next PROVE RefundInv'
  OBVIOUS
<1>t. /\ row \in [Swaps -> Row]
      /\ h \in Update /\ h.swap \in Swaps
      /\ job \in [Threads -> Job]
      /\ coins \in [Swaps -> Coins]
  BY DEF TypeOK, Update
<1>e. h.pc # "idle" => row[h.swap].state # "NONE"
  BY DEF TypeOK, Exists
<1>c. ASSUME UNCHANGED coins PROVE CoinsStep
  BY <1>c DEF CoinsStep
<1>j. ASSUME UNCHANGED job PROVE JobsStep
  BY <1>j DEF JobsStep
<1>g. ASSUME UNCHANGED <<coins, creating>> PROVE CreatingStep
  BY <1>g DEF CreatingStep
<1>s. ASSUME UNCHANGED <<coins, job, creating>>
      PROVE  CoinsStep /\ JobsStep /\ CreatingStep
  BY <1>c, <1>g, <1>j, <1>s
<1>o. ASSUME UNCHANGED row PROVE RowsStep
  BY <1>o DEF RowsStep, Exists
<1>b. ASSUME HandleError, CoinsStep, JobsStep, CreatingStep PROVE RefundInv'
  <2> DEFINE r == [row[h.swap] EXCEPT !.state = "ERROR"]
  <2>1. r \in Row /\ r.state = "ERROR" /\ r.refund = row[h.swap].refund
    BY <1>t DEF Row, SwapState
  <2>2. row' = [row EXCEPT ![h.swap] = r]
    BY <1>b DEF HandleError
  <2> QED BY <1>b, <1>t, <2>1, <2>2, RefundKeptByWrite
<1> USE DEF rpcVars, srvVars, netVars, wsVars, sysVars
<1>p. ASSUME Panic \/ Crash PROVE RefundInv'
  <2>1. \A t \in Threads : job'[t].pc = "idle"
    BY <1>p DEF Panic, Crash, StopDaemon, NoJob
  <2>2. JobsStep
    BY <2>1 DEF JobsStep
  <2>3. CreatingStep
    BY <1>p DEF Panic, Crash, StopDaemon, CreatingStep
  <2> QED
    BY <1>p, <1>c, <1>o, <2>2, <2>3, RefundKept DEF Panic, Crash, StopDaemon
<1>1. ASSUME NEW s \in Swaps, CreateSwap(s) PROVE RefundInv'
  <2>1. PICK own \in BOOLEAN, dest \in BOOLEAN :
          row' = [row EXCEPT ![s] =
                    [NoRow EXCEPT !.state = "PENDING", !.invoice = ~own,
                                  !.preimage = own, !.dest = dest]]
    BY <1>1 DEF CreateSwap
  <2> DEFINE r == [NoRow EXCEPT !.state = "PENDING", !.invoice = ~own,
                                !.preimage = own, !.dest = dest]
  <2>2. r \in Row /\ r.state = "PENDING" /\ r.refund = FALSE
    BY DEF NoRow, Row, LockupId, SwapState, SwapUpdateEvent
  <2>3. row[s] = NoRow /\ coins[s] = "none"
    BY <1>1 DEF CreateSwap, TypeOK, RefundInv, NoRowNoCoins
  <2>4. row[s].refund = FALSE
    BY <2>3 DEF NoRow
  <2>5. Exists(s)' /\ UNCHANGED <<coins, job>>
    BY <1>1, <1>t, <2>1, <2>2 DEF CreateSwap, Exists
  <2>6. \A x \in Swaps : creating'[x] = "pay" => creating[x] = "pay" \/ x = s
    BY <1>1 DEF CreateSwap, TypeOK
  <2>7. CreatingStep
    BY <2>3, <2>5, <2>6 DEF CreatingStep
  <2> HIDE DEF r
  <2> QED
    BY <1>c, <1>j, <2>1, <2>2, <2>4, <2>5, <2>7, RefundKeptByWrite DEF r
<1>2. ASSUME NEW s \in Swaps, SendToAddress(s) PROVE RefundInv'
  <2>1. Exists(s) /\ coins[s] = "none"
    BY <1>2 DEF SendToAddress, RefundInv, PayingNothingYet
  <2>2. CoinsStep
    BY <1>2, <1>t, <2>1 DEF SendToAddress, CoinsStep
  <2>3. \A x \in Swaps \ {s} : /\ creating'[x] = creating[x]
                               /\ coins'[x] = coins[x]
    BY <1>2, <1>t DEF SendToAddress, TypeOK
  <2>4. creating'[s] # "pay"
    BY <1>2 DEF SendToAddress, TypeOK
  <2>5. CreatingStep
    BY <2>3, <2>4 DEF CreatingStep
  <2>6. JobsStep
    BY <1>2, <1>j DEF SendToAddress
  <2>7. CASE UNCHANGED row
    BY <1>o, <2>2, <2>5, <2>6, <2>7, RefundKept
  <2>8. CASE row' = [row EXCEPT ![s].state = "ERROR"]
    <3> DEFINE r == [row[s] EXCEPT !.state = "ERROR"]
    <3>1. r \in Row /\ r.state = "ERROR" /\ r.refund = row[s].refund
      BY <1>t DEF Row, SwapState
    <3> QED BY <2>2, <2>5, <2>6, <2>8, <3>1, RefundKeptByWrite
  <2> QED BY <1>2, <2>7, <2>8 DEF SendToAddress
<1>3. ASSUME NEW s \in Swaps, RegisterSwap(s) PROVE RefundInv'
  <2>1. CreatingStep
    BY <1>3 DEF RegisterSwap, CreatingStep, TypeOK
  <2> QED BY <1>3, <1>c, <1>j, <1>o, <2>1, RefundKept DEF RegisterSwap
<1>4. ASSUME \/ Reconnect
             \/ \E s \in Swaps : ProcessUpdate(s)
             \/ RecoverSwaps
             \/ RegisterBlock
      PROVE  RefundInv'
  BY <1>4, <1>o, <1>s, RefundKept
  DEF Reconnect, Resubscribe, ProcessUpdate, RecoverSwaps, RegisterBlock
<1>5. ASSUME FetchLockup PROVE RefundInv'
  <2>0. CoinsStep /\ JobsStep /\ CreatingStep
    BY <1>5, <1>s DEF FetchLockup
  <2>1. CASE HandleError
    BY <1>b, <2>0, <2>1
  <2>2. CASE row' = [row EXCEPT ![h.swap].lockup = "right"]
    <3> DEFINE r == [row[h.swap] EXCEPT !.lockup = "right"]
    <3>1. r \in Row /\ r.state = row[h.swap].state /\ r.refund = row[h.swap].refund
      BY <1>t DEF Row, LockupId
    <3>2. r.state # "NONE"
      BY <1>5, <1>e, <3>1 DEF FetchLockup
    <3> QED BY <1>t, <2>0, <2>2, <3>1, <3>2, RefundKeptByWrite
  <2>3. ASSUME NEW id \in {"right", "wrong"},
               row' = [row EXCEPT ![h.swap].lockup = id,
                                  ![h.swap].state = "ERROR"]
        PROVE  RefundInv'
    <3> DEFINE r == [row[h.swap] EXCEPT !.lockup = id, !.state = "ERROR"]
    <3>1. r \in Row /\ r.state = "ERROR" /\ r.refund = row[h.swap].refund
      BY <1>t DEF Row, LockupId, SwapState
    <3>2. row' = [row EXCEPT ![h.swap] = r]
      BY <2>3
    <3> QED BY <1>t, <2>0, <3>1, <3>2, RefundKeptByWrite
  <2> QED BY <1>5, <2>1, <2>2, <2>3 DEF FetchLockup
<1>6. ASSUME CreateInvoice PROVE RefundInv'
  BY <1>6, <1>b, <1>o, <1>s, RefundKept DEF CreateInvoice
<1>7. ASSUME StoreInvoice PROVE RefundInv'
  <2> DEFINE r == [row[h.swap] EXCEPT !.invoice = TRUE]
  <2>1. r \in Row /\ r.state = row[h.swap].state /\ r.refund = row[h.swap].refund
    BY <1>t DEF Row
  <2>2. r.state # "NONE"
    BY <1>7, <1>e, <2>1 DEF StoreInvoice
  <2>3. row' = [row EXCEPT ![h.swap] = r]
    BY <1>7 DEF StoreInvoice
  <2>4. CoinsStep /\ JobsStep /\ CreatingStep
    BY <1>7, <1>s DEF StoreInvoice
  <2> QED BY <1>t, <2>1, <2>2, <2>3, <2>4, RefundKeptByWrite
<1>8. ASSUME ClaimPending PROVE RefundInv'
  <2>0. CoinsStep /\ JobsStep /\ CreatingStep
    BY <1>8, <1>s DEF ClaimPending
  <2>1. CASE HandleError
    BY <1>b, <2>0, <2>1
  <2>2. CASE UNCHANGED row
    BY <1>o, <2>0, <2>2, RefundKept
  <2>3. CASE row' = [row EXCEPT ![h.swap].preimage = TRUE]
    <3> DEFINE r == [row[h.swap] EXCEPT !.preimage = TRUE]
    <3>1. r \in Row /\ r.state = row[h.swap].state /\ r.refund = row[h.swap].refund
      BY <1>t DEF Row
    <3>2. r.state # "NONE"
      BY <1>8, <1>e, <3>1 DEF ClaimPending
    <3> QED BY <1>t, <2>0, <2>3, <3>1, <3>2, RefundKeptByWrite
  <2> QED
    BY <1>8, <2>1, <2>2, <2>3 DEF ClaimPending, CooperativeSwapClaim
<1>9. ASSUME UpdateSwapStatus PROVE RefundInv'
  <2> DEFINE r == [row[h.swap] EXCEPT !.status = h.ev]
  <2>1. h.ev \in SwapUpdateEvent
    BY <1>t DEF Update
  <2>2. r \in Row /\ r.state = row[h.swap].state /\ r.refund = row[h.swap].refund
    BY <1>t, <2>1 DEF Row
  <2>3. r.state # "NONE"
    BY <1>9, <1>e, <2>2 DEF UpdateSwapStatus
  <2>4. row' = [row EXCEPT ![h.swap] = r]
    BY <1>9 DEF UpdateSwapStatus
  <2>5. CoinsStep /\ JobsStep /\ CreatingStep
    BY <1>9, <1>s DEF UpdateSwapStatus
  <2> QED BY <1>t, <2>2, <2>3, <2>4, <2>5, RefundKeptByWrite
<1>10. ASSUME Complete PROVE RefundInv'
  <2>0. CoinsStep /\ JobsStep /\ CreatingStep
    BY <1>10, <1>s DEF Complete
  <2>1. CASE HandleError
    BY <1>b, <2>0, <2>1
  <2> DEFINE r == [row[h.swap] EXCEPT !.preimage = TRUE, !.state = "SUCCESSFUL"]
  <2>2. CASE row' = [row EXCEPT ![h.swap] = r]
    <3>1. r \in Row /\ r.state = "SUCCESSFUL" /\ r.refund = row[h.swap].refund
      BY <1>t DEF Row, SwapState
    <3> QED BY <1>t, <2>0, <2>2, <3>1, RefundKeptByWrite
  <2> QED BY <1>10, <2>1, <2>2 DEF Complete
<1>11. ASSUME RefundFailed PROVE RefundInv'
  <2>1. CoinsStep /\ CreatingStep
    BY <1>11, <1>c, <1>g DEF RefundFailed
  <2>2. JobsStep
    BY <1>11, <1>j, <1>t, RefundJobs, SubmarineAssumption DEF RefundFailed
  <2>3. CASE HandleError
    BY <1>b, <2>1, <2>2, <2>3
  <2> DEFINE r == [row[h.swap] EXCEPT !.state = "SERVER_ERROR"]
  <2>4. CASE row' = [row EXCEPT ![h.swap] = r]
    <3>1. r \in Row /\ r.state = "SERVER_ERROR" /\ r.refund = row[h.swap].refund
      BY <1>t DEF Row, SwapState
    <3> QED BY <1>t, <2>1, <2>2, <2>4, <3>1, RefundKeptByWrite
  <2> QED BY <1>11, <2>3, <2>4 DEF RefundFailed
<1>12. ASSUME RefundReturned PROVE RefundInv'
  <2>1. CoinsStep /\ CreatingStep
    BY <1>12, <1>c, <1>g DEF RefundReturned
  <2>2. JobsStep
    BY <1>12, <1>t, RefundJobs, SubmarineAssumption DEF RefundReturned
  <2> QED
    BY <1>12, <1>b, <1>o, <2>1, <2>2, RefundKept DEF RefundReturned
<1>13. ASSUME CheckRefundableSwaps PROVE RefundInv'
  <2>1. JobsStep
    BY <1>13, <1>j, <1>t, RefundJobs, SubmarineAssumption
    DEF CheckRefundableSwaps
  <2> QED BY <1>13, <1>c, <1>g, <1>o, <2>1, RefundKept DEF CheckRefundableSwaps
<1>14. ASSUME NEW t \in Threads, NEW s \in Swaps, RefundSwap(t, s)
       PROVE  RefundInv'
  <2>1. JobsStep
    BY <1>14, <1>j, <1>t, RefundJobs DEF RefundSwap
  <2>2. CoinsStep /\ CreatingStep
    BY <1>14, <1>c, <1>g DEF RefundSwap
  <2> DEFINE r == [row[s] EXCEPT !.dest = TRUE]
  <2>3. r \in Row /\ r.state = row[s].state /\ r.refund = row[s].refund
    BY <1>t DEF Row
  <2>4. row[s].state # "NONE"
    BY <1>14 DEF RefundSwap, Refundable, TypeOK, Exists, NoRow
  <2>5. row' = [row EXCEPT ![s] = r]
    BY <1>14 DEF RefundSwap
  <2> QED BY <2>1, <2>2, <2>3, <2>4, <2>5, RefundKeptByWrite
<1>15. ASSUME NEW t \in Threads, RefundSwaps(t) PROVE RefundInv'
  <2> USE DEF JobUnchanged
  <2>0. job[t] \in Job
    BY <1>t
  <2>1. CASE PopulateOutputs(t)
    <3>1. PICK wrong \in SUBSET WrongId(t), bad \in SUBSET Swaps :
            Populate(t, Missing(t) \cup wrong, bad) /\ SetErrors(bad)
      BY <2>0, <2>1 DEF PopulateOutputs, Job
    <3>2. CoinsStep /\ CreatingStep
      BY <2>1, <3>1, <1>c, <1>g DEF PopulateOutputs, Populate
    <3> QED BY <3>1, <3>2, <1>t, RefundJobs, RefundKeptByErrors
  <2>2. CASE ConstructTransaction(t)
    <3>1. PICK refused \in SUBSET Swaps, small \in SUBSET Swaps :
            /\ ConstructRefund(t, refused, small)
            /\ SetErrors(IF refused = job[t].outs THEN refused ELSE {})
      BY <2>0, <2>2 DEF ConstructTransaction, Job
    <3>2. CoinsStep /\ CreatingStep
      BY <2>2, <3>1, <1>c, <1>g DEF ConstructTransaction, ConstructRefund
    <3>3. (IF refused = job[t].outs THEN refused ELSE {}) \in SUBSET Swaps
      OBVIOUS
    <3> QED BY <3>1, <3>2, <3>3, <1>t, RefundJobs, RefundKeptByErrors
  <2>3. CASE TransactionFails(t)
    <3>1. CoinsStep /\ CreatingStep
      BY <2>3, <1>c, <1>g DEF TransactionFails, ConstructFails, BroadcastFails
    <3>2. JobsStep
      BY <2>3, <1>t, RefundJobs DEF TransactionFails
    <3>3. job[t].outs \in SUBSET Swaps /\ SetErrors(job[t].outs)
      BY <2>0, <2>3 DEF Job, TransactionFails
    <3> QED BY <3>1, <3>2, <3>3, RefundKeptByErrors
  <2>4. CASE ConstructTransactionPanics(t)
    BY <2>4, <1>p DEF ConstructTransactionPanics
  <2>5. CASE BroadcastTransaction(t)
    <3>1. JobsStep
      BY <2>5, <1>t, RefundJobs DEF BroadcastTransaction
    <3>2. \A s \in Swaps : /\ coins[s] = "client" => coins'[s] = "client"
                           /\ coins'[s] = coins[s] \/ coins[s] \in Unspent
      BY <2>5
      DEF BroadcastTransaction, Broadcast, Rebroadcast, BroadcastUnanswered,
          Spend, Valid
    <3>3. CoinsStep
      BY <3>2 DEF CoinsStep, RefundInv, NoRowNoCoins, Unspent
    <3>4. CreatingStep
      BY <2>5, <3>2
      DEF BroadcastTransaction, CreatingStep, RefundInv, PayingNothingYet, Unspent
    <3> QED BY <2>5, <3>1, <3>3, <3>4, <1>o, RefundKept DEF BroadcastTransaction
  <2>6. CASE SetTransaction(t)
    <3>1. PICK s \in Swaps :
            /\ s \in job[t].todo
            /\ Record(t, s)
            /\ row' = [row EXCEPT ![s].state = "REFUNDED", ![s].refund = TRUE]
      BY <2>0, <2>6 DEF SetTransaction, Job
    <3>2. CoinsStep /\ CreatingStep
      BY <2>6, <3>1, <1>c, <1>g DEF SetTransaction, Record
    <3>3. JobsStep
      BY <3>1, <1>t, RefundJobs
    <3>4. coins'[s] = "client"
      BY <3>1 DEF Record, RefundInv, RecordsItsOwn
    <3>5. row'[s].refund /\ row'[s].state = "REFUNDED"
      BY <3>1, <1>t DEF Row
    <3>6. \A x \in Swaps \ {s} : row'[x] = row[x]
      BY <3>1, <1>t
    <3>7. RowsStep
      BY <3>4, <3>5, <3>6 DEF RowsStep, Exists
    <3> QED BY <3>2, <3>3, <3>7, RefundKept
  <2>7. CASE FinishTransaction(t)
    <3>1. CoinsStep /\ CreatingStep
      BY <2>7, <1>c, <1>g DEF FinishTransaction, Finish
    <3>2. JobsStep
      BY <2>7, <1>t, RefundJobs DEF FinishTransaction
    <3>3. job[t].errs \in SUBSET Swaps /\ SetErrors(job[t].errs)
      BY <2>0, <2>7 DEF Job, FinishTransaction
    <3> QED BY <3>1, <3>2, <3>3, RefundKeptByErrors
  <2>8. CASE RefundSwapsReturns(t)
    <3>1. JobsStep
      BY <2>8, <1>t, RefundJobs DEF RefundSwapsReturns
    <3> QED BY <2>8, <3>1, <1>c, <1>g, <1>o, RefundKept DEF RefundSwapsReturns
  <2> QED
    BY <1>15, <2>1, <2>2, <2>3, <2>4, <2>5, <2>6, <2>7, <2>8 DEF RefundSwaps
<1>16. ASSUME NEW s \in Swaps, Environment(s) PROVE RefundInv'
  <2>1. UNCHANGED <<row, job, creating>>
    BY <1>16
    DEF Environment, UserLocksCoins, LockupConfirms, ServerSeesLockup,
        ServerTriesToPay, ServerPays, ServerGivesUp, ServerClaims, ServerReports
  <2>2. \A x \in Swaps \ {s} : coins'[x] = coins[x]
    BY <1>16, <1>t
    DEF Environment, UserLocksCoins, LockupConfirms, ServerSeesLockup,
        ServerTriesToPay, ServerPays, ServerGivesUp, ServerClaims, ServerReports
  <2>3. \/ coins'[s] = coins[s]
        \/ /\ Exists(s) /\ coins[s] # "client" /\ creating[s] # "pay"
    BY <1>16
    DEF Environment, UserLocksCoins, LockupConfirms, ServerSeesLockup,
        ServerTriesToPay, ServerPays, ServerGivesUp, ServerClaims,
        ServerReports, RefundInv, NoRowNoCoins, PayingNothingYet, Unspent
  <2>4. CoinsStep
    BY <2>2, <2>3 DEF CoinsStep
  <2>5. CreatingStep
    BY <2>1, <2>2, <2>3 DEF CreatingStep
  <2> QED BY <2>1, <2>4, <2>5, <1>j, <1>o, RefundKept
<1> QED
  BY <1>1, <1>2, <1>3, <1>4, <1>5, <1>6, <1>7, <1>8, <1>9, <1>10, <1>11,
     <1>12, <1>13, <1>14, <1>15, <1>16, <1>p
  DEF Next, HandleSwapStatus, FetchLockupPanics

\* A step that changes nothing keeps RefundInv.
LEMMA RefundStutters == RefundInv /\ UNCHANGED vars => RefundInv'
BY DEF RefundInv, RefundIsOnChain, NoRowNoCoins, PayingNothingYet,
       PaysItsInputs, RecordsItsOwn, Paying, Exists, vars, rpcVars

\* RefundInv holds in every reachable state.
LEMMA RefundAlways == Spec => []RefundInv
<1>1. TypeOK /\ RefundInv /\ [Next]_vars => RefundInv'
  BY RefundNext, RefundStutters
<1> QED
  BY <1>1, RefundInit, TypeCorrect, PTL DEF Spec

\* A refund transaction in the database is one the client broadcast and that
\* spends the lockup of that very swap, whatever runs concurrently, crashes or
\* fails; and the state REFUNDED stands for one.
THEOREM RefundsAreReal == Spec => []RefundIsOnChain
<1>1. RefundInv => RefundIsOnChain
  BY DEF RefundInv
<1> QED
  BY <1>1, RefundAlways, PTL

-----------------------------------------------------------------------------
\* Locked coins that bought nothing, and whose transaction the row knows, are in
\* the query of the refundable swaps after the timeout: the columns it looks at
\* are never written such that it misses them.  Whether the row knows the
\* transaction is another matter: see StaysRefundable.
THEOREM LockedCoinsStayRefundable == Spec => []StaysRefundable
<1>1. TypeOK /\ PaymentInv /\ RefundInv => StaysRefundable
  <2> SUFFICES ASSUME TypeOK, PaymentInv, RefundInv, NEW s \in Swaps,
                      row[s].lockup = "right", coins[s] \in Unspent, ~paid[s],
                      invoice[s] = "external"
               PROVE  Refundable(s, Timeout[s] + 1)
    BY DEF StaysRefundable
  <2>1. ~row[s].refund
    BY DEF RefundInv, RefundIsOnChain, Unspent
  <2>2. row[s].state # "SUCCESSFUL"
    BY DEF PaymentInv, SuccessHasPreimage, PreimageIsProof
  <2>3. Timeout[s] < Timeout[s] + 1
    <3>1. Timeout[s] \in Nat
      BY SubmarineAssumption
    <3> QED BY <3>1
  <2> QED BY <2>1, <2>2, <2>3 DEF Refundable
<1> QED
  BY <1>1, TypeCorrect, PaymentAlways, RefundAlways, PTL

-----------------------------------------------------------------------------
(***************************************************************************)
(* A submarine swap implements SwapContract.                               *)
(*                                                                         *)
(* What is shown for the invoices of the user follows from the invariants  *)
(* above.  For an invoice of the client's own node, whose preimage the     *)
(* client has from the start, it is the word of lightzd that counts:       *)
(* ContractInv follows it from the status over the connection and the copy *)
(* of an update into the row.                                              *)
(***************************************************************************)

\* What lightzd only says once it has paid the invoice.
PaidStatus == CompletedStatus \cup {"TransactionClaimPending"}

\* What may be said of s without a lie.
Truth(s) == {ev \in SwapUpdateEvent : ev \in PaidStatus => paid[s]}

\* A lightzd that follows the protocol tells the truth, and what it said stays
\* true on the way.
WordIsTrue ==
  Trusted => \A s \in Swaps : srv[s] \in Truth(s) /\ updates[s] \in Seq(Truth(s))

\* An update that may end in SUCCESSFUL is one of those.
UpdateIsTrue ==
  /\ Trusted /\ h.pc # "idle" /\ h.ev \in PaidStatus => paid[h.swap]
  /\ h.pc \in {"claim", "complete"} \/ h.batch => h.ev \in PaidStatus

SuccessIsPaid ==
  Trusted => \A s \in Swaps : row[s].state = "SUCCESSFUL" => paid[s]

\* lightzd pays for coins that are there.
PaidIsLocked == \A s \in Swaps : paid[s] => coins[s] # "none"

\* The inductive invariant, beside those of SubmarineSwapProofs.
ContractInv == WordIsTrue /\ UpdateIsTrue /\ SuccessIsPaid /\ PaidIsLocked

LEMMA ContractInvInit == Init => ContractInv
<1> SUFFICES ASSUME Init PROVE ContractInv
  OBVIOUS
<1> DEFINE Unpaid == {"SwapCreated", "InvoiceSet", "InvoicePending"} \cup FailedStatus
<1>1. \A s \in Swaps : /\ srv[s] \in Unpaid
                       /\ row[s].state \in {"NONE", "PENDING", "SERVER_ERROR"}
                       /\ updates[s] = <<>>
  BY SubmarineAssumption DEF Init, NoRow, OldRow
<1>2. \A s \in Swaps : Unpaid \subseteq Truth(s)
  BY DEF Truth, PaidStatus, CompletedStatus, SwapUpdateEvent, FailedStatus
<1>3. WordIsTrue
  BY <1>1, <1>2, EmptySeq DEF WordIsTrue
<1>4. UpdateIsTrue
  BY DEF Init, NoUpdate, UpdateIsTrue
<1> QED
  BY <1>1, <1>3, <1>4 DEF Init, ContractInv, SuccessIsPaid, PaidIsLocked

-----------------------------------------------------------------------------
(***************************************************************************)
(* Who moves money, and what becomes of the word of lightzd.               *)
(***************************************************************************)
LEMMA MoneyMoves ==
  ASSUME Next
  PROVE  \/ UNCHANGED <<coins, paid>>
         \/ \E s \in Swaps : SendToAddress(s) \/ Environment(s)
         \/ \E t \in Threads : BroadcastTransaction(t)
<1> DEFINE Still == UNCHANGED <<coins, paid>>
<1>1. ASSUME NEW s \in Swaps, CreateSwap(s) \/ RegisterSwap(s) \/ ProcessUpdate(s)
      PROVE  Still
  BY <1>1 DEF CreateSwap, RegisterSwap, ProcessUpdate, srvVars
<1>2. ASSUME HandleSwapStatus PROVE Still
  BY <1>2
  DEF HandleSwapStatus, FetchLockup, FetchLockupPanics, CreateInvoice,
      StoreInvoice, ClaimPending, UpdateSwapStatus, Complete, RefundFailed,
      RefundReturned, Panic, StopDaemon, srvVars
<1>3. ASSUME NEW t \in Threads, \E s \in Swaps : RefundSwap(t, s) PROVE Still
  BY <1>3 DEF RefundSwap, srvVars
<1>4. ASSUME \/ Reconnect \/ CheckRefundableSwaps \/ Crash \/ RecoverSwaps
             \/ RegisterBlock
      PROVE  Still
  BY <1>4 DEF Reconnect, CheckRefundableSwaps, Crash, StopDaemon, RecoverSwaps,
              RegisterBlock, srvVars
<1>5. ASSUME NEW t \in Threads, RefundSwaps(t), ~BroadcastTransaction(t)
      PROVE  Still
  BY <1>5
  DEF RefundSwaps, PopulateOutputs, ConstructTransaction, TransactionFails,
      ConstructTransactionPanics, SetTransaction, FinishTransaction,
      RefundSwapsReturns, Populate, ConstructRefund, ConstructFails,
      BroadcastFails, Record, Finish, Panic, StopDaemon, JobUnchanged, srvVars
<1> QED
  BY <1>1, <1>2, <1>3, <1>4, <1>5 DEF Next

\* A payment is for good, and for coins that are there for good.
MoneyStep ==
  \A s \in Swaps : /\ paid[s] => paid'[s]
                   /\ coins[s] # "none" => coins'[s] # "none"
                   /\ paid'[s] => paid[s] \/ coins'[s] # "none"

LEMMA MoneyNext ==
  ASSUME TypeOK, Next
  PROVE  MoneyStep
<1>1. CASE UNCHANGED <<coins, paid>>
  BY <1>1 DEF MoneyStep
<1>2. ASSUME NEW s \in Swaps, SendToAddress(s) PROVE MoneyStep
  BY <1>2 DEF SendToAddress, MoneyStep, TypeOK, srvVars
<1>3. ASSUME NEW t \in Threads, BroadcastTransaction(t) PROVE MoneyStep
  BY <1>3 DEF BroadcastTransaction, Broadcast, Rebroadcast, BroadcastUnanswered,
              Spend, JobUnchanged, MoneyStep, TypeOK, srvVars
<1>4. ASSUME NEW s \in Swaps, Environment(s) PROVE MoneyStep
  <2>1. CASE UserLocksCoins(s) \/ LockupConfirms(s) \/ ServerClaims(s)
    BY <2>1 DEF UserLocksCoins, LockupConfirms, ServerClaims, MoneyStep, TypeOK,
                srvVars
  <2>2. CASE ServerPays(s)
    BY <2>2 DEF ServerPays, MoneyStep, TypeOK, Unspent
  <2>3. CASE ServerSeesLockup(s) \/ ServerTriesToPay(s) \/ ServerGivesUp(s)
    BY <2>3 DEF ServerSeesLockup, ServerTriesToPay, ServerGivesUp, ServerReports,
                MoneyStep
  <2> QED
    BY <1>4, <2>1, <2>2, <2>3 DEF Environment
<1> QED
  BY <1>1, <1>2, <1>3, <1>4, MoneyMoves

\* A longer list of what may be said.
LEMMA SeqGrows ==
  ASSUME NEW S, NEW T, S \subseteq T, NEW q \in Seq(S)
  PROVE  q \in Seq(T)
<1>1. Len(q) \in Nat /\ q \in [1 .. Len(q) -> S]
  BY LenProperties
<1>2. q \in [1 .. Len(q) -> T]
  BY <1>1
<1>3. [1 .. Len(q) -> T] \in {[1 .. n -> T] : n \in Nat}
  BY <1>1
<1>4. Seq(T) = UNION {[1 .. n -> T] : n \in Nat}
  BY SeqDef
<1> QED
  BY <1>2, <1>3, <1>4, Zenon

LEMMA TruthGrows ==
  ASSUME MoneyStep, NEW s \in Swaps
  PROVE  /\ Truth(s) \subseteq Truth(s)'
         /\ Seq(Truth(s)) \subseteq Seq(Truth(s)')
<1>1. Truth(s) \subseteq Truth(s)'
  BY DEF Truth, MoneyStep
<1> QED
  BY <1>1, SeqGrows

\* lightzd keeps to the truth and nothing is sent.
LEMMA WordKept ==
  ASSUME WordIsTrue, MoneyStep, UNCHANGED updates,
         Trusted => \A s \in Swaps : srv'[s] \in Truth(s)' \cup {srv[s]}
  PROVE  WordIsTrue'
BY TruthGrows DEF WordIsTrue

\* A subscription is answered with the truth.
LEMMA WordSubscribed ==
  ASSUME WordIsTrue, MoneyStep, UNCHANGED srv, NEW S, NEW kept, Subscribe(S, kept),
         \A s \in Swaps : kept[s] \in 0 .. Len(updates[s])
  PROVE  WordIsTrue'
<1> SUFFICES ASSUME Trusted, NEW s \in Swaps
             PROVE  srv'[s] \in Truth(s)' /\ updates'[s] \in Seq(Truth(s)')
  BY DEF WordIsTrue
<1>1. srv[s] \in Truth(s) /\ updates[s] \in Seq(Truth(s))
  BY DEF WordIsTrue
<1> DEFINE old == SubSeq(updates[s], 1, kept[s])
<1>2. updates[s] \in [1 .. Len(updates[s]) -> Truth(s)] /\ Len(updates[s]) \in Nat
  BY <1>1, LenProperties
<1>3. old \in Seq(Truth(s))
  BY <1>2, SubSeqProperties
<1>4. Append(old, srv[s]) \in Seq(Truth(s))
  BY <1>1, <1>3, AppendProperties
<1>5. updates'[s] \in {old, Append(old, srv[s])}
  BY DEF Subscribe
<1> HIDE DEF old
<1> QED
  BY <1>1, <1>3, <1>4, <1>5, TruthGrows

\* What is reported is true when it is sent.
LEMMA WordReported ==
  ASSUME TypeOK, WordIsTrue, MoneyStep, NEW s \in Swaps, NEW ev,
         ev \in SwapUpdateEvent, ev \in PaidStatus => paid'[s], Report(s, ev)
  PROVE  WordIsTrue'
<1> SUFFICES ASSUME Trusted, NEW x \in Swaps
             PROVE  srv'[x] \in Truth(x)' /\ updates'[x] \in Seq(Truth(x)')
  BY DEF WordIsTrue
<1>1. /\ srv[x] \in Truth(x)' /\ updates[x] \in Seq(Truth(x)')
  BY TruthGrows DEF WordIsTrue
<1>2. ev \in Truth(s)'
  BY DEF Truth
<1>3. srv'[x] = IF x = s THEN ev ELSE srv[x]
  BY DEF Report, TypeOK
<1>4. updates'[x] = updates[x] \/ (x = s /\ updates'[x] = Append(updates[x], ev))
  BY DEF Report, TypeOK
<1>5. CASE updates'[x] = updates[x]
  BY <1>1, <1>2, <1>3, <1>5
<1>6. CASE x = s /\ updates'[x] = Append(updates[x], ev)
  <2>1. Append(updates[x], ev) \in Seq(Truth(x)')
    BY <1>1, <1>2, <1>6, AppendProperties
  <2> QED
    BY <1>2, <1>3, <1>6, <2>1
<1> QED
  BY <1>4, <1>5, <1>6

LEMMA WordNext ==
  ASSUME TypeOK, SignedOnlyIfPaid, WordIsTrue, MoneyStep, Next
  PROVE  WordIsTrue'
<1>w. \A s \in Swaps : Len(updates[s]) \in Nat
  BY LenProperties DEF TypeOK
<1>a. \A s \in Swaps : AllKept[s] \in 0 .. Len(updates[s])
  <2>1. \A s \in Swaps : AllKept[s] = Len(updates[s])
    BY DEF AllKept
  <2>2. \A n \in Nat : n \in 0 .. n
    OBVIOUS
  <2> QED
    BY <1>w, <2>1, <2>2, Zenon
<1>k. ASSUME UNCHANGED <<srv, updates>> PROVE WordIsTrue'
  BY <1>k, WordKept
<1>1. ASSUME NEW s \in Swaps, CreateSwap(s) PROVE WordIsTrue'
  <2>1. \A x \in Swaps : srv'[x] \in {"SwapCreated", "InvoiceSet", srv[x]}
    BY <1>1 DEF CreateSwap, TypeOK
  <2>2. \A x \in Swaps : {"SwapCreated", "InvoiceSet"} \subseteq Truth(x)'
    BY DEF Truth, PaidStatus, CompletedStatus, SwapUpdateEvent
  <2>3. UNCHANGED updates
    BY <1>1 DEF CreateSwap, wsVars, netVars
  <2> QED
    BY <2>1, <2>2, <2>3, WordKept
<1>2. ASSUME NEW s \in Swaps, SendToAddress(s) PROVE WordIsTrue'
  BY <1>2, <1>k DEF SendToAddress, srvVars, wsVars, netVars
<1>3. ASSUME NEW s \in Swaps, RegisterSwap(s) PROVE WordIsTrue'
  BY <1>3, <1>k, <1>a, WordSubscribed DEF RegisterSwap, srvVars
<1>4. CASE Reconnect
  <2>1. PICK n \in 0 .. MaxUpdates - 1 :
          Subscribe(sub, [s \in Swaps |-> IF n < Len(updates[s]) THEN n
                                          ELSE Len(updates[s])])
    BY <1>4 DEF Reconnect, Resubscribe
  <2> QED
    BY <1>4, <1>w, <2>1, SubscriptionsAssumption, WordSubscribed
    DEF Reconnect, srvVars
<1>5. ASSUME NEW s \in Swaps, ProcessUpdate(s) PROVE WordIsTrue'
  <2> SUFFICES ASSUME Trusted, NEW x \in Swaps
               PROVE  srv'[x] \in Truth(x)' /\ updates'[x] \in Seq(Truth(x)')
    BY DEF WordIsTrue
  <2>1. srv[x] \in Truth(x) /\ updates[x] \in Seq(Truth(x))
    BY DEF WordIsTrue
  <2>2. updates'[x] \in Seq(Truth(x)) /\ srv' = srv
    BY <1>5, <2>1, HeadTailProperties DEF ProcessUpdate, TypeOK, srvVars
  <2> QED
    BY <2>1, <2>2, TruthGrows
<1>6. ASSUME HandleSwapStatus, ~FetchLockupPanics PROVE WordIsTrue'
  BY <1>6, <1>k
  DEF HandleSwapStatus, FetchLockup, CreateInvoice, StoreInvoice, ClaimPending,
      UpdateSwapStatus, Complete, RefundFailed, RefundReturned, srvVars, netVars
<1>7. ASSUME NEW how, StopDaemon(how) PROVE WordIsTrue'
  <2>1. srv' = srv /\ \A s \in Swaps : updates'[s] = <<>>
    BY <1>7 DEF StopDaemon, srvVars
  <2> QED
    BY <2>1, EmptySeq, TruthGrows DEF WordIsTrue
<1>8. ASSUME NEW t \in Threads, \E s \in Swaps : RefundSwap(t, s)
      PROVE  WordIsTrue'
  BY <1>8, <1>k DEF RefundSwap, srvVars, wsVars, netVars
<1>9. ASSUME NEW t \in Threads, RefundSwaps(t), ~ConstructTransactionPanics(t)
      PROVE  WordIsTrue'
  BY <1>9, <1>k
  DEF RefundSwaps, PopulateOutputs, ConstructTransaction, TransactionFails,
      BroadcastTransaction, SetTransaction, FinishTransaction,
      RefundSwapsReturns, JobUnchanged, srvVars
<1>10. CASE CheckRefundableSwaps \/ RegisterBlock
  BY <1>10, <1>k DEF CheckRefundableSwaps, RegisterBlock, srvVars, wsVars,
                     netVars
<1>11. CASE RecoverSwaps
  BY <1>11, <1>a, WordSubscribed DEF RecoverSwaps, srvVars
<1>12. ASSUME NEW s \in Swaps, Environment(s) PROVE WordIsTrue'
  <2>1. CASE UserLocksCoins(s) \/ LockupConfirms(s)
    BY <2>1, <1>k DEF UserLocksCoins, LockupConfirms, srvVars, wsVars, netVars
  <2>2. CASE ServerSeesLockup(s) \/ ServerTriesToPay(s) \/ ServerGivesUp(s)
    <3>1. PICK ev \in {"TransactionMempool", "TransactionConfirmed",
                       "InvoicePending", "InvoiceFailedToPay",
                       "TransactionLockupFailed", "SwapExpired"} : Report(s, ev)
      BY <2>2 DEF ServerSeesLockup, ServerTriesToPay, ServerGivesUp,
                  ServerReports
    <3>2. ev \in SwapUpdateEvent /\ ev \notin PaidStatus
      BY DEF SwapUpdateEvent, PaidStatus, CompletedStatus, FailedStatus
    <3> QED
      BY <3>1, <3>2, WordReported
  <2>3. CASE ServerPays(s)
    <3>1. paid'[s] /\ Report(s, "TransactionClaimPending")
      BY <2>3 DEF ServerPays, TypeOK
    <3>2. "TransactionClaimPending" \in SwapUpdateEvent
      BY DEF SwapUpdateEvent
    <3> QED
      BY <3>1, <3>2, WordReported
  <2>4. CASE ServerClaims(s)
    <3>1. "TransactionClaimed" \in SwapUpdateEvent
      BY DEF SwapUpdateEvent, CompletedStatus
    <3> QED
      BY <2>4, <3>1, WordReported DEF ServerClaims, SignedOnlyIfPaid
  <2> QED
    BY <1>12, <2>1, <2>2, <2>3, <2>4 DEF Environment
<1> QED
  BY <1>1, <1>2, <1>3, <1>4, <1>5, <1>6, <1>7, <1>8, <1>9, <1>10, <1>11, <1>12
  DEF Next, FetchLockupPanics, HandleSwapStatus, Panic, RefundSwaps,
      ConstructTransactionPanics, Crash

-----------------------------------------------------------------------------
(***************************************************************************)
(* What becomes of an update, and the rows it ends in.                     *)
(***************************************************************************)
LEMMA UpdateNext ==
  ASSUME TypeOK, WordIsTrue, UpdateIsTrue, MoneyStep, Next
  PROVE  UpdateIsTrue'
<1>h. h \in Update /\ h.swap \in Swaps
  BY DEF TypeOK, Update
<1>k. ASSUME h'.swap = h.swap, h'.ev = h.ev, h.pc # "idle",
             h'.pc \in {"claim", "complete"} \/ h'.batch => h.ev \in PaidStatus
      PROVE  UpdateIsTrue'
  BY <1>h, <1>k DEF UpdateIsTrue, MoneyStep
<1>n. ASSUME h' = NoUpdate PROVE UpdateIsTrue'
  BY <1>n DEF UpdateIsTrue, NoUpdate
<1>u. ASSUME UNCHANGED h PROVE UpdateIsTrue'
  BY <1>h, <1>u DEF UpdateIsTrue, MoneyStep
<1>d. \A ev, r : Dispatch(ev, r) # "complete"
                 /\ (Dispatch(ev, r) = "claim" => ev = "TransactionClaimPending")
  BY DEF Dispatch
<1>p. "TransactionClaimPending" \in PaidStatus
  BY DEF PaidStatus
<1>1. ASSUME NEW s \in Swaps, ProcessUpdate(s) PROVE UpdateIsTrue'
  <2>1. PICK ev \in IF Trusted THEN {Head(updates[s])} ELSE AnyStatus :
          \/ UNCHANGED h
          \/ h' = [pc    |-> IF NeedsLockup(ev, row[s]) THEN "lockup"
                             ELSE Dispatch(ev, row[s]),
                   swap  |-> s,
                   ev    |-> ev,
                   mem   |-> row[s],
                   batch |-> FALSE]
    BY <1>1 DEF ProcessUpdate
  <2>2. Trusted => ev \in Truth(s)
    BY <1>1, <2>1, HeadTailProperties DEF ProcessUpdate, WordIsTrue
  <2>3. CASE ~UNCHANGED h
    <3>1. h'.swap = s /\ h'.ev = ev /\ h'.batch = FALSE
          /\ h'.pc \in {"lockup", Dispatch(ev, row[s])}
      BY <2>1, <2>3
    <3>2. Trusted /\ ev \in PaidStatus => paid'[s]
      BY <2>2 DEF Truth, MoneyStep
    <3> QED
      BY <1>d, <1>p, <3>1, <3>2 DEF UpdateIsTrue
  <2> QED
    BY <1>u, <2>3
<1>2. CASE FetchLockup
  <2>1. CASE h' = [h EXCEPT !.pc = Dispatch(h.ev, h.mem), !.mem.lockup = "right"]
    <3>1. h'.swap = h.swap /\ h'.ev = h.ev /\ h'.batch = h.batch
          /\ h'.pc = Dispatch(h.ev, h.mem)
      BY <1>h, <2>1 DEF Update
    <3> QED
      BY <1>2, <1>d, <1>k, <1>p, <3>1 DEF FetchLockup, UpdateIsTrue
  <2> QED
    BY <1>2, <1>n, <2>1 DEF FetchLockup, HandleError
<1>3. CASE CreateInvoice \/ StoreInvoice
  <2>1. CASE /\ h.pc # "idle"
             /\ h'.pc \notin {"claim", "complete"} /\ h'.swap = h.swap
             /\ h'.ev = h.ev /\ h'.batch = h.batch
    BY <1>k, <2>1 DEF UpdateIsTrue
  <2> QED
    BY <1>3, <1>h, <1>n, <2>1 DEF CreateInvoice, StoreInvoice, HandleError, Update
<1>4. CASE ClaimPending
  <2>1. h.ev \in PaidStatus
    BY <1>4 DEF ClaimPending, UpdateIsTrue
  <2>2. h' = NoUpdate \/ (h'.swap = h.swap /\ h'.ev = h.ev)
    BY <1>4, <1>h DEF ClaimPending, CooperativeSwapClaim, HandleError, Update
  <2> QED
    BY <1>4, <1>k, <1>n, <2>1, <2>2 DEF ClaimPending
<1>5. CASE UpdateSwapStatus
  <2>1. h' = NoUpdate
        \/ (/\ h'.swap = h.swap /\ h'.ev = h.ev /\ h'.batch = h.batch
            /\ h'.pc = AfterStatus(h.ev, h.mem, h.batch))
    BY <1>5, <1>h DEF UpdateSwapStatus, Update
  <2>2. AfterStatus(h.ev, h.mem, h.batch) \in {"claim", "complete"}
          => h.ev \in CompletedStatus \/ h.batch
    BY DEF AfterStatus
  <2> QED
    BY <1>5, <1>k, <1>n, <2>1, <2>2 DEF UpdateSwapStatus, UpdateIsTrue, PaidStatus
<1>6. CASE Complete
  BY <1>6, <1>n DEF Complete, HandleError
<1>7. CASE RefundFailed
  <2>1. CASE /\ h'.pc = "refund" /\ h'.swap = h.swap /\ h'.ev = h.ev
             /\ h'.batch = h.batch
    BY <1>7, <1>k, <2>1 DEF RefundFailed, UpdateIsTrue
  <2> QED
    BY <1>7, <1>h, <1>n, <2>1 DEF RefundFailed, HandleError, Update
<1>8. CASE RefundReturned
  BY <1>8, <1>n DEF RefundReturned, HandleError
<1>9. ASSUME NEW how, StopDaemon(how) PROVE UpdateIsTrue'
  BY <1>9, <1>n DEF StopDaemon
<1>10. ASSUME NEW s \in Swaps, CreateSwap(s) \/ SendToAddress(s) \/ RegisterSwap(s)
       PROVE  UpdateIsTrue'
  BY <1>10, <1>u DEF CreateSwap, SendToAddress, RegisterSwap, wsVars
<1>11. ASSUME NEW t \in Threads, \E s \in Swaps : RefundSwap(t, s)
       PROVE  UpdateIsTrue'
  BY <1>11, <1>u DEF RefundSwap, wsVars
<1>12. ASSUME NEW t \in Threads, RefundSwaps(t), ~ConstructTransactionPanics(t)
       PROVE  UpdateIsTrue'
  BY <1>12, <1>u
  DEF RefundSwaps, PopulateOutputs, ConstructTransaction, TransactionFails,
      BroadcastTransaction, SetTransaction, FinishTransaction,
      RefundSwapsReturns, JobUnchanged
<1>13. CASE Reconnect \/ CheckRefundableSwaps \/ RegisterBlock \/ RecoverSwaps
  BY <1>13, <1>u DEF Reconnect, CheckRefundableSwaps, RegisterBlock, RecoverSwaps,
                     wsVars
<1>14. ASSUME NEW s \in Swaps, Environment(s) PROVE UpdateIsTrue'
  BY <1>14, <1>u
  DEF Environment, UserLocksCoins, LockupConfirms, ServerSeesLockup,
      ServerTriesToPay, ServerPays, ServerGivesUp, ServerClaims, ServerReports,
      wsVars
<1> QED
  BY <1>1, <1>2, <1>3, <1>4, <1>5, <1>6, <1>7, <1>8, <1>9, <1>10, <1>11, <1>12,
     <1>13, <1>14
  DEF Next, FetchLockupPanics, HandleSwapStatus, Panic, RefundSwaps,
      ConstructTransactionPanics, Crash

\* Only Complete stores SUCCESSFUL.
SuccessStep ==
  \A s \in Swaps :
    row'[s].state = "SUCCESSFUL" =>
      row[s].state = "SUCCESSFUL" \/ (s = h.swap /\ h.pc = "complete")

LEMMA SuccessNext ==
  ASSUME TypeOK, Next
  PROVE  SuccessStep
<1>t. row \in [Swaps -> Row] /\ h.swap \in Swaps
  BY DEF TypeOK, Update
<1>u. ASSUME UNCHANGED row PROVE SuccessStep
  BY <1>u DEF SuccessStep
<1>e. ASSUME NEW S, SetErrors(S) PROVE SuccessStep
  <2>1. \A s \in Swaps : row'[s].state \in {"ERROR", row[s].state}
    BY <1>e, <1>t DEF SetErrors, Row
  <2> QED
    BY <2>1 DEF SuccessStep
<1>b. ASSUME HandleError PROVE SuccessStep
  BY <1>b, <1>t DEF HandleError, SuccessStep, Row
<1>1. ASSUME NEW s \in Swaps, CreateSwap(s) PROVE SuccessStep
  <2>1. \A x \in Swaps : row'[x].state \in {"PENDING", row[x].state}
    BY <1>1, <1>t DEF CreateSwap, NoRow
  <2> QED
    BY <2>1 DEF SuccessStep
<1>2. ASSUME NEW s \in Swaps, SendToAddress(s) PROVE SuccessStep
  <2>1. \A x \in Swaps : row'[x].state \in {"ERROR", row[x].state}
    BY <1>2, <1>t DEF SendToAddress, Row
  <2> QED
    BY <2>1 DEF SuccessStep
<1>3. CASE FetchLockup
  <2>1. CASE ~HandleError
    <3>1. \A x \in Swaps : row'[x].state \in {"ERROR", row[x].state}
      BY <1>3, <2>1, <1>t DEF FetchLockup, Row
    <3> QED
      BY <3>1 DEF SuccessStep
  <2> QED
    BY <1>b, <2>1
<1>4. CASE CreateInvoice
  BY <1>4, <1>u, <1>b DEF CreateInvoice
<1>5. CASE StoreInvoice \/ UpdateSwapStatus \/ (ClaimPending /\ ~HandleError)
  <2>1. \A x \in Swaps : row'[x].state = row[x].state
    BY <1>5, <1>t DEF StoreInvoice, UpdateSwapStatus, ClaimPending,
                      CooperativeSwapClaim, Row
  <2> QED
    BY <2>1 DEF SuccessStep
<1>6. CASE Complete
  <2>1. CASE ~HandleError
    <3>1. \A x \in Swaps : x # h.swap => row'[x] = row[x]
      BY <1>6, <2>1, <1>t DEF Complete
    <3> QED
      BY <1>6, <3>1 DEF Complete, SuccessStep
  <2> QED
    BY <1>b, <2>1
<1>7. CASE RefundFailed
  <2>1. CASE ~HandleError
    <3>1. \A x \in Swaps : row'[x].state \in {"SERVER_ERROR", row[x].state}
      BY <1>7, <2>1, <1>t DEF RefundFailed, Row
    <3> QED
      BY <3>1 DEF SuccessStep
  <2> QED
    BY <1>b, <2>1
<1>8. CASE RefundReturned
  BY <1>8, <1>u, <1>b DEF RefundReturned
<1>9. ASSUME NEW how, StopDaemon(how) PROVE SuccessStep
  BY <1>9, <1>u DEF StopDaemon
<1>10. ASSUME NEW s \in Swaps, RegisterSwap(s) \/ ProcessUpdate(s)
       PROVE  SuccessStep
  BY <1>10, <1>u DEF RegisterSwap, ProcessUpdate
<1>11. ASSUME NEW t \in Threads, NEW s \in Swaps, RefundSwap(t, s)
       PROVE  SuccessStep
  <2>1. \A x \in Swaps : row'[x].state = row[x].state
    BY <1>11, <1>t DEF RefundSwap, Row
  <2> QED
    BY <2>1 DEF SuccessStep
<1>12. ASSUME NEW t \in Threads, RefundSwaps(t), ~ConstructTransactionPanics(t)
       PROVE  SuccessStep
  <2>1. CASE \/ PopulateOutputs(t) \/ ConstructTransaction(t)
             \/ TransactionFails(t) \/ FinishTransaction(t)
    BY <2>1, <1>e DEF PopulateOutputs, ConstructTransaction, TransactionFails,
                      FinishTransaction
  <2>2. CASE BroadcastTransaction(t) \/ RefundSwapsReturns(t)
    BY <2>2, <1>u DEF BroadcastTransaction, RefundSwapsReturns
  <2>3. CASE SetTransaction(t)
    <3>1. \A x \in Swaps : row'[x].state \in {"REFUNDED", row[x].state}
      BY <2>3, <1>t DEF SetTransaction, Row
    <3> QED
      BY <3>1 DEF SuccessStep
  <2> QED
    BY <1>12, <2>1, <2>2, <2>3 DEF RefundSwaps
<1>13. CASE Reconnect \/ CheckRefundableSwaps \/ RegisterBlock \/ RecoverSwaps
  BY <1>13, <1>u DEF Reconnect, CheckRefundableSwaps, RegisterBlock, RecoverSwaps
<1>14. ASSUME NEW s \in Swaps, Environment(s) PROVE SuccessStep
  BY <1>14, <1>u
  DEF Environment, UserLocksCoins, LockupConfirms, ServerSeesLockup,
      ServerTriesToPay, ServerPays, ServerGivesUp, ServerClaims, ServerReports
<1> QED
  BY <1>b, <1>1, <1>2, <1>3, <1>4, <1>5, <1>6, <1>7, <1>8, <1>9, <1>10, <1>11,
     <1>12, <1>13, <1>14
  DEF Next, FetchLockupPanics, HandleSwapStatus, Panic, RefundSwaps,
      ConstructTransactionPanics, Crash

LEMMA ContractInvNext ==
  ASSUME TypeOK, SignedOnlyIfPaid, ContractInv, [Next]_vars
  PROVE  ContractInv'
<1>1. CASE Next
  <2>1. MoneyStep
    BY <1>1, MoneyNext
  <2>2. WordIsTrue' /\ UpdateIsTrue'
    BY <1>1, <2>1, WordNext, UpdateNext DEF ContractInv
  <2>3. PaidIsLocked'
    BY <2>1 DEF ContractInv, PaidIsLocked, MoneyStep
  <2>4. SuccessIsPaid'
    <3>1. Trusted /\ h.pc = "complete" => paid[h.swap]
      BY DEF ContractInv, UpdateIsTrue
    <3> QED
      BY <1>1, <2>1, <3>1, SuccessNext DEF ContractInv, SuccessIsPaid, SuccessStep,
                                           MoneyStep
  <2> QED
    BY <2>2, <2>3, <2>4 DEF ContractInv
<1>2. CASE UNCHANGED vars
  BY <1>2 DEF ContractInv, WordIsTrue, Truth, UpdateIsTrue, SuccessIsPaid,
              PaidIsLocked, vars, srvVars, wsVars, netVars
<1> QED
  BY <1>1, <1>2

LEMMA ContractInvAlways == Spec => [](TypeOK /\ PaymentInv /\ RefundInv /\ ContractInv)
<1>1. TypeOK /\ PaymentInv /\ ContractInv /\ [Next]_vars => ContractInv'
  BY ContractInvNext DEF PaymentInv
<1> QED
  BY <1>1, ContractInvInit, TypeCorrect, PaymentAlways, RefundAlways, PTL DEF Spec

-----------------------------------------------------------------------------
(***************************************************************************)
(* The refinement: a step that moves no money is Show.                     *)
(***************************************************************************)
\* What is shown of s.
Shown(s) ==
  CASE row[s].state = "SUCCESSFUL" /\ (Trusted \/ invoice[s] = "external")
         -> "success"
    [] row[s].state = "REFUNDED" -> "refund"
    [] OTHER -> "open"

\* And it is true.
ShownIsTrue ==
  \A s \in Swaps : /\ Shown(s) \in {"open", "success", "refund"}
                   /\ Shown(s) = "success" => paid[s]
                   /\ Shown(s) = "refund" => coins[s] = "client"

LEMMA ShowsTruth ==
  ASSUME PaymentInv, RefundInv, ContractInv
  PROVE  ShownIsTrue
<1> SUFFICES ASSUME NEW s \in Swaps
             PROVE  /\ Shown(s) \in {"open", "success", "refund"}
                    /\ Shown(s) = "success" => paid[s]
                    /\ Shown(s) = "refund" => coins[s] = "client"
  BY DEF ShownIsTrue
<1>1. Shown(s) \in {"open", "success", "refund"}
  BY DEF Shown
<1>2. ASSUME Shown(s) = "success" PROVE paid[s]
  <2>1. row[s].state = "SUCCESSFUL" /\ (Trusted \/ invoice[s] = "external")
    BY <1>2 DEF Shown
  <2> QED
    BY <2>1 DEF ContractInv, SuccessIsPaid, PaymentInv, PreimageIsProof,
                SuccessHasPreimage
<1>3. ASSUME Shown(s) = "refund" PROVE coins[s] = "client"
  <2>1. row[s].state = "REFUNDED"
    BY <1>3 DEF Shown
  <2> QED
    BY <2>1 DEF RefundInv, RefundIsOnChain
<1> QED
  BY <1>1, <1>2, <1>3

LEMMA ContractInit == Init => Contract!Init
<1> SUFFICES ASSUME Init PROVE Contract!Init
  OBVIOUS
<1>1. \A s \in Swaps : row[s].state \in {"NONE", "PENDING", "SERVER_ERROR"}
  BY DEF Init, NoRow, OldRow
<1>2. [s \in Swaps |-> IF coins[s] \in Unspent THEN "locked" ELSE coins[s]]
        = [s \in Swaps |-> IF s \in Old THEN "locked" ELSE "none"]
  BY DEF Init, Unspent
<1>3. [s \in Swaps |->
         CASE row[s].state = "SUCCESSFUL" /\ (Trusted \/ invoice[s] = "external")
                -> "success"
           [] row[s].state = "REFUNDED" -> "refund"
           [] OTHER -> "open"] = [s \in Swaps |-> "open"]
  BY <1>1
<1> QED
  BY <1>2, <1>3 DEF Init, Contract!Init

LEMMA ContractShows ==
  ASSUME ShownIsTrue', UNCHANGED <<coins, paid>>
  PROVE  Contract!Next
<1>1. PICK verdict \in [Swaps -> {"open", "success", "refund"}] :
        verdict = [s \in Swaps |-> Shown(s)']
  BY DEF ShownIsTrue
<1>2. Contract!Show(verdict)
  BY <1>1 DEF ShownIsTrue, Shown, Contract!Show, Unspent
<1> QED
  BY <1>2 DEF Contract!Next

\* One broadcast refunds all the inputs of the transaction.
LEMMA ContractRefunds ==
  ASSUME TypeOK, NEW t \in Threads, BroadcastTransaction(t)
  PROVE  [Contract!Next]_Contract!vars
<1>0. UNCHANGED <<row, paid, invoice>>
  BY DEF BroadcastTransaction, JobUnchanged, srvVars
<1>1. CASE UNCHANGED coins
  BY <1>0, <1>1 DEF Contract!vars
<1>2. CASE Valid(t) /\ Spend(t)
  <2>1. PICK S \in SUBSET Swaps : S = job[t].ins
    BY DEF TypeOK, Job
  <2>2. Contract!ClientRefunds(S)
    BY <1>0, <1>2, <2>1 DEF Contract!ClientRefunds, Valid, Spend, Unspent
  <2> QED
    BY <2>2 DEF Contract!Next
<1> QED
  BY <1>1, <1>2
  DEF BroadcastTransaction, Broadcast, Rebroadcast, BroadcastUnanswered

\* A wallet that sends and reports an error leaves nothing shown to take back.
LEMMA ContractSends ==
  ASSUME TypeOK, RefundInv, ContractInv, ShownIsTrue, NEW s \in Swaps,
         SendToAddress(s), ~UNCHANGED coins
  PROVE  Contract!Next
<1>1. coins[s] = "none" /\ coins' = [coins EXCEPT ![s] = "mempool"]
  BY DEF SendToAddress, RefundInv, PayingNothingYet
<1>2. UNCHANGED <<paid, invoice>>
  BY DEF SendToAddress, srvVars
<1>3. \A x \in Swaps : Shown(x)' = Shown(x)
  <2>1. Shown(s) = "open"
    BY <1>1 DEF ShownIsTrue, ContractInv, PaidIsLocked
  <2>2. row' = row \/ row' = [row EXCEPT ![s].state = "ERROR"]
    BY DEF SendToAddress
  <2>3. CASE row' = row
    BY <1>2, <2>3 DEF Shown
  <2>4. CASE row' = [row EXCEPT ![s].state = "ERROR"]
    <3>1. row'[s].state = "ERROR" /\ \A x \in Swaps \ {s} : row'[x] = row[x]
      BY <2>4 DEF TypeOK, Row
    <3> QED
      BY <1>2, <2>1, <3>1 DEF Shown
  <2> QED
    BY <2>2, <2>3, <2>4
<1>4. Contract!Lock(s)
  <2>1. [x \in Swaps |-> Shown(x)'] = [x \in Swaps |-> Shown(x)]
    BY <1>3
  <2> QED
    BY <1>1, <1>2, <2>1 DEF Contract!Lock, Unspent, Shown, TypeOK
<1> QED
  BY <1>4 DEF Contract!Next

\* lightzd pays for locked coins, and claims what it has paid for.
LEMMA ContractServer ==
  ASSUME TypeOK, PaymentInv, NEW s \in Swaps, Environment(s)
  PROVE  [Contract!Next]_Contract!vars
<1>0. UNCHANGED <<row, invoice>>
  BY DEF Environment, UserLocksCoins, LockupConfirms, ServerSeesLockup,
         ServerTriesToPay, ServerPays, ServerGivesUp, ServerClaims,
         ServerReports, srvVars
<1>t. coins \in [Swaps -> Coins] /\ paid \in [Swaps -> BOOLEAN]
  BY DEF TypeOK
<1>1. CASE UserLocksCoins(s)
  <2>1. Contract!Lock(s)
    BY <1>0, <1>t, <1>1 DEF UserLocksCoins, Contract!Lock, Unspent, srvVars
  <2> QED
    BY <2>1 DEF Contract!Next
<1>2. CASE LockupConfirms(s)
  BY <1>0, <1>t, <1>2 DEF LockupConfirms, Contract!vars, Unspent, srvVars
<1>3. CASE ServerSeesLockup(s) \/ ServerTriesToPay(s) \/ ServerGivesUp(s)
  BY <1>0, <1>3 DEF ServerSeesLockup, ServerTriesToPay, ServerGivesUp,
                    ServerReports, Contract!vars
<1>4. CASE ServerPays(s)
  <2>1. Contract!Settle(s)
    BY <1>0, <1>4 DEF ServerPays, Contract!Settle
  <2> QED
    BY <2>1 DEF Contract!Next
<1>5. CASE ServerClaims(s)
  <2>1. paid[s]
    BY <1>5 DEF ServerClaims, PaymentInv, SignedOnlyIfPaid
  <2>2. Contract!ServerClaims(s)
    BY <1>0, <1>t, <1>5, <2>1 DEF ServerClaims, Contract!ServerClaims, Unspent
  <2> QED
    BY <2>2 DEF Contract!Next
<1> QED
  BY <1>1, <1>2, <1>3, <1>4, <1>5 DEF Environment

LEMMA ContractNext ==
  ASSUME TypeOK, PaymentInv, RefundInv, ContractInv, ShownIsTrue,
         ShownIsTrue', [Next]_vars
  PROVE  [Contract!Next]_Contract!vars
<1>3. CASE UNCHANGED <<coins, paid>>
  BY <1>3, ContractShows
<1>4. ASSUME NEW s \in Swaps, SendToAddress(s) PROVE [Contract!Next]_Contract!vars
  <2>1. UNCHANGED paid
    BY <1>4 DEF SendToAddress, srvVars
  <2> QED
    BY <1>3, <1>4, <2>1, ContractSends
<1>5. CASE Next
  BY <1>3, <1>4, <1>5, ContractServer, ContractRefunds, MoneyMoves
<1>6. CASE UNCHANGED vars
  BY <1>6 DEF vars, srvVars, Contract!vars
<1> QED
  BY <1>5, <1>6

\* The submarine swap implements its contract: lightzd gets the coins only for
\* a paid invoice, and the client shows no success and no refund that is not
\* one, for an invoice of its own as long as lightzd follows the protocol.
THEOREM SubmarineSwapKeepsContract == Spec => KeepsContract
<1> DEFINE Inv == TypeOK /\ PaymentInv /\ RefundInv /\ ContractInv
<1>1. Inv => ShownIsTrue
  BY ShowsTruth
<1>2. Inv /\ ShownIsTrue /\ ShownIsTrue' /\ [Next]_vars
        => [Contract!Next]_Contract!vars
  BY ContractNext
<1> QED
  BY <1>1, <1>2, ContractInit, ContractInvAlways, PTL
  DEF Spec, KeepsContract, Contract!Spec
=============================================================================
