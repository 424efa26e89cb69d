--------------------------- MODULE ChainSwapProofs --------------------------
(***************************************************************************)
(* Proofs about chain swaps, for any number of swaps and goroutines, any   *)
(* faults, and any behaviour of lightzd and whoever pays.                  *)
(*                                                                         *)
(* Refunds and claims are two instances of createTransaction, so what is   *)
(* known of its calls is used twice, of each chain.  SwapInv says what is  *)
(* true meanwhile of the rows, the coins of both chains and the            *)
(* transaction ids that are stored before the states.                      *)
(***************************************************************************)
EXTENDS ChainSwap, AmountsProofs, TLAPS

R == INSTANCE CreateTransactionProofs
       WITH job <- refunds, coins <- from, Faults <- JobFaults
C == INSTANCE CreateTransactionProofs
       WITH job <- claims, coins <- to, Faults <- JobFaults

\* The amount lightzd locked up is one the user agreed to.
Priced(s) ==
  \/ value[s] = "agreed"
  \/ row[s].quoted # "no" /\ value[s] = "quoted"
  \/ row[s].open

\* The lockup of lightzd may be claimed if it is there at all.
Good(s) == Exists(s) /\ (row[s].zeroConf \/ LockupConfirmed(s))

\* Who may be in a call: block listeners and the update that waits for it.
OwnJobs ==
  \A t \in Threads :
    /\ refunds[t].pc # "idle" => t = FromBlock \/ (t = Ws /\ h.pc = "refund")
    /\ claims[t].pc # "idle" => t = ToBlock \/ (t = Ws /\ h.pc = "claim")

RefundOutputs ==
  \A t \in Threads : \A s \in Swaps :
    s \in refunds[t].outs \cup refunds[t].todo => Exists(s)

\* A claim has outputs that may be claimed, then ones that pay enough, and the
\* preimages of its inputs have been given away before it is broadcast.
ClaimOutputs ==
  \A t \in Threads : \A s \in Swaps :
    /\ s \in claims[t].outs \cup claims[t].todo => Good(s)
    /\ claims[t].pc = "construct" /\ s \in claims[t].outs => Priced(s)
    /\ claims[t].pc = "broadcast" /\ s \in claims[t].ins => s \in revealed

\* The id is stored of a swap whose state is about to be, by the call that
\* stored it: no goroutine refunds and claims at once.
BookedIsStored ==
  \A t \in Threads : \A s \in Swaps :
    s \in booking[t] => \/ refunds[t].pc = "record" /\ row[s].refund
                        \/ claims[t].pc = "record" /\ row[s].claim

\* The inductive invariant, beside TypeOK.
SwapInv ==
  /\ R!CallInv
  /\ C!CallInv
  /\ OwnJobs
  /\ RefundOutputs
  /\ ClaimOutputs
  /\ BookedIsStored
  /\ PreimageOnlyForLockup
  /\ RecordsAreReal

\* What a step may do to the rows.
RowStep(s) ==
  /\ Exists(s) => Exists(s)'
  /\ ~Exists(s)' => row'[s] = row[s]
  /\ row[s].zeroConf => row'[s].zeroConf
  /\ row[s].open => row'[s].open
  /\ row[s].quoted # "no" => row'[s].quoted # "no"
  /\ row'[s].quoted \in {row[s].quoted} \cup AcceptedAs
  /\ row[s].claim => row'[s].claim
  /\ row[s].refund => row'[s].refund
  /\ row'[s].claim => row[s].claim \/ to[s] = "client"
  /\ row'[s].refund => row[s].refund \/ from[s] = "client"
  /\ row'[s].state = "SUCCESSFUL" => row[s].state = "SUCCESSFUL" \/ row'[s].claim
  /\ row'[s].state = "REFUNDED" => row[s].state = "REFUNDED" \/ row'[s].refund

RowsStep == row' \in [Swaps -> Row] /\ \A s \in Swaps : RowStep(s)

\* To the coins, which are worth what they were worth when they were locked up.
CoinsStep ==
  /\ from' \in [Swaps -> Refunds!Coins]
  /\ to' \in [Swaps -> Claims!Coins]
  /\ value' \in [Swaps -> Value]
  /\ R!CoinsKept
  /\ C!CoinsKept
  /\ \A s \in Swaps : /\ LockupConfirmed(s) => LockupConfirmed(s)'
                      /\ to[s] # "none" => value'[s] = value[s]

\* To the calls.
RefundsStep ==
  /\ R!JobsTyped' /\ R!CallInv'
  /\ \A t \in Threads : \A s \in Swaps :
       s \in refunds'[t].outs \cup refunds'[t].todo =>
         s \in refunds[t].outs \cup refunds[t].todo \/ Exists(s)

ClaimsStep ==
  /\ C!JobsTyped' /\ C!CallInv'
  /\ \A t \in Threads : \A s \in Swaps :
       /\ s \in claims'[t].outs \cup claims'[t].todo =>
            s \in claims[t].outs \cup claims[t].todo \/ Good(s)
       /\ claims'[t].pc = "construct" /\ s \in claims'[t].outs =>
            \/ claims[t].pc = "construct" /\ s \in claims[t].outs
            \/ to[s] # "none" /\ Priced(s)
       /\ claims'[t].pc = "broadcast" /\ s \in claims'[t].ins =>
            \/ claims[t].pc = "broadcast" /\ s \in claims[t].ins
            \/ s \in revealed'

\* And to what goroutines remember.
BookingStep ==
  \A t \in Threads : \A s \in Swaps :
    s \in booking'[t] =>
      \/ /\ s \in booking[t]
         /\ refunds[t].pc = "record" => refunds'[t].pc = "record"
         /\ claims[t].pc = "record" => claims'[t].pc = "record"
      \/ refunds'[t].pc = "record" /\ row'[s].refund
      \/ claims'[t].pc = "record" /\ row'[s].claim

RevealedStep ==
  \A s \in Swaps :
    /\ s \in revealed => s \in revealed'
    /\ s \in revealed' => \/ s \in revealed
                          \/ Good(s) /\ to[s] # "none" /\ Priced(s)

\* What TypeOK says of everything but rows, coins and calls.
RestOK ==
  /\ booking \in [Threads -> SUBSET Swaps]
  /\ revealed \subseteq Swaps
  /\ height \in 0 .. MaxHeight
  /\ daemon \in {"running", "down"}
  /\ h \in Update
  /\ paying \subseteq Swaps

\* The swap of an update that is worked on is one that there is.
UpdateStepOK == h'.pc # "idle" => Exists(h'.swap)

-----------------------------------------------------------------------------
(***************************************************************************)
(* Steps of these kinds keep the invariant.                                *)
(***************************************************************************)
LEMMA TypeKept ==
  ASSUME TypeOK, RowsStep, CoinsStep, RefundsStep, ClaimsStep, RestOK',
         UpdateStepOK
  PROVE  TypeOK'
<1>1. \A s \in Swaps : ~Exists(s)' => row'[s] = NoRow
  BY DEF TypeOK, RowsStep, RowStep
<1>2. h'.pc # "idle" => Exists(h.swap)'
  BY DEF UpdateStepOK, RowsStep, RowStep, RestOK, Update, Exists
<1>3. refunds' \in [Threads -> Refunds!Job] /\ claims' \in [Threads -> Claims!Job]
  BY DEF RefundsStep, ClaimsStep, R!JobsTyped, C!JobsTyped, R!Job, C!Job,
         R!JobStep, C!JobStep, Refunds!Job, Claims!Job, Refunds!JobStep,
         Claims!JobStep
<1> QED
  BY <1>1, <1>2, <1>3 DEF TypeOK, RowsStep, CoinsStep, RestOK, Exists

LEMMA SwapKept ==
  ASSUME TypeOK, SwapInv, RowsStep, CoinsStep, RefundsStep, ClaimsStep,
         BookingStep, RevealedStep, OwnJobs', revealed' \subseteq Swaps
  PROVE  SwapInv'
<1>g. \A s \in Swaps : Good(s) => Good(s)'
  BY DEF Good, RowsStep, RowStep, CoinsStep
<1>p. \A s \in Swaps : Priced(s) /\ to[s] # "none" => Priced(s)'
  BY DEF Priced, RowsStep, RowStep, CoinsStep
<1>1. RefundOutputs'
  BY DEF SwapInv, RefundOutputs, RefundsStep, RowsStep, RowStep
<1>2. ClaimOutputs'
  <2> SUFFICES ASSUME NEW t \in Threads, NEW s \in Swaps
               PROVE  /\ s \in claims'[t].outs \cup claims'[t].todo => Good(s)'
                      /\ claims'[t].pc = "construct" /\ s \in claims'[t].outs
                           => Priced(s)'
                      /\ claims'[t].pc = "broadcast" /\ s \in claims'[t].ins
                           => s \in revealed'
    BY DEF ClaimOutputs
  <2>1. s \in claims'[t].outs \cup claims'[t].todo => Good(s)'
    BY <1>g DEF SwapInv, ClaimOutputs, ClaimsStep
  <2>2. ASSUME claims'[t].pc = "construct", s \in claims'[t].outs
        PROVE  Priced(s)'
    <3>1. CASE claims[t].pc = "construct" /\ s \in claims[t].outs
      BY <1>p, <3>1 DEF SwapInv, ClaimOutputs, C!CallInv
    <3>2. CASE ~(claims[t].pc = "construct" /\ s \in claims[t].outs)
      <4>1. to[s] # "none" /\ Priced(s)
        BY <2>2, <3>2 DEF ClaimsStep
      <4> QED
        BY <1>p, <4>1
    <3> QED
      BY <3>1, <3>2
  <2>3. claims'[t].pc = "broadcast" /\ s \in claims'[t].ins => s \in revealed'
    BY DEF SwapInv, ClaimOutputs, ClaimsStep, RevealedStep
  <2> QED
    BY <2>1, <2>2, <2>3
<1>3. BookedIsStored'
  BY DEF SwapInv, BookedIsStored, BookingStep, RowsStep, RowStep
<1>4. PreimageOnlyForLockup'
  <2> SUFFICES ASSUME NEW s \in revealed'
               PROVE  /\ to'[s] # "none"
                      /\ to'[s] = "mempool" => row'[s].zeroConf
                      /\ Priced(s)'
    BY DEF PreimageOnlyForLockup, Priced
  <2>1. s \in Swaps /\ to[s] \in Claims!Coins
    BY DEF TypeOK
  <2>2. /\ to[s] # "none" /\ (to[s] = "mempool" => row[s].zeroConf)
        /\ Priced(s)
    BY <2>1 DEF SwapInv, PreimageOnlyForLockup, RevealedStep, Good, Priced,
                LockupConfirmed
  <2> QED
    BY <1>p, <2>1, <2>2 DEF CoinsStep, C!CoinsKept, LockupConfirmed,
                            Claims!Coins, RowsStep, RowStep
<1>5. RecordsAreReal'
  BY DEF SwapInv, RecordsAreReal, RowsStep, RowStep, CoinsStep, R!CoinsKept,
         C!CoinsKept
<1> QED
  BY <1>1, <1>2, <1>3, <1>4, <1>5 DEF SwapInv, RefundsStep, ClaimsStep

-----------------------------------------------------------------------------
(***************************************************************************)
(* The two instances of createTransaction are those of its proofs.         *)
(***************************************************************************)
LEMMA RefundFaults == R!FaultsAssumption
BY JobFaultsAssumption DEF R!FaultsAssumption, R!FaultKinds, Refunds!FaultKinds

LEMMA ClaimFaults == C!FaultsAssumption
BY JobFaultsAssumption DEF C!FaultsAssumption, C!FaultKinds, Refunds!FaultKinds

LEMMA RefundsTyped ==
  ASSUME TypeOK
  PROVE  R!JobsTyped
BY DEF TypeOK, R!JobsTyped, R!Job, R!JobStep, Refunds!Job, Refunds!JobStep

LEMMA ClaimsTyped ==
  ASSUME TypeOK
  PROVE  C!JobsTyped
BY DEF TypeOK, C!JobsTyped, C!Job, C!JobStep, Claims!Job, Claims!JobStep

LEMMA BroadcastRefundSteps ==
  ASSUME NEW t \in Threads, BroadcastRefund(t)
  PROVE  R!BroadcastStep(t)
BY DEF BroadcastRefund, R!BroadcastStep, R!Broadcast, R!Rebroadcast,
       R!BroadcastUnanswered, R!Valid, R!Spend, R!Paying, R!Unspent,
       Refunds!Broadcast, Refunds!Rebroadcast, Refunds!BroadcastUnanswered,
       Refunds!Valid, Refunds!Spend, Refunds!Paying, Refunds!Unspent

LEMMA BroadcastClaimSteps ==
  ASSUME NEW t \in Threads, BroadcastClaim(t)
  PROVE  C!BroadcastStep(t)
BY DEF BroadcastClaim, C!BroadcastStep, C!Broadcast, C!Rebroadcast,
       C!BroadcastUnanswered, C!Valid, C!Spend, C!Paying, C!Unspent,
       Claims!Broadcast, Claims!Rebroadcast, Claims!BroadcastUnanswered,
       Claims!Valid, Claims!Spend, Claims!Paying, Claims!Unspent

\* What RefundSwaps does is a step of a call, or leaves it alone.
LEMMA RefundSteps ==
  ASSUME TypeOK, NEW t \in Threads, RefundSwaps(t)
  PROVE  UNCHANGED refunds \/ R!CallStep(t)
<1>0. refunds[t].outs \in SUBSET Swaps /\ refunds[t].coop \in SUBSET Swaps
  BY DEF TypeOK, Refunds!Job
<1>1. CASE PopulateRefund(t)
  <2>1. PICK bad \in SUBSET refunds[t].outs :
          Refunds!Populate(t, Refunds!Missing(t), bad)
    BY <1>1 DEF PopulateRefund
  <2>2. bad \in SUBSET Swaps /\ Refunds!Missing(t) \in SUBSET Swaps
    BY <1>0 DEF Refunds!Missing
  <2>3. R!Missing(t) = Refunds!Missing(t)
    BY DEF R!Missing, Refunds!Missing
  <2>4. R!Populate(t, Refunds!Missing(t), bad)
    BY <2>1 DEF R!Populate, R!Fail, R!NoJob, Refunds!Populate, Refunds!Fail,
                Refunds!NoJob
  <2> QED
    BY <2>2, <2>3, <2>4 DEF R!CallStep, R!PopulateStep
<1>2. CASE ConstructRefund(t)
  <2>1. PICK refused \in SUBSET refunds[t].coop, small \in SUBSET refunds[t].outs :
          Refunds!ConstructRefund(t, refused, small)
    BY <1>2 DEF ConstructRefund
  <2>2. refused \in SUBSET Swaps /\ small \in SUBSET Swaps
    BY <1>0
  <2>3. R!ConstructRefund(t, refused, small)
    BY <2>1 DEF R!ConstructRefund, R!Fail, R!NoJob, Refunds!ConstructRefund,
                Refunds!Fail, Refunds!NoJob
  <2> QED
    BY <2>2, <2>3 DEF R!CallStep, R!ConstructStep
<1>3. CASE RefundFails(t)
  BY <1>3 DEF RefundFails, R!CallStep, R!ConstructFails, R!BroadcastFails, R!Fail,
              R!NoJob, R!Valid, R!Paying, R!Unspent, Refunds!ConstructFails,
              Refunds!BroadcastFails, Refunds!Fail, Refunds!NoJob, Refunds!Valid,
              Refunds!Paying, Refunds!Unspent
<1>4. CASE BroadcastRefund(t)
  BY <1>4, BroadcastRefundSteps DEF R!CallStep
<1>5. ASSUME NEW s \in Swaps, SetRefundTransactionId(t, s) PROVE UNCHANGED refunds
  BY <1>5 DEF SetRefundTransactionId
<1>6. ASSUME NEW s \in Swaps, SetRefunded(t, s) PROVE R!CallStep(t)
  <2>1. R!Record(t, s)
    BY <1>6 DEF SetRefunded, R!Record, Refunds!Record
  <2> QED
    BY <2>1 DEF R!CallStep
<1>7. CASE FinishRefund(t)
  BY <1>7 DEF FinishRefund, R!CallStep, R!Finish, R!NoJob, Refunds!Finish,
              Refunds!NoJob
<1>8. CASE RefundSwapsReturns(t)
  BY <1>8 DEF RefundSwapsReturns, R!CallStep, R!Return, R!Returned, R!NoJob,
              Refunds!Return, Refunds!Returned, Refunds!NoJob
<1> QED
  BY <1>1, <1>2, <1>3, <1>4, <1>5, <1>6, <1>7, <1>8 DEF RefundSwaps

LEMMA ClaimSteps ==
  ASSUME TypeOK, NEW t \in Threads, ClaimSwaps(t)
  PROVE  UNCHANGED claims \/ C!CallStep(t)
<1>0. claims[t].outs \in SUBSET Swaps
  BY DEF TypeOK, Claims!Job
<1>1. CASE PopulateClaim(t)
  <2>1. PICK bad \in SUBSET claims[t].outs :
          Claims!Populate(t, MissingLockups(t), bad)
    BY <1>1 DEF PopulateClaim
  <2>2. bad \in SUBSET Swaps /\ MissingLockups(t) \in SUBSET Swaps
    BY <1>0 DEF MissingLockups
  <2>3. C!Missing(t) \subseteq MissingLockups(t)
    BY DEF C!Missing, MissingLockups
  <2>4. C!Populate(t, MissingLockups(t), bad)
    BY <2>1 DEF C!Populate, C!Fail, C!NoJob, Claims!Populate, Claims!Fail,
                Claims!NoJob
  <2> QED
    BY <2>2, <2>3, <2>4 DEF C!CallStep, C!PopulateStep
<1>2. CASE ConstructClaim(t)
  <2>1. PICK small \in SUBSET claims[t].outs : Claims!ConstructClaim(t, small)
    BY <1>2 DEF ConstructClaim
  <2>2. small \in SUBSET Swaps
    BY <1>0
  <2>3. C!ConstructClaim(t, small)
    BY <2>1 DEF C!ConstructClaim, Claims!ConstructClaim
  <2> QED
    BY <2>2, <2>3 DEF C!CallStep, C!ConstructStep
<1>3. CASE ClaimFails(t)
  BY <1>3 DEF ClaimFails, C!CallStep, C!ConstructFails, C!BroadcastFails, C!Fail,
              C!NoJob, C!Valid, C!Paying, C!Unspent, Claims!ConstructFails,
              Claims!BroadcastFails, Claims!Fail, Claims!NoJob, Claims!Valid,
              Claims!Paying, Claims!Unspent
<1>4. CASE BroadcastClaim(t)
  BY <1>4, BroadcastClaimSteps DEF C!CallStep
<1>5. ASSUME NEW s \in Swaps, SetClaimTransactionId(t, s) PROVE UNCHANGED claims
  BY <1>5 DEF SetClaimTransactionId
<1>6. ASSUME NEW s \in Swaps, FinalizeChainSwap(t, s) PROVE C!CallStep(t)
  <2>1. C!Record(t, s)
    BY <1>6 DEF FinalizeChainSwap, C!Record, Claims!Record
  <2> QED
    BY <2>1 DEF C!CallStep
<1>7. CASE FinishClaim(t)
  BY <1>7 DEF FinishClaim, C!CallStep, C!Finish, C!NoJob, Claims!Finish,
              Claims!NoJob
<1>8. CASE ClaimSwapsReturns(t)
  BY <1>8 DEF ClaimSwapsReturns, C!CallStep, C!Return, C!Returned, C!NoJob,
              Claims!Return, Claims!Returned, Claims!NoJob
<1> QED
  BY <1>1, <1>2, <1>3, <1>4, <1>5, <1>6, <1>7, <1>8 DEF ClaimSwaps

-----------------------------------------------------------------------------
(***************************************************************************)
(* The rows.                                                               *)
(***************************************************************************)
LEMMA RowsUnchanged ==
  ASSUME TypeOK, UNCHANGED row
  PROVE  RowsStep
BY DEF TypeOK, RowsStep, RowStep, Exists

\* One row is written, and what it says of the swap stays.
LEMMA RowWritten ==
  ASSUME TypeOK, NEW x \in Swaps, NEW r \in Row, row' = [row EXCEPT ![x] = r],
         r.state # "NONE",
         row[x].zeroConf => r.zeroConf,
         row[x].open => r.open,
         row[x].quoted # "no" => r.quoted # "no",
         r.quoted \in {row[x].quoted} \cup AcceptedAs,
         row[x].claim => r.claim,
         row[x].refund => r.refund,
         r.claim => row[x].claim \/ to[x] = "client",
         r.refund => row[x].refund \/ from[x] = "client",
         r.state = "SUCCESSFUL" => row[x].state = "SUCCESSFUL" \/ r.claim,
         r.state = "REFUNDED" => row[x].state = "REFUNDED" \/ r.refund
  PROVE  RowsStep
<1>1. row' \in [Swaps -> Row]
  BY DEF TypeOK
<1>2. \A s \in Swaps : row'[s] = IF s = x THEN r ELSE row[s]
  BY DEF TypeOK
<1> QED
  BY <1>1, <1>2 DEF RowsStep, RowStep, Exists

\* The columns that hold for good are those of the row.
Same(r, old) ==
  /\ r.zeroConf = old.zeroConf
  /\ r.open = old.open
  /\ r.quoted = old.quoted
  /\ r.claim = old.claim
  /\ r.refund = old.refund

LEMMA RowMoves ==
  ASSUME TypeOK, NEW x \in Swaps, NEW r \in Row, row' = [row EXCEPT ![x] = r],
         Same(r, row[x]), r.state # "NONE",
         r.state \notin {"SUCCESSFUL", "REFUNDED"} \/ r.state = row[x].state
  PROVE  RowsStep
BY RowWritten DEF Same

\* setError, of any outputs.
LEMMA RowsErr ==
  ASSUME TypeOK, NEW S, SetErrors(S)
  PROVE  RowsStep
<1>1. \A s \in Swaps : row[s] \in Row
  BY DEF TypeOK
<1>2. \A s \in Swaps : [row[s] EXCEPT !.state = "ERROR"] \in Row
  BY <1>1 DEF Row, Quoted, SwapState
<1>3. row' \in [Swaps -> Row]
  BY <1>1, <1>2 DEF SetErrors
<1>4. \A s \in Swaps : /\ Same(row'[s], row[s])
                       /\ row'[s].state = "ERROR" \/ row'[s] = row[s]
  BY <1>1 DEF SetErrors, Row, Quoted, Same
<1> QED
  BY <1>3, <1>4 DEF RowsStep, RowStep, Exists, Same

\* setError of one swap.
LEMMA RowErr ==
  ASSUME TypeOK, NEW s \in Swaps, row' = [row EXCEPT ![s].state = "ERROR"]
  PROVE  RowsStep
<1> DEFINE r == [row[s] EXCEPT !.state = "ERROR"]
<1>1. row[s] \in Row
  BY DEF TypeOK
<1>2. r \in Row /\ r.state = "ERROR" /\ Same(r, row[s])
  BY <1>1 DEF Row, Quoted, SwapState, Same
<1>3. row' = [row EXCEPT ![s] = r]
  OBVIOUS
<1> HIDE DEF r
<1> QED
  BY <1>2, <1>3, RowMoves

\* A refund is stored as one that is on chain, the id before the state.
LEMMA RefundRows ==
  ASSUME TypeOK, SwapInv, NEW t \in Threads, RefundSwaps(t)
  PROVE  RowsStep
<1>0. \A s \in Swaps : row[s] \in Row
  BY DEF TypeOK
<1>1. CASE PopulateRefund(t) \/ ConstructRefund(t) \/ RefundFails(t) \/ FinishRefund(t)
  BY <1>1, RowsErr DEF PopulateRefund, ConstructRefund, RefundFails, FinishRefund
<1>2. CASE BroadcastRefund(t) \/ RefundSwapsReturns(t)
  BY <1>2, RowsUnchanged DEF BroadcastRefund, RefundSwapsReturns
<1>3. ASSUME NEW s \in Swaps, SetRefundTransactionId(t, s) PROVE RowsStep
  <2> DEFINE r == [row[s] EXCEPT !.refund = TRUE]
  <2>1. /\ r \in Row /\ r.state = row[s].state /\ r.refund
        /\ r.zeroConf = row[s].zeroConf /\ r.open = row[s].open
        /\ r.quoted = row[s].quoted /\ r.claim = row[s].claim
    BY <1>0 DEF Row, Quoted
  <2>2. row' = [row EXCEPT ![s] = r]
    BY <1>3 DEF SetRefundTransactionId
  <2>3. s \in refunds[t].todo /\ refunds[t].pc = "record"
    BY <1>3 DEF SetRefundTransactionId
  <2>4. from[s] = "client" /\ row[s].state # "NONE"
    BY <2>3 DEF SwapInv, R!CallInv, RefundOutputs, Exists
  <2> HIDE DEF r
  <2> QED
    BY <2>1, <2>2, <2>4, RowWritten
<1>4. ASSUME NEW s \in Swaps, SetRefunded(t, s) PROVE RowsStep
  <2> DEFINE r == [row[s] EXCEPT !.state = "REFUNDED"]
  <2>1. r \in Row /\ r.state = "REFUNDED" /\ Same(r, row[s])
    BY <1>0 DEF Row, Quoted, SwapState, Same
  <2>2. row' = [row EXCEPT ![s] = r]
    BY <1>4 DEF SetRefunded
  <2>3. refunds[t].pc = "record"
    BY <1>4 DEF SetRefunded, Refunds!Record
  <2>4. claims[t].pc # "record"
    BY <2>3, ChainAssumption DEF SwapInv, OwnJobs
  <2>5. row[s].refund
    BY <1>4, <2>4 DEF SetRefunded, SwapInv, BookedIsStored
  <2> HIDE DEF r
  <2> QED
    BY <2>1, <2>2, <2>5, RowWritten DEF Same
<1> QED
  BY <1>1, <1>2, <1>3, <1>4 DEF RefundSwaps

\* And a claim as well.
LEMMA ClaimRows ==
  ASSUME TypeOK, SwapInv, NEW t \in Threads, ClaimSwaps(t)
  PROVE  RowsStep
<1>0. \A s \in Swaps : row[s] \in Row
  BY DEF TypeOK
<1>1. CASE PopulateClaim(t) \/ ClaimFails(t) \/ FinishClaim(t)
  BY <1>1, RowsErr DEF PopulateClaim, ClaimFails, FinishClaim
<1>2. CASE ConstructClaim(t) \/ BroadcastClaim(t) \/ ClaimSwapsReturns(t)
  BY <1>2, RowsUnchanged DEF ConstructClaim, BroadcastClaim, ClaimSwapsReturns
<1>3. ASSUME NEW s \in Swaps, SetClaimTransactionId(t, s) PROVE RowsStep
  <2> DEFINE r == [row[s] EXCEPT !.claim = TRUE]
  <2>1. /\ r \in Row /\ r.state = row[s].state /\ r.claim
        /\ r.zeroConf = row[s].zeroConf /\ r.open = row[s].open
        /\ r.quoted = row[s].quoted /\ r.refund = row[s].refund
    BY <1>0 DEF Row, Quoted
  <2>2. row' = [row EXCEPT ![s] = r]
    BY <1>3 DEF SetClaimTransactionId
  <2>3. s \in claims[t].todo /\ claims[t].pc = "record"
    BY <1>3 DEF SetClaimTransactionId
  <2>4. to[s] = "client" /\ row[s].state # "NONE"
    BY <2>3 DEF SwapInv, C!CallInv, ClaimOutputs, Good, Exists
  <2> HIDE DEF r
  <2> QED
    BY <2>1, <2>2, <2>4, RowWritten
<1>4. ASSUME NEW s \in Swaps, FinalizeChainSwap(t, s) PROVE RowsStep
  <2> DEFINE r == [row[s] EXCEPT !.state = "SUCCESSFUL"]
  <2>1. r \in Row /\ r.state = "SUCCESSFUL" /\ Same(r, row[s])
    BY <1>0 DEF Row, Quoted, SwapState, Same
  <2>2. row' = [row EXCEPT ![s] = r]
    BY <1>4 DEF FinalizeChainSwap
  <2>3. claims[t].pc = "record"
    BY <1>4 DEF FinalizeChainSwap, Claims!Record
  <2>4. refunds[t].pc # "record"
    BY <2>3, ChainAssumption DEF SwapInv, OwnJobs
  <2>5. row[s].claim
    BY <1>4, <2>4 DEF FinalizeChainSwap, SwapInv, BookedIsStored
  <2> HIDE DEF r
  <2> QED
    BY <2>1, <2>2, <2>5, RowWritten DEF Same
<1> QED
  BY <1>1, <1>2, <1>3, <1>4 DEF ClaimSwaps

\* An update writes the row of its swap, and neither ids nor SUCCESSFUL or
\* REFUNDED.
LEMMA UpdateRows ==
  ASSUME TypeOK, HandleChainSwapStatus
  PROVE  RowsStep
<1> DEFINE s == h.swap
<1>0. h.pc # "idle"
  BY DEF HandleChainSwapStatus, StoreLockups, GetChainSwapQuote, StoreAmounts,
         ClaimReturned, UpdateChainSwapStatus, FailChainSwap, RefundReturned
<1>1. s \in Swaps /\ h.ev \in SwapUpdateEvent /\ row[s] \in Row
      /\ row[s].state # "NONE"
  BY <1>0 DEF TypeOK, Update, Exists
<1>e. ASSUME HandleError PROVE RowsStep
  BY <1>1, <1>e, RowErr DEF HandleError
<1>2. CASE StoreLockups
  <2>1. PICK user \in BOOLEAN, server \in BOOLEAN :
          LET stored == [row[s] EXCEPT !.from = @ \/ user, !.to = @ \/ server]
          IN  \/ row' = [row EXCEPT ![s] = stored]
              \/ row' = [row EXCEPT ![s] = [stored EXCEPT !.state = "ERROR"]]
    BY <1>2 DEF StoreLockups
  <2> DEFINE a == row[s].from \/ user
             b == row[s].to \/ server
             r1 == [row[s] EXCEPT !.from = a, !.to = b]
             r2 == [r1 EXCEPT !.state = "ERROR"]
  <2>2. a \in BOOLEAN /\ b \in BOOLEAN
    BY Zenon
  <2>4. row' = [row EXCEPT ![s] = r1] \/ row' = [row EXCEPT ![s] = r2]
    BY <2>1
  <2> HIDE DEF a, b
  <2>3. /\ r1 \in Row /\ r1.state = row[s].state /\ Same(r1, row[s])
        /\ r2 \in Row /\ r2.state = "ERROR" /\ Same(r2, row[s])
    BY <1>1, <2>2 DEF Row, Quoted, SwapState, Same
  <2> HIDE DEF r1, r2, s
  <2> QED
    BY <1>1, <2>3, <2>4, RowMoves
<1>3. CASE GetChainSwapQuote \/ RefundReturned \/ ClaimReturned
  BY <1>3, <1>e, RowsUnchanged DEF GetChainSwapQuote, RefundReturned, ClaimReturned
<1>4. CASE StoreAmounts
  <2>0. PICK q \in AcceptedAs : row' = [row EXCEPT ![h.swap].quoted = q]
    BY <1>4 DEF StoreAmounts
  <2> DEFINE r == [row[s] EXCEPT !.quoted = q]
  <2>1. /\ r \in Row /\ r.state = row[s].state /\ r.claim = row[s].claim
        /\ r.zeroConf = row[s].zeroConf /\ r.open = row[s].open
        /\ r.quoted = q /\ q # "no" /\ r.refund = row[s].refund
    BY <1>1, <2>0 DEF Row, Quoted, AcceptedAs
  <2>2. row' = [row EXCEPT ![s] = r]
    BY <2>0
  <2>3. r.quoted \in {row[s].quoted} \cup AcceptedAs
    BY <2>0, <2>1
  <2> HIDE DEF r, s
  <2> QED
    BY <1>1, <2>1, <2>2, <2>3, RowWritten
<1>5. CASE UpdateChainSwapStatus
  <2> DEFINE r == [row[s] EXCEPT !.status = h.ev]
  <2>1. r \in Row /\ r.state = row[s].state /\ Same(r, row[s])
    BY <1>1 DEF Row, Quoted, Same
  <2>2. row' = [row EXCEPT ![s] = r]
    BY <1>5 DEF UpdateChainSwapStatus
  <2> HIDE DEF r, s
  <2> QED
    BY <1>1, <2>1, <2>2, RowMoves
<1>6. CASE FailChainSwap
  <2>1. PICK state \in {row[s].state, "SERVER_ERROR"} :
          row' = [row EXCEPT ![s].state = state] \/ HandleError
    BY <1>6 DEF FailChainSwap
  <2> DEFINE r == [row[s] EXCEPT !.state = state]
  <2>2. r \in Row /\ r.state = state /\ Same(r, row[s])
    BY <1>1 DEF Row, Quoted, SwapState, Same
  <2>3. row' = [row EXCEPT ![s] = r] \/ HandleError
    BY <2>1
  <2> HIDE DEF r, s
  <2> QED
    BY <1>1, <1>e, <2>2, <2>3, RowMoves
<1> QED
  BY <1>2, <1>3, <1>4, <1>5, <1>6 DEF HandleChainSwapStatus

\* Every step of the system does to the rows what RowsStep allows.
LEMMA RowsNext ==
  ASSUME TypeOK, SwapInv, Next
  PROVE  RowsStep
<1>1. ASSUME NEW s \in Swaps, CreateChainSwap(s) PROVE RowsStep
  <2>1. PICK q \in Requests :
          row' = [row EXCEPT ![s] =
                   [NoRow EXCEPT !.state = "PENDING", !.zeroConf = q.zeroConf,
                                 !.open = q.open, !.dest = q.dest]]
    BY <1>1 DEF CreateChainSwap
  <2> DEFINE r == [NoRow EXCEPT !.state = "PENDING", !.zeroConf = q.zeroConf,
                                !.open = q.open, !.dest = q.dest]
  <2>2. q \in Request
    BY <2>1, ChainAssumption
  <2>3. row[s] = NoRow
    BY <1>1 DEF CreateChainSwap, TypeOK
  <2>4. /\ r \in Row /\ r.state = "PENDING" /\ ~r.claim /\ ~r.refund
        /\ ~NoRow.zeroConf /\ ~NoRow.open /\ NoRow.quoted = "no"
        /\ r.quoted = "no"
        /\ ~NoRow.claim /\ ~NoRow.refund
    BY <2>2 DEF Request, NoRow, Row, Quoted, SwapState, SwapUpdateEvent
  <2>5. row' = [row EXCEPT ![s] = r]
    BY <2>1
  <2> HIDE DEF r
  <2> QED
    BY <2>3, <2>4, <2>5, RowWritten
<1>2. ASSUME NEW s \in Swaps, SendToAddressFails(s) PROVE RowsStep
  BY <1>2, RowErr DEF SendToAddressFails
<1>3. ASSUME UNCHANGED row PROVE RowsStep
  BY <1>3, RowsUnchanged
<1>4. ASSUME NEW s \in Swaps,
             SendToAddress(s) \/ ProcessUpdate(s) \/ Environment(s)
      PROVE  RowsStep
  BY <1>3, <1>4 DEF SendToAddress, ProcessUpdate, Environment, UserPays,
                    ServerLocksUp, LockupConfirms, ServerClaims, ServerTakesBack,
                    EnvUnchanged
<1>5. CASE \/ CheckRefundableSwaps \/ CheckClaimableSwaps \/ StopDaemon
           \/ FetchLockupsPanics \/ Restart \/ RegisterBlock
  BY <1>3, <1>5 DEF CheckRefundableSwaps, CheckClaimableSwaps, StopDaemon,
                    FetchLockupsPanics, Restart, RegisterBlock
<1> QED
  BY <1>1, <1>2, <1>4, <1>5, RefundRows, ClaimRows, UpdateRows DEF Next

-----------------------------------------------------------------------------
(***************************************************************************)
(* The coins of both chains: those that move, and who moves them.          *)
(***************************************************************************)
\* Nothing but a broadcast, the wallet and the environment moves coins.
LEMMA MoneyMoves ==
  ASSUME Next
  PROVE  \/ UNCHANGED <<from, to, value>>
         \/ \E s \in Swaps : SendToAddress(s) \/ Environment(s)
         \/ \E t \in Threads : BroadcastRefund(t) \/ BroadcastClaim(t)
<1> DEFINE Still == UNCHANGED <<from, to, value>>
<1>1. ASSUME NEW s \in Swaps,
             CreateChainSwap(s) \/ SendToAddressFails(s) \/ ProcessUpdate(s)
      PROVE  Still
  BY <1>1 DEF CreateChainSwap, SendToAddressFails, ProcessUpdate, chainVars
<1>2. ASSUME HandleChainSwapStatus PROVE Still
  BY <1>2 DEF HandleChainSwapStatus, StoreLockups, GetChainSwapQuote,
              StoreAmounts, ClaimReturned, UpdateChainSwapStatus, FailChainSwap,
              RefundReturned, HandlerUnchanged, chainVars
<1>3. ASSUME \/ CheckRefundableSwaps \/ CheckClaimableSwaps \/ StopDaemon
             \/ FetchLockupsPanics \/ Restart \/ RegisterBlock
      PROVE  Still
  BY <1>3 DEF CheckRefundableSwaps, CheckClaimableSwaps, StopDaemon,
              FetchLockupsPanics, Restart, RegisterBlock, chainVars
<1>4. ASSUME NEW t \in Threads, RefundSwaps(t), ~BroadcastRefund(t) PROVE Still
  BY <1>4 DEF RefundSwaps, PopulateRefund, ConstructRefund, RefundFails,
              SetRefundTransactionId, SetRefunded, FinishRefund,
              RefundSwapsReturns, Refunds!Populate, Refunds!ConstructRefund,
              Refunds!ConstructFails, Refunds!BroadcastFails, Refunds!Record,
              Refunds!Finish, RefundUnchanged
<1>5. ASSUME NEW t \in Threads, ClaimSwaps(t), ~BroadcastClaim(t) PROVE Still
  BY <1>5 DEF ClaimSwaps, PopulateClaim, ConstructClaim, ClaimFails,
              SetClaimTransactionId, FinalizeChainSwap, FinishClaim,
              ClaimSwapsReturns, Claims!Populate, Claims!ConstructClaim,
              Claims!ConstructFails, Claims!BroadcastFails, Claims!Record,
              Claims!Finish, ClaimUnchanged
<1> QED
  BY <1>1, <1>2, <1>3, <1>4, <1>5 DEF Next

LEMMA CoinsUnchanged ==
  ASSUME TypeOK, UNCHANGED <<from, to, value>>
  PROVE  CoinsStep
BY DEF TypeOK, CoinsStep, R!CoinsKept, C!CoinsKept, LockupConfirmed

LEMMA BroadcastCoins ==
  ASSUME TypeOK, NEW t \in Threads, BroadcastRefund(t) \/ BroadcastClaim(t)
  PROVE  CoinsStep
<1>1. CASE BroadcastRefund(t)
  <2>1. R!CoinsKept
    BY <1>1, RefundFaults, BroadcastRefundSteps, R!BroadcastKeepsCoins
  <2>2. from' \in [Swaps -> Refunds!Coins]
    BY <1>1 DEF BroadcastRefund, Refunds!Broadcast, Refunds!Rebroadcast,
                Refunds!BroadcastUnanswered, Refunds!Spend, Refunds!Coins, TypeOK
  <2> QED
    BY <1>1, <2>1, <2>2 DEF BroadcastRefund, RefundUnchanged, TypeOK, CoinsStep,
                            C!CoinsKept, LockupConfirmed
<1>2. CASE BroadcastClaim(t)
  <2>1. C!CoinsKept
    BY <1>2, ClaimFaults, BroadcastClaimSteps, C!BroadcastKeepsCoins
  <2>2. /\ to' \in [Swaps -> Claims!Coins]
        /\ \A s \in Swaps : to'[s] = to[s] \/ to'[s] = "client"
    BY <1>2 DEF BroadcastClaim, Claims!Broadcast, Claims!Rebroadcast,
                Claims!BroadcastUnanswered, Claims!Spend, Claims!Coins, TypeOK
  <2> QED
    BY <1>2, <2>1, <2>2 DEF BroadcastClaim, ClaimUnchanged, TypeOK, CoinsStep,
                            R!CoinsKept, LockupConfirmed
<1> QED
  BY <1>1, <1>2

LEMMA EnvironmentCoins ==
  ASSUME TypeOK, NEW s \in Swaps, SendToAddress(s) \/ Environment(s)
  PROVE  CoinsStep
<1>t. /\ from \in [Swaps -> Refunds!Coins] /\ to \in [Swaps -> Claims!Coins]
      /\ value \in [Swaps -> Value]
  BY DEF TypeOK
<1>1. ASSUME NEW c \in Refunds!Coins, from' = [from EXCEPT ![s] = c],
             from[s] \in {"none"} \cup Refunds!Unspent /\ c # "none",
             UNCHANGED <<to, value>>
      PROVE  CoinsStep
  BY <1>t, <1>1 DEF CoinsStep, R!CoinsKept, C!CoinsKept, LockupConfirmed,
                    Refunds!Unspent
<1>2. CASE SendToAddress(s) \/ UserPays(s) \/ ServerClaims(s)
  BY <1>1, <1>2 DEF SendToAddress, UserPays, ServerClaims, Refunds!Coins
<1>3. CASE ServerLocksUp(s)
  BY <1>3, <1>t DEF ServerLocksUp, CoinsStep, R!CoinsKept, C!CoinsKept,
                    LockupConfirmed, Claims!Coins
<1>4. CASE LockupConfirms(s) \/ ServerTakesBack(s)
  BY <1>4, <1>t DEF LockupConfirms, ServerTakesBack, CoinsStep, R!CoinsKept,
                    C!CoinsKept, LockupConfirmed, Claims!Coins, Claims!Unspent
<1> QED
  BY <1>2, <1>3, <1>4 DEF Environment

LEMMA CoinsNext ==
  ASSUME TypeOK, Next
  PROVE  CoinsStep
BY MoneyMoves, CoinsUnchanged, BroadcastCoins, EnvironmentCoins

-----------------------------------------------------------------------------
(***************************************************************************)
(* The refunds: those that start are of swaps that there are.              *)
(***************************************************************************)
LEMMA RefundsUnchanged ==
  ASSUME TypeOK, SwapInv, CoinsStep, UNCHANGED refunds
  PROVE  RefundsStep
<1>1. R!CallInv'
  BY RefundFaults, R!CallsKept DEF SwapInv, CoinsStep
<1> QED
  BY <1>1, RefundsTyped DEF RefundsStep, R!JobsTyped

LEMMA RefundOpens ==
  ASSUME TypeOK, SwapInv, CoinsStep, NEW t \in Threads,
         NEW outs \in SUBSET Swaps, NEW coop \in SUBSET Swaps,
         \A s \in outs : Exists(s), Refunds!Start(t, outs, coop)
  PROVE  RefundsStep
<1>1. R!Start(t, outs, coop)
  BY DEF R!Start, R!NoJob, Refunds!Start, Refunds!NoJob
<1>2. /\ R!JobsTyped' /\ R!CallInv'
      /\ \A u \in Threads \ {t} : refunds'[u] = refunds[u]
      /\ refunds'[t].outs = outs /\ refunds'[t].todo = {}
  BY <1>1, RefundFaults, RefundsTyped, R!CallStarts DEF SwapInv, CoinsStep
<1> QED
  BY <1>2 DEF RefundsStep

LEMMA RefundAdvances ==
  ASSUME TypeOK, SwapInv, CoinsStep, NEW t \in Threads, R!CallStep(t)
  PROVE  RefundsStep /\ \A u \in Threads \ {t} : refunds'[u] = refunds[u]
<1>1. R!CallMoves(t)
  BY RefundFaults, RefundsTyped, R!CallStepMoves DEF SwapInv, CoinsStep
<1> QED
  BY <1>1 DEF RefundsStep, R!CallMoves

LEMMA RefundReturnSteps ==
  ASSUME RefundReturned
  PROVE  R!CallStep(Ws)
BY DEF RefundReturned, R!CallStep, R!Return, R!Returned, R!NoJob, Refunds!Return,
       Refunds!Returned, Refunds!NoJob

LEMMA RefundsNext ==
  ASSUME TypeOK, SwapInv, CoinsStep, Next
  PROVE  RefundsStep
<1>t. Ws \in Threads /\ FromBlock \in Threads
  BY ChainAssumption
<1>1. ASSUME UNCHANGED refunds PROVE RefundsStep
  BY <1>1, RefundsUnchanged
<1>2. ASSUME NEW s \in Swaps,
             \/ CreateChainSwap(s) \/ SendToAddress(s) \/ SendToAddressFails(s)
             \/ ProcessUpdate(s) \/ Environment(s)
      PROVE  RefundsStep
  BY <1>1, <1>2 DEF CreateChainSwap, SendToAddress, SendToAddressFails,
                    ProcessUpdate, Environment, UserPays, ServerLocksUp,
                    LockupConfirms, ServerClaims, ServerTakesBack, EnvUnchanged,
                    jobVars
<1>3. CASE \/ StoreLockups \/ GetChainSwapQuote \/ StoreAmounts
           \/ ClaimReturned \/ UpdateChainSwapStatus
  BY <1>1, <1>3 DEF StoreLockups, GetChainSwapQuote, StoreAmounts, ClaimReturned,
                    UpdateChainSwapStatus
<1>4. CASE FailChainSwap
  <2> DEFINE outs == {h.swap}
             coop == Cooperative(outs)
  <2>1. Refunds!Start(Ws, outs, coop) \/ UNCHANGED refunds
    BY <1>4 DEF FailChainSwap
  <2>2. outs \in SUBSET Swaps /\ \A s \in outs : Exists(s)
    BY <1>4 DEF FailChainSwap, TypeOK, Update
  <2>3. coop \in SUBSET Swaps
    BY <2>2 DEF Cooperative
  <2> HIDE DEF outs, coop
  <2> QED
    BY <1>1, <1>t, <2>1, <2>2, <2>3, RefundOpens
<1>5. CASE RefundReturned
  BY <1>5, <1>t, RefundReturnSteps, RefundAdvances
<1>6. CASE CheckRefundableSwaps
  <2> DEFINE outs == {s \in Swaps : Refundable(s, height) /\ row[s].dest}
             coop == Cooperative(outs)
  <2>1. Refunds!Start(FromBlock, outs, coop)
    BY <1>6 DEF CheckRefundableSwaps
  <2>2. outs \in SUBSET Swaps /\ \A s \in outs : Exists(s)
    BY DEF TypeOK, Refundable, NoRow
  <2>3. coop \in SUBSET Swaps
    BY <2>2 DEF Cooperative
  <2> HIDE DEF outs, coop
  <2> QED
    BY <1>t, <2>1, <2>2, <2>3, RefundOpens
<1>7. CASE CheckClaimableSwaps \/ Restart \/ RegisterBlock
  BY <1>1, <1>7 DEF CheckClaimableSwaps, Restart, RegisterBlock, jobVars
<1>8. CASE StopDaemon \/ FetchLockupsPanics
  <2>1. refunds' = [t \in Threads |-> Refunds!NoJob]
    BY <1>8 DEF StopDaemon, FetchLockupsPanics
  <2>2. Refunds!NoJob = R!NoJob /\ R!NoJob \in R!Job
    BY RefundFaults, R!NoJobTyped DEF Refunds!NoJob, R!NoJob
  <2> QED
    BY <2>1, <2>2 DEF RefundsStep, R!JobsTyped, R!CallInv, R!NoJob
<1>9. ASSUME NEW t \in Threads, RefundSwaps(t) PROVE RefundsStep
  BY <1>1, <1>9, RefundSteps, RefundAdvances
<1>10. ASSUME NEW t \in Threads, ClaimSwaps(t) PROVE RefundsStep
  BY <1>1, <1>10 DEF ClaimSwaps, PopulateClaim, ConstructClaim, ClaimFails,
                     BroadcastClaim, SetClaimTransactionId, FinalizeChainSwap,
                     FinishClaim, ClaimSwapsReturns, ClaimUnchanged
<1> QED
  BY <1>2, <1>3, <1>4, <1>5, <1>6, <1>7, <1>8, <1>9, <1>10
  DEF Next, HandleChainSwapStatus

-----------------------------------------------------------------------------
(***************************************************************************)
(* The claims: those that start are of swaps that may be claimed, and only *)
(* outputs that pay enough get to the construction.                        *)
(***************************************************************************)
LEMMA ClaimsUnchanged ==
  ASSUME TypeOK, SwapInv, CoinsStep, UNCHANGED claims
  PROVE  ClaimsStep
<1>1. C!CallInv'
  BY ClaimFaults, C!CallsKept DEF SwapInv, CoinsStep
<1> QED
  BY <1>1, ClaimsTyped DEF ClaimsStep, C!JobsTyped

LEMMA ClaimOpens ==
  ASSUME TypeOK, SwapInv, CoinsStep, NEW t \in Threads, NEW outs \in SUBSET Swaps,
         \A s \in outs : Good(s), Claims!Start(t, outs, outs)
  PROVE  ClaimsStep
<1>1. C!Start(t, outs, outs)
  BY DEF C!Start, C!NoJob, Claims!Start, Claims!NoJob
<1>2. /\ C!JobsTyped' /\ C!CallInv'
      /\ \A u \in Threads \ {t} : claims'[u] = claims[u]
      /\ claims'[t].pc = "populate"
      /\ claims'[t].outs = outs /\ claims'[t].todo = {}
  BY <1>1, ClaimFaults, ClaimsTyped, C!CallStarts DEF SwapInv, CoinsStep
<1> QED
  BY <1>2 DEF ClaimsStep

\* A call only gets to the construction and the broadcast by these steps.
LEMMA ClaimAdvances ==
  ASSUME TypeOK, SwapInv, CoinsStep, NEW t \in Threads, C!CallStep(t),
         \A s \in Swaps :
           /\ claims'[t].pc = "construct" /\ s \in claims'[t].outs =>
                to[s] # "none" /\ Priced(s)
           /\ claims'[t].pc = "broadcast" /\ s \in claims'[t].ins => s \in revealed'
  PROVE  ClaimsStep
<1>1. C!CallMoves(t)
  BY ClaimFaults, ClaimsTyped, C!CallStepMoves DEF SwapInv, CoinsStep
<1> QED
  BY <1>1 DEF ClaimsStep, C!CallMoves

LEMMA ClaimReturnSteps ==
  ASSUME ClaimReturned
  PROVE  C!CallStep(Ws)
BY DEF ClaimReturned, C!CallStep, C!Return, C!Returned, C!NoJob, Claims!Return,
       Claims!Returned, Claims!NoJob

LEMMA ClaimSwapsCalls ==
  ASSUME TypeOK, SwapInv, CoinsStep, NEW t \in Threads, ClaimSwaps(t)
  PROVE  ClaimsStep
<1>0. claims \in [Threads -> Claims!Job]
  BY DEF TypeOK
<1>1. CASE UNCHANGED claims
  BY <1>1, ClaimsUnchanged
<1>f. ASSUME Claims!Fail(t) PROVE claims'[t].pc = "err"
  BY <1>0, <1>f DEF Claims!Fail, Claims!NoJob
<1>2. ASSUME C!CallStep(t), claims'[t].pc \notin {"construct", "broadcast"}
      PROVE  ClaimsStep
  BY <1>2, ClaimAdvances
<1>3. CASE C!CallStep(t)
  <2>1. CASE PopulateClaim(t)
    <3>1. PICK bad \in SUBSET claims[t].outs :
            Claims!Populate(t, MissingLockups(t), bad)
      BY <2>1 DEF PopulateClaim
    <3>2. CASE Claims!Fail(t)
      BY <1>2, <1>3, <1>f, <3>2
    <3>3. CASE claims' = [claims EXCEPT ![t].pc = "construct",
                                        ![t].outs = @ \ bad, ![t].coop = @ \ bad]
      <4>1. claims'[t].pc = "construct" /\ claims'[t].outs = claims[t].outs \ bad
        BY <1>0, <3>3 DEF Claims!Job
      <4>2. MissingLockups(t) \subseteq bad
        BY <3>1 DEF Claims!Populate
      <4>3. \A s \in Swaps : s \in claims'[t].outs => to[s] # "none" /\ Priced(s)
        BY <4>1, <4>2 DEF MissingLockups, PaysEnough, Priced
      <4> QED
        BY <1>3, <4>1, <4>3, ClaimAdvances
    <3> QED
      BY <3>1, <3>2, <3>3 DEF Claims!Populate
  <2>2. CASE ConstructClaim(t)
    <3>1. claims'[t].pc = "broadcast" /\ claims'[t].ins = claims[t].outs
      BY <1>0, <2>2 DEF ConstructClaim, Claims!ConstructClaim, Claims!Job
    <3>2. \A s \in Swaps : s \in claims'[t].ins => s \in revealed'
      BY <2>2, <3>1 DEF ConstructClaim
    <3> QED
      BY <1>3, <3>1, <3>2, ClaimAdvances
  <2>3. CASE ClaimFails(t)
    BY <1>2, <1>3, <1>f, <2>3 DEF ClaimFails, Claims!ConstructFails,
                                  Claims!BroadcastFails
  <2>4. CASE BroadcastClaim(t)
    <3>1. claims'[t].pc \in {"record", "unanswered"}
      BY <1>0, <2>4 DEF BroadcastClaim, Claims!Broadcast, Claims!Rebroadcast,
                        Claims!BroadcastUnanswered, Claims!Job
    <3> QED
      BY <1>2, <1>3, <3>1
  <2>5. ASSUME NEW s \in Swaps, FinalizeChainSwap(t, s) PROVE ClaimsStep
    <3>1. PICK failed \in {{}, {s}} :
            claims' = [claims EXCEPT ![t].todo = @ \ {s}, ![t].errs = @ \cup failed,
                                     ![t].pc = IF claims[t].todo = {s}
                                               THEN "finish" ELSE "record"]
      BY <2>5 DEF FinalizeChainSwap, Claims!Record
    <3>2. claims'[t].pc \in {"finish", "record"}
      BY <1>0, <3>1 DEF Claims!Job
    <3> QED
      BY <1>2, <1>3, <3>2
  <2>6. CASE FinishClaim(t) \/ ClaimSwapsReturns(t)
    <3>1. claims'[t].pc \in {"ok", "idle"}
      BY <1>0, <2>6 DEF FinishClaim, ClaimSwapsReturns, Claims!Finish,
                        Claims!Return, Claims!NoJob
    <3> QED
      BY <1>2, <1>3, <3>1
  <2>7. ASSUME NEW s \in Swaps, SetClaimTransactionId(t, s) PROVE ClaimsStep
    BY <1>1, <2>7 DEF SetClaimTransactionId
  <2> QED
    BY <2>1, <2>2, <2>3, <2>4, <2>5, <2>6, <2>7 DEF ClaimSwaps
<1> QED
  BY <1>1, <1>3, ClaimSteps

\* The claim of an update is of a swap whose unconfirmed lockup will do.
LEMMA GoOnClaims ==
  ASSUME TypeOK, SwapInv, CoinsStep, NEW u, GoOn(u), u.swap \in Swaps,
         Exists(u.swap), u.pc = "claim" => row[u.swap].zeroConf
  PROVE  ClaimsStep
<1>1. CASE UNCHANGED claims
  BY <1>1, ClaimsUnchanged
<1>2. CASE u.pc = "claim"
  <2> DEFINE outs == {u.swap}
  <2>1. outs \in SUBSET Swaps /\ \A s \in outs : Good(s)
    BY <1>2 DEF Good
  <2>2. Claims!Start(Ws, outs, outs)
    BY <1>2 DEF GoOn
  <2> HIDE DEF outs
  <2> QED
    BY <2>1, <2>2, ChainAssumption, ClaimOpens
<1> QED
  BY <1>1, <1>2 DEF GoOn

LEMMA ClaimsNext ==
  ASSUME TypeOK, SwapInv, CoinsStep, Next
  PROVE  ClaimsStep
<1>t. Ws \in Threads /\ ToBlock \in Threads
  BY ChainAssumption
<1>1. ASSUME UNCHANGED claims PROVE ClaimsStep
  BY <1>1, ClaimsUnchanged
<1>2. ASSUME NEW s \in Swaps,
             \/ CreateChainSwap(s) \/ SendToAddress(s) \/ SendToAddressFails(s)
             \/ Environment(s)
      PROVE  ClaimsStep
  BY <1>1, <1>2 DEF CreateChainSwap, SendToAddress, SendToAddressFails,
                    Environment, UserPays, ServerLocksUp, LockupConfirms,
                    ServerClaims, ServerTakesBack, EnvUnchanged, jobVars
<1>3. ASSUME NEW s \in Swaps, ProcessUpdate(s) PROVE ClaimsStep
  <2>1. PICK ev \in Reports :
          GoOn([pc      |-> IF \/ ev \in MempoolStatus
                               \/ ~row[s].from \/ ~row[s].to
                            THEN "lockups" ELSE Dispatch(ev, row[s]),
                swap    |-> s,
                ev      |-> ev,
                state   |-> row[s].state,
                dest    |-> row[s].dest,
                noQuote |-> FALSE])
    BY <1>3 DEF ProcessUpdate
  <2>2. Dispatch(ev, row[s]) = "claim" => row[s].zeroConf
    BY DEF Dispatch
  <2>3. Exists(s)
    BY <1>3 DEF ProcessUpdate, QueryAnySwap
  <2> QED
    BY <2>1, <2>2, <2>3, GoOnClaims
<1>4. CASE StoreLockups
  <2>0. h \in Update /\ h.swap \in Swaps /\ Exists(h.swap)
    BY <1>4 DEF StoreLockups, TypeOK, Update
  <2>1. CASE UNCHANGED claims
    BY <1>1, <2>1
  <2>2. ASSUME NEW user \in BOOLEAN, NEW server \in BOOLEAN,
               GoOn([h EXCEPT !.pc = Dispatch(h.ev,
                       [row[h.swap] EXCEPT !.from = @ \/ user,
                                           !.to = @ \/ server])])
        PROVE  ClaimsStep
    <3> DEFINE r == [row[h.swap] EXCEPT !.from = @ \/ user, !.to = @ \/ server]
               u == [h EXCEPT !.pc = Dispatch(h.ev, r)]
    <3>1. r.zeroConf = row[h.swap].zeroConf
      BY <2>0 DEF TypeOK, Row, Quoted
    <3> HIDE DEF r
    <3>2. u.swap = h.swap /\ u.pc = Dispatch(h.ev, r)
      BY <2>0 DEF Update
    <3>3. u.pc = "claim" => row[u.swap].zeroConf
      BY <3>1, <3>2 DEF Dispatch
    <3>4. GoOn(u)
      BY <2>2 DEF r
    <3> HIDE DEF u
    <3> QED
      BY <2>0, <3>2, <3>3, <3>4, GoOnClaims
  <2> QED
    BY <1>4, <2>1, <2>2 DEF StoreLockups
<1>5. CASE ClaimReturned
  <2>1. claims'[Ws].pc = "idle"
    BY <1>5, <1>t DEF ClaimReturned, Claims!Return, Claims!NoJob, TypeOK
  <2> QED
    BY <1>5, <1>t, <2>1, ClaimReturnSteps, ClaimAdvances
<1>6. CASE \/ GetChainSwapQuote \/ StoreAmounts \/ UpdateChainSwapStatus
           \/ FailChainSwap \/ RefundReturned
  BY <1>1, <1>6 DEF GetChainSwapQuote, StoreAmounts, UpdateChainSwapStatus,
                    FailChainSwap, RefundReturned
<1>7. CASE CheckClaimableSwaps
  <2> DEFINE outs == {s \in Swaps : Claimable(s)}
  <2>1. Claims!Start(ToBlock, outs, outs)
    BY <1>7 DEF CheckClaimableSwaps
  <2>2. outs \in SUBSET Swaps /\ \A s \in outs : Good(s)
    BY DEF TypeOK, Claimable, NoRow, Good
  <2> HIDE DEF outs
  <2> QED
    BY <1>t, <2>1, <2>2, ClaimOpens
<1>8. CASE CheckRefundableSwaps \/ Restart \/ RegisterBlock
  BY <1>1, <1>8 DEF CheckRefundableSwaps, Restart, RegisterBlock, jobVars
<1>9. CASE StopDaemon \/ FetchLockupsPanics
  <2>1. claims' = [t \in Threads |-> Claims!NoJob]
    BY <1>9 DEF StopDaemon, FetchLockupsPanics
  <2>2. Claims!NoJob = C!NoJob /\ C!NoJob \in C!Job
    BY ClaimFaults, C!NoJobTyped DEF Claims!NoJob, C!NoJob
  <2> QED
    BY <2>1, <2>2 DEF ClaimsStep, C!JobsTyped, C!CallInv, C!NoJob
<1>10. ASSUME NEW t \in Threads, ClaimSwaps(t) PROVE ClaimsStep
  BY <1>10, ClaimSwapsCalls
<1>11. ASSUME NEW t \in Threads, RefundSwaps(t) PROVE ClaimsStep
  BY <1>1, <1>11 DEF RefundSwaps, PopulateRefund, ConstructRefund, RefundFails,
                     BroadcastRefund, SetRefundTransactionId, SetRefunded,
                     FinishRefund, RefundSwapsReturns, RefundUnchanged
<1> QED
  BY <1>2, <1>3, <1>4, <1>5, <1>6, <1>7, <1>8, <1>9, <1>10, <1>11
  DEF Next, HandleChainSwapStatus

-----------------------------------------------------------------------------
(***************************************************************************)
(* Who is in a call, what is booked and what has been revealed.            *)
(***************************************************************************)
LEMMA RefundRuns ==
  ASSUME TypeOK, SwapInv, CoinsStep, NEW t \in Threads, RefundSwaps(t)
  PROVE  /\ refunds[t].pc # "idle"
         /\ \A u \in Threads \ {t} : refunds'[u] = refunds[u]
         /\ UNCHANGED <<claims, h, revealed>>
<1>0. UNCHANGED <<claims, h, revealed>>
  BY DEF RefundSwaps, PopulateRefund, ConstructRefund, RefundFails,
         BroadcastRefund, SetRefundTransactionId, SetRefunded, FinishRefund,
         RefundSwapsReturns, RefundUnchanged
<1>1. CASE R!CallStep(t)
  <2>1. refunds[t].pc # "idle"
    BY <1>1, RefundFaults, R!CallStepRuns DEF R!Running
  <2> QED
    BY <1>0, <1>1, <2>1, RefundAdvances
<1>2. CASE UNCHANGED refunds
  BY <1>0, <1>2
  DEF RefundSwaps, PopulateRefund, ConstructRefund, RefundFails, BroadcastRefund,
      SetRefundTransactionId, SetRefunded, FinishRefund, RefundSwapsReturns,
      Refunds!Populate, Refunds!ConstructRefund, Refunds!ConstructFails,
      Refunds!BroadcastFails, Refunds!Broadcast, Refunds!Rebroadcast,
      Refunds!BroadcastUnanswered, Refunds!Record, Refunds!Finish,
      Refunds!Return, Refunds!Returned
<1> QED
  BY <1>1, <1>2, RefundSteps

LEMMA ClaimRuns ==
  ASSUME TypeOK, SwapInv, CoinsStep, NEW t \in Threads, ClaimSwaps(t)
  PROVE  /\ claims[t].pc # "idle"
         /\ \A u \in Threads \ {t} : claims'[u] = claims[u]
         /\ UNCHANGED <<refunds, h>>
<1>0. UNCHANGED <<refunds, h>>
  BY DEF ClaimSwaps, PopulateClaim, ConstructClaim, ClaimFails, BroadcastClaim,
         SetClaimTransactionId, FinalizeChainSwap, FinishClaim,
         ClaimSwapsReturns, ClaimUnchanged
<1>1. CASE C!CallStep(t)
  <2>1. C!CallMoves(t)
    BY <1>1, ClaimFaults, ClaimsTyped, C!CallStepMoves DEF SwapInv, CoinsStep
  <2>2. claims[t].pc # "idle"
    BY <1>1, ClaimFaults, C!CallStepRuns DEF C!Running
  <2> QED
    BY <1>0, <2>1, <2>2 DEF C!CallMoves
<1>2. CASE UNCHANGED claims
  BY <1>0, <1>2
  DEF ClaimSwaps, PopulateClaim, ConstructClaim, ClaimFails, BroadcastClaim,
      SetClaimTransactionId, FinalizeChainSwap, FinishClaim, ClaimSwapsReturns,
      Claims!Populate, Claims!ConstructClaim, Claims!ConstructFails,
      Claims!BroadcastFails, Claims!Broadcast, Claims!Rebroadcast,
      Claims!BroadcastUnanswered, Claims!Record, Claims!Finish, Claims!Return,
      Claims!Returned
<1> QED
  BY <1>1, <1>2, ClaimSteps

LEMMA OwnNext ==
  ASSUME TypeOK, SwapInv, CoinsStep, Next
  PROVE  OwnJobs'
<1>t. /\ Ws \in Threads /\ FromBlock \in Threads /\ ToBlock \in Threads
      /\ Ws # FromBlock /\ Ws # ToBlock
      /\ refunds \in [Threads -> Refunds!Job] /\ claims \in [Threads -> Claims!Job]
      /\ h \in Update
  BY ChainAssumption DEF TypeOK
<1>o. OwnJobs
  BY DEF SwapInv
<1>1. ASSUME UNCHANGED <<refunds, claims, h>> PROVE OwnJobs'
  BY <1>o, <1>1 DEF OwnJobs
<1>2. ASSUME NEW s \in Swaps,
             \/ CreateChainSwap(s) \/ SendToAddress(s) \/ SendToAddressFails(s)
             \/ Environment(s)
      PROVE  OwnJobs'
  BY <1>1, <1>2 DEF CreateChainSwap, SendToAddress, SendToAddressFails,
                    Environment, UserPays, ServerLocksUp, LockupConfirms,
                    ServerClaims, ServerTakesBack, EnvUnchanged, jobVars
<1>s. ASSUME NEW u, GoOn(u), h.pc \notin {"claim", "refund"}, UNCHANGED refunds
      PROVE  OwnJobs'
  <2>1. \A t \in Threads \ {Ws} : claims'[t] = claims[t]
    BY <1>s, <1>t DEF GoOn, Claims!Start
  <2>2. claims'[Ws].pc = "idle" \/ u.pc = "claim"
    BY <1>s, <1>t, <1>o DEF GoOn, OwnJobs
  <2>3. h' = u
    BY <1>s DEF GoOn
  <2> QED
    BY <1>s, <1>t, <1>o, <2>1, <2>2, <2>3 DEF OwnJobs
<1>3. ASSUME NEW s \in Swaps, ProcessUpdate(s) PROVE OwnJobs'
  BY <1>s, <1>3 DEF ProcessUpdate, LockFree
<1>4. CASE StoreLockups
  <2>1. CASE \E u : GoOn(u)
    BY <1>s, <1>4, <2>1 DEF StoreLockups
  <2>2. CASE UNCHANGED claims
    BY <1>4, <1>t, <1>o, <2>2 DEF StoreLockups, OwnJobs
  <2> QED
    BY <1>4, <2>1, <2>2 DEF StoreLockups
<1>5. CASE \/ GetChainSwapQuote \/ StoreAmounts \/ UpdateChainSwapStatus
  BY <1>5, <1>t, <1>o DEF GetChainSwapQuote, StoreAmounts, UpdateChainSwapStatus,
                          OwnJobs
<1>6. CASE ClaimReturned
  <2>1. /\ claims'[Ws].pc = "idle"
        /\ \A t \in Threads \ {Ws} : claims'[t] = claims[t]
    BY <1>6, <1>t DEF ClaimReturned, Claims!Return, Claims!NoJob
  <2> QED
    BY <1>6, <1>t, <1>o, <2>1 DEF ClaimReturned, OwnJobs
<1>7. CASE RefundReturned
  <2>1. /\ refunds'[Ws].pc = "idle"
        /\ \A t \in Threads \ {Ws} : refunds'[t] = refunds[t]
    BY <1>7, <1>t DEF RefundReturned, Refunds!Return, Refunds!NoJob
  <2> QED
    BY <1>7, <1>t, <1>o, <2>1 DEF RefundReturned, OwnJobs
<1>8. CASE FailChainSwap
  <2>1. CASE UNCHANGED refunds
    BY <1>8, <1>t, <1>o, <2>1 DEF FailChainSwap, OwnJobs
  <2>2. CASE \E S, coop : Refunds!Start(Ws, S, coop) /\ h' = [h EXCEPT !.pc = "refund"]
    <3>1. \A t \in Threads \ {Ws} : refunds'[t] = refunds[t]
      BY <1>t, <2>2 DEF Refunds!Start
    <3>2. h'.pc = "refund"
      BY <1>t, <2>2 DEF Update
    <3> QED
      BY <1>8, <1>t, <1>o, <3>1, <3>2 DEF FailChainSwap, OwnJobs
  <2> QED
    BY <1>8, <2>1, <2>2 DEF FailChainSwap
<1>9. CASE CheckRefundableSwaps
  <2>1. PICK S, coop : Refunds!Start(FromBlock, S, coop)
    BY <1>9 DEF CheckRefundableSwaps
  <2>2. \A t \in Threads \ {FromBlock} : refunds'[t] = refunds[t]
    BY <1>t, <2>1 DEF Refunds!Start
  <2> QED
    BY <1>9, <1>o, <2>2 DEF CheckRefundableSwaps, OwnJobs
<1>10. CASE CheckClaimableSwaps
  <2>1. PICK S, coop : Claims!Start(ToBlock, S, coop)
    BY <1>10 DEF CheckClaimableSwaps
  <2>2. \A t \in Threads \ {ToBlock} : claims'[t] = claims[t]
    BY <1>t, <2>1 DEF Claims!Start
  <2> QED
    BY <1>10, <1>o, <2>2 DEF CheckClaimableSwaps, OwnJobs
<1>11. CASE StopDaemon \/ FetchLockupsPanics
  BY <1>11 DEF StopDaemon, FetchLockupsPanics, OwnJobs, Refunds!NoJob, Claims!NoJob
<1>12. CASE Restart \/ RegisterBlock
  BY <1>1, <1>12 DEF Restart, RegisterBlock, jobVars
<1>13. ASSUME NEW t \in Threads, RefundSwaps(t) \/ ClaimSwaps(t) PROVE OwnJobs'
  BY <1>13, <1>o, RefundRuns, ClaimRuns DEF OwnJobs
<1> QED
  BY <1>2, <1>3, <1>4, <1>5, <1>6, <1>7, <1>8, <1>9, <1>10, <1>11, <1>12, <1>13
  DEF Next, HandleChainSwapStatus

\* A call that records its outputs does so until all are recorded.
LEMMA BookingKept ==
  ASSUME UNCHANGED booking,
         \A t \in Threads :
           /\ refunds[t].pc = "record" => refunds'[t].pc = "record"
           /\ claims[t].pc = "record" => claims'[t].pc = "record"
  PROVE  BookingStep
BY DEF BookingStep

LEMMA RefundBooking ==
  ASSUME TypeOK, SwapInv, CoinsStep, NEW t \in Threads, RefundSwaps(t)
  PROVE  BookingStep
<1>t. refunds \in [Threads -> Refunds!Job] /\ booking \in [Threads -> SUBSET Swaps]
      /\ row \in [Swaps -> Row]
  BY DEF TypeOK
<1>r. UNCHANGED claims /\ \A u \in Threads \ {t} : refunds'[u] = refunds[u]
  BY RefundRuns
<1>1. CASE \/ PopulateRefund(t) \/ ConstructRefund(t) \/ RefundFails(t)
           \/ BroadcastRefund(t) \/ FinishRefund(t) \/ RefundSwapsReturns(t)
  <2>1. UNCHANGED booking
    BY <1>1 DEF PopulateRefund, ConstructRefund, RefundFails, BroadcastRefund,
                FinishRefund, RefundSwapsReturns
  <2>2. refunds[t].pc # "record"
    BY <1>1 DEF PopulateRefund, ConstructRefund, RefundFails, BroadcastRefund,
                FinishRefund, RefundSwapsReturns, Refunds!Populate,
                Refunds!ConstructRefund, Refunds!ConstructFails,
                Refunds!BroadcastFails, Refunds!Broadcast, Refunds!Rebroadcast,
                Refunds!BroadcastUnanswered, Refunds!Finish, Refunds!Return,
                Refunds!Returned
  <2> QED
    BY <1>r, <2>1, <2>2, BookingKept
<1>2. ASSUME NEW s \in Swaps, SetRefundTransactionId(t, s) PROVE BookingStep
  <2>1. row'[s].refund /\ UNCHANGED <<refunds, claims>> /\ refunds[t].pc = "record"
    BY <1>2, <1>t DEF SetRefundTransactionId, RefundUnchanged, Row, Quoted
  <2>2. \A u \in Threads : \A x \in Swaps :
          x \in booking'[u] => x \in booking[u] \/ (u = t /\ x = s)
    BY <1>2, <1>t DEF SetRefundTransactionId
  <2> QED
    BY <2>1, <2>2 DEF BookingStep
<1>3. ASSUME NEW s \in Swaps, SetRefunded(t, s) PROVE BookingStep
  <2>1. \A u \in Threads : \A x \in Swaps :
          x \in booking'[u] => x \in booking[u] /\ u # t
    BY <1>3, <1>t DEF SetRefunded
  <2> QED
    BY <1>r, <2>1 DEF BookingStep
<1> QED
  BY <1>1, <1>2, <1>3 DEF RefundSwaps

LEMMA ClaimBooking ==
  ASSUME TypeOK, SwapInv, CoinsStep, NEW t \in Threads, ClaimSwaps(t)
  PROVE  BookingStep
<1>t. claims \in [Threads -> Claims!Job] /\ booking \in [Threads -> SUBSET Swaps]
      /\ row \in [Swaps -> Row]
  BY DEF TypeOK
<1>r. UNCHANGED refunds /\ \A u \in Threads \ {t} : claims'[u] = claims[u]
  BY ClaimRuns
<1>1. CASE \/ PopulateClaim(t) \/ ConstructClaim(t) \/ ClaimFails(t)
           \/ BroadcastClaim(t) \/ FinishClaim(t) \/ ClaimSwapsReturns(t)
  <2>1. UNCHANGED booking
    BY <1>1 DEF PopulateClaim, ConstructClaim, ClaimFails, BroadcastClaim,
                FinishClaim, ClaimSwapsReturns
  <2>2. claims[t].pc # "record"
    BY <1>1 DEF PopulateClaim, ConstructClaim, ClaimFails, BroadcastClaim,
                FinishClaim, ClaimSwapsReturns, Claims!Populate,
                Claims!ConstructClaim, Claims!ConstructFails,
                Claims!BroadcastFails, Claims!Broadcast, Claims!Rebroadcast,
                Claims!BroadcastUnanswered, Claims!Finish, Claims!Return,
                Claims!Returned
  <2> QED
    BY <1>r, <2>1, <2>2, BookingKept
<1>2. ASSUME NEW s \in Swaps, SetClaimTransactionId(t, s) PROVE BookingStep
  <2>1. row'[s].claim /\ UNCHANGED <<refunds, claims>> /\ claims[t].pc = "record"
    BY <1>2, <1>t DEF SetClaimTransactionId, ClaimUnchanged, Row, Quoted
  <2>2. \A u \in Threads : \A x \in Swaps :
          x \in booking'[u] => x \in booking[u] \/ (u = t /\ x = s)
    BY <1>2, <1>t DEF SetClaimTransactionId
  <2> QED
    BY <2>1, <2>2 DEF BookingStep
<1>3. ASSUME NEW s \in Swaps, FinalizeChainSwap(t, s) PROVE BookingStep
  <2>1. \A u \in Threads : \A x \in Swaps :
          x \in booking'[u] => x \in booking[u] /\ u # t
    BY <1>3, <1>t DEF FinalizeChainSwap
  <2> QED
    BY <1>r, <2>1 DEF BookingStep
<1> QED
  BY <1>1, <1>2, <1>3 DEF ClaimSwaps

LEMMA BookingNext ==
  ASSUME TypeOK, SwapInv, CoinsStep, Next
  PROVE  BookingStep
<1>t. /\ Ws \in Threads /\ FromBlock \in Threads /\ ToBlock \in Threads
      /\ refunds \in [Threads -> Refunds!Job] /\ claims \in [Threads -> Claims!Job]
  BY ChainAssumption DEF TypeOK
<1>1. ASSUME UNCHANGED jobVars PROVE BookingStep
  BY <1>1, BookingKept DEF jobVars
<1>r. ASSUME NEW t \in Threads, NEW S, NEW coop, Refunds!Start(t, S, coop),
             UNCHANGED <<claims, booking>>
      PROVE  BookingStep
  <2>1. \A u \in Threads : refunds[u].pc = "record" => refunds'[u] = refunds[u]
    BY <1>r, <1>t DEF Refunds!Start
  <2> QED
    BY <1>r, <2>1, BookingKept
<1>c. ASSUME NEW t \in Threads, NEW S, NEW coop, Claims!Start(t, S, coop),
             UNCHANGED <<refunds, booking>>
      PROVE  BookingStep
  <2>1. \A u \in Threads : claims[u].pc = "record" => claims'[u] = claims[u]
    BY <1>c, <1>t DEF Claims!Start
  <2> QED
    BY <1>c, <2>1, BookingKept
<1>2. ASSUME NEW s \in Swaps,
             \/ CreateChainSwap(s) \/ SendToAddress(s) \/ SendToAddressFails(s)
             \/ Environment(s)
      PROVE  BookingStep
  BY <1>1, <1>2 DEF CreateChainSwap, SendToAddress, SendToAddressFails,
                    Environment, UserPays, ServerLocksUp, LockupConfirms,
                    ServerClaims, ServerTakesBack, EnvUnchanged
<1>g. ASSUME NEW u, GoOn(u), UNCHANGED <<refunds, booking>> PROVE BookingStep
  BY <1>c, <1>g, <1>t, <1>1 DEF GoOn, jobVars
<1>3. ASSUME NEW s \in Swaps, ProcessUpdate(s) PROVE BookingStep
  BY <1>g, <1>3 DEF ProcessUpdate
<1>4. CASE StoreLockups
  BY <1>g, <1>1, <1>4 DEF StoreLockups, HandlerUnchanged, jobVars
<1>5. CASE GetChainSwapQuote \/ StoreAmounts \/ UpdateChainSwapStatus
  BY <1>1, <1>5 DEF GetChainSwapQuote, StoreAmounts, UpdateChainSwapStatus,
                    HandlerUnchanged, jobVars
<1>6. CASE ClaimReturned
  <2>1. \A u \in Threads : claims[u].pc = "record" => claims'[u] = claims[u]
    BY <1>6, <1>t DEF ClaimReturned, Claims!Return, Claims!Returned
  <2> QED
    BY <1>6, <2>1, BookingKept DEF ClaimReturned, HandlerUnchanged
<1>7. CASE RefundReturned
  <2>1. \A u \in Threads : refunds[u].pc = "record" => refunds'[u] = refunds[u]
    BY <1>7, <1>t DEF RefundReturned, Refunds!Return, Refunds!Returned
  <2> QED
    BY <1>7, <2>1, BookingKept DEF RefundReturned, HandlerUnchanged
<1>8. CASE FailChainSwap
  BY <1>8, <1>r, <1>1, <1>t DEF FailChainSwap, HandlerUnchanged, jobVars
<1>9. CASE CheckRefundableSwaps \/ CheckClaimableSwaps
  BY <1>9, <1>r, <1>c, <1>t DEF CheckRefundableSwaps, CheckClaimableSwaps
<1>10. CASE StopDaemon \/ FetchLockupsPanics
  BY <1>10 DEF StopDaemon, FetchLockupsPanics, BookingStep
<1>11. CASE Restart \/ RegisterBlock
  BY <1>1, <1>11 DEF Restart, RegisterBlock
<1> QED
  BY <1>2, <1>3, <1>4, <1>5, <1>6, <1>7, <1>8, <1>9, <1>10, <1>11,
     RefundBooking, ClaimBooking
  DEF Next, HandleChainSwapStatus

\* Only the construction of a claim gives preimages away.
LEMMA RevealedMoves ==
  ASSUME Next
  PROVE  UNCHANGED revealed \/ \E t \in Threads : ConstructClaim(t)
<1>1. ASSUME NEW s \in Swaps,
             \/ CreateChainSwap(s) \/ SendToAddress(s) \/ SendToAddressFails(s)
             \/ ProcessUpdate(s) \/ Environment(s)
      PROVE  UNCHANGED revealed
  BY <1>1 DEF CreateChainSwap, SendToAddress, SendToAddressFails, ProcessUpdate,
              Environment, UserPays, ServerLocksUp, LockupConfirms, ServerClaims,
              ServerTakesBack, EnvUnchanged, chainVars
<1>2. ASSUME HandleChainSwapStatus PROVE UNCHANGED revealed
  BY <1>2 DEF HandleChainSwapStatus, StoreLockups, GetChainSwapQuote,
              StoreAmounts, ClaimReturned, UpdateChainSwapStatus, FailChainSwap,
              RefundReturned, HandlerUnchanged, chainVars
<1>3. ASSUME \/ CheckRefundableSwaps \/ CheckClaimableSwaps \/ StopDaemon
             \/ FetchLockupsPanics \/ Restart \/ RegisterBlock
      PROVE  UNCHANGED revealed
  BY <1>3 DEF CheckRefundableSwaps, CheckClaimableSwaps, StopDaemon,
              FetchLockupsPanics, Restart, RegisterBlock, chainVars
<1>4. ASSUME NEW t \in Threads, RefundSwaps(t) PROVE UNCHANGED revealed
  BY <1>4 DEF RefundSwaps, PopulateRefund, ConstructRefund, RefundFails,
              BroadcastRefund, SetRefundTransactionId, SetRefunded, FinishRefund,
              RefundSwapsReturns, RefundUnchanged
<1>5. ASSUME NEW t \in Threads, ClaimSwaps(t), ~ConstructClaim(t)
      PROVE  UNCHANGED revealed
  BY <1>5 DEF ClaimSwaps, PopulateClaim, ClaimFails, BroadcastClaim,
              SetClaimTransactionId, FinalizeChainSwap, FinishClaim,
              ClaimSwapsReturns
<1> QED
  BY <1>1, <1>2, <1>3, <1>4, <1>5 DEF Next

LEMMA RevealedNext ==
  ASSUME TypeOK, SwapInv, Next
  PROVE  RevealedStep
<1>1. ASSUME NEW t \in Threads, ConstructClaim(t) PROVE RevealedStep
  <2>1. claims[t].pc = "construct"
    BY <1>1 DEF ConstructClaim, Claims!ConstructClaim
  <2>2. \A s \in Swaps : s \in claims[t].outs =>
          Good(s) /\ Priced(s) /\ to[s] # "none"
    BY <2>1 DEF SwapInv, ClaimOutputs, C!CallInv
  <2> QED
    BY <1>1, <2>2 DEF ConstructClaim, RevealedStep
<1>2. CASE UNCHANGED revealed
  BY <1>2 DEF RevealedStep
<1> QED
  BY <1>1, <1>2, RevealedMoves

-----------------------------------------------------------------------------
(***************************************************************************)
(* The types of the rest.                                                  *)
(***************************************************************************)
LEMMA NoUpdateTyped == NoUpdate \in Update
BY ChainAssumption DEF NoUpdate, Update, UpdateStep, SwapState, SwapUpdateEvent,
   CompletedStatus, FailedStatus

\* The copy of an update is made of a row, and its swap is one that there is.
LEMMA UpdateNext ==
  ASSUME TypeOK, Next
  PROVE  h' \in Update /\ UpdateStepOK
<1>0. /\ h \in Update /\ (h.pc # "idle" => Exists(h.swap))
      /\ NoUpdate \in Update /\ NoUpdate.pc = "idle"
  BY NoUpdateTyped DEF TypeOK, NoUpdate
<1> DEFINE Fine == h' \in Update /\ UpdateStepOK
<1>k. ASSUME UNCHANGED h PROVE Fine
  BY <1>0, <1>k DEF UpdateStepOK
<1>n. ASSUME h' = NoUpdate PROVE Fine
  BY <1>0, <1>n DEF UpdateStepOK
<1>m. ASSUME NEW pc \in UpdateStep, h' = [h EXCEPT !.pc = pc], h.pc # "idle"
      PROVE  Fine
  BY <1>0, <1>m DEF UpdateStepOK, Update
<1>s. {"amounts", "claim", "quote", "status", "failed", "refund", "lockups"}
        \subseteq UpdateStep
  BY DEF UpdateStep
<1>d. \A ev, r : Dispatch(ev, r) \in UpdateStep
  BY DEF Dispatch, UpdateStep
<1>1. ASSUME NEW s \in Swaps, ProcessUpdate(s) PROVE Fine
  <2>1. PICK ev \in Reports :
          h' = [pc      |-> IF \/ ev \in MempoolStatus
                               \/ ~row[s].from \/ ~row[s].to
                            THEN "lockups" ELSE Dispatch(ev, row[s]),
                swap    |-> s,
                ev      |-> ev,
                state   |-> row[s].state,
                dest    |-> row[s].dest,
                noQuote |-> FALSE]
    BY <1>1 DEF ProcessUpdate, GoOn
  <2>2. ev \in SwapUpdateEvent
    BY ChainAssumption DEF AnyStatus, SwapUpdateEvent, CompletedStatus, FailedStatus
  <2>3. row[s] \in Row /\ Exists(s)
    BY <1>1 DEF TypeOK, ProcessUpdate, QueryAnySwap
  <2>4. h'.pc \in UpdateStep
    BY <1>s, <1>d, <2>1
  <2> QED
    BY <2>1, <2>2, <2>3, <2>4 DEF Row, Quoted, Update, UpdateStepOK
<1>2. CASE StoreLockups
  <2>1. h.pc # "idle"
    BY <1>2 DEF StoreLockups
  <2>2. CASE h' = NoUpdate
    BY <1>n, <2>2
  <2>3. CASE \E r : h' = [h EXCEPT !.pc = Dispatch(h.ev, r)]
    BY <1>d, <1>m, <2>1, <2>3
  <2> QED
    BY <1>2, <2>2, <2>3 DEF StoreLockups, GoOn
<1>3. CASE GetChainSwapQuote
  <2>1. ASSUME h' = [h EXCEPT !.pc = "status", !.noQuote = TRUE], h.pc # "idle"
        PROVE  Fine
    BY <1>0, <2>1 DEF UpdateStepOK, Update, UpdateStep
  <2> QED
    BY <1>3, <1>n, <1>m, <1>s, <2>1 DEF GetChainSwapQuote, HandleError
<1>4. CASE \/ StoreAmounts \/ ClaimReturned \/ UpdateChainSwapStatus
           \/ FailChainSwap \/ RefundReturned
  BY <1>4, <1>n, <1>m, <1>s DEF StoreAmounts, ClaimReturned, FailChainSwap,
                                UpdateChainSwapStatus, RefundReturned, HandleError
<1>5. ASSUME NEW s \in Swaps,
             \/ CreateChainSwap(s) \/ SendToAddress(s) \/ SendToAddressFails(s)
             \/ Environment(s)
      PROVE  UNCHANGED h
  BY <1>5 DEF CreateChainSwap, SendToAddress, SendToAddressFails, Environment,
              UserPays, ServerLocksUp, LockupConfirms, ServerClaims,
              ServerTakesBack, EnvUnchanged
<1>6. ASSUME CheckRefundableSwaps \/ CheckClaimableSwaps \/ Restart \/ RegisterBlock
      PROVE  UNCHANGED h
  BY <1>6 DEF CheckRefundableSwaps, CheckClaimableSwaps, Restart, RegisterBlock
<1>7. CASE StopDaemon \/ FetchLockupsPanics
  BY <1>7, <1>n DEF StopDaemon, FetchLockupsPanics
<1>8. ASSUME NEW t \in Threads, RefundSwaps(t) \/ ClaimSwaps(t) PROVE UNCHANGED h
  BY <1>8
  DEF RefundSwaps, PopulateRefund, ConstructRefund, RefundFails, BroadcastRefund,
      SetRefundTransactionId, SetRefunded, FinishRefund, RefundSwapsReturns,
      RefundUnchanged, ClaimSwaps, PopulateClaim, ConstructClaim, ClaimFails,
      BroadcastClaim, SetClaimTransactionId, FinalizeChainSwap, FinishClaim,
      ClaimSwapsReturns, ClaimUnchanged
<1> QED
  BY <1>k, <1>1, <1>2, <1>3, <1>4, <1>5, <1>6, <1>7, <1>8
  DEF Next, HandleChainSwapStatus

LEMMA RestNext ==
  ASSUME TypeOK, Next
  PROVE  RestOK'
<1>0. RestOK
  BY DEF TypeOK, RestOK
<1>h. h' \in Update
  BY UpdateNext
<1>v. revealed' \subseteq Swaps
  <2>1. \A t \in Threads : claims[t].outs \subseteq Swaps
    BY DEF TypeOK, Claims!Job
  <2> QED
    BY <1>0, <2>1, RevealedMoves DEF RestOK, ConstructClaim
<1>1. ASSUME NEW s \in Swaps,
             \/ CreateChainSwap(s) \/ SendToAddress(s) \/ SendToAddressFails(s)
             \/ ProcessUpdate(s) \/ Environment(s)
      PROVE  RestOK'
  <2>1. paying' \subseteq Swaps /\ UNCHANGED <<booking, height, daemon>>
    BY <1>0, <1>1 DEF CreateChainSwap, SendToAddress, SendToAddressFails,
                      ProcessUpdate, Environment, UserPays, ServerLocksUp,
                      LockupConfirms, ServerClaims, ServerTakesBack,
                      EnvUnchanged, jobVars, RestOK
  <2> QED
    BY <1>0, <1>h, <1>v, <2>1 DEF RestOK
<1>2. CASE HandleChainSwapStatus
  <2>1. HandlerUnchanged
    BY <1>2 DEF HandleChainSwapStatus, StoreLockups, GetChainSwapQuote,
                StoreAmounts, ClaimReturned, UpdateChainSwapStatus,
                FailChainSwap, RefundReturned
  <2> QED
    BY <1>0, <1>h, <1>v, <2>1 DEF HandlerUnchanged, RestOK
<1>3. CASE CheckRefundableSwaps \/ CheckClaimableSwaps
  BY <1>0, <1>h, <1>v, <1>3 DEF CheckRefundableSwaps, CheckClaimableSwaps, RestOK
<1>4. CASE StopDaemon \/ FetchLockupsPanics
  BY <1>0, <1>h, <1>v, <1>4 DEF StopDaemon, FetchLockupsPanics, RestOK
<1>5. CASE Restart
  BY <1>0, <1>h, <1>v, <1>5 DEF Restart, jobVars, RestOK
<1>6. CASE RegisterBlock
  <2>1. height' \in 0 .. MaxHeight
    BY <1>0, <1>6, ChainAssumption DEF RegisterBlock, RestOK
  <2> QED
    BY <1>0, <1>h, <1>v, <1>6, <2>1 DEF RegisterBlock, jobVars, RestOK
<1>b. ASSUME NEW t \in Threads, NEW S \in SUBSET Swaps,
             UNCHANGED booking \/ booking' = [booking EXCEPT ![t] = S],
             UNCHANGED <<height, daemon, paying>>
      PROVE  RestOK'
  BY <1>0, <1>h, <1>v, <1>b DEF RestOK
<1>e. \A s \in Swaps : {s} \in SUBSET Swaps /\ {} \in SUBSET Swaps
  OBVIOUS
<1>7. ASSUME NEW t \in Threads, RefundSwaps(t) PROVE RestOK'
  <2>1. UNCHANGED booking \/ \E S \in SUBSET Swaps : booking' = [booking EXCEPT ![t] = S]
    BY <1>7, <1>e
    DEF RefundSwaps, PopulateRefund, ConstructRefund, RefundFails,
        BroadcastRefund, SetRefundTransactionId, SetRefunded, FinishRefund,
        RefundSwapsReturns
  <2>2. RefundUnchanged
    BY <1>7
    DEF RefundSwaps, PopulateRefund, ConstructRefund, RefundFails,
        BroadcastRefund, SetRefundTransactionId, SetRefunded, FinishRefund,
        RefundSwapsReturns
  <2> QED
    BY <1>b, <2>1, <2>2 DEF RefundUnchanged
<1>8. ASSUME NEW t \in Threads, ClaimSwaps(t) PROVE RestOK'
  <2>1. UNCHANGED booking \/ \E S \in SUBSET Swaps : booking' = [booking EXCEPT ![t] = S]
    BY <1>8, <1>e
    DEF ClaimSwaps, PopulateClaim, ConstructClaim, ClaimFails, BroadcastClaim,
        SetClaimTransactionId, FinalizeChainSwap, FinishClaim, ClaimSwapsReturns
  <2>2. ClaimUnchanged
    BY <1>8
    DEF ClaimSwaps, PopulateClaim, ConstructClaim, ClaimFails, BroadcastClaim,
        SetClaimTransactionId, FinalizeChainSwap, FinishClaim, ClaimSwapsReturns
  <2> QED
    BY <1>b, <2>1, <2>2 DEF ClaimUnchanged
<1> QED
  BY <1>1, <1>2, <1>3, <1>4, <1>5, <1>6, <1>7, <1>8 DEF Next

-----------------------------------------------------------------------------
(***************************************************************************)
(* The invariant and what follows from it.                                 *)
(***************************************************************************)
LEMMA InvInit == Init => TypeOK /\ SwapInv
<1> SUFFICES ASSUME Init PROVE TypeOK /\ SwapInv
  OBVIOUS
<1>1. NoRow \in Row /\ ~NoRow.claim /\ ~NoRow.refund /\ NoRow.state = "NONE"
  BY DEF NoRow, Row, Quoted, SwapState, SwapUpdateEvent
<1>2. row \in [Swaps -> Row] /\ \A s \in Swaps : row[s] = NoRow
  BY <1>1 DEF Init
<1>3. NoUpdate \in Update /\ NoUpdate.pc = "idle" /\ h = NoUpdate
  BY NoUpdateTyped DEF NoUpdate, Init
<1>4. /\ Refunds!NoJob \in Refunds!Job /\ Claims!NoJob \in Claims!Job
      /\ refunds = [t \in Threads |-> Refunds!NoJob]
      /\ claims = [t \in Threads |-> Claims!NoJob]
  BY DEF Init, Refunds!NoJob, Refunds!Job, Refunds!JobStep, Claims!NoJob,
         Claims!Job, Claims!JobStep
<1>5. TypeOK
  BY <1>2, <1>3, <1>4, ChainAssumption DEF Init, TypeOK, Refunds!Coins,
     Claims!Coins, Value
<1>6. SwapInv
  BY <1>1, <1>2, <1>4
  DEF Init, SwapInv, R!CallInv, C!CallInv, OwnJobs, RefundOutputs, ClaimOutputs,
      BookedIsStored, PreimageOnlyForLockup, RecordsAreReal, Refunds!NoJob,
      Claims!NoJob
<1> QED
  BY <1>5, <1>6

LEMMA InvNext == TypeOK /\ SwapInv /\ [Next]_vars => (TypeOK /\ SwapInv)'
<1>1. ASSUME TypeOK, SwapInv, Next PROVE (TypeOK /\ SwapInv)'
  <2>1. RowsStep /\ CoinsStep
    BY <1>1, RowsNext, CoinsNext
  <2>2. RefundsStep /\ ClaimsStep /\ OwnJobs'
    BY <1>1, <2>1, RefundsNext, ClaimsNext, OwnNext
  <2>3. BookingStep /\ RevealedStep
    BY <1>1, <2>1, BookingNext, RevealedNext
  <2>4. RestOK' /\ UpdateStepOK /\ revealed' \subseteq Swaps
    BY <1>1, RestNext, UpdateNext DEF RestOK
  <2> QED
    BY <1>1, <2>1, <2>2, <2>3, <2>4, TypeKept, SwapKept
<1>2. ASSUME TypeOK, SwapInv, UNCHANGED vars PROVE (TypeOK /\ SwapInv)'
  <2>1. RowsStep /\ CoinsStep
    BY <1>2, RowsUnchanged, CoinsUnchanged DEF vars, chainVars
  <2>2. RefundsStep /\ ClaimsStep
    BY <1>2, <2>1, RefundsUnchanged, ClaimsUnchanged DEF vars, jobVars
  <2>3. OwnJobs' /\ BookingStep /\ RevealedStep
    BY <1>2 DEF vars, jobVars, chainVars, SwapInv, OwnJobs, BookingStep,
                RevealedStep
  <2>4. RestOK' /\ UpdateStepOK /\ revealed' \subseteq Swaps
    BY <1>2 DEF vars, jobVars, chainVars, TypeOK, RestOK, UpdateStepOK
  <2> QED
    BY <1>2, <2>1, <2>2, <2>3, <2>4, TypeKept, SwapKept
<1> QED
  BY <1>1, <1>2

LEMMA InvAlways == Spec => [](TypeOK /\ SwapInv)
BY InvInit, InvNext, PTL DEF Spec

\* In every reachable state the variables have their types, and no column of
\* a swap without a row is written.
THEOREM TypeCorrect == Spec => []TypeOK
BY InvAlways, PTL

\* The preimage has only been given away for coins that were locked up, confirmed
\* unless the user took unconfirmed ones, and, if the swap was created with an
\* amount, of this amount or that of a quote; whatever lightzd says.
THEOREM PreimageIsEarned == Spec => []PreimageOnlyForLockup
<1>1. SwapInv => PreimageOnlyForLockup
  BY DEF SwapInv
<1> QED
  BY InvAlways, <1>1, PTL

\* The claims and refunds in the database are on chain, and SUCCESSFUL and
\* REFUNDED are about one each, in whatever order three goroutines store them.
THEOREM RecordsAreTrue == Spec => []RecordsAreReal
<1>1. SwapInv => RecordsAreReal
  BY DEF SwapInv
<1> QED
  BY InvAlways, <1>1, PTL

\* What the nursery stores of a quote is no overcharge: such a quote does not
\* pass CheckAmounts, whatever wraps around in it.
LEMMA AcceptedIsFair == AcceptedAs \subseteq {"fair"}
<1>1. \A o \in AcceptedQuotes : ~IsOvercharge(o)
  BY PassedAmounts DEF AcceptedQuotes
<1> QED
  BY <1>1 DEF AcceptedAs

\* No quote of lightzd is stored that costs more than the service fee, the
\* network fees and the tolerance (chain.go:223).
THEOREM QuotesAreFair == Spec => []NeverOvercharged
<1>1. Init => NeverOvercharged
  <2>1. NoRow.quoted = "no"
    BY DEF NoRow
  <2>2. Init => \A s \in Swaps : row[s] = NoRow
    BY DEF Init
  <2> QED
    BY <2>1, <2>2 DEF NeverOvercharged
<1>2. TypeOK /\ SwapInv /\ NeverOvercharged /\ [Next]_vars => NeverOvercharged'
  <2> SUFFICES ASSUME TypeOK, SwapInv, NeverOvercharged, [Next]_vars
               PROVE  NeverOvercharged'
    OBVIOUS
  <2>1. RowsStep
    BY RowsNext, RowsUnchanged DEF vars
  <2>2. \A s \in Swaps : row'[s].quoted \in {row[s].quoted} \cup AcceptedAs
    BY <2>1 DEF RowsStep, RowStep
  <2> QED
    BY <2>2, AcceptedIsFair DEF NeverOvercharged
<1> QED
  BY <1>1, <1>2, InvAlways, PTL DEF Spec

-----------------------------------------------------------------------------
(***************************************************************************)
(* The refinement of ChainContract.  Rows and goroutines are hidden: a     *)
(* step that moves no coins and reveals nothing is Show.                   *)
(***************************************************************************)
LEMMA ContractInit == Init => Contract!Init
<1> SUFFICES ASSUME Init PROVE Contract!Init
  OBVIOUS
<1>1. \A s \in Swaps : /\ from[s] = "none" /\ to[s] = "none" /\ s \notin revealed
                       /\ row[s].state = "NONE"
  BY DEF Init, NoRow
<1>2. [s \in Swaps |-> IF from[s] \in Refunds!Unspent THEN "locked" ELSE from[s]]
        = [s \in Swaps |-> "none"]
  BY <1>1 DEF Refunds!Unspent
<1>3. [s \in Swaps |-> IF to[s] \in Claims!Unspent THEN "locked" ELSE to[s]]
        = [s \in Swaps |-> "none"]
  BY <1>1 DEF Claims!Unspent
<1>4. [s \in Swaps |-> s \notin revealed] = [s \in Swaps |-> TRUE]
  <2>1. \A s \in Swaps : (s \notin revealed) = TRUE
    BY <1>1, Zenon
  <2> QED
    BY <2>1, Zenon
<1>5. [s \in Swaps |-> CASE row[s].state = "SUCCESSFUL" -> "success"
                         [] row[s].state = "REFUNDED" -> "refund"
                         [] OTHER -> "open"]
        = [s \in Swaps |-> "open"]
  BY <1>1
<1> QED
  BY <1>2, <1>3, <1>4, <1>5 DEF Contract!Init

\* What the rows show is true, whoever wrote them.
LEMMA ContractShows ==
  ASSUME SwapInv', UNCHANGED <<from, to, revealed>>
  PROVE  Contract!Next
<1> DEFINE Verdict(s) == CASE row'[s].state = "SUCCESSFUL" -> "success"
                           [] row'[s].state = "REFUNDED" -> "refund"
                           [] OTHER -> "open"
<1>1. \A s \in Swaps :
        /\ Verdict(s) \in {"open", "success", "refund"}
        /\ Verdict(s) = "success" => row'[s].state = "SUCCESSFUL"
        /\ Verdict(s) = "refund" => row'[s].state = "REFUNDED"
  OBVIOUS
<1>2. PICK verdict \in [Swaps -> {"open", "success", "refund"}] :
        verdict = [s \in Swaps |-> Verdict(s)]
  BY <1>1
<1>3. \A s \in Swaps : /\ verdict[s] = "success" => to'[s] = "client"
                       /\ verdict[s] = "refund" => from'[s] = "client"
  BY <1>1, <1>2 DEF SwapInv, RecordsAreReal
<1>4. Contract!Show(verdict)
  BY <1>2, <1>3 DEF Contract!Show, Refunds!Unspent, Claims!Unspent
<1> QED
  BY <1>4 DEF Contract!Next

\* A broadcast refunds, or claims, all the inputs of the transaction at once;
\* the preimages of a claim have left before.
LEMMA ContractBroadcasts ==
  ASSUME TypeOK, SwapInv, NEW t \in Threads, BroadcastRefund(t) \/ BroadcastClaim(t)
  PROVE  [Contract!Next]_Contract!vars
<1>1. CASE BroadcastRefund(t)
  <2>0. UNCHANGED <<row, to, revealed>>
    BY <1>1 DEF BroadcastRefund, RefundUnchanged
  <2>1. CASE UNCHANGED from
    BY <2>0, <2>1 DEF Contract!vars
  <2>2. CASE Refunds!Valid(t) /\ Refunds!Spend(t)
    <3>1. PICK S \in SUBSET Swaps : S = refunds[t].ins
      BY DEF TypeOK, Refunds!Job
    <3>2. Contract!ClientRefunds(S)
      BY <2>0, <2>2, <3>1 DEF Contract!ClientRefunds, Refunds!Valid,
                              Refunds!Spend, Refunds!Unspent
    <3> QED
      BY <3>2 DEF Contract!Next
  <2> QED
    BY <1>1, <2>1, <2>2 DEF BroadcastRefund, Refunds!Broadcast,
                            Refunds!Rebroadcast, Refunds!BroadcastUnanswered
<1>2. CASE BroadcastClaim(t)
  <2>0. UNCHANGED <<row, from, revealed>>
    BY <1>2 DEF BroadcastClaim, ClaimUnchanged
  <2>1. CASE UNCHANGED to
    BY <2>0, <2>1 DEF Contract!vars
  <2>2. CASE Claims!Valid(t) /\ Claims!Spend(t) /\ claims[t].pc = "broadcast"
    <3>1. PICK S \in SUBSET Swaps : S = claims[t].ins
      BY DEF TypeOK, Claims!Job
    <3>2. \A s \in S : s \in revealed
      BY <2>2, <3>1 DEF SwapInv, ClaimOutputs
    <3>3. Contract!ClientClaims(S)
      BY <2>0, <2>2, <3>1, <3>2 DEF Contract!ClientClaims, Claims!Valid,
                                    Claims!Spend, Claims!Unspent
    <3> QED
      BY <3>3 DEF Contract!Next
  <2> QED
    BY <1>2, <2>1, <2>2 DEF BroadcastClaim, Claims!Broadcast,
                            Claims!Rebroadcast, Claims!BroadcastUnanswered
<1> QED
  BY <1>1, <1>2

\* The construction of a claim gives the preimages of all its outputs away.
LEMMA ContractReveals ==
  ASSUME TypeOK, SwapInv, NEW t \in Threads, ConstructClaim(t)
  PROVE  [Contract!Next]_Contract!vars
<1>1. PICK S \in SUBSET Swaps : S = claims[t].outs
  BY DEF TypeOK, Claims!Job
<1>2. \A s \in S : to[s] # "none"
  BY <1>1 DEF SwapInv, C!CallInv, ConstructClaim, Claims!ConstructClaim
<1>3. UNCHANGED <<row, from, to>> /\ revealed' = revealed \cup S
  BY <1>1 DEF ConstructClaim, Claims!ConstructClaim, ClaimUnchanged
<1>4. \A s \in Swaps : (s \notin revealed') = (s \notin revealed /\ s \notin S)
  BY <1>3, Zenon
<1>5. Contract!Reveal(S)
  BY <1>2, <1>3, <1>4 DEF Contract!Reveal, Claims!Unspent
<1> QED
  BY <1>5 DEF Contract!Next

\* Whoever pays and lightzd only do what their side of the contract allows.
LEMMA ContractOthers ==
  ASSUME TypeOK, NEW s \in Swaps, SendToAddress(s) \/ Environment(s)
  PROVE  [Contract!Next]_Contract!vars
<1>0. UNCHANGED <<row, revealed>>
  BY DEF SendToAddress, Environment, UserPays, ServerLocksUp, LockupConfirms,
         ServerClaims, ServerTakesBack, EnvUnchanged
<1>t. from \in [Swaps -> Refunds!Coins] /\ to \in [Swaps -> Claims!Coins]
  BY DEF TypeOK
<1>1. CASE SendToAddress(s) \/ UserPays(s)
  <2>1. Contract!UserLocks(s)
    BY <1>0, <1>1, <1>t DEF SendToAddress, UserPays, Contract!UserLocks,
                            Refunds!Unspent
  <2> QED
    BY <2>1 DEF Contract!Next
<1>2. CASE ServerLocksUp(s)
  <2>1. Contract!ServerLocks(s)
    BY <1>0, <1>2, <1>t DEF ServerLocksUp, Contract!ServerLocks, Claims!Unspent
  <2> QED
    BY <2>1 DEF Contract!Next
<1>3. CASE LockupConfirms(s)
  BY <1>0, <1>3, <1>t DEF LockupConfirms, Contract!vars, Claims!Unspent
<1>4. CASE ServerClaims(s)
  <2>1. Contract!ServerClaims(s)
    BY <1>0, <1>4, <1>t DEF ServerClaims, Contract!ServerClaims, Refunds!Unspent
  <2> QED
    BY <2>1 DEF Contract!Next
<1>5. CASE ServerTakesBack(s)
  <2>1. Contract!ServerRefunds(s)
    BY <1>0, <1>5, <1>t DEF ServerTakesBack, Contract!ServerRefunds, Claims!Unspent
  <2> QED
    BY <2>1 DEF Contract!Next
<1> QED
  BY <1>1, <1>2, <1>3, <1>4, <1>5 DEF Environment

LEMMA ContractNext ==
  ASSUME TypeOK, SwapInv, SwapInv', [Next]_vars
  PROVE  [Contract!Next]_Contract!vars
<1>1. CASE Next
  BY <1>1, ContractShows, ContractBroadcasts, ContractReveals, ContractOthers,
     MoneyMoves, RevealedMoves
<1>2. CASE UNCHANGED vars
  BY <1>2 DEF vars, chainVars, Contract!vars
<1> QED
  BY <1>1, <1>2

\* The chain swap implements its contract: the client gives up its coins only
\* for coins it could have had, and shows only successes and refunds it has.
THEOREM ChainSwapKeepsContract == Spec => KeepsContract
<1>1. TypeOK /\ SwapInv /\ (TypeOK /\ SwapInv)' /\ [Next]_vars
        => [Contract!Next]_Contract!vars
  BY ContractNext
<1> QED
  BY <1>1, ContractInit, InvAlways, PTL DEF Spec, KeepsContract, Contract!Spec
=============================================================================
