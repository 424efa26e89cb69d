-------------------------- MODULE ReverseSwapProofs -------------------------
(***************************************************************************)
(* Proofs about reverse swaps, for any number of swaps and goroutines, any *)
(* faults, and any behaviour of lightzd and the payer.                     *)
(*                                                                         *)
(* What a claim relies on is read long before it is used: a row says what  *)
(* lightzd said, the outputs of a call are chosen before it runs, and the  *)
(* id of a claim is stored before the state.  ClaimInv says what remains   *)
(* true of each of them meanwhile.                                         *)
(***************************************************************************)
EXTENDS ReverseSwap, CreateTransactionProofs, SequenceTheorems

\* The lockup of s may be claimed if it is there at all.
Good(s) == Exists(s) /\ (row[s].zeroConf \/ LockupConfirmed(s))

\* Calls and requests to make one only have such swaps.
GoodOutputs ==
  /\ \A t \in Threads : \A s \in Swaps :
       s \in job[t].outs \cup job[t].todo => Good(s)
  /\ \A t \in Rpcs : \A s \in Swaps : s \in asked[t] => Good(s)

\* A check of direct payments only looks at swaps there are.
ListedExist == \A t \in Checkers : \A s \in Swaps : s \in listed[t] => Exists(s)

\* The coins of a swap whose state is about to be stored were claimed.
BookedIsClaimed ==
  \A t \in Threads : \A s \in Swaps : s \in booking[t] => coins[s] = "client"

\* A lightzd that follows the protocol takes its coins back only once the
\* payment has failed for good.
RefundedIsFailed ==
  Trusted => \A s \in Swaps : coins[s] = "server" => payment[s] = "failed"

\* The inductive invariant, beside TypeOK.
ClaimInv ==
  /\ CallInv
  /\ GoodOutputs
  /\ ListedExist
  /\ BookedIsClaimed
  /\ RefundedIsFailed
  /\ PreimageOnlyForLockup
  /\ SuccessIsReceived

\* The payment to the claim address that s may count as received.
DirectReceived(s) ==
  direct[s] = "confirmed" \/ (direct[s] = "mempool" /\ s \notin Cautious)

\* What a step may do to the rows.
RowStep(s) ==
  /\ Exists(s) => Exists(s)'
  /\ ~Exists(s)' => row'[s] = row[s]
  /\ row[s].zeroConf => row'[s].zeroConf
  /\ row'[s].claim # row[s].claim =>
       \/ row'[s].claim = "claim" /\ coins[s] = "client"
       \/ row'[s].claim = "direct" /\ DirectReceived(s)
       \/ row'[s].claim \in {"none", "named"} /\ Received(s)
  /\ row'[s].state = "SUCCESSFUL" =>
       row[s].state = "SUCCESSFUL" \/ Received(s)

RowsStep == row' \in [Swaps -> Row] /\ \A s \in Swaps : RowStep(s)

\* To the coins, with what the payer knows.
CoinsStep ==
  /\ coins' \in [Swaps -> Coins]
  /\ payment' \in [Swaps -> Payment]
  /\ CoinsKept
  /\ \A s \in Swaps :
       /\ LockupConfirmed(s) => LockupConfirmed(s)'
       /\ payment[s] = "failed" => payment'[s] = "failed"
       /\ Trusted /\ coins'[s] = "server" =>
            coins[s] = "server" \/ payment'[s] = "failed"

DirectStep ==
  /\ direct' \in [Swaps -> Direct]
  /\ \A s \in Swaps :
       /\ DirectReceived(s) => DirectReceived(s)'
       /\ direct[s] \in {"mempool", "confirmed"} =>
            direct'[s] \in {"mempool", "confirmed"}

\* And to what goroutines remember.
CallsStep ==
  /\ JobsTyped' /\ CallInv'
  /\ \A t \in Threads : \A s \in Swaps :
       s \in job'[t].outs \cup job'[t].todo =>
         s \in job[t].outs \cup job[t].todo \/ Good(s)

MemoryStep ==
  /\ \A t \in Rpcs : \A s \in Swaps : s \in asked'[t] => s \in asked[t] \/ Good(s)
  /\ \A t \in Checkers : \A s \in Swaps :
       s \in listed'[t] => s \in listed[t] \/ Exists(s)
  /\ \A t \in Threads : \A s \in Swaps :
       s \in booking'[t] => s \in booking[t] \/ coins[s] = "client"
  /\ \A s \in Swaps :
       s \in revealed' => s \in revealed \/ (Good(s) /\ coins[s] # "none")

\* What TypeOK says of everything but rows, coins, calls and direct payments.
RestOK ==
  /\ h \in Update
  /\ booking \in [Threads -> SUBSET Swaps]
  /\ srv \in [Swaps -> SwapUpdateEvent]
  /\ paying \subseteq Swaps
  /\ revealed \subseteq Swaps
  /\ daemon \in {"running", "down"}
  /\ crashes \in 0 .. MaxCrashes
  /\ sub \subseteq Swaps
  /\ live \subseteq Swaps
  /\ updates \in [Swaps -> Seq(SwapUpdateEvent)]
  /\ block \in {"idle", "external", "outputs", "claiming"}
  /\ listed \in [Checkers -> SUBSET Swaps]
  /\ asked \in [Rpcs -> SUBSET Swaps]
  /\ creating \in [Swaps -> {"no", "register", "pay"}]

\* The swap of an update that is worked on is one that there is.
UpdateStepOK == h'.pc # "idle" => Exists(h'.swap)

-----------------------------------------------------------------------------
(***************************************************************************)
(* Steps of these kinds keep the invariant.                                *)
(***************************************************************************)
LEMMA TypeKept ==
  ASSUME TypeOK, RowsStep, CoinsStep, DirectStep, CallsStep, RestOK', UpdateStepOK
  PROVE  TypeOK'
<1>1. \A s \in Swaps : ~Exists(s)' => row'[s] = NoRow
  BY DEF TypeOK, RowsStep, RowStep
<1>2. h'.pc # "idle" => Exists(h.swap)'
  BY DEF UpdateStepOK, RowsStep, RowStep, RestOK, Update, Exists
<1> QED
  BY <1>1, <1>2 DEF TypeOK, RowsStep, CoinsStep, DirectStep, CallsStep, RestOK,
                    JobsTyped, Exists

LEMMA ClaimKept ==
  ASSUME TypeOK, ClaimInv, RowsStep, CoinsStep, DirectStep, CallsStep, MemoryStep,
         revealed' \subseteq Swaps
  PROVE  ClaimInv'
<1>g. \A s \in Swaps : Good(s) => Good(s)'
  BY DEF Good, RowsStep, RowStep, CoinsStep
<1>1. GoodOutputs'
  BY <1>g DEF ClaimInv, GoodOutputs, CallsStep, MemoryStep
<1>2. ListedExist'
  BY DEF ClaimInv, ListedExist, MemoryStep, RowsStep, RowStep
<1>3. BookedIsClaimed'
  BY DEF ClaimInv, BookedIsClaimed, MemoryStep, CoinsStep, CoinsKept
<1>4. RefundedIsFailed'
  BY DEF ClaimInv, RefundedIsFailed, CoinsStep
<1>5. PreimageOnlyForLockup'
  <2> SUFFICES ASSUME NEW s \in revealed'
               PROVE  /\ coins'[s] # "none"
                      /\ coins'[s] = "mempool" => row'[s].zeroConf
    BY DEF PreimageOnlyForLockup
  <2>1. s \in Swaps /\ coins[s] \in Coins
    BY DEF TypeOK
  <2>2. coins[s] # "none" /\ (coins[s] = "mempool" => row[s].zeroConf)
    BY <2>1 DEF ClaimInv, PreimageOnlyForLockup, MemoryStep, Good, LockupConfirmed
  <2> QED
    BY <2>1, <2>2 DEF CoinsStep, CoinsKept, LockupConfirmed, Coins, RowsStep,
                      RowStep
<1>6. SuccessIsReceived'
  <2> SUFFICES ASSUME NEW s \in Swaps
               PROVE  /\ row'[s].claim = "claim" => coins'[s] = "client"
                      /\ row'[s].claim = "direct" => DirectReceived(s)'
                      /\ row'[s].claim = "named" \/ row'[s].state = "SUCCESSFUL"
                           => Received(s)'
    BY DEF SuccessIsReceived, DirectReceived
  <2>1. /\ row[s].claim = "claim" => coins[s] = "client"
        /\ row[s].claim = "direct" => DirectReceived(s)
        /\ row[s].claim = "named" \/ row[s].state = "SUCCESSFUL" => Received(s)
    BY DEF ClaimInv, SuccessIsReceived, DirectReceived
  <2>2. RowStep(s) /\ (coins[s] = "client" => coins'[s] = "client")
        /\ (DirectReceived(s) => DirectReceived(s)')
        /\ (Received(s) => Received(s)')
    BY DEF RowsStep, CoinsStep, CoinsKept, DirectStep, Received
  <2> QED
    BY <2>1, <2>2 DEF RowStep
<1> QED
  BY <1>1, <1>2, <1>3, <1>4, <1>5, <1>6 DEF ClaimInv, CallsStep

-----------------------------------------------------------------------------
(***************************************************************************)
(* The rows.                                                               *)
(***************************************************************************)
LEMMA NoUpdateTyped == NoUpdate \in Update
BY ReverseAssumption DEF NoUpdate, Update, UpdateStep, SwapState,
   SwapUpdateEvent, CompletedStatus, FailedStatus

LEMMA RowsUnchanged ==
  ASSUME TypeOK, UNCHANGED row
  PROVE  RowsStep
BY DEF TypeOK, RowsStep, RowStep, Exists

\* One row is written.
LEMMA RowWritten ==
  ASSUME TypeOK, NEW x \in Swaps, NEW r \in Row, row' = [row EXCEPT ![x] = r],
         r.state # "NONE",
         row[x].zeroConf => r.zeroConf,
         r.claim # row[x].claim =>
           \/ r.claim = "claim" /\ coins[x] = "client"
           \/ r.claim = "direct" /\ DirectReceived(x)
           \/ r.claim \in {"none", "named"} /\ Received(x),
         r.state = "SUCCESSFUL" =>
           row[x].state = "SUCCESSFUL" \/ Received(x)
  PROVE  RowsStep
<1>1. row' \in [Swaps -> Row]
  BY DEF TypeOK
<1>2. \A s \in Swaps : row'[s] = IF s = x THEN r ELSE row[s]
  BY DEF TypeOK
<1> QED
  BY <1>1, <1>2 DEF RowsStep, RowStep, Exists

\* setError, of any outputs.
LEMMA RowsErr ==
  ASSUME TypeOK, NEW S, SetErrors(S)
  PROVE  RowsStep
<1>1. \A s \in Swaps : row[s] \in Row
  BY DEF TypeOK
<1>2. \A s \in Swaps : [row[s] EXCEPT !.state = "ERROR"] \in Row
  BY <1>1 DEF Row, SwapState
<1>3. row' \in [Swaps -> Row]
  BY <1>1, <1>2 DEF SetErrors
<1>4. \A s \in Swaps : /\ row'[s].zeroConf = row[s].zeroConf
                       /\ row'[s].claim = row[s].claim
                       /\ row'[s].state = "ERROR" \/ row'[s] = row[s]
  BY <1>1 DEF SetErrors, Row
<1> QED
  BY <1>3, <1>4 DEF RowsStep, RowStep, Exists

\* setError of one swap.
LEMMA RowErr ==
  ASSUME TypeOK, NEW s \in Swaps, HandleError(s)
  PROVE  RowsStep
<1> DEFINE r == [row[s] EXCEPT !.state = "ERROR"]
<1>1. row[s] \in Row
  BY DEF TypeOK
<1>2. r \in Row /\ r.state = "ERROR" /\ r.zeroConf = row[s].zeroConf
      /\ r.claim = row[s].claim
  BY <1>1 DEF Row, SwapState
<1>3. row' = [row EXCEPT ![s] = r]
  BY DEF HandleError
<1> HIDE DEF r
<1> QED
  BY <1>2, <1>3, RowWritten

\* A direct payment is stored as one that may count, or under an id of lightzd's.
LEMMA RowsPaid ==
  ASSUME TypeOK, NEW s \in Swaps, Exists(s), DirectPayments(s) \/ NamedPayments(s)
  PROVE  RowsStep
<1>0. row[s] \in Row /\ row[s].state # "NONE"
  BY DEF TypeOK, Exists
<1>c. Choices(s) # {} => Received(s)
  BY DEF Choices, Received
<1>1. ASSUME NEW choice \in ClaimId,
             \/ choice \in Choices(s) /\ Accepted(s, choice)
             \/ choice \in {"none", "named"} /\ Choices(s) # {},
             row' = [row EXCEPT ![s].claim = choice, ![s].state = "SUCCESSFUL",
                                ![s].status = "TransactionDirect"]
      PROVE  RowsStep
  <2> DEFINE r == [row[s] EXCEPT !.claim = choice, !.state = "SUCCESSFUL",
                                 !.status = "TransactionDirect"]
  <2>1. Received(s)
    BY <1>1, <1>c
  <2>2. /\ r \in Row /\ r.state = "SUCCESSFUL" /\ r.zeroConf = row[s].zeroConf
        /\ r.claim = choice
    BY <1>0, <1>1 DEF Row, SwapState, SwapUpdateEvent
  <2>3. row' = [row EXCEPT ![s] = r]
    BY <1>1
  <2>4. \/ choice = "claim" /\ coins[s] = "client"
        \/ choice = "direct" /\ DirectReceived(s)
        \/ choice \in {"none", "named"}
    BY <1>1 DEF Choices, Accepted, DirectReceived
  <2> HIDE DEF r
  <2> QED
    BY <2>1, <2>2, <2>3, <2>4, RowWritten
<1>2. CASE row' = [row EXCEPT ![s].status = "TransactionDirectMempool"]
  <2> DEFINE r == [row[s] EXCEPT !.status = "TransactionDirectMempool"]
  <2>1. /\ r \in Row /\ r.state = row[s].state /\ r.zeroConf = row[s].zeroConf
        /\ r.claim = row[s].claim
    BY <1>0 DEF Row, SwapUpdateEvent
  <2>2. row' = [row EXCEPT ![s] = r]
    BY <1>2
  <2> HIDE DEF r
  <2> QED
    BY <1>0, <2>1, <2>2, RowWritten
<1> QED
  <2>1. Choices(s) \subseteq ClaimId /\ {"none", "named"} \subseteq ClaimId
    BY DEF Choices, ClaimId
  <2>2. CASE DirectPayments(s)
    BY <1>1, <1>2, <2>1, <2>2, RowsUnchanged, RowErr DEF DirectPayments
  <2>3. CASE NamedPayments(s)
    BY <1>1, <1>2, <2>1, <2>3, RowsUnchanged DEF NamedPayments
  <2> QED
    BY <2>2, <2>3

LEMMA CreateClaimRows ==
  ASSUME TypeOK, ClaimInv, NEW t \in Threads, CreateClaim(t)
  PROVE  RowsStep
<1>1. CASE PopulateOutputs(t) \/ TransactionFails(t) \/ FinishTransaction(t)
  BY <1>1, RowsErr DEF PopulateOutputs, TransactionFails, FinishTransaction
<1>2. CASE \/ ConstructTransaction(t) \/ BroadcastTransaction(t)
           \/ ClaimSwapsReturns(t)
  BY <1>2, RowsUnchanged DEF ConstructTransaction, BroadcastTransaction,
                             ClaimSwapsReturns
<1>3. ASSUME NEW s \in Swaps, SetClaimTransactionId(t, s) PROVE RowsStep
  <2> DEFINE r == [row[s] EXCEPT !.claim = "claim"]
  <2>1. row[s] \in Row
    BY DEF TypeOK
  <2>2. /\ r \in Row /\ r.state = row[s].state /\ r.zeroConf = row[s].zeroConf
        /\ r.claim = "claim"
    BY <2>1 DEF Row, ClaimId
  <2>3. row' = [row EXCEPT ![s] = r]
    BY <1>3 DEF SetClaimTransactionId
  <2>4. s \in job[t].todo /\ job[t].pc = "record"
    BY <1>3 DEF SetClaimTransactionId
  <2>5. coins[s] = "client" /\ row[s].state # "NONE"
    BY <2>4 DEF ClaimInv, CallInv, GoodOutputs, Good, Exists
  <2> HIDE DEF r
  <2> QED
    BY <2>2, <2>3, <2>5, RowWritten DEF Received
<1>4. ASSUME NEW s \in Swaps, FinalizeReverseSwap(t, s) PROVE RowsStep
  <2> DEFINE r == [row[s] EXCEPT !.state = "SUCCESSFUL"]
  <2>1. row[s] \in Row
    BY DEF TypeOK
  <2>2. /\ r \in Row /\ r.state = "SUCCESSFUL" /\ r.zeroConf = row[s].zeroConf
        /\ r.claim = row[s].claim
    BY <2>1 DEF Row, SwapState
  <2>3. Received(s) /\ row[s].state # "NONE"
    BY <1>4 DEF FinalizeReverseSwap, ClaimInv, BookedIsClaimed, Received, Record,
                GoodOutputs, Good, Exists
  <2>4. row' = [row EXCEPT ![s] = r] \/ row' = row
    BY <1>4 DEF FinalizeReverseSwap
  <2> HIDE DEF r
  <2> QED
    BY <2>2, <2>3, <2>4, RowWritten, RowsUnchanged
<1> QED
  BY <1>1, <1>2, <1>3, <1>4 DEF CreateClaim

\* Every step of the system does to the rows what RowsStep allows.
LEMMA RowsNext ==
  ASSUME TypeOK, ClaimInv, Next
  PROVE  RowsStep
<1>0. \A s \in Swaps : row[s] \in Row
  BY DEF TypeOK
<1>1. ASSUME NEW s \in Swaps, CreateReverseSwap(s) PROVE RowsStep
  <2>1. PICK q \in Requests[s] :
          row' = [row EXCEPT ![s] =
                   [NoRow EXCEPT !.state = "PENDING", !.zeroConf = q.zeroConf,
                                 !.external = q.external, !.dest = q.dest]]
    BY <1>1 DEF CreateReverseSwap
  <2> DEFINE r == [NoRow EXCEPT !.state = "PENDING", !.zeroConf = q.zeroConf,
                                !.external = q.external, !.dest = q.dest]
  <2>2. q \in Request
    BY <2>1, ReverseAssumption
  <2>3. row[s] = NoRow
    BY <1>1 DEF CreateReverseSwap, TypeOK
  <2>4. /\ r \in Row /\ r.state = "PENDING" /\ r.claim = "none"
        /\ NoRow.zeroConf = FALSE /\ NoRow.claim = "none"
    BY <2>2 DEF Request, NoRow, Row, ClaimId, SwapState, SwapUpdateEvent
  <2>5. row' = [row EXCEPT ![s] = r]
    BY <2>1
  <2> HIDE DEF r
  <2> QED
    BY <2>3, <2>4, <2>5, RowWritten
<1>2. ASSUME NEW s \in Swaps, PayInvoiceReturns(s) PROVE RowsStep
  <2>1. CASE UNCHANGED row
    BY <2>1, RowsUnchanged
  <2>2. CASE row' = [row EXCEPT ![s].state = "ERROR"]
    <3> DEFINE S == {s}
    <3>1. SetErrors(S)
      BY <2>2, <1>0 DEF SetErrors, Row, TypeOK
    <3> QED
      BY <3>1, RowsErr
  <2> QED
    BY <1>2, <2>1, <2>2 DEF PayInvoiceReturns
<1>h. h.pc # "idle" => h.swap \in Swaps /\ Exists(h.swap) /\ h.ev \in SwapUpdateEvent
  BY DEF TypeOK, Update
<1>3. CASE HandleReverseSwapStatus /\ ~DirectTransaction
  <2> DEFINE s == h.swap
             r1 == [row[s] EXCEPT !.lockup = TRUE]
             r2 == [row[s] EXCEPT !.status = h.ev]
             r3 == [row[s] EXCEPT !.state = "SERVER_ERROR"]
  <2>0. CASE h.pc = "idle"
    BY <1>3, <2>0, RowsUnchanged
    DEF HandleReverseSwapStatus, StoreLockup, ClaimReturned,
        UpdateReverseSwapStatus, FailReverseSwap
  <2>1. CASE h.pc # "idle"
    <3>1. s \in Swaps /\ row[s] \in Row /\ row[s].state # "NONE"
          /\ h.ev \in SwapUpdateEvent
      BY <1>0, <1>h, <2>1 DEF Exists
    <3>2. \A r \in {r1, r2, r3} :
            /\ r \in Row /\ r.state \in {row[s].state, "SERVER_ERROR"}
            /\ r.zeroConf = row[s].zeroConf /\ r.claim = row[s].claim
      BY <3>1 DEF Row, SwapState
    <3>3. ASSUME NEW r \in {r1, r2, r3}, row' = [row EXCEPT ![s] = r]
          PROVE  RowsStep
      <4>1. /\ r \in Row /\ r.state \in {row[s].state, "SERVER_ERROR"}
            /\ r.zeroConf = row[s].zeroConf /\ r.claim = row[s].claim
        BY <3>2
      <4> HIDE DEF r1, r2, r3, s
      <4> QED
        BY <3>1, <3>3, <4>1, RowWritten
    <3>4. CASE StoreLockup
      BY <3>3, <3>4 DEF StoreLockup
    <3>5. CASE ClaimReturned
      BY <3>5, RowsUnchanged DEF ClaimReturned
    <3>6. CASE UpdateReverseSwapStatus
      BY <3>3, <3>6 DEF UpdateReverseSwapStatus
    <3>7. CASE FailReverseSwap
      BY <3>3, <3>7 DEF FailReverseSwap
    <3> QED
      BY <1>3, <3>4, <3>5, <3>6, <3>7 DEF HandleReverseSwapStatus
  <2> QED
    BY <2>0, <2>1
<1>4. CASE DirectTransaction
  BY <1>4, <1>h, RowsPaid, RowErr, RowsUnchanged DEF DirectTransaction
<1>5. ASSUME NEW t \in Checkers, NEW s \in Swaps, CheckOutputs(t, s)
      PROVE  RowsStep
  <2>1. Exists(s)
    BY <1>5 DEF CheckOutputs, ClaimInv, ListedExist
  <2> QED
    BY <1>5, <2>1, RowsPaid, RowsUnchanged DEF CheckOutputs
<1>6. ASSUME NEW t \in Rpcs, NEW S \in SUBSET Swaps, AskToClaim(t, S)
      PROVE  RowsStep
  <2>1. PICK to \in {"wallet", "address"} :
          row' = [s \in Swaps |->
                    IF s \in S THEN [row[s] EXCEPT !.dest = IF @ = to THEN @
                                                            ELSE "both"]
                    ELSE row[s]]
    BY <1>6 DEF AskToClaim
  <2>2. \A s \in Swaps : \A d \in Destination :
          LET r == [row[s] EXCEPT !.dest = d]
          IN  /\ r \in Row /\ r.state = row[s].state /\ r.claim = row[s].claim
              /\ r.zeroConf = row[s].zeroConf
    BY <1>0 DEF Row
  <2>3. \A s \in Swaps : \E d \in Destination :
          row'[s] = [row[s] EXCEPT !.dest = d] \/ row'[s] = row[s]
    BY <1>0, <2>1 DEF Row, Destination
  <2>4. \A s \in Swaps : ~Exists(s) => s \notin S
    BY <1>6 DEF AskToClaim, Claimable, TypeOK, NoRow
  <2>5. \A s \in Swaps : ~Exists(s) => row'[s] = row[s]
    BY <2>1, <2>4
  <2>6. \A s \in Swaps : row'[s] \in Row
    BY <1>0, <2>2, <2>3
  <2>7. row' \in [Swaps -> Row]
    BY <2>1, <2>6
  <2>8. \A s \in Swaps : /\ row'[s].state = row[s].state
                         /\ row'[s].claim = row[s].claim
                         /\ row'[s].zeroConf = row[s].zeroConf
    BY <2>2, <2>3
  <2> QED
    BY <2>5, <2>7, <2>8 DEF RowsStep, RowStep, Exists
<1>7. ASSUME UNCHANGED row PROVE RowsStep
  BY <1>7, RowsUnchanged
<1>8. ASSUME NEW s \in Swaps,
             \/ RegisterReverseSwap(s) \/ PayReverseSwap(s) \/ PayInvoice(s)
             \/ ProcessUpdate(s) \/ Environment(s)
      PROVE  RowsStep
  BY <1>7, <1>8
  DEF RegisterReverseSwap, PayReverseSwap, PayInvoice, ProcessUpdate,
      Environment, UserPays, DirectConfirms, LockupConfirms, ServerLocksUp,
      ServerSees, ServerSettles, ServerGivesUp, EnvUnchanged
<1>9. ASSUME NEW t \in Checkers, CheckExternalReverseSwaps(t) PROVE RowsStep
  BY <1>7, <1>9 DEF CheckExternalReverseSwaps
<1>10. ASSUME NEW t \in Rpcs, ClaimSwaps(t) PROVE RowsStep
  BY <1>7, <1>10 DEF ClaimSwaps
<1>11. CASE Reconnect \/ NewBlock \/ CheckClaimableSwaps \/ Crash \/ RecoverSwaps
  BY <1>7, <1>11 DEF Reconnect, NewBlock, CheckClaimableSwaps, Crash, RecoverSwaps
<1> QED
  BY <1>1, <1>2, <1>3, <1>4, <1>5, <1>6, <1>8, <1>9, <1>10, <1>11,
     CreateClaimRows
  DEF Next, HandleReverseSwapStatus

-----------------------------------------------------------------------------
(***************************************************************************)
(* The coins and the payments: those that move, and who moves them.        *)
(***************************************************************************)
LEMMA CoinsUnchanged ==
  ASSUME TypeOK, UNCHANGED <<coins, payment>>
  PROVE  CoinsStep
BY DEF TypeOK, CoinsStep, CoinsKept, LockupConfirmed

\* The payment of a swap that has not failed moves on.
LEMMA PaymentMoves ==
  ASSUME TypeOK, UNCHANGED coins, NEW s \in Swaps, NEW p \in Payment,
         payment[s] # "failed", payment' = [payment EXCEPT ![s] = p]
  PROVE  CoinsStep
BY DEF TypeOK, CoinsStep, CoinsKept, LockupConfirmed

LEMMA BroadcastCoins ==
  ASSUME TypeOK, NEW t \in Threads, BroadcastStep(t), UNCHANGED payment
  PROVE  CoinsStep
<1>1. CoinsKept
  BY BroadcastKeepsCoins
<1>2. CASE UNCHANGED coins
  BY <1>2, CoinsUnchanged
<1>3. CASE Spend(t)
  BY <1>1, <1>3 DEF TypeOK, CoinsStep, Spend, LockupConfirmed, Coins
<1> QED
  BY <1>2, <1>3 DEF BroadcastStep, Broadcast, Rebroadcast, BroadcastUnanswered

LEMMA EnvironmentCoins ==
  ASSUME TypeOK, NEW s \in Swaps, Environment(s)
  PROVE  CoinsStep
<1>1. CASE UserPays(s)
  BY <1>1, CoinsUnchanged, PaymentMoves DEF UserPays, Payment
<1>2. CASE DirectConfirms(s) \/ ServerSees(s)
  BY <1>2, CoinsUnchanged DEF DirectConfirms, ServerSees
<1>3. CASE LockupConfirms(s)
  BY <1>3 DEF LockupConfirms, TypeOK, CoinsStep, CoinsKept, LockupConfirmed, Coins
<1>4. CASE ServerLocksUp(s)
  BY <1>4 DEF ServerLocksUp, TypeOK, CoinsStep, CoinsKept, LockupConfirmed, Coins
<1>5. CASE ServerSettles(s)
  BY <1>5, PaymentMoves DEF ServerSettles, Payment
<1>6. CASE ServerGivesUp(s)
  <2>1. payment' \in [Swaps -> Payment]
    BY <1>6 DEF ServerGivesUp, TypeOK, Payment
  <2>2. \A x \in Swaps : payment[x] = "failed" => payment'[x] = "failed"
    BY <1>6 DEF ServerGivesUp, TypeOK
  <2>3. coins' \in [Swaps -> Coins]
    BY <1>6 DEF ServerGivesUp, TypeOK, Coins
  <2>4. \A x \in Swaps :
          coins'[x] = coins[x] \/ (/\ coins[x] \in Unspent /\ coins'[x] = "server"
                                   /\ Trusted => payment'[x] = "failed")
    BY <1>6 DEF ServerGivesUp, TypeOK
  <2> QED
    BY <2>1, <2>2, <2>3, <2>4 DEF CoinsStep, CoinsKept, LockupConfirmed, Unspent
<1> QED
  BY <1>1, <1>2, <1>3, <1>4, <1>5, <1>6 DEF Environment

\* Nothing but a broadcast, a payment and the environment moves money.
LEMMA MoneyMoves ==
  ASSUME Next
  PROVE  \/ UNCHANGED <<coins, payment, direct>>
         \/ \E t \in Threads : BroadcastTransaction(t)
         \/ \E s \in Swaps : PayInvoice(s) \/ Environment(s)
<1> DEFINE Still == UNCHANGED <<coins, payment, direct>>
<1>1. ASSUME NEW s \in Swaps,
             \/ CreateReverseSwap(s) \/ RegisterReverseSwap(s)
             \/ PayReverseSwap(s) \/ PayInvoiceReturns(s) \/ ProcessUpdate(s)
      PROVE  Still
  BY <1>1 DEF CreateReverseSwap, RegisterReverseSwap, PayReverseSwap,
              PayInvoiceReturns, ProcessUpdate, envVars
<1>2. ASSUME HandleReverseSwapStatus PROVE Still
  BY <1>2
  DEF HandleReverseSwapStatus, StoreLockup, ClaimReturned,
      UpdateReverseSwapStatus, FailReverseSwap, DirectTransaction,
      UpdateUnchanged, envVars
<1>3. ASSUME NEW t \in Checkers,
             \/ CheckExternalReverseSwaps(t)
             \/ \E s \in Swaps : CheckOutputs(t, s)
      PROVE  Still
  BY <1>3 DEF CheckExternalReverseSwaps, CheckOutputs, envVars
<1>4. ASSUME NEW t \in Rpcs,
             ClaimSwaps(t) \/ \E S \in SUBSET Swaps : AskToClaim(t, S)
      PROVE  Still
  BY <1>4 DEF ClaimSwaps, AskToClaim, envVars
<1>5. ASSUME \/ Reconnect \/ NewBlock \/ CheckClaimableSwaps \/ Crash
             \/ RecoverSwaps
      PROVE  Still
  BY <1>5
  DEF Reconnect, NewBlock, CheckClaimableSwaps, Crash, RecoverSwaps, envVars
<1>6. ASSUME NEW t \in Threads, CreateClaim(t), ~BroadcastTransaction(t)
      PROVE  Still
  BY <1>6
  DEF CreateClaim, PopulateOutputs, ConstructTransaction, TransactionFails,
      SetClaimTransactionId, FinalizeReverseSwap, FinishTransaction,
      ClaimSwapsReturns, Populate, ConstructClaim, ConstructFails,
      BroadcastFails, Record, Finish, JobUnchanged, envVars
<1> QED
  BY <1>1, <1>2, <1>3, <1>4, <1>5, <1>6 DEF Next

LEMMA CoinsNext ==
  ASSUME TypeOK, Next
  PROVE  CoinsStep
<1>1. ASSUME NEW s \in Swaps, PayInvoice(s) PROVE CoinsStep
  BY <1>1, PaymentMoves DEF PayInvoice, Payment
<1>2. ASSUME NEW t \in Threads, BroadcastTransaction(t) PROVE CoinsStep
  BY <1>2, BroadcastCoins DEF BroadcastTransaction, BroadcastStep, JobUnchanged,
                              envVars
<1> QED
  BY <1>1, <1>2, CoinsUnchanged, EnvironmentCoins, MoneyMoves

LEMMA DirectNext ==
  ASSUME TypeOK, Next
  PROVE  DirectStep
<1>1. ASSUME UNCHANGED direct PROVE DirectStep
  BY <1>1 DEF TypeOK, DirectStep, DirectReceived
<1>2. ASSUME NEW s \in Swaps, Environment(s) PROVE DirectStep
  <2>1. CASE UserPays(s) \/ DirectConfirms(s)
    BY <2>1 DEF UserPays, DirectConfirms, TypeOK, DirectStep, DirectReceived,
                Direct
  <2>2. CASE ~(UserPays(s) \/ DirectConfirms(s))
    BY <1>1, <1>2, <2>2
    DEF Environment, LockupConfirms, ServerLocksUp, ServerSees, ServerSettles,
        ServerGivesUp
  <2> QED
    BY <2>1, <2>2
<1>3. ASSUME NEW s \in Swaps, PayInvoice(s) PROVE DirectStep
  BY <1>1, <1>3 DEF PayInvoice
<1>4. ASSUME NEW t \in Threads, BroadcastTransaction(t) PROVE DirectStep
  BY <1>1, <1>4 DEF BroadcastTransaction, JobUnchanged, envVars
<1> QED
  BY <1>1, <1>2, <1>3, <1>4, MoneyMoves

-----------------------------------------------------------------------------
(***************************************************************************)
(* The calls: those that start have outputs that may be claimed.           *)
(***************************************************************************)
LEMMA ClaimableIsGood ==
  ASSUME TypeOK, NEW s \in Swaps, Claimable(s)
  PROVE  Good(s)
BY DEF TypeOK, Claimable, Good, NoRow

LEMMA CallsUnchanged ==
  ASSUME ClaimInv, TypeOK, CoinsStep, UNCHANGED job
  PROVE  CallsStep
BY CallsKept DEF ClaimInv, TypeOK, CoinsStep, CallsStep, JobsTyped

LEMMA CallOpens ==
  ASSUME ClaimInv, TypeOK, CoinsStep, NEW t \in Threads, NEW outs \in SUBSET Swaps,
         \A s \in outs : Good(s), Start(t, outs, outs)
  PROVE  CallsStep
<1>1. /\ JobsTyped' /\ CallInv'
      /\ \A u \in Threads \ {t} : job'[u] = job[u]
      /\ job'[t].outs = outs /\ job'[t].todo = {}
  BY CallStarts DEF ClaimInv, TypeOK, CoinsStep, JobsTyped
<1> QED
  BY <1>1 DEF CallsStep

LEMMA CallAdvances ==
  ASSUME ClaimInv, TypeOK, CoinsStep, NEW t \in Threads, CallStep(t)
  PROVE  CallsStep
<1>1. CallMoves(t)
  BY CallStepMoves DEF ClaimInv, TypeOK, CoinsStep, JobsTyped
<1> QED
  BY <1>1 DEF CallsStep, CallMoves

LEMMA CreateClaimCalls ==
  ASSUME ClaimInv, TypeOK, CoinsStep, NEW t \in Threads, CreateClaim(t)
  PROVE  CallsStep
<1>0. job[t].outs \in SUBSET Swaps
  BY DEF TypeOK, Job
<1>1. CASE PopulateOutputs(t)
  <2>1. PICK bad \in SUBSET job[t].outs : Populate(t, Missing(t), bad)
    BY <1>1 DEF PopulateOutputs
  <2>2. bad \in SUBSET Swaps /\ Missing(t) \in SUBSET Swaps
    BY <1>0 DEF Missing
  <2> QED
    BY <2>1, <2>2, CallAdvances DEF CallStep, PopulateStep
<1>2. CASE ConstructTransaction(t)
  BY <1>0, <1>2, CallAdvances DEF ConstructTransaction, CallStep, ConstructStep
<1>3. CASE TransactionFails(t) \/ FinishTransaction(t) \/ ClaimSwapsReturns(t)
  BY <1>3, CallAdvances
  DEF TransactionFails, FinishTransaction, ClaimSwapsReturns, CallStep
<1>4. CASE BroadcastTransaction(t)
  BY <1>4, CallAdvances DEF BroadcastTransaction, CallStep, BroadcastStep
<1>5. ASSUME NEW s \in Swaps, SetClaimTransactionId(t, s) PROVE CallsStep
  BY <1>5, CallsUnchanged DEF SetClaimTransactionId
<1>6. ASSUME NEW s \in Swaps, FinalizeReverseSwap(t, s) PROVE CallsStep
  BY <1>6, CallAdvances DEF FinalizeReverseSwap, CallStep
<1> QED
  BY <1>1, <1>2, <1>3, <1>4, <1>5, <1>6 DEF CreateClaim

LEMMA CallsNext ==
  ASSUME ClaimInv, TypeOK, CoinsStep, Next
  PROVE  CallsStep
<1>t. Ws \in Threads /\ Block \in Threads /\ \A t \in Rpcs : t \in Threads
  BY ReverseAssumption DEF Rpcs
<1>1. ASSUME UNCHANGED job PROVE CallsStep
  BY <1>1, CallsUnchanged
<1>2. ASSUME NEW s \in Swaps,
             \/ CreateReverseSwap(s) \/ RegisterReverseSwap(s)
             \/ PayReverseSwap(s) \/ PayInvoice(s) \/ PayInvoiceReturns(s)
             \/ ProcessUpdate(s)
      PROVE  CallsStep
  BY <1>1, <1>2 DEF CreateReverseSwap, RegisterReverseSwap, PayReverseSwap,
                    PayInvoice, PayInvoiceReturns, ProcessUpdate
<1>3. ASSUME NEW s \in Swaps, Environment(s) PROVE CallsStep
  BY <1>1, <1>3
  DEF Environment, UserPays, DirectConfirms, LockupConfirms, ServerLocksUp,
      ServerSees, ServerSettles, ServerGivesUp, EnvUnchanged
<1>4. CASE StoreLockup
  <2>1. CASE UNCHANGED job
    BY <1>1, <2>1
  <2>2. CASE row[h.swap].zeroConf /\ Start(Ws, {h.swap}, {h.swap})
    <3>1. h.swap \in Swaps /\ Good(h.swap)
      BY <1>4, <2>2 DEF StoreLockup, TypeOK, Update, Good
    <3> DEFINE outs == {h.swap}
    <3>2. outs \in SUBSET Swaps /\ \A s \in outs : Good(s)
      BY <3>1
    <3>3. Start(Ws, outs, outs)
      BY <2>2
    <3> HIDE DEF outs
    <3> QED
      BY <1>t, <3>2, <3>3, CallOpens
  <2> QED
    BY <1>4, <2>1, <2>2 DEF StoreLockup
<1>5. CASE ClaimReturned
  BY <1>5, <1>t, CallAdvances DEF ClaimReturned, CallStep
<1>6. CASE UpdateReverseSwapStatus \/ FailReverseSwap \/ DirectTransaction
  BY <1>1, <1>6 DEF UpdateReverseSwapStatus, FailReverseSwap, DirectTransaction
<1>7. ASSUME NEW t \in Checkers,
             \/ CheckExternalReverseSwaps(t)
             \/ \E s \in Swaps : CheckOutputs(t, s)
      PROVE  CallsStep
  BY <1>1, <1>7 DEF CheckExternalReverseSwaps, CheckOutputs
<1>8. CASE CheckClaimableSwaps
  <2> DEFINE outs == {s \in Swaps : Claimable(s)}
  <2>1. outs \in SUBSET Swaps /\ \A s \in outs : Good(s)
    BY ClaimableIsGood
  <2>2. Start(Block, outs, outs) \/ UNCHANGED job
    BY <1>8 DEF CheckClaimableSwaps
  <2> HIDE DEF outs
  <2> QED
    BY <1>1, <1>t, <2>1, <2>2, CallOpens
<1>9. ASSUME NEW t \in Rpcs, ClaimSwaps(t) PROVE CallsStep
  <2>1. asked[t] \in SUBSET Swaps /\ \A s \in asked[t] : Good(s)
    BY DEF TypeOK, ClaimInv, GoodOutputs
  <2> QED
    BY <1>9, <1>t, <2>1, CallOpens DEF ClaimSwaps
<1>10. ASSUME NEW t \in Rpcs, NEW S \in SUBSET Swaps, AskToClaim(t, S)
       PROVE  CallsStep
  BY <1>1, <1>10 DEF AskToClaim
<1>11. CASE Crash
  BY <1>11, NoJobTyped DEF Crash, CallsStep, JobsTyped, CallInv, NoJob
<1>12. CASE Reconnect \/ NewBlock \/ RecoverSwaps
  BY <1>1, <1>12 DEF Reconnect, NewBlock, RecoverSwaps
<1> QED
  BY <1>2, <1>3, <1>4, <1>5, <1>6, <1>7, <1>8, <1>9, <1>10, <1>11, <1>12,
     CreateClaimCalls
  DEF Next, HandleReverseSwapStatus

-----------------------------------------------------------------------------
(***************************************************************************)
(* What goroutines remember: requests, checks, ids stored, and preimages   *)
(* given away.                                                             *)
(***************************************************************************)
LEMMA MemoryUnchanged ==
  ASSUME UNCHANGED <<asked, listed, booking, revealed>>
  PROVE  MemoryStep
BY DEF MemoryStep

LEMMA MemoryNext ==
  ASSUME ClaimInv, TypeOK, Next
  PROVE  MemoryStep
<1>1. ASSUME UNCHANGED <<asked, listed, booking, revealed>> PROVE MemoryStep
  BY <1>1, MemoryUnchanged
<1>2. ASSUME NEW s \in Swaps,
             \/ CreateReverseSwap(s) \/ RegisterReverseSwap(s)
             \/ PayReverseSwap(s) \/ PayInvoice(s) \/ PayInvoiceReturns(s)
             \/ ProcessUpdate(s)
      PROVE  MemoryStep
  BY <1>1, <1>2 DEF CreateReverseSwap, RegisterReverseSwap, PayReverseSwap,
                    PayInvoice, PayInvoiceReturns, ProcessUpdate, rpcVars,
                    checkVars
<1>3. ASSUME NEW s \in Swaps, Environment(s) PROVE MemoryStep
  BY <1>1, <1>3
  DEF Environment, UserPays, DirectConfirms, LockupConfirms, ServerLocksUp,
      ServerSees, ServerSettles, ServerGivesUp, EnvUnchanged, rpcVars, checkVars
<1>4. CASE HandleReverseSwapStatus
  BY <1>1, <1>4
  DEF HandleReverseSwapStatus, StoreLockup, ClaimReturned,
      UpdateReverseSwapStatus, FailReverseSwap, DirectTransaction,
      UpdateUnchanged, rpcVars, checkVars
<1>5. ASSUME NEW t \in Checkers, CheckExternalReverseSwaps(t)
      PROVE  MemoryStep
  <2>1. \A s \in Swaps : External(s) => Exists(s)
    BY DEF External, Exists, RecoveredState
  <2>2. listed' = [listed EXCEPT ![t] = {s \in Swaps : External(s)}]
    BY <1>5 DEF CheckExternalReverseSwaps
  <2>3. \A u \in Checkers : \A s \in Swaps :
          s \in listed'[u] => s \in listed[u] \/ Exists(s)
    BY <2>1, <2>2 DEF TypeOK
  <2> QED
    BY <1>5, <2>3 DEF CheckExternalReverseSwaps, MemoryStep, rpcVars
<1>6. ASSUME NEW t \in Checkers, NEW s \in Swaps, CheckOutputs(t, s)
      PROVE  MemoryStep
  <2>1. \A u \in Checkers : \A x \in Swaps : x \in listed'[u] => x \in listed[u]
    BY <1>6 DEF CheckOutputs, TypeOK
  <2> QED
    BY <1>6, <2>1 DEF CheckOutputs, MemoryStep, rpcVars
<1>7. ASSUME NEW t \in Rpcs, ClaimSwaps(t) PROVE MemoryStep
  BY <1>7 DEF ClaimSwaps, MemoryStep, TypeOK, checkVars
<1>8. ASSUME NEW t \in Rpcs, NEW S \in SUBSET Swaps, AskToClaim(t, S)
      PROVE  MemoryStep
  <2>1. \A s \in S : Good(s)
    BY <1>8, ClaimableIsGood DEF AskToClaim
  <2> QED
    BY <1>8, <2>1 DEF AskToClaim, MemoryStep, TypeOK, checkVars
<1>9. CASE Reconnect \/ NewBlock \/ CheckClaimableSwaps \/ RecoverSwaps
  BY <1>1, <1>9 DEF Reconnect, NewBlock, CheckClaimableSwaps, RecoverSwaps,
                    rpcVars, checkVars
<1>10. CASE Crash
  BY <1>10 DEF Crash, MemoryStep
<1>11. ASSUME NEW t \in Threads, CreateClaim(t) PROVE MemoryStep
  <2>1. CASE \/ PopulateOutputs(t) \/ TransactionFails(t)
             \/ BroadcastTransaction(t) \/ FinishTransaction(t)
             \/ ClaimSwapsReturns(t)
    BY <1>1, <2>1
    DEF PopulateOutputs, TransactionFails, BroadcastTransaction,
        FinishTransaction, ClaimSwapsReturns, JobUnchanged, rpcVars
  <2>2. CASE ConstructTransaction(t)
    <3>1. \A s \in Swaps : s \in job[t].outs => Good(s) /\ coins[s] # "none"
      BY <2>2 DEF ConstructTransaction, ConstructClaim, ClaimInv, CallInv,
                  GoodOutputs
    <3> QED
      BY <2>2, <3>1 DEF ConstructTransaction, JobUnchanged, rpcVars, MemoryStep
  <2>3. ASSUME NEW s \in Swaps,
               SetClaimTransactionId(t, s) \/ FinalizeReverseSwap(t, s)
        PROVE  MemoryStep
    <3>1. CASE SetClaimTransactionId(t, s)
      <4>1. coins[s] = "client"
        BY <3>1 DEF SetClaimTransactionId, ClaimInv, CallInv
      <4>2. \A u \in Threads : \A x \in Swaps :
              x \in booking'[u] => x \in booking[u] \/ x = s
        BY <3>1 DEF SetClaimTransactionId, TypeOK
      <4> QED
        BY <3>1, <4>1, <4>2 DEF SetClaimTransactionId, JobUnchanged, rpcVars,
                                MemoryStep
    <3>2. CASE FinalizeReverseSwap(t, s)
      <4>1. \A u \in Threads : \A x \in Swaps : x \in booking'[u] => x \in booking[u]
        BY <3>2 DEF FinalizeReverseSwap, TypeOK
      <4> QED
        BY <3>2, <4>1 DEF FinalizeReverseSwap, JobUnchanged, rpcVars, MemoryStep
    <3> QED
      BY <2>3, <3>1, <3>2
  <2> QED
    BY <1>11, <2>1, <2>2, <2>3 DEF CreateClaim
<1> QED
  BY <1>2, <1>3, <1>4, <1>5, <1>6, <1>7, <1>8, <1>9, <1>10, <1>11 DEF Next

-----------------------------------------------------------------------------
(***************************************************************************)
(* The types of the rest.                                                  *)
(***************************************************************************)
LEMMA SubscribeTyped ==
  ASSUME RestOK, NEW S, NEW kept, Subscribe(S, kept),
         \A s \in Swaps : kept[s] \in 0 .. Len(updates[s])
  PROVE  updates' \in [Swaps -> Seq(SwapUpdateEvent)]
<1> SUFFICES ASSUME NEW s \in Swaps
             PROVE  (LET old == SubSeq(updates[s], 1, kept[s])
                     IN  IF Trusted /\ s \in S THEN Append(old, srv[s]) ELSE old)
                      \in Seq(SwapUpdateEvent)
  BY DEF Subscribe
<1>1. updates[s] \in Seq(SwapUpdateEvent) /\ srv[s] \in SwapUpdateEvent
  BY DEF RestOK
<1>2. SubSeq(updates[s], 1, kept[s]) \in Seq(SwapUpdateEvent)
  BY <1>1, SubSeqProperties
<1> QED
  BY <1>1, <1>2, AppendProperties

LEMMA ReportTyped ==
  ASSUME RestOK, NEW s \in Swaps, NEW ev \in SwapUpdateEvent, Report(s, ev)
  PROVE  /\ srv' \in [Swaps -> SwapUpdateEvent]
         /\ updates' \in [Swaps -> Seq(SwapUpdateEvent)]
<1>1. srv' \in [Swaps -> SwapUpdateEvent]
  BY DEF Report, RestOK
<1>2. updates[s] \in Seq(SwapUpdateEvent)
  BY DEF RestOK
<1>3. Append(updates[s], ev) \in Seq(SwapUpdateEvent)
  BY <1>2, AppendProperties
<1>4. updates' \in [Swaps -> Seq(SwapUpdateEvent)]
  BY <1>3 DEF Report, RestOK
<1> QED
  BY <1>1, <1>4

\* A step of the environment only reports.
LEMMA EnvironmentTyped ==
  ASSUME RestOK, NEW s \in Swaps, Environment(s)
  PROVE  RestOK'
<1> DEFINE Reported == /\ srv' \in [Swaps -> SwapUpdateEvent]
                       /\ updates' \in [Swaps -> Seq(SwapUpdateEvent)]
<1>1. CASE UserPays(s) \/ DirectConfirms(s) \/ LockupConfirms(s)
  BY <1>1 DEF UserPays, DirectConfirms, LockupConfirms, Quiet, RestOK,
              EnvUnchanged, rpcVars, checkVars, sysVars
<1>2. ASSUME NEW ev \in {"TransactionMempool", "TransactionConfirmed",
                         "TransactionDirect", "InvoiceSettled", "SwapExpired",
                         "TransactionRefunded"},
             Report(s, ev)
      PROVE  Reported
  <2>1. ev \in SwapUpdateEvent
    BY DEF SwapUpdateEvent, CompletedStatus, FailedStatus
  <2> QED
    BY <1>2, <2>1, ReportTyped
<1>3. CASE ServerLocksUp(s) \/ ServerSees(s) \/ ServerSettles(s) \/ ServerGivesUp(s)
  <2>1. Reported
    BY <1>2, <1>3 DEF ServerLocksUp, ServerSees, ServerSettles, ServerGivesUp
  <2>2. EnvUnchanged
    BY <1>3 DEF ServerLocksUp, ServerSees, ServerSettles, ServerGivesUp
  <2> QED
    BY <2>1, <2>2 DEF RestOK, EnvUnchanged, rpcVars, checkVars, sysVars
<1> QED
  BY <1>1, <1>3 DEF Environment

\* The copy of an update is made of a row, and its swap is one that there is.
LEMMA UpdateNext ==
  ASSUME TypeOK, Next
  PROVE  h' \in Update /\ UpdateStepOK
<1>0. /\ h \in Update /\ (h.pc # "idle" => Exists(h.swap))
      /\ NoUpdate \in Update /\ NoUpdate.pc = "idle"
  BY NoUpdateTyped DEF TypeOK, NoUpdate
<1>k. ASSUME UNCHANGED h PROVE h' \in Update /\ UpdateStepOK
  BY <1>0, <1>k DEF UpdateStepOK
<1>n. ASSUME h' = NoUpdate PROVE h' \in Update /\ UpdateStepOK
  BY <1>0, <1>n DEF UpdateStepOK
<1>m. ASSUME NEW pc \in UpdateStep, h' = [h EXCEPT !.pc = pc], h.pc # "idle"
      PROVE  h' \in Update /\ UpdateStepOK
  BY <1>0, <1>m DEF UpdateStepOK, Update
<1>s. {"claim", "status", "failed"} \subseteq UpdateStep
  BY DEF UpdateStep
<1>1. ASSUME NEW s \in Swaps, ProcessUpdate(s)
      PROVE  h' \in Update /\ UpdateStepOK
  <2>1. PICK ev \in IF Trusted THEN {Head(updates[s])} ELSE AnyStatus :
          IF ev = row[s].status
          THEN UNCHANGED h
          ELSE h' = [pc |-> Dispatch(ev, row[s]), swap |-> s, ev |-> ev,
                     state |-> row[s].state]
    BY <1>1 DEF ProcessUpdate
  <2>2. ev \in SwapUpdateEvent
    <3>1. CASE Trusted
      BY <1>1, <2>1, <3>1, HeadTailProperties DEF ProcessUpdate, TypeOK
    <3>2. CASE ~Trusted
      BY <2>1, <3>2
      DEF AnyStatus, SwapUpdateEvent, CompletedStatus, FailedStatus
    <3> QED
      BY <3>1, <3>2
  <2>3. Dispatch(ev, row[s]) \in UpdateStep
    BY DEF Dispatch, UpdateStep
  <2>4. row[s].state \in SwapState \cup {"NONE"} /\ Exists(s)
    BY <1>1 DEF TypeOK, Row, ProcessUpdate, QueryAnySwap
  <2> QED
    BY <1>k, <2>1, <2>2, <2>3, <2>4 DEF Update, UpdateStepOK
<1>2. CASE HandleReverseSwapStatus
  BY <1>2, <1>n, <1>m, <1>s
  DEF HandleReverseSwapStatus, StoreLockup, ClaimReturned,
      UpdateReverseSwapStatus, FailReverseSwap, DirectTransaction
<1>3. ASSUME NEW s \in Swaps,
             \/ CreateReverseSwap(s) \/ RegisterReverseSwap(s)
             \/ PayReverseSwap(s) \/ PayInvoice(s) \/ PayInvoiceReturns(s)
      PROVE  UNCHANGED h
  BY <1>3 DEF CreateReverseSwap, RegisterReverseSwap, PayReverseSwap,
              PayInvoice, PayInvoiceReturns, wsVars
<1>4. ASSUME NEW s \in Swaps, Environment(s) PROVE UNCHANGED h
  BY <1>4
  DEF Environment, UserPays, DirectConfirms, LockupConfirms, ServerLocksUp,
      ServerSees, ServerSettles, ServerGivesUp, EnvUnchanged
<1>5. ASSUME NEW t \in Checkers,
             \/ CheckExternalReverseSwaps(t)
             \/ \E s \in Swaps : CheckOutputs(t, s)
      PROVE  UNCHANGED h
  BY <1>5 DEF CheckExternalReverseSwaps, CheckOutputs, wsVars
<1>6. ASSUME NEW t \in Rpcs,
             ClaimSwaps(t) \/ \E S \in SUBSET Swaps : AskToClaim(t, S)
      PROVE  UNCHANGED h
  BY <1>6 DEF ClaimSwaps, AskToClaim, wsVars
<1>7. ASSUME Reconnect \/ NewBlock \/ CheckClaimableSwaps \/ RecoverSwaps
      PROVE  UNCHANGED h
  BY <1>7 DEF Reconnect, NewBlock, CheckClaimableSwaps, RecoverSwaps, wsVars
<1>8. ASSUME NEW t \in Threads, CreateClaim(t) PROVE UNCHANGED h
  BY <1>8
  DEF CreateClaim, PopulateOutputs, ConstructTransaction, TransactionFails,
      BroadcastTransaction, SetClaimTransactionId, FinalizeReverseSwap,
      FinishTransaction, ClaimSwapsReturns, JobUnchanged
<1>9. CASE Crash
  BY <1>9, <1>n DEF Crash
<1> QED
  BY <1>k, <1>1, <1>2, <1>3, <1>4, <1>5, <1>6, <1>7, <1>8, <1>9 DEF Next

LEMMA RestNext ==
  ASSUME TypeOK, Next
  PROVE  RestOK'
<1>0. RestOK
  BY DEF TypeOK, RestOK
<1>h. h' \in Update
  BY UpdateNext
<1>1. ASSUME NEW s \in Swaps, CreateReverseSwap(s) PROVE RestOK'
  BY <1>0, <1>1 DEF CreateReverseSwap, RestOK, envVars, wsVars, netVars,
                    checkVars, sysVars
<1>2. ASSUME NEW s \in Swaps, RegisterReverseSwap(s) PROVE RestOK'
  <2>1. updates' \in [Swaps -> Seq(SwapUpdateEvent)]
    <3>1. CASE UNCHANGED updates
      BY <1>0, <3>1 DEF RestOK
    <3>2. \A x \in Swaps : AllKept[x] \in 0 .. Len(updates[x])
      BY <1>0, LenProperties DEF RestOK, AllKept
    <3> QED
      BY <1>0, <1>2, <3>1, <3>2, SubscribeTyped DEF RegisterReverseSwap
  <2>2. live' \subseteq Swaps /\ sub' \subseteq Swaps
    BY <1>0, <1>2 DEF RegisterReverseSwap, RestOK
  <2>3. creating' \in [Swaps -> {"no", "register", "pay"}]
    BY <1>0, <1>2 DEF RegisterReverseSwap, RestOK
  <2> QED
    BY <1>0, <1>2, <2>1, <2>2, <2>3
    DEF RegisterReverseSwap, RestOK, envVars, checkVars, sysVars
<1>3. ASSUME NEW s \in Swaps, PayReverseSwap(s) PROVE RestOK'
  BY <1>0, <1>3 DEF PayReverseSwap, RestOK, envVars, wsVars, netVars,
                    checkVars, sysVars
<1>4. ASSUME NEW s \in Swaps, PayInvoice(s) \/ PayInvoiceReturns(s) PROVE RestOK'
  BY <1>0, <1>4 DEF PayInvoice, PayInvoiceReturns, RestOK, envVars, rpcVars,
                    wsVars, netVars, checkVars, sysVars
<1>5. CASE Reconnect
  <2>1. PICK n \in 0 .. MaxUpdates - 1 :
          Subscribe(sub, [s \in Swaps |-> IF n < Len(updates[s]) THEN n
                                          ELSE Len(updates[s])])
    BY <1>5 DEF Reconnect, Resubscribe
  <2>2. \A s \in Swaps : Len(updates[s]) \in Nat
    BY <1>0, LenProperties DEF RestOK
  <2>3. updates' \in [Swaps -> Seq(SwapUpdateEvent)]
    BY <1>0, <2>1, <2>2, SubscriptionsAssumption, SubscribeTyped
  <2> QED
    BY <1>0, <1>5, <2>3 DEF Reconnect, Resubscribe, RestOK, envVars, rpcVars,
                            checkVars, sysVars
<1>6. ASSUME NEW s \in Swaps, ProcessUpdate(s) PROVE RestOK'
  <2>1. updates' \in [Swaps -> Seq(SwapUpdateEvent)]
    <3>1. CASE Trusted
      BY <1>0, <1>6, <3>1, HeadTailProperties DEF ProcessUpdate, RestOK
    <3>2. CASE ~Trusted
      BY <1>0, <1>6, <3>2 DEF ProcessUpdate, RestOK
    <3> QED
      BY <3>1, <3>2
  <2> QED
    BY <1>0, <1>6, <1>h, <2>1 DEF ProcessUpdate, RestOK, envVars, rpcVars,
                                  checkVars, sysVars
<1>7. CASE HandleReverseSwapStatus
  <2>1. sub' \subseteq Swaps /\ live' \subseteq Swaps
    BY <1>0, <1>7
    DEF HandleReverseSwapStatus, StoreLockup, ClaimReturned,
        UpdateReverseSwapStatus, FailReverseSwap, DirectTransaction, SendUpdate,
        DirectPayments, NamedPayments, HandleError, Unsubscribe, RestOK
  <2>2. UpdateUnchanged
    BY <1>7
    DEF HandleReverseSwapStatus, StoreLockup, ClaimReturned,
        UpdateReverseSwapStatus, FailReverseSwap, DirectTransaction
  <2> QED
    BY <1>0, <1>h, <2>1, <2>2 DEF UpdateUnchanged, RestOK, envVars, rpcVars,
                                  checkVars, sysVars
<1>8. CASE NewBlock \/ CheckClaimableSwaps
  BY <1>0, <1>8 DEF NewBlock, CheckClaimableSwaps, RestOK, envVars, rpcVars,
                    wsVars, netVars, sysVars
<1>9. ASSUME NEW t \in Checkers, CheckExternalReverseSwaps(t) PROVE RestOK'
  <2>1. listed' \in [Checkers -> SUBSET Swaps]
    BY <1>0, <1>9 DEF CheckExternalReverseSwaps, RestOK
  <2> QED
    BY <1>0, <1>9, <2>1 DEF CheckExternalReverseSwaps, RestOK, envVars, rpcVars,
                            wsVars, netVars, sysVars
<1>10. ASSUME NEW t \in Checkers, NEW s \in Swaps, CheckOutputs(t, s)
       PROVE  RestOK'
  <2>1. listed' \in [Checkers -> SUBSET Swaps]
    BY <1>0, <1>10 DEF CheckOutputs, RestOK
  <2>2. sub' \subseteq Swaps /\ live' \subseteq Swaps
    BY <1>0, <1>10 DEF CheckOutputs, DirectPayments, HandleError, Unsubscribe,
                       RestOK
  <2> QED
    BY <1>0, <1>10, <2>1, <2>2 DEF CheckOutputs, RestOK, envVars, rpcVars,
                                   sysVars
<1>11. ASSUME NEW t \in Rpcs,
              ClaimSwaps(t) \/ \E S \in SUBSET Swaps : AskToClaim(t, S)
       PROVE  RestOK'
  <2>1. asked' \in [Rpcs -> SUBSET Swaps]
    BY <1>0, <1>11 DEF ClaimSwaps, AskToClaim, RestOK
  <2> QED
    BY <1>0, <1>11, <2>1 DEF ClaimSwaps, AskToClaim, RestOK, envVars, wsVars,
                             netVars, checkVars, sysVars
<1>12. ASSUME NEW t \in Threads, CreateClaim(t) PROVE RestOK'
  <2>1. revealed' \subseteq Swaps
    <3>1. job[t].outs \subseteq Swaps
      BY DEF TypeOK, Job
    <3> QED
      BY <1>0, <1>12, <3>1
      DEF CreateClaim, PopulateOutputs, ConstructTransaction, TransactionFails,
          BroadcastTransaction, SetClaimTransactionId, FinalizeReverseSwap,
          FinishTransaction, ClaimSwapsReturns, RestOK
  <2>2. booking' \in [Threads -> SUBSET Swaps]
    <3>1. UNCHANGED booking \/ \E S \in SUBSET Swaps :
            booking' = [booking EXCEPT ![t] = S]
      <4>1. \A s \in Swaps : {s} \in SUBSET Swaps /\ {} \in SUBSET Swaps
        OBVIOUS
      <4> QED
        BY <1>12, <4>1
        DEF CreateClaim, PopulateOutputs, ConstructTransaction, TransactionFails,
            BroadcastTransaction, SetClaimTransactionId, FinalizeReverseSwap,
            FinishTransaction, ClaimSwapsReturns
    <3> QED
      BY <1>0, <3>1 DEF RestOK
  <2>3. sub' \subseteq Swaps /\ live' \subseteq Swaps
    BY <1>0, <1>12
    DEF CreateClaim, PopulateOutputs, ConstructTransaction, TransactionFails,
        BroadcastTransaction, SetClaimTransactionId, FinalizeReverseSwap,
        FinishTransaction, ClaimSwapsReturns, Unsubscribe, RestOK
  <2>4. block' \in {"idle", block}
    BY <1>12
    DEF CreateClaim, PopulateOutputs, ConstructTransaction, TransactionFails,
        BroadcastTransaction, SetClaimTransactionId, FinalizeReverseSwap,
        FinishTransaction, ClaimSwapsReturns
  <2>5. JobUnchanged
    BY <1>12
    DEF CreateClaim, PopulateOutputs, ConstructTransaction, TransactionFails,
        BroadcastTransaction, SetClaimTransactionId, FinalizeReverseSwap,
        FinishTransaction, ClaimSwapsReturns
  <2> QED
    BY <1>0, <2>1, <2>2, <2>3, <2>4, <2>5 DEF JobUnchanged, RestOK, envVars, rpcVars,
                                        sysVars
<1>13. CASE Crash
  <2>1. updates' \in [Swaps -> Seq(SwapUpdateEvent)]
    BY <1>13, EmptySeq DEF Crash
  <2>2. crashes' \in 0 .. MaxCrashes
    BY <1>0, <1>13, ReverseAssumption DEF Crash, RestOK
  <2> QED
    BY <1>0, <1>13, <1>h, <2>1, <2>2 DEF Crash, RestOK, envVars
<1>14. CASE RecoverSwaps
  <2>1. \A s \in Swaps : AllKept[s] \in 0 .. Len(updates[s])
    BY <1>0, LenProperties DEF RestOK, AllKept
  <2>2. updates' \in [Swaps -> Seq(SwapUpdateEvent)]
    BY <1>0, <1>14, <2>1, SubscribeTyped DEF RecoverSwaps
  <2>3. sub' \subseteq Swaps /\ live' \subseteq Swaps /\ paying' \subseteq Swaps
    BY <1>14 DEF RecoverSwaps
  <2> QED
    BY <1>0, <1>14, <2>2, <2>3 DEF RecoverSwaps, RestOK, envVars, rpcVars,
                                   checkVars
<1> QED
  BY <1>0, <1>1, <1>2, <1>3, <1>4, <1>5, <1>6, <1>7, <1>8, <1>9, <1>10, <1>11,
     <1>12, <1>13, <1>14, EnvironmentTyped
  DEF Next

-----------------------------------------------------------------------------
(***************************************************************************)
(* The invariant and what follows from it.                                 *)
(***************************************************************************)
LEMMA InvInit == Init => TypeOK /\ ClaimInv
<1> SUFFICES ASSUME Init PROVE TypeOK /\ ClaimInv
  OBVIOUS
<1>1. NoRow \in Row /\ NoRow.claim = "none" /\ NoRow.state = "NONE"
  BY DEF NoRow, Row, ClaimId, SwapState, SwapUpdateEvent, Destination
<1>2. row \in [Swaps -> Row] /\ \A s \in Swaps : row[s] = NoRow
  BY <1>1 DEF Init
<1>3. NoUpdate \in Update /\ NoUpdate.pc = "idle" /\ h = NoUpdate
  BY NoUpdateTyped DEF NoUpdate, Init
<1>4. job \in [Threads -> Job] /\ \A t \in Threads : job[t] = NoJob
  BY NoJobTyped DEF Init
<1>5. updates \in [Swaps -> Seq(SwapUpdateEvent)]
  BY EmptySeq DEF Init
<1>6. RestOK
  BY <1>3, <1>5, ReverseAssumption DEF Init, RestOK, SwapUpdateEvent
<1>7. TypeOK
  BY <1>2, <1>3, <1>4, <1>6 DEF Init, TypeOK, RestOK, Coins, Payment, Direct
<1>8. ClaimInv
  BY <1>1, <1>2, <1>4
  DEF Init, ClaimInv, CallInv, GoodOutputs, ListedExist, BookedIsClaimed,
      RefundedIsFailed, PreimageOnlyForLockup, SuccessIsReceived, NoJob
<1> QED
  BY <1>7, <1>8

LEMMA InvNext == TypeOK /\ ClaimInv /\ [Next]_vars => (TypeOK /\ ClaimInv)'
<1>1. ASSUME TypeOK, ClaimInv, Next PROVE (TypeOK /\ ClaimInv)'
  <2>1. RowsStep /\ CoinsStep /\ DirectStep
    BY <1>1, RowsNext, CoinsNext, DirectNext
  <2>2. CallsStep /\ MemoryStep
    BY <1>1, <2>1, CallsNext, MemoryNext
  <2>3. RestOK' /\ UpdateStepOK
    BY <1>1, RestNext, UpdateNext
  <2>4. revealed' \subseteq Swaps
    BY <2>3 DEF RestOK
  <2> QED
    BY <1>1, <2>1, <2>2, <2>3, <2>4, TypeKept, ClaimKept
<1>2. ASSUME TypeOK, ClaimInv, UNCHANGED vars PROVE (TypeOK /\ ClaimInv)'
  <2>1. RowsStep /\ CoinsStep /\ DirectStep
    BY <1>2, RowsUnchanged, CoinsUnchanged
    DEF vars, envVars, DirectStep, DirectReceived, TypeOK
  <2>2. CallsStep /\ MemoryStep
    BY <1>2, <2>1, CallsUnchanged, MemoryUnchanged DEF vars, rpcVars, checkVars
  <2>3. RestOK' /\ UpdateStepOK /\ revealed' \subseteq Swaps
    BY <1>2 DEF TypeOK, RestOK, UpdateStepOK, vars, envVars, rpcVars, wsVars,
                netVars, checkVars, sysVars
  <2> QED
    BY <1>2, <2>1, <2>2, <2>3, TypeKept, ClaimKept
<1> QED
  BY <1>1, <1>2

LEMMA InvAlways == Spec => [](TypeOK /\ ClaimInv)
BY InvInit, InvNext, PTL DEF Spec

\* In every reachable state the variables have their types, and no column of
\* a swap without a row is written.
THEOREM TypeCorrect == Spec => []TypeOK
BY InvAlways, PTL

\* The preimage has only been given away for a lockup that was made, of the
\* agreed amount, and confirmed unless the user took an unconfirmed one,
\* whatever lightzd says.  lightzd may have taken it back since.
THEOREM PreimageIsEarned == Spec => []PreimageOnlyForLockup
<1>1. ClaimInv => PreimageOnlyForLockup
  BY DEF ClaimInv
<1> QED
  BY InvAlways, <1>1, PTL

\* A swap that is shown as successful has been received, on chain or at its
\* claim address, in whatever order the three goroutines store it, and with
\* whatever id lightzd names for the payment; a payment of a cautious swap that
\* the wallet found has confirmed.
THEOREM SuccessIsTrue == Spec => []SuccessIsReceived
<1>1. ClaimInv => SuccessIsReceived
  BY DEF ClaimInv
<1> QED
  BY InvAlways, <1>1, PTL

-----------------------------------------------------------------------------
(***************************************************************************)
(* The refinement of ReverseContract.  Rows and goroutines are hidden: a   *)
(* step that moves no money is Show, or a stutter.                         *)
(***************************************************************************)
LEMMA ContractInit == Init => Contract!Init
<1> SUFFICES ASSUME Init PROVE Contract!Init
  OBVIOUS
<1>1. \A s \in Swaps : /\ coins[s] = "none" /\ payment[s] = "none"
                       /\ direct[s] = "none" /\ row[s].state = "NONE"
  BY DEF Init, NoRow
<1>2. [s \in Swaps |-> IF coins[s] \in Unspent THEN "locked" ELSE coins[s]]
        = [s \in Swaps |-> "none"]
  BY <1>1 DEF Unspent
<1>3. [s \in Swaps |-> payment[s] = "settled"] = [s \in Swaps |-> FALSE]
  BY <1>1
<1>4. [s \in Swaps |-> direct[s] \in {"mempool", "confirmed"}]
        = [s \in Swaps |-> FALSE]
  <2>1. ASSUME NEW s \in Swaps
        PROVE  (direct[s] \in {"mempool", "confirmed"}) = FALSE
    <3>1. \A x, S : x \notin S => (x \in S) = FALSE
      BY SMT
    <3>2. ~(direct[s] \in {"mempool", "confirmed"})
      BY <1>1
    <3> QED
      BY <3>1, <3>2
  <2> QED
    BY <2>1, Zenon
<1>5. [s \in Swaps |-> row[s].state = "SUCCESSFUL"] = [s \in Swaps |-> FALSE]
  BY <1>1
<1> QED
  BY <1>2, <1>3, <1>4, <1>5 DEF Contract!Init

\* What the rows show is true, whoever wrote them.
LEMMA ContractShows ==
  ASSUME TypeOK, ClaimInv', row' \in [Swaps -> Row],
         UNCHANGED <<coins, payment, direct>>
  PROVE  Contract!Next
<1>1. PICK verdict \in [Swaps -> BOOLEAN] :
        verdict = [s \in Swaps |-> row'[s].state = "SUCCESSFUL"]
  OBVIOUS
<1>2. \A s \in Swaps : row'[s].state = "SUCCESSFUL" =>
        coins[s] = "client" \/ direct[s] \in {"mempool", "confirmed"}
  BY DEF ClaimInv, SuccessIsReceived, Received
<1>3. Contract!Show(verdict)
  BY <1>1, <1>2 DEF Contract!Show, Unspent
<1> QED
  BY <1>3 DEF Contract!Next

\* A broadcast claims all the inputs of the transaction at once.
LEMMA ContractClaims ==
  ASSUME TypeOK, NEW t \in Threads, BroadcastStep(t),
         UNCHANGED <<row, payment, direct>>
  PROVE  [Contract!Next]_Contract!vars
<1>1. CASE UNCHANGED coins
  BY <1>1 DEF Contract!vars
<1>2. CASE Valid(t) /\ Spend(t)
  <2>1. PICK S \in SUBSET Swaps : S = job[t].ins
    BY DEF TypeOK, Job
  <2>2. Contract!ClientClaims(S)
    BY <1>2, <2>1 DEF Contract!ClientClaims, Valid, Spend, Unspent
  <2> QED
    BY <2>2 DEF Contract!Next
<1> QED
  BY <1>1, <1>2 DEF BroadcastStep, Broadcast, Rebroadcast, BroadcastUnanswered

\* lightzd settles with a preimage, so after it has locked coins up; one that
\* follows the protocol takes them back only when it has not settled.
LEMMA ContractServer ==
  ASSUME TypeOK, ClaimInv, NEW s \in Swaps, Environment(s)
  PROVE  [Contract!Next]_Contract!vars
<1>0. UNCHANGED row
  BY DEF Environment, UserPays, DirectConfirms, LockupConfirms, ServerLocksUp,
         ServerSees, ServerSettles, ServerGivesUp, EnvUnchanged
<1>t. /\ coins \in [Swaps -> Coins] /\ payment \in [Swaps -> Payment]
      /\ direct \in [Swaps -> Direct]
  BY DEF TypeOK
<1>1. CASE UserPays(s)
  <2>1. CASE payment' = [payment EXCEPT ![s] = "held"] /\ payment[s] = "none"
             /\ UNCHANGED <<coins, direct>>
    BY <1>0, <1>t, <2>1 DEF Contract!vars
  <2>2. ASSUME NEW d \in {"short", "mempool"},
               direct' = [direct EXCEPT ![s] = d], direct[s] = "none",
               UNCHANGED <<coins, payment>>
        PROVE  [Contract!Next]_Contract!vars
    <3>1. CASE d = "short"
      BY <1>0, <1>t, <2>2, <3>1 DEF Contract!vars
    <3>2. CASE d = "mempool"
      <4>1. Contract!Give(s)
        BY <1>0, <1>t, <2>2, <3>2 DEF Contract!Give
      <4> QED
        BY <4>1 DEF Contract!Next
    <3> QED
      BY <3>1, <3>2
  <2> QED
    BY <1>1, <2>1, <2>2 DEF UserPays
<1>2. CASE DirectConfirms(s)
  BY <1>0, <1>2, <1>t DEF DirectConfirms, Contract!vars
<1>3. CASE LockupConfirms(s)
  BY <1>0, <1>3, <1>t DEF LockupConfirms, Contract!vars, Unspent
<1>4. CASE ServerLocksUp(s)
  <2>1. Contract!Lock(s)
    BY <1>0, <1>4, <1>t DEF ServerLocksUp, Contract!Lock, Unspent
  <2> QED
    BY <2>1 DEF Contract!Next
<1>5. CASE ServerSees(s)
  BY <1>0, <1>5 DEF ServerSees, Contract!vars
<1>6. CASE ServerSettles(s)
  <2>1. /\ coins[s] \in Unspent \cup {"client", "server"}
        /\ Trusted => coins[s] # "server"
    BY <1>6, <1>t DEF ServerSettles, ClaimInv, PreimageOnlyForLockup,
                      RefundedIsFailed, Coins, Unspent
  <2>2. Contract!Settle(s)
    BY <1>0, <1>6, <1>t, <2>1 DEF ServerSettles, Contract!Settle, Unspent
  <2> QED
    BY <2>2 DEF Contract!Next
<1>7. CASE ServerGivesUp(s)
  <2>1. \A x \in Swaps : (payment'[x] = "settled") = (payment[x] = "settled")
    BY <1>7, <1>t DEF ServerGivesUp
  <2>2. CASE UNCHANGED coins
    BY <1>0, <1>7, <2>1, <2>2 DEF ServerGivesUp, Contract!vars
  <2>3. CASE coins[s] \in Unspent /\ coins' = [coins EXCEPT ![s] = "server"]
    <3>1. Contract!ServerRefunds(s)
      BY <1>0, <1>7, <1>t, <2>1, <2>3 DEF ServerGivesUp, Contract!ServerRefunds,
                                          Unspent
    <3> QED
      BY <3>1 DEF Contract!Next
  <2> QED
    BY <1>7, <2>2, <2>3 DEF ServerGivesUp
<1> QED
  BY <1>1, <1>2, <1>3, <1>4, <1>5, <1>6, <1>7 DEF Environment

LEMMA ContractNext ==
  ASSUME TypeOK, ClaimInv, TypeOK', ClaimInv', [Next]_vars
  PROVE  [Contract!Next]_Contract!vars
<1>1. row' \in [Swaps -> Row]
  BY DEF TypeOK
<1>2. CASE UNCHANGED <<coins, payment, direct>>
  BY <1>1, <1>2, ContractShows
<1>3. ASSUME NEW s \in Swaps, PayInvoice(s) PROVE [Contract!Next]_Contract!vars
  BY <1>3 DEF PayInvoice, Contract!vars, TypeOK
<1>4. ASSUME NEW t \in Threads, BroadcastTransaction(t)
      PROVE  [Contract!Next]_Contract!vars
  BY <1>4, ContractClaims DEF BroadcastTransaction, BroadcastStep, JobUnchanged,
                              envVars
<1>5. CASE Next
  BY <1>2, <1>3, <1>4, <1>5, ContractServer, MoneyMoves
<1>6. CASE UNCHANGED vars
  BY <1>6 DEF vars, envVars, Contract!vars
<1> QED
  BY <1>5, <1>6

\* The reverse swap implements its contract: lightzd is paid only for coins it
\* locked up, and, when it follows the protocol, did not take back; no success
\* is shown that is not one.
THEOREM ReverseSwapKeepsContract == Spec => KeepsContract
<1>1. TypeOK /\ ClaimInv /\ (TypeOK /\ ClaimInv)' /\ [Next]_vars
        => [Contract!Next]_Contract!vars
  BY ContractNext
<1> QED
  BY <1>1, ContractInit, InvAlways, PTL DEF Spec, KeepsContract, Contract!Spec
=============================================================================
