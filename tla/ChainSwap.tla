------------------------------ MODULE ChainSwap -----------------------------
(***************************************************************************)
(* Chain swaps in the nursery: the client locks coins up on one chain      *)
(* (`from`) and claims those that lightzd locks up on another (`to`) with  *)
(* a preimage, which lets lightzd take the first ones.                     *)
(*                                                                         *)
(* The goroutines that touch a swap, and the shared state between them:    *)
(*   - Ws, the reader of the lightzd websocket: processUpdate re-reads the *)
(*     row and runs handleChainSwapStatus with updateLock held;            *)
(*   - FromBlock, the block listener of the one chain: it refunds, without *)
(*     a lock;                                                             *)
(*   - ToBlock, the block listener of the other: it claims, with           *)
(*     updateLock held;                                                    *)
(*   - the RPC server: CreateChainSwap.                                    *)
(* Refunds and claims are jobs of createTransaction, each on its chain.    *)
(* RPC RefundSwap and ClaimSwaps start the same jobs from goroutines of    *)
(* their own; modules SubmarineSwap and ReverseSwap have them.             *)
(*                                                                         *)
(* lightzd is not trusted: it may send any status at any time, sign what   *)
(* it likes, and lock up what it likes.  So updates are not queued, and    *)
(* neither subscriptions nor a lost connection make a difference.          *)
(***************************************************************************)
EXTENDS SwapEvents, Naturals, Amounts

CONSTANTS Threads, Ws, FromBlock, ToBlock,
          Faults,      \* what may go wrong in the handler: "api", "broadcast"
          JobFaults,   \* FaultKinds of CreateTransaction
          Requests,    \* what the user may ask for
          Reports,     \* statuses lightzd may send, see AnyStatus
          Timeout,     \* Timeout[s]: timeoutBlockheight of the refund
          MaxHeight    \* bound: later blocks look like this one

\* open: the amount is left to what somebody else pays.
\* dest: there is an address or wallet for a refund.
Request == {r \in [zeroConf : BOOLEAN, open : BOOLEAN, external : BOOLEAN,
                    dest : BOOLEAN] :
              /\ r.open => r.external
              /\ r.external \/ r.dest}

\* One status of each kind that handleChainSwapStatus tells apart.
AnyStatus == {"TransactionMempool", "TransactionServerMempoool",
              "TransactionServerConfirmed", "TransactionLockupFailed",
              "SwapExpired"}

\* isMempool: these are not skipped when the row has them already.
MempoolStatus == {"TransactionMempool", "TransactionServerMempoool"}

ASSUME ChainAssumption ==
  /\ Swaps # {}
  /\ {Ws, FromBlock, ToBlock} \subseteq Threads
  /\ Ws # FromBlock /\ Ws # ToBlock /\ FromBlock # ToBlock
  /\ Faults \subseteq {"api", "broadcast"}
  /\ Requests \subseteq Request
  /\ Reports \subseteq AnyStatus
  /\ MaxHeight \in Nat
  /\ Timeout \in [Swaps -> 0 .. MaxHeight - 1]

VARIABLES
  row,       \* database: row[s], the tables chainSwaps and chainSwapsData
  from,      \* from[s]: where the coins of the user are, see Coins
  to,        \* to[s]: where the coins of lightzd are
  value,     \* value[s]: what lightzd locked up
  refunds,   \* refunds[t]: the job of thread t, if it refunds
  claims,    \* claims[t]: the job of thread t, if it claims
  booking,   \* booking[t]: the transaction id is stored, the state not yet
  revealed,  \* swaps whose preimage has left the client
  height,    \* of the chain of `from`, see CheckRefundableSwaps
  daemon,    \* "running" or "down"
  h,         \* the update processUpdate works on, with updateLock held
  paying     \* swaps CreateChainSwap is about to pay

Refunds == INSTANCE CreateTransaction
             WITH job <- refunds, coins <- from, Faults <- JobFaults
Claims  == INSTANCE CreateTransaction
             WITH job <- claims, coins <- to, Faults <- JobFaults

ASSUME JobFaultsAssumption == JobFaults \subseteq Refunds!FaultKinds

chainVars == <<from, to, value, revealed>>
jobVars == <<refunds, claims, booking>>
vars == <<row, chainVars, jobVars, height, daemon, h, paying>>

\* The amounts are those of a quote, which asks for what it may or for more.
Quoted == {"no", "fair", "overcharge"}

Row == [state    : SwapState \cup {"NONE"},
        status   : SwapUpdateEvent,
        from     : BOOLEAN,   \* FromData.LockupTransactionId # ''
        to       : BOOLEAN,   \* ToData.LockupTransactionId # ''
        refund   : BOOLEAN,   \* FromData.Transactionid # ''
        claim    : BOOLEAN,   \* ToData.Transactionid # ''
        zeroConf : BOOLEAN,   \* acceptZeroConf
        open     : BOOLEAN,   \* created without an amount
        quoted   : Quoted,
        dest     : BOOLEAN]   \* FromData has an address or a wallet

\* There is no row.
NoRow == [state |-> "NONE", status |-> "SwapCreated", from |-> FALSE,
          to |-> FALSE, refund |-> FALSE, claim |-> FALSE, zeroConf |-> FALSE,
          open |-> FALSE, quoted |-> "no", dest |-> FALSE]

UpdateStep == {"idle", "lockups", "quote", "amounts", "claim", "status",
               "failed", "refund"}

Update == [pc      : UpdateStep,
           swap    : Swaps,
           ev      : SwapUpdateEvent,           \* parsedStatus
           state   : SwapState \cup {"NONE"},   \* state of the copy of the row
           dest    : BOOLEAN,                   \* dest of the copy
           noQuote : BOOLEAN]                   \* quoteError # nil

NoUpdate == [pc |-> "idle", swap |-> CHOOSE s \in Swaps : TRUE,
             ev |-> "SwapCreated", state |-> "NONE", dest |-> FALSE,
             noQuote |-> FALSE]

\* A quote is for a payment that differs from what was agreed on; here for one
\* that is worth less.  "little" is less than any amount the client accepted.
Value == {"little", "quoted", "agreed"}

\* Quotes that pass nursery.CheckAmounts, for coins the user has locked up.
AcceptedQuotes ==
  {o \in Order : /\ o.type = "ChainSwap" /\ ~o.includeClaim
                 /\ o.send <= MaxMoney
                 /\ "nil" \in CheckAmounts(o)}

AcceptedAs == {IF IsOvercharge(o) THEN "overcharge" ELSE "fair" : o \in AcceptedQuotes}

Exists(s) == row[s].state # "NONE"

(***************************************************************************)
(* Types, and that nothing is written to a swap that has no row.           *)
(***************************************************************************)
TypeOK ==
  /\ row \in [Swaps -> Row]
  /\ \A s \in Swaps : ~Exists(s) => row[s] = NoRow
  /\ h.pc # "idle" => Exists(h.swap)
  /\ from \in [Swaps -> Refunds!Coins]
  /\ to \in [Swaps -> Claims!Coins]
  /\ value \in [Swaps -> Value]
  /\ refunds \in [Threads -> Refunds!Job]
  /\ claims \in [Threads -> Claims!Job]
  /\ booking \in [Threads -> SUBSET Swaps]
  /\ revealed \subseteq Swaps
  /\ height \in 0 .. MaxHeight
  /\ daemon \in {"running", "down"}
  /\ h \in Update
  /\ paying \subseteq Swaps

Init ==
  /\ row = [s \in Swaps |-> NoRow]
  /\ from = [s \in Swaps |-> "none"]
  /\ to = [s \in Swaps |-> "none"]
  /\ value = [s \in Swaps |-> "little"]
  /\ refunds = [t \in Threads |-> Refunds!NoJob]
  /\ claims = [t \in Threads |-> Claims!NoJob]
  /\ booking = [t \in Threads |-> {}]
  /\ revealed = {}
  /\ height = 0
  /\ daemon = "running"
  /\ h = NoUpdate
  /\ paying = {}
-----------------------------------------------------------------------------
(***************************************************************************)
(* RPC CreateChainSwap.  The row is inserted before the wallet pays; the   *)
(* id of the payment is only in memory, so that the row learns of it from  *)
(* lightzd.                                                                *)
(***************************************************************************)
CreateChainSwap(s) ==
  /\ daemon = "running"
  /\ ~Exists(s)
  /\ \E r \in Requests :
       /\ row' = [row EXCEPT ![s] =
                    [NoRow EXCEPT !.state = "PENDING", !.zeroConf = r.zeroConf,
                                  !.open = r.open, !.dest = r.dest]]
       /\ paying' = IF r.external THEN paying ELSE paying \cup {s}
  /\ UNCHANGED <<chainVars, jobVars, height, daemon, h>>

SendToAddress(s) ==
  /\ s \in paying
  /\ from[s] = "none"
  /\ from' = [from EXCEPT ![s] = "locked"]
  /\ \/ paying' = paying \ {s}
     \/ "broadcast" \in Faults /\ UNCHANGED paying   \* and the wallet errors
  /\ UNCHANGED <<row, to, value, revealed, jobVars, height, daemon, h>>

SendToAddressFails(s) ==
  /\ s \in paying
  /\ "broadcast" \in Faults
  /\ paying' = paying \ {s}
  /\ row' = [row EXCEPT ![s].state = "ERROR"]
  /\ UNCHANGED <<chainVars, jobVars, height, daemon, h>>
-----------------------------------------------------------------------------
(***************************************************************************)
(* processUpdate and handleChainSwapStatus.  updateLock is held by an      *)
(* update and by every claim, which is made inside an update or by         *)
(* checkClaimableSwaps; refunds outside an update do not take it.          *)
(***************************************************************************)
LockFree == h.pc = "idle" /\ \A t \in Threads : ~Claims!Running(t)

\* The switch over the status, with the copy r of the row.
Dispatch(ev, r) ==
  IF \/ ev = "TransactionLockupFailed"
     \/ ev = "TransactionMempool" /\ r.open /\ r.quoted = "no"
  THEN "quote"
  ELSE IF /\ ev \in {"TransactionServerConfirmed", "TransactionServerMempoool"}
          /\ r.zeroConf
          /\ ~r.claim
       THEN "claim" ELSE "status"

\* Mutant: an update of an unknown swap is worked on.
QueryAnySwap_Unchecked(s) == TRUE

QueryAnySwap(s) == Exists(s)

\* Starts the claim when that is where an update goes on.
GoOn(u) ==
  /\ h' = u
  /\ IF u.pc = "claim" THEN Claims!Start(Ws, {u.swap}, {u.swap})
     ELSE UNCHANGED claims

ProcessUpdate(s) ==
  /\ daemon = "running"
  /\ LockFree
  /\ QueryAnySwap(s)
  /\ \E ev \in Reports :
       /\ ev # row[s].status \/ ev \in MempoolStatus
       /\ GoOn([pc      |-> IF \/ ev \in MempoolStatus
                               \/ ~row[s].from \/ ~row[s].to
                            THEN "lockups" ELSE Dispatch(ev, row[s]),
                swap    |-> s,
                ev      |-> ev,
                state   |-> row[s].state,
                dest    |-> row[s].dest,
                noQuote |-> FALSE])
  /\ UNCHANGED <<row, chainVars, refunds, booking, height, daemon, paying>>

\* handleChainSwapError, and the handler returns.
HandleError ==
  /\ row' = [row EXCEPT ![h.swap].state = "ERROR"]
  /\ h' = NoUpdate

HandlerUnchanged ==
  UNCHANGED <<chainVars, booking, height, daemon, paying>>

\* What lightzd tells of the lockup transactions is stored, the user's first,
\* if there is an output to find.  An id that can not be found is an error, as
\* is a fee that can not be had once the id is stored.
StoreLockups ==
  LET s == h.swap
      stored(user, server) ==
        [row[s] EXCEPT !.from = @ \/ user, !.to = @ \/ server]
  IN  /\ h.pc = "lockups"
      /\ \E user, server \in BOOLEAN :
           /\ user => from[s] # "none"
           /\ server => to[s] # "none"
           /\ \/ /\ row' = [row EXCEPT ![s] = stored(user, server)]
                 /\ GoOn([h EXCEPT !.pc = Dispatch(h.ev, stored(user, server))])
              \/ /\ row' = [row EXCEPT ![s] = [stored(user, server)
                                                 EXCEPT !.state = "ERROR"]]
                 /\ h' = NoUpdate
                 /\ UNCHANGED claims
      /\ UNCHANGED refunds
      /\ HandlerUnchanged

\* A new quote for what the user has paid: none, one that can not be accepted,
\* or one that CheckAmounts agrees with and that lightzd is told of.
GetChainSwapQuote ==
  /\ h.pc = "quote"
  /\ \/ h' = [h EXCEPT !.pc = "status", !.noQuote = TRUE] /\ UNCHANGED row
     \/ HandleError
     \/ /\ row[h.swap].from
        /\ h' = [h EXCEPT !.pc = "amounts"]
        /\ UNCHANGED row
  /\ UNCHANGED <<refunds, claims>>
  /\ HandlerUnchanged

StoreAmounts ==
  /\ h.pc = "amounts"
  /\ \E q \in AcceptedAs : row' = [row EXCEPT ![h.swap].quoted = q]
  /\ h' = [h EXCEPT !.pc = "status"]
  /\ UNCHANGED <<refunds, claims>>
  /\ HandlerUnchanged

\* The error of a claim is only logged.
ClaimReturned ==
  /\ h.pc = "claim"
  /\ Claims!Return(Ws)
  /\ h' = [h EXCEPT !.pc = "status"]
  /\ UNCHANGED <<row, refunds>>
  /\ HandlerUnchanged

UpdateChainSwapStatus ==
  LET failed == /\ h.ev \in FailedStatus
                /\ h.ev = "TransactionLockupFailed" => h.noQuote
  IN  /\ h.pc = "status"
      /\ row' = [row EXCEPT ![h.swap].status = h.ev]
      /\ h' = IF failed THEN [h EXCEPT !.pc = "failed"] ELSE NoUpdate
      /\ UNCHANGED <<refunds, claims>>
      /\ HandlerUnchanged

\* RefundSwaps: an output is cooperative until its timeout.
Cooperative(S) == {s \in S : Timeout[s] > height}

\* A swap that was pending in the copy becomes SERVER_ERROR, whatever the row
\* holds by now, and what the user has locked up is refunded.
FailChainSwap ==
  LET s == h.swap
  IN  /\ h.pc = "failed"
      /\ \/ /\ row' = [row EXCEPT ![s].state =
                         IF h.state = "PENDING" THEN "SERVER_ERROR" ELSE @]
            /\ IF row[s].from /\ h.dest
               THEN /\ Refunds!Start(Ws, {s}, Cooperative({s}))
                    /\ h' = [h EXCEPT !.pc = "refund"]
               ELSE h' = NoUpdate /\ UNCHANGED refunds
         \* GetBlockHeight fails.
         \/ "api" \in Faults /\ row[s].from /\ HandleError /\ UNCHANGED refunds
      /\ UNCHANGED claims
      /\ HandlerUnchanged

RefundReturned ==
  /\ h.pc = "refund"
  /\ Refunds!Return(Ws)
  /\ IF refunds[Ws].pc = "err" THEN HandleError
     ELSE h' = NoUpdate /\ UNCHANGED row
  /\ UNCHANGED claims
  /\ HandlerUnchanged

HandleChainSwapStatus ==
  \/ StoreLockups
  \/ GetChainSwapQuote
  \/ StoreAmounts
  \/ ClaimReturned
  \/ UpdateChainSwapStatus
  \/ FailChainSwap
  \/ RefundReturned
-----------------------------------------------------------------------------
(***************************************************************************)
(* Refunds by FromBlock, claims by ToBlock.                                *)
(***************************************************************************)
\* QueryRefundableChainSwaps.
Refundable(s, now) ==
  /\ row[s].from
  /\ ~row[s].refund
  /\ \/ row[s].status \in {"TransactionLockupFailed", "TransactionFailed"}
     \/ row[s].state # "SUCCESSFUL" /\ Timeout[s] < now

\* FromBlock does this after each block.  Blocks that change nothing are not
\* counted: `height` only tells before, at and after the timeouts apart.
CheckRefundableSwaps ==
  LET outs == {s \in Swaps : Refundable(s, height) /\ row[s].dest}
  IN  /\ daemon = "running"
      /\ outs # {}
      /\ Refunds!Start(FromBlock, outs, Cooperative(outs))
      /\ UNCHANGED <<row, chainVars, claims, booking, height, daemon, h,
                     paying>>

\* IsTransactionConfirmed of the lockup transaction of lightzd.
LockupConfirmed(s) == to[s] \notin {"none", "mempool"}

\* QueryClaimableSwaps.
Claimable(s) ==
  /\ row[s].to
  /\ ~row[s].claim
  /\ row[s].state # "REFUNDED"
  /\ row[s].zeroConf \/ LockupConfirmed(s)

CheckClaimableSwaps ==
  LET outs == {s \in Swaps : Claimable(s)}
  IN  /\ daemon = "running"
      /\ LockFree
      /\ outs # {}
      /\ Claims!Start(ToBlock, outs, outs)
      /\ UNCHANGED <<row, chainVars, refunds, booking, height, daemon, h,
                     paying>>
-----------------------------------------------------------------------------
(***************************************************************************)
(* createTransaction, for refunds and for claims.                          *)
(***************************************************************************)
\* output.setError of the outputs in S.
SetErrors(S) ==
  row' = [s \in Swaps |-> IF s \in S THEN [row[s] EXCEPT !.state = "ERROR"]
                          ELSE row[s]]

RefundUnchanged ==
  UNCHANGED <<to, value, revealed, claims, height, daemon, h, paying>>

\* The output of a refund may be worth any amount.
PopulateRefund(t) ==
  /\ \E bad \in SUBSET refunds[t].outs :
       Refunds!Populate(t, Refunds!Missing(t), bad) /\ SetErrors(bad)
  /\ UNCHANGED booking
  /\ RefundUnchanged

ConstructRefund(t) ==
  /\ \E refused \in SUBSET refunds[t].coop :
       \E small \in SUBSET refunds[t].outs :
         /\ Refunds!ConstructRefund(t, refused, small)
         /\ SetErrors(IF refused = refunds[t].outs THEN refused ELSE {})
  /\ UNCHANGED booking
  /\ RefundUnchanged

RefundFails(t) ==
  /\ Refunds!ConstructFails(t) \/ Refunds!BroadcastFails(t)
  /\ SetErrors(refunds[t].outs)
  /\ UNCHANGED booking
  /\ RefundUnchanged

BroadcastRefund(t) ==
  /\ \/ Refunds!Broadcast(t)
     \/ Refunds!Rebroadcast(t)
     \/ Refunds!BroadcastUnanswered(t)
  /\ UNCHANGED <<row, booking>>
  /\ RefundUnchanged

\* setTransaction: the id ...
SetRefundTransactionId(t, s) ==
  /\ refunds[t].pc = "record"
  /\ s \in refunds[t].todo
  /\ booking[t] = {}
  /\ booking' = [booking EXCEPT ![t] = {s}]
  /\ row' = [row EXCEPT ![s].refund = TRUE]
  /\ UNCHANGED <<from, refunds>>
  /\ RefundUnchanged

\* ... then the state.
SetRefunded(t, s) ==
  /\ s \in booking[t]
  /\ Refunds!Record(t, s)
  /\ booking' = [booking EXCEPT ![t] = {}]
  /\ row' = [row EXCEPT ![s].state = "REFUNDED"]
  /\ RefundUnchanged

FinishRefund(t) ==
  /\ Refunds!Finish(t)
  /\ SetErrors(refunds[t].errs)
  /\ UNCHANGED booking
  /\ RefundUnchanged

RefundSwapsReturns(t) ==
  /\ t # Ws
  /\ Refunds!Return(t)
  /\ UNCHANGED <<row, from, booking>>
  /\ RefundUnchanged

RefundSwaps(t) ==
  \/ PopulateRefund(t)
  \/ ConstructRefund(t)
  \/ RefundFails(t)
  \/ BroadcastRefund(t)
  \/ \E s \in Swaps : SetRefundTransactionId(t, s) \/ SetRefunded(t, s)
  \/ FinishRefund(t)
  \/ RefundSwapsReturns(t)

ClaimUnchanged ==
  UNCHANGED <<from, value, refunds, height, daemon, h, paying>>

\* Mutant: the amount of the output is not looked at.
PaysEnough_Any(s) == TRUE

\* FindOutput with the expected amount: that of the row, if it has one.
PaysEnough(s) ==
  \/ value[s] = "agreed"
  \/ row[s].quoted # "no" /\ value[s] = "quoted"
  \/ row[s].open /\ row[s].quoted = "no"

MissingLockups(t) ==
  {s \in claims[t].outs : ~row[s].to \/ to[s] = "none" \/ ~PaysEnough(s)}

PopulateClaim(t) ==
  /\ \E bad \in SUBSET claims[t].outs :
       Claims!Populate(t, MissingLockups(t), bad) /\ SetErrors(bad)
  /\ UNCHANGED <<booking, revealed>>
  /\ ClaimUnchanged

\* lightzd is sent the preimage and our signature for its own claim; if it
\* gives none in return, the transaction itself tells the preimage.
ConstructClaim(t) ==
  /\ \E small \in SUBSET claims[t].outs : Claims!ConstructClaim(t, small)
  /\ revealed' = revealed \cup claims[t].outs
  /\ UNCHANGED <<row, booking>>
  /\ ClaimUnchanged

ClaimFails(t) ==
  /\ Claims!ConstructFails(t) \/ Claims!BroadcastFails(t)
  /\ SetErrors(claims[t].outs)
  /\ UNCHANGED <<booking, revealed>>
  /\ ClaimUnchanged

BroadcastClaim(t) ==
  /\ \/ Claims!Broadcast(t)
     \/ Claims!Rebroadcast(t)
     \/ Claims!BroadcastUnanswered(t)
  /\ UNCHANGED <<row, booking, revealed>>
  /\ ClaimUnchanged

\* setTransaction: the id ...
SetClaimTransactionId(t, s) ==
  /\ claims[t].pc = "record"
  /\ s \in claims[t].todo
  /\ booking[t] = {}
  /\ booking' = [booking EXCEPT ![t] = {s}]
  /\ row' = [row EXCEPT ![s].claim = TRUE]
  /\ UNCHANGED <<to, claims, revealed>>
  /\ ClaimUnchanged

\* ... then finalizeChainSwap.
FinalizeChainSwap(t, s) ==
  /\ s \in booking[t]
  /\ Claims!Record(t, s)
  /\ booking' = [booking EXCEPT ![t] = {}]
  /\ row' = [row EXCEPT ![s].state = "SUCCESSFUL"]
  /\ UNCHANGED revealed
  /\ ClaimUnchanged

FinishClaim(t) ==
  /\ Claims!Finish(t)
  /\ SetErrors(claims[t].errs)
  /\ UNCHANGED <<booking, revealed>>
  /\ ClaimUnchanged

ClaimSwapsReturns(t) ==
  /\ t # Ws
  /\ Claims!Return(t)
  /\ UNCHANGED <<row, to, booking, revealed>>
  /\ ClaimUnchanged

ClaimSwaps(t) ==
  \/ PopulateClaim(t)
  \/ ConstructClaim(t)
  \/ ClaimFails(t)
  \/ BroadcastClaim(t)
  \/ \E s \in Swaps : SetClaimTransactionId(t, s) \/ FinalizeChainSwap(t, s)
  \/ FinishClaim(t)
  \/ ClaimSwapsReturns(t)
-----------------------------------------------------------------------------
(***************************************************************************)
(* The daemon stops anywhere, and starts again.                            *)
(***************************************************************************)
StopDaemon ==
  /\ daemon = "running"
  /\ daemon' = "down"
  /\ refunds' = [t \in Threads |-> Refunds!NoJob]
  /\ claims' = [t \in Threads |-> Claims!NoJob]
  /\ booking' = [t \in Threads |-> {}]
  /\ h' = NoUpdate
  /\ paying' = {}
  /\ UNCHANGED <<row, chainVars, height>>

\* GetChainSwapTransactions errors, which is sure when there is no lockup: the
\* inner err shadows the outer one, and err.Error() is called on nil.
FetchLockupsPanics ==
  /\ h.pc = "lockups"
  /\ "api" \in Faults \/ from[h.swap] = "none"
  /\ StopDaemon

Restart ==
  /\ daemon = "down"
  /\ daemon' = "running"
  /\ UNCHANGED <<row, chainVars, jobVars, height, h, paying>>

\* The block listener knows a new block before the nursery works on it.
RegisterBlock ==
  /\ daemon = "running"
  /\ height < MaxHeight
  /\ height' = height + 1
  /\ UNCHANGED <<row, chainVars, jobVars, daemon, h, paying>>
-----------------------------------------------------------------------------
(***************************************************************************)
(* The environment: the user, the two chains and lightzd.                  *)
(***************************************************************************)
EnvUnchanged == UNCHANGED <<row, jobVars, height, daemon, h, paying>>

\* Whoever pays a swap that is not paid by the wallet.
UserPays(s) ==
  /\ Exists(s)
  /\ s \notin paying
  /\ from[s] = "none"
  /\ from' = [from EXCEPT ![s] = "locked"]
  /\ UNCHANGED <<to, value, revealed>>
  /\ EnvUnchanged

ServerLocksUp(s) ==
  /\ Exists(s)
  /\ to[s] = "none"
  /\ to' = [to EXCEPT ![s] = "mempool"]
  /\ \E v \in Value : value' = [value EXCEPT ![s] = v]
  /\ UNCHANGED <<from, revealed>>
  /\ EnvUnchanged

\* The client does not ask whether the coins of the user have confirmed.
LockupConfirms(s) ==
  /\ to[s] = "mempool"
  /\ to' = [to EXCEPT ![s] = "locked"]
  /\ UNCHANGED <<from, value, revealed>>
  /\ EnvUnchanged

ServerClaims(s) ==
  /\ s \in revealed
  /\ from[s] \in Refunds!Unspent
  /\ from' = [from EXCEPT ![s] = "server"]
  /\ UNCHANGED <<to, value, revealed>>
  /\ EnvUnchanged

\* Its timeout is not modelled: the client does not look at it.
ServerTakesBack(s) ==
  /\ to[s] \in Claims!Unspent
  /\ to' = [to EXCEPT ![s] = "server"]
  /\ UNCHANGED <<from, value, revealed>>
  /\ EnvUnchanged

Environment(s) ==
  \/ UserPays(s)
  \/ ServerLocksUp(s)
  \/ LockupConfirms(s)
  \/ ServerClaims(s)
  \/ ServerTakesBack(s)
-----------------------------------------------------------------------------
Next ==
  \/ \E s \in Swaps : \/ CreateChainSwap(s)
                      \/ SendToAddress(s) \/ SendToAddressFails(s)
  \/ \E s \in Swaps : ProcessUpdate(s)
  \/ HandleChainSwapStatus
  \/ CheckRefundableSwaps
  \/ CheckClaimableSwaps
  \/ \E t \in Threads : RefundSwaps(t) \/ ClaimSwaps(t)
  \/ StopDaemon
  \/ FetchLockupsPanics
  \/ Restart
  \/ RegisterBlock
  \/ \E s \in Swaps : Environment(s)

Spec == Init /\ [][Next]_vars
-----------------------------------------------------------------------------
(***************************************************************************)
(* Safety.                                                                 *)
(***************************************************************************)
(***************************************************************************)
(* The preimage gives the coins of the user away, so it only leaves the    *)
(* client for coins of the amount agreed on, and for unconfirmed ones only *)
(* when the user accepted that, whatever lightzd said of them (FindOutput, *)
(* QueryClaimableSwaps and handleChainSwapStatus together).  Of a swap     *)
(* that was created without an amount nothing is said about the amount,    *)
(* with or without a quote: before one there is none to compare with, and  *)
(* the preimage may leave for coins of any amount.                         *)
(***************************************************************************)
PreimageOnlyForLockup ==
  \A s \in revealed :
    /\ to[s] # "none"
    /\ to[s] = "mempool" => row[s].zeroConf
    /\ \/ value[s] = "agreed"
       \/ row[s].quoted # "no" /\ value[s] = "quoted"
       \/ row[s].open

(***************************************************************************)
(* A claim or a refund in the database is one on chain, and the states     *)
(* SUCCESSFUL and REFUNDED each have theirs: three goroutines write the    *)
(* columns, and the two that refund do so without updateLock.              *)
(***************************************************************************)
RecordsAreReal ==
  \A s \in Swaps :
    /\ row[s].claim => to[s] = "client"
    /\ row[s].refund => from[s] = "client"
    /\ row[s].state = "SUCCESSFUL" => row[s].claim
    /\ row[s].state = "REFUNDED" => row[s].refund

(***************************************************************************)
(* A quote of lightzd, which names the amount it wants to send for what    *)
(* the user has locked up, never replaces the agreed amounts if it costs   *)
(* more than the service fee, the network fees and the tolerance, although *)
(* all of the comparison is made with words that wrap around               *)
(* (chain.go:223, fees.go:53-90).                                          *)
(***************************************************************************)
NeverOvercharged == \A s \in Swaps : row[s].quoted # "overcharge"

(***************************************************************************)
(* The swap keeps the contract of module ChainContract.                    *)
(***************************************************************************)
Contract ==
  INSTANCE ChainContract WITH
    from   <- [s \in Swaps |-> IF from[s] \in Refunds!Unspent THEN "locked"
                               ELSE from[s]],
    to     <- [s \in Swaps |-> IF to[s] \in Claims!Unspent THEN "locked"
                               ELSE to[s]],
    secret <- [s \in Swaps |-> s \notin revealed],
    shown  <- [s \in Swaps |-> CASE row[s].state = "SUCCESSFUL" -> "success"
                                 [] row[s].state = "REFUNDED" -> "refund"
                                 [] OTHER -> "open"]

KeepsContract == Contract!Spec
=============================================================================
