---------------------------- MODULE SubmarineSwap ---------------------------
(***************************************************************************)
(* Submarine swaps in the nursery: the client locks coins on chain and     *)
(* lightzd pays a lightning invoice for them.                              *)
(*                                                                         *)
(* The goroutines that touch a swap, and the shared state between them:    *)
(*   - Ws, the reader of the lightzd websocket: processUpdate re-reads the *)
(*     row and runs handleSwapStatus with updateLock held;                 *)
(*   - Block, the block listener: checkRefundableSwaps, without a lock;    *)
(*   - the RPC server: CreateSwap, and RefundSwap in each of the other     *)
(*     Threads, without a lock;                                            *)
(*   - the row of the swap in the database, whose columns are written one  *)
(*     by one, each from a copy of the row read some time before;          *)
(*   - the lockup output on chain and the backend's view of the swap.      *)
(* Every database write is a step of its own unless nothing that runs      *)
(* between two of them can tell them apart, so that the client may crash   *)
(* between any two.                                                        *)
(***************************************************************************)
EXTENDS CreateTransaction, Subscriptions

CONSTANTS Ws, Block,   \* two of the Threads
          Timeout,     \* Timeout[s]: timeoutBlockheight
          Small,       \* swaps below the minimum of a cooperative claim
          Old,         \* swaps of an earlier run of the daemon, see OldRow
          OldStatus,   \* OldStatus[s]: the status an old swap starts with
          MaxHeight,   \* bound: later blocks look like this one
          MaxCrashes   \* bound on the crashes of the daemon

ASSUME SubmarineAssumption ==
  /\ Swaps # {}
  /\ {Ws, Block} \subseteq Threads
  /\ Ws # Block
  /\ MaxHeight \in Nat
  /\ MaxCrashes \in Nat
  /\ Timeout \in [Swaps -> 0 .. MaxHeight - 1]
  /\ Small \subseteq Swaps
  /\ Old \subseteq Swaps
  /\ OldStatus \in [Old -> {"InvoiceSet", "InvoicePending"} \cup FailedStatus]

VARIABLES
  row,       \* database: row[s], the table swaps
  invoice,   \* invoice[s]: who made the invoice, and who knows of it
  paid,      \* paid[s]: lightzd has paid the invoice, and knows the preimage
  signed,    \* signed[s]: lightzd has our partial signature for its claim
  height,    \* block height the client knows of
  daemon,    \* "running", "down" or "panicked"
  crashes,   \* number of crashes so far
  h,         \* the update processUpdate works on, with updateLock held
  newBlock,  \* a block epoch waits for the block listener
  creating   \* creating[s]: where the CreateSwap call of the swap is

rpcVars == <<creating>>
srvVars == <<srv, paid, signed, invoice>>
netVars == <<live, updates>>
wsVars  == <<h, sub, netVars>>
sysVars == <<daemon, crashes>>
vars == <<row, coins, job, height, newBlock, rpcVars, srvVars, wsVars, sysVars>>

Rpcs == Threads \ {Ws, Block}

\* Column lockupTransactionId: '', the transaction of the lockup output, or
\* some other one, which has no output at the lockup address.
LockupId == {"none", "right", "wrong"}

Row == [state    : SwapState \cup {"NONE"},
        status   : SwapUpdateEvent,
        invoice  : BOOLEAN,   \* column invoice is not ''
        lockup   : LockupId,
        preimage : BOOLEAN,   \* column preimage is not ''
        refund   : BOOLEAN,   \* column refundTransactionId is not ''
        dest     : BOOLEAN]   \* refundAddress or walletId is set

\* There is no row.
NoRow == [state |-> "NONE", status |-> "SwapCreated", invoice |-> FALSE,
          lockup |-> "none", preimage |-> FALSE, refund |-> FALSE,
          dest |-> FALSE]

UpdateStep ==
  {"idle", "lockup", "invoice", "storeInvoice", "claim", "status", "complete",
   "failed", "refund"}

Update == [pc    : UpdateStep,
           swap  : Swaps,
           ev    : SwapUpdateEvent,   \* parsedStatus
           mem   : Row,               \* the copy of the row, *swap
           batch : BOOLEAN]           \* batchOnly

NoUpdate == [pc |-> "idle", swap |-> CHOOSE s \in Swaps : TRUE,
             ev |-> "SwapCreated", mem |-> NoRow, batch |-> FALSE]

\* "external": the user brought the invoice.  Otherwise the client owns the
\* preimage and makes the invoice itself, once the coins are locked: "none",
\* "created" by the lightning node, "set" once lightzd knows it too.
Invoice == {"external", "none", "created", "set"}

Exists(s) == row[s].state # "NONE"

(***************************************************************************)
(* Types, and that nothing is written to a swap that has no row: the       *)
(* UPDATE statements of the database would be lost without an error.       *)
(***************************************************************************)
TypeOK ==
  /\ row \in [Swaps -> Row]
  /\ \A s \in Swaps : ~Exists(s) => row[s] = NoRow
  /\ h.pc # "idle" => Exists(h.swap)
  /\ coins \in [Swaps -> Coins]
  /\ job \in [Threads -> Job]
  /\ invoice \in [Swaps -> Invoice]
  /\ srv \in [Swaps -> SwapUpdateEvent]
  /\ paid \in [Swaps -> BOOLEAN]
  /\ signed \in [Swaps -> BOOLEAN]
  /\ height \in 0 .. MaxHeight
  /\ daemon \in {"running", "down", "panicked"}
  /\ crashes \in 0 .. MaxCrashes
  /\ h \in Update
  /\ sub \subseteq Swaps
  /\ live \subseteq Swaps
  /\ updates \in [Swaps -> Seq(SwapUpdateEvent)]
  /\ newBlock \in BOOLEAN
  /\ creating \in [Swaps -> {"no", "pay", "register"}]

\* The coins of an old swap are locked.  With "InvoiceSet" the daemon has yet to
\* learn of them, with "InvoicePending" lightzd is about to pay, and a status
\* in FailedStatus is that of a swap it gave up, whose refund was not made yet.
OldRow(status) ==
  [state    |-> IF status \in FailedStatus THEN "SERVER_ERROR" ELSE "PENDING",
   status   |-> status,
   invoice  |-> TRUE,
   lockup   |-> IF status = "InvoiceSet" THEN "none" ELSE "right",
   preimage |-> FALSE,
   refund   |-> FALSE,
   dest     |-> TRUE]

Init ==
  /\ row = [s \in Swaps |-> IF s \in Old THEN OldRow(OldStatus[s]) ELSE NoRow]
  /\ srv = [s \in Swaps |-> IF s \in Old THEN OldStatus[s] ELSE "SwapCreated"]
  /\ sub = {s \in Old : OldStatus[s] \notin FailedStatus}
  /\ coins = [s \in Swaps |-> IF s \in Old THEN "locked" ELSE "none"]
  /\ job = [t \in Threads |-> NoJob]
  /\ invoice = [s \in Swaps |-> IF s \in Old THEN "external" ELSE "none"]
  /\ paid = [s \in Swaps |-> FALSE]
  /\ signed = [s \in Swaps |-> FALSE]
  /\ height = 0
  /\ daemon = "running"
  /\ crashes = 0
  /\ h = NoUpdate
  /\ live = sub
  /\ updates = [s \in Swaps |-> <<>>]
  /\ newBlock = FALSE
  /\ creating = [s \in Swaps |-> "no"]
-----------------------------------------------------------------------------
(***************************************************************************)
(* RPC CreateSwap.  The row is inserted before the wallet pays, and the    *)
(* websocket is subscribed to after that; a provider that does not tell    *)
(* the block height in between ends the call.                              *)
(***************************************************************************)
CreateSwap(s) ==
  /\ daemon = "running"
  /\ ~Exists(s)
  /\ \E own, dest, internal \in BOOLEAN :
       /\ internal => ~own /\ dest
       /\ row' = [row EXCEPT ![s] =
                    [NoRow EXCEPT !.state = "PENDING", !.invoice = ~own,
                                  !.preimage = own, !.dest = dest]]
       /\ invoice' = [invoice EXCEPT ![s] = IF own THEN "none" ELSE "external"]
       /\ srv' = [srv EXCEPT ![s] = IF own THEN "SwapCreated" ELSE "InvoiceSet"]
       /\ \/ creating' = [creating EXCEPT ![s] = IF internal THEN "pay"
                                                 ELSE "register"]
          \/ "api" \in Faults /\ UNCHANGED creating
  /\ UNCHANGED <<coins, job, height, newBlock, paid, signed, wsVars, sysVars>>

SendToAddress(s) ==
  /\ creating[s] = "pay"
  /\ \/ /\ coins' = [coins EXCEPT ![s] = "mempool"]
        /\ creating' = [creating EXCEPT ![s] = "register"]
        /\ UNCHANGED row
     \/ /\ {"api", "broadcast"} \cap Faults # {}
        /\ row' = [row EXCEPT ![s].state = "ERROR"]
        /\ creating' = [creating EXCEPT ![s] = "no"]
        /\ \/ UNCHANGED coins
           \/ /\ "broadcast" \in Faults
              /\ coins' = [coins EXCEPT ![s] = "mempool"]
  /\ UNCHANGED <<job, height, newBlock, srvVars, wsVars, sysVars>>

\* RegisterSwap connects when there is no connection.  When the subscription
\* fails, and again after a reconnect, the call returns the error: nothing
\* listens to the swap, or, when the reconnect failed, to any swap.
RegisterSwap(s) ==
  /\ creating[s] = "register"
  /\ creating' = [creating EXCEPT ![s] = "no"]
  /\ \/ LET S == IF live = {} THEN sub \cup {s} ELSE {s}
        IN  /\ \A x \in S : Room(x)
            /\ sub' = sub \cup {s}
            /\ live' = live \cup S
            /\ Subscribe(S, AllKept)
     \/ "api" \in Faults /\ live' \in {live, {}} /\ UNCHANGED <<sub, updates>>
  /\ UNCHANGED <<row, coins, job, height, newBlock, srvVars, h, sysVars>>

\* The connection is lost and made anew.
Reconnect ==
  /\ "connection" \in Faults
  /\ Resubscribe
  /\ UNCHANGED <<row, coins, job, height, newBlock, rpcVars, srvVars, h, sub,
                 sysVars>>
-----------------------------------------------------------------------------
(***************************************************************************)
(* processUpdate and handleSwapStatus.  One goroutine takes the updates    *)
(* and holds updateLock while it works on one; an update may be old by     *)
(* the time it is taken, or be the status the row already has.             *)
(***************************************************************************)
NeedsLockup(ev, r) ==
  /\ ev # "InvoiceSet"
  /\ ev \in {"TransactionMempool", "TransactionConfirmed"}
     \/ r.lockup = "none"

\* The switch over the status, up to UpdateSwapStatus.
Dispatch(ev, r) ==
  IF ev \in {"TransactionMempool", "TransactionConfirmed"} /\ ~r.invoice
  THEN "invoice"
  ELSE IF ev = "TransactionClaimPending" THEN "claim" ELSE "status"

\* One status of each kind that handleSwapStatus tells apart.
AnyStatus == {"InvoiceSet", "TransactionMempool", "TransactionClaimPending",
              "TransactionClaimed", "SwapExpired"}

\* Mutant: an update of an unknown swap is worked on.
QueryAnySwap_Unchecked(s) == TRUE

QueryAnySwap(s) == Exists(s)

ProcessUpdate(s) ==
  /\ daemon = "running"
  /\ h.pc = "idle"
  /\ QueryAnySwap(s)
  /\ Trusted => updates[s] # <<>>
  /\ \E ev \in IF Trusted THEN {Head(updates[s])} ELSE AnyStatus :
       IF ev = row[s].status /\ ev # "TransactionMempool"
       THEN UNCHANGED h
       ELSE h' = [pc    |-> IF NeedsLockup(ev, row[s]) THEN "lockup"
                            ELSE Dispatch(ev, row[s]),
                  swap  |-> s,
                  ev    |-> ev,
                  mem   |-> row[s],
                  batch |-> FALSE]
  /\ updates' = [updates EXCEPT ![s] = IF Trusted THEN Tail(@) ELSE @]
  /\ UNCHANGED <<row, coins, job, height, newBlock, rpcVars, srvVars, sub,
                 live, sysVars>>

\* handleSwapError, and the handler returns.  ERROR is not a final state, so
\* the subscription stays.
HandleError ==
  /\ row' = [row EXCEPT ![h.swap].state = "ERROR"]
  /\ h' = NoUpdate
  /\ UNCHANGED <<sub, live>>

\* sendSwapUpdate with the copy r: a final update unsubscribes the swap.
SendSwapUpdate(r) ==
  IF r.state \in {"SUCCESSFUL", "REFUNDED"} /\ r.lockup # "none"
  THEN Unsubscribe(h.swap) ELSE UNCHANGED <<sub, live>>

\* The process ends: only what is not in its memory stays.
StopDaemon(how) ==
  /\ daemon = "running"
  /\ daemon' = how
  /\ job' = [t \in Threads |-> NoJob]
  /\ h' = NoUpdate
  /\ sub' = {}
  /\ live' = {}
  /\ updates' = [s \in Swaps |-> <<>>]
  /\ newBlock' = FALSE
  /\ creating' = [s \in Swaps |-> "no"]
  /\ UNCHANGED <<row, coins, height, srvVars>>

Panic == StopDaemon("panicked") /\ UNCHANGED crashes

(***************************************************************************)
(* The id of whatever transaction lightzd sent is stored before FindOutput *)
(* looks for the output in it: one that does not pay the lockup address    *)
(* takes the place of the right id, if the row had it, and is an error.    *)
(***************************************************************************)
FetchLockup ==
  /\ h.pc = "lockup"
  /\ \/ /\ coins[h.swap] # "none"
        /\ row' = [row EXCEPT ![h.swap].lockup = "right"]
        /\ h' = [h EXCEPT !.pc = Dispatch(h.ev, h.mem), !.mem.lockup = "right"]
        /\ UNCHANGED <<sub, live>>
     \* FindOutput fails, or GetTransactionFee after it.
     \/ /\ \E id \in {"right", "wrong"} :
             /\ IF id = "right" THEN coins[h.swap] # "none" /\ "api" \in Faults
                ELSE ~Trusted
             /\ row' = [row EXCEPT ![h.swap].lockup = id,
                                   ![h.swap].state = "ERROR"]
        /\ h' = NoUpdate
        /\ UNCHANGED <<sub, live>>
     \* The transaction can not be decoded.
     \/ ~Trusted /\ HandleError
  /\ UNCHANGED <<coins, job, height, newBlock, rpcVars, srvVars, updates,
                 sysVars>>

\* GetSwapTransaction errors, as it does when there is no lockup transaction:
\* the inner err shadows the outer one, and err.Error() is called on nil.
FetchLockupPanics ==
  /\ h.pc = "lockup"
  /\ coins[h.swap] = "none" \/ "api" \in Faults
  /\ Panic

(***************************************************************************)
(* A swap created from a preimage hash: the invoice for the locked amount  *)
(* is made by the lightning node, given to lightzd, and stored.  The node  *)
(* makes only one invoice for a payment hash.                              *)
(***************************************************************************)
CreateInvoice ==
  /\ h.pc = "invoice"
  /\ \/ /\ invoice[h.swap] = "none"
        /\ invoice' = [invoice EXCEPT ![h.swap] = "set"]
        /\ h' = [h EXCEPT !.pc = "storeInvoice"]
        /\ UNCHANGED <<row, sub, live>>
     \/ /\ invoice[h.swap] # "none" \/ "api" \in Faults
        /\ invoice' \in {invoice, [invoice EXCEPT ![h.swap] =
                                     IF @ = "none" THEN "created" ELSE @]}
        /\ HandleError
     \* The amount lightzd asks for is not accepted.
     \/ ~Trusted /\ HandleError /\ UNCHANGED invoice
  /\ UNCHANGED <<coins, job, height, newBlock, rpcVars, srv, paid, signed,
                 updates, sysVars>>

StoreInvoice ==
  /\ h.pc = "storeInvoice"
  /\ row' = [row EXCEPT ![h.swap].invoice = TRUE]
  /\ h' = [h EXCEPT !.pc = "status", !.mem.invoice = TRUE]
  /\ UNCHANGED <<coins, job, height, newBlock, rpcVars, srvVars, sub, netVars,
                 sysVars>>

\* Mutant: the preimage lightzd sends is believed.
PreimageIsValid_Unchecked(s) == TRUE

\* What lightzd sends as the preimage hashes to the payment hash only if the
\* invoice was paid.
PreimageIsValid(s) == paid[s]

(***************************************************************************)
(* transaction.claim.pending: decide batchOnly, else cooperativeSwapClaim, *)
(* whose errors are only logged.  The preimage is checked and stored       *)
(* before the partial signature leaves the client.                         *)
(***************************************************************************)
CooperativeSwapClaim ==
  LET s == h.swap
      stored == [h EXCEPT !.pc = "status", !.mem.preimage = TRUE]
  IN  \/ /\ PreimageIsValid(s)
         /\ row' = [row EXCEPT ![s].preimage = TRUE]
         /\ h' = stored
         /\ \/ signed' = [signed EXCEPT ![s] = TRUE]
            \/ "api" \in Faults /\ UNCHANGED signed
      \/ /\ ~PreimageIsValid(s) \/ "api" \in Faults
         /\ h' = [h EXCEPT !.pc = "status"]
         /\ UNCHANGED <<row, signed>>

ClaimPending ==
  /\ h.pc = "claim"
  /\ \/ /\ h.mem.invoice
        /\ h.swap \in Small
        /\ h' = [h EXCEPT !.pc = "status", !.batch = TRUE]
        /\ UNCHANGED <<row, signed, sub, live>>
     \/ /\ h.mem.invoice
        /\ h.swap \notin Small
        /\ CooperativeSwapClaim
        /\ UNCHANGED <<sub, live>>
     \/ /\ ~h.mem.invoice \/ "api" \in Faults
        /\ HandleError
        /\ UNCHANGED signed
  /\ UNCHANGED <<coins, job, height, newBlock, rpcVars, srv, paid, invoice,
                 updates, sysVars>>

\* Mutant: the check for a pending swap guards both branches.
AfterStatus_PendingOnly(ev, r, batch) ==
  IF r.state # "PENDING" THEN "idle"
  ELSE IF ev \in CompletedStatus \/ batch THEN "complete"
       ELSE IF ev \in FailedStatus THEN "failed" ELSE "idle"

\* The branch taken once the status is stored.
AfterStatus(ev, r, batch) ==
  IF ev \in CompletedStatus \/ batch THEN "complete"
  ELSE IF ev \in FailedStatus /\ r.state = "PENDING" THEN "failed" ELSE "idle"

UpdateSwapStatus ==
  LET next == AfterStatus(h.ev, h.mem, h.batch)
  IN  /\ h.pc = "status"
      /\ row' = [row EXCEPT ![h.swap].status = h.ev]
      /\ IF next = "idle"
         THEN h' = NoUpdate /\ SendSwapUpdate(h.mem)
         ELSE /\ h' = [h EXCEPT !.pc = next, !.mem.status = h.ev]
              /\ UNCHANGED <<sub, live>>
      /\ UNCHANGED <<coins, job, height, newBlock, rpcVars, srvVars, updates,
                     sysVars>>

\* A completed swap needs the invoice to be decoded and the preimage, which is
\* fetched and checked unless the copy has it.
Complete ==
  LET s == h.swap
  IN  /\ h.pc = "complete"
      /\ \/ /\ h.mem.invoice
            /\ h.mem.preimage \/ PreimageIsValid(s)
            /\ row' = [row EXCEPT ![s].preimage = TRUE,
                                  ![s].state = "SUCCESSFUL"]
            /\ h' = NoUpdate
            /\ SendSwapUpdate([h.mem EXCEPT !.state = "SUCCESSFUL"])
         \/ /\ \/ ~h.mem.invoice
               \/ ~h.mem.preimage /\ (~PreimageIsValid(s) \/ "api" \in Faults)
            /\ HandleError
      /\ UNCHANGED <<coins, job, height, newBlock, rpcVars, srvVars, updates,
                     sysVars>>

\* Mutant: the timeout is not looked at.
Cooperative_Always(S) == S

\* RefundSwaps: an output is cooperative until its timeout.
Cooperative(S) == {s \in S : Timeout[s] > height}

(***************************************************************************)
(* The backend gave up on a swap that is pending in the copy of the row:   *)
(* SERVER_ERROR is stored over whatever the row holds by now, and the      *)
(* coins are refunded cooperatively if they are known and have a place to  *)
(* go to.                                                                  *)
(***************************************************************************)
RefundFailed ==
  LET s == h.swap
  IN  /\ h.pc = "failed"
      /\ \/ /\ row' = [row EXCEPT ![s].state = "SERVER_ERROR"]
            /\ IF h.mem.lockup # "none" /\ h.mem.dest
               THEN /\ Start(Ws, {s}, Cooperative({s}))
                    /\ h' = [h EXCEPT !.pc = "refund",
                                      !.mem.state = "SERVER_ERROR"]
               ELSE UNCHANGED job /\ h' = NoUpdate
            /\ UNCHANGED <<sub, live>>
         \* GetBlockHeight fails.
         \/ "api" \in Faults /\ h.mem.lockup # "none" /\ HandleError /\ UNCHANGED job
      /\ UNCHANGED <<coins, height, newBlock, rpcVars, srvVars, updates,
                     sysVars>>

\* RefundSwaps is done.  The closing sendSwapUpdate adds nothing to the one
\* setTransaction sent.
RefundReturned ==
  /\ h.pc = "refund"
  /\ Return(Ws)
  /\ IF job[Ws].pc = "err" THEN HandleError
     ELSE h' = NoUpdate /\ UNCHANGED <<row, sub, live>>
  /\ UNCHANGED <<coins, height, newBlock, rpcVars, srvVars, updates, sysVars>>
-----------------------------------------------------------------------------
(***************************************************************************)
(* Refunds by the block listener and by RPC RefundSwap.                    *)
(***************************************************************************)
\* Mutant: the query forgets the swaps that only timed out.
Refundable_NoTimeout(s, now) ==
  /\ row[s].lockup # "none"
  /\ ~row[s].refund
  /\ row[s].state \in {"SERVER_ERROR", "ERROR"}

\* The query QueryRefundableSwaps.
Refundable(s, now) ==
  /\ row[s].lockup # "none"
  /\ ~row[s].refund
  /\ \/ row[s].state \in {"SERVER_ERROR", "ERROR"}
     \/ row[s].state # "SUCCESSFUL" /\ Timeout[s] < now

CheckRefundableSwaps ==
  LET outs == {s \in Swaps : Refundable(s, height) /\ row[s].dest}
  IN  /\ daemon = "running"
      /\ newBlock
      /\ ~Running(Block)
      /\ newBlock' = FALSE
      /\ \/ outs # {} /\ Start(Block, outs, Cooperative(outs))
         \/ (outs = {} \/ "api" \in Faults) /\ UNCHANGED job
      /\ UNCHANGED <<row, coins, height, rpcVars, srvVars, wsVars, sysVars>>

\* The address or wallet of the request is stored before the refund starts.
RefundSwap(t, s) ==
  /\ daemon = "running"
  /\ t \in Rpcs
  /\ Refundable(s, height)
  /\ row' = [row EXCEPT ![s].dest = TRUE]
  /\ \/ Start(t, {s}, Cooperative({s}))
     \/ "api" \in Faults /\ ~Running(t) /\ UNCHANGED job
  /\ UNCHANGED <<coins, height, newBlock, rpcVars, srvVars, wsVars, sysVars>>

\* output.setError of the outputs in S: handleSwapError.
SetErrors(S) ==
  row' = [s \in Swaps |-> IF s \in S THEN [row[s] EXCEPT !.state = "ERROR"]
                          ELSE row[s]]

JobUnchanged ==
  UNCHANGED <<height, newBlock, rpcVars, srvVars, h, updates, sysVars>>

\* The id looked for is that of the copy the job was given.  Under an untrusted
\* lightzd it may be a wrong one, whatever the row holds by now.
WrongId(t) == IF Trusted THEN {} ELSE job[t].outs

PopulateOutputs(t) ==
  /\ \E bad \in SUBSET job[t].outs : \E wrong \in SUBSET WrongId(t) :
       Populate(t, Missing(t) \cup wrong, bad) /\ SetErrors(bad)
  /\ UNCHANGED <<sub, live>>
  /\ JobUnchanged

\* lightzd signs a refund only of a swap it has given up.
MustRefuse(t) == {s \in job[t].coop : srv[s] \notin FailedStatus}

MayRefuse(t, refused) ==
  \/ ~Trusted
  \/ refused = MustRefuse(t)
  \/ "refuse" \in Faults /\ MustRefuse(t) \subseteq refused

ConstructTransaction(t) ==
  /\ \E refused \in SUBSET job[t].coop : \E small \in SUBSET job[t].outs :
       /\ MayRefuse(t, refused)
       /\ ConstructRefund(t, refused, small)
       /\ SetErrors(IF refused = job[t].outs THEN refused ELSE {})
  /\ UNCHANGED <<sub, live>>
  /\ JobUnchanged

TransactionFails(t) ==
  /\ ConstructFails(t) \/ BroadcastFails(t)
  /\ SetErrors(job[t].outs)
  /\ UNCHANGED <<sub, live>>
  /\ JobUnchanged

ConstructTransactionPanics(t) ==
  /\ ConstructPanics(t)
  /\ Trusted => "refuse" \in Faults /\ MustRefuse(t) # job[t].outs
  /\ Panic

BroadcastTransaction(t) ==
  /\ Broadcast(t) \/ Rebroadcast(t) \/ BroadcastUnanswered(t)
  /\ UNCHANGED <<row, sub, live>>
  /\ JobUnchanged

\* SetSwapRefundTransactionId, and a final update.
SetTransaction(t) ==
  /\ \E s \in job[t].todo :
       /\ Record(t, s)
       /\ row' = [row EXCEPT ![s].state = "REFUNDED", ![s].refund = TRUE]
       /\ Unsubscribe(s)
  /\ JobUnchanged

FinishTransaction(t) ==
  /\ Finish(t)
  /\ SetErrors(job[t].errs)
  /\ UNCHANGED <<sub, live>>
  /\ JobUnchanged

RefundSwapsReturns(t) ==
  /\ t # Ws
  /\ Return(t)
  /\ UNCHANGED <<row, coins, sub, live>>
  /\ JobUnchanged

RefundSwaps(t) ==
  \/ PopulateOutputs(t)
  \/ ConstructTransaction(t)
  \/ TransactionFails(t)
  \/ ConstructTransactionPanics(t)
  \/ BroadcastTransaction(t)
  \/ SetTransaction(t)
  \/ FinishTransaction(t)
  \/ RefundSwapsReturns(t)
-----------------------------------------------------------------------------
(***************************************************************************)
(* The daemon stops anywhere, and starts again with recoverSwaps.          *)
(***************************************************************************)
Crash ==
  /\ crashes < MaxCrashes
  /\ crashes' = crashes + 1
  /\ StopDaemon("down")

RecoverSwaps ==
  /\ daemon # "running"
  /\ daemon' = "running"
  /\ sub' = {s \in Swaps : row[s].state \in RecoveredState}
  /\ live' = sub'
  /\ Subscribe(sub', AllKept)
  /\ UNCHANGED <<row, coins, job, height, newBlock, rpcVars, srvVars, h,
                 crashes>>

\* The block listener stores the height and hands the block on; it is blocked
\* until the nursery has taken the previous one.
RegisterBlock ==
  /\ daemon = "running"
  /\ ~newBlock
  /\ newBlock' = TRUE
  /\ height' = IF height = MaxHeight THEN height ELSE height + 1
  /\ UNCHANGED <<row, coins, job, rpcVars, srvVars, wsVars, sysVars>>
-----------------------------------------------------------------------------
(***************************************************************************)
(* The environment: the user, the chain and lightzd, as far as the client  *)
(* can see them.                                                           *)
(***************************************************************************)
UserLocksCoins(s) ==
  /\ Exists(s)
  /\ creating[s] # "pay"
  /\ coins[s] = "none"
  /\ coins' = [coins EXCEPT ![s] = "mempool"]
  /\ UNCHANGED <<row, job, height, newBlock, rpcVars, srvVars, wsVars, sysVars>>

LockupConfirms(s) ==
  /\ coins[s] = "mempool"
  /\ coins' = [coins EXCEPT ![s] = "locked"]
  /\ UNCHANGED <<row, job, height, newBlock, rpcVars, srvVars, wsVars, sysVars>>

\* What an untrusted lightzd reports is in AnyStatus.
ServerReports(s, ev) ==
  /\ Trusted
  /\ Report(s, ev)
  /\ UNCHANGED <<row, coins, job, height, newBlock, rpcVars, paid, signed,
                 invoice, h, sub, live, sysVars>>

ServerSeesLockup(s) ==
  \/ /\ coins[s] = "mempool"
     /\ srv[s] \in {"SwapCreated", "InvoiceSet"}
     /\ ServerReports(s, "TransactionMempool")
  \/ /\ coins[s] = "locked"
     /\ srv[s] \in {"SwapCreated", "InvoiceSet", "TransactionMempool"}
     /\ ServerReports(s, "TransactionConfirmed")

ServerTriesToPay(s) ==
  /\ srv[s] \in {"TransactionMempool", "TransactionConfirmed"}
  /\ invoice[s] \in {"external", "set"}
  /\ ServerReports(s, "InvoicePending")

ServerPays(s) ==
  /\ IF Trusted THEN srv[s] = "InvoicePending"
     ELSE invoice[s] \in {"external", "set"}
  /\ coins[s] \in Unspent
  /\ paid' = [paid EXCEPT ![s] = TRUE]
  /\ Report(s, "TransactionClaimPending")
  /\ UNCHANGED <<row, coins, job, height, newBlock, rpcVars, signed, invoice, h,
                 sub, live, sysVars>>

ServerGivesUp(s) ==
  \/ srv[s] = "InvoicePending" /\ ServerReports(s, "InvoiceFailedToPay")
  \/ /\ srv[s] \in {"TransactionMempool", "InvoiceSet", "SwapCreated"}
     /\ coins[s] # "none"
     /\ ServerReports(s, "TransactionLockupFailed")
  \/ /\ Exists(s)
     /\ ~paid[s]
     /\ srv[s] \notin {"SwapExpired", "InvoicePending"}
     /\ coins[s] = "none" => "expire" \in Faults
     /\ ServerReports(s, "SwapExpired")

\* The claim needs the preimage, or our partial signature.
ServerClaims(s) ==
  /\ coins[s] \in Unspent
  /\ paid[s] \/ signed[s]
  /\ coins' = [coins EXCEPT ![s] = "server"]
  /\ Report(s, "TransactionClaimed")
  /\ UNCHANGED <<row, job, height, newBlock, rpcVars, paid, signed, invoice, h,
                 sub, live, sysVars>>

Environment(s) ==
  \/ UserLocksCoins(s)
  \/ LockupConfirms(s)
  \/ ServerSeesLockup(s)
  \/ ServerTriesToPay(s)
  \/ ServerPays(s)
  \/ ServerGivesUp(s)
  \/ ServerClaims(s)
-----------------------------------------------------------------------------
HandleSwapStatus ==
  \/ FetchLockup
  \/ FetchLockupPanics
  \/ CreateInvoice
  \/ StoreInvoice
  \/ ClaimPending
  \/ UpdateSwapStatus
  \/ Complete
  \/ RefundFailed
  \/ RefundReturned

Next ==
  \/ \E s \in Swaps : CreateSwap(s) \/ SendToAddress(s) \/ RegisterSwap(s)
  \/ Reconnect
  \/ \E s \in Swaps : ProcessUpdate(s)
  \/ HandleSwapStatus
  \/ CheckRefundableSwaps
  \/ \E t \in Threads, s \in Swaps : RefundSwap(t, s)
  \/ \E t \in Threads : RefundSwaps(t)
  \/ Crash
  \/ RecoverSwaps
  \/ RegisterBlock
  \/ \E s \in Swaps : Environment(s)

Spec == Init /\ [][Next]_vars
-----------------------------------------------------------------------------
(***************************************************************************)
(* Safety.                                                                 *)
(***************************************************************************)
(***************************************************************************)
(* lightzd never holds our partial signature for its claim before it has   *)
(* paid the invoice: cooperativeSwapClaim checks the preimage against the  *)
(* payment hash before it signs, whatever lightzd reports.                 *)
(***************************************************************************)
SignedOnlyIfPaid == \A s \in Swaps : signed[s] => paid[s]

(***************************************************************************)
(* A swap for an invoice of the user is only shown as successful with the  *)
(* proof of the payment in the database, and never on the word of lightzd. *)
(***************************************************************************)
ProofOfPayment ==
  \A s \in Swaps :
    row[s].state = "SUCCESSFUL" /\ invoice[s] = "external"
      => paid[s] /\ row[s].preimage

(***************************************************************************)
(* A refund in the database is a refund on chain, and a swap shown as      *)
(* refunded has one: the id is stored only after the broadcast.            *)
(***************************************************************************)
RefundIsOnChain ==
  \A s \in Swaps :
    /\ row[s].refund => coins[s] = "client"
    /\ row[s].state = "REFUNDED" => row[s].refund

(***************************************************************************)
(* Locked coins that bought nothing stay refundable: whatever order the    *)
(* goroutines wrote the columns in, the query of the block listener will   *)
(* find the swap once its timeout has passed.  It is said of coins whose   *)
(* transaction the row knows: a row that never learnt it, or that holds    *)
(* the wrong id an untrusted lightzd sent, does not lead to the coins.     *)
(***************************************************************************)
StaysRefundable ==
  \A s \in Swaps :
    /\ row[s].lockup = "right"
    /\ coins[s] \in Unspent
    /\ ~paid[s]
    /\ invoice[s] = "external"
    => Refundable(s, Timeout[s] + 1)

(***************************************************************************)
(* What the error path of handleSwapStatus announces ("Could not get       *)
(* lockup tx from lightzd"), and src/docs/grpc.md for a swap that timed    *)
(* out without a lockup: the swap gets an error, the daemon goes on.       *)
(***************************************************************************)
NeverPanics == daemon # "panicked"

(***************************************************************************)
(* The swap keeps the contract of module SwapContract.  A lightzd that     *)
(* lies can make the client show success for an invoice of its own node,   *)
(* whose preimage the client had from the start.                           *)
(***************************************************************************)
Contract ==
  INSTANCE SwapContract WITH
    funds   <- [s \in Swaps |-> IF coins[s] \in Unspent THEN "locked"
                                ELSE coins[s]],
    settled <- paid,
    shown   <- [s \in Swaps |->
                  CASE row[s].state = "SUCCESSFUL"
                         /\ (Trusted \/ invoice[s] = "external") -> "success"
                    [] row[s].state = "REFUNDED" -> "refund"
                    [] OTHER -> "open"]

KeepsContract == Contract!Spec
-----------------------------------------------------------------------------
(***************************************************************************)
(* Liveness.  Goroutines run, blocks are found, the daemon is started      *)
(* again, and a broadcast that is tried again and again gets through once. *)
(* Nothing is assumed of lightzd or the user.                              *)
(***************************************************************************)
Fairness ==
  /\ WF_vars(HandleSwapStatus)
  /\ \A s \in Swaps : SF_vars(ProcessUpdate(s))
  /\ WF_vars(RegisterBlock)
  /\ WF_vars(CheckRefundableSwaps)
  /\ WF_vars(RecoverSwaps)
  /\ \A t \in Threads : WF_vars(RefundSwaps(t))
  /\ \A t \in Threads : SF_vars(Valid(t) /\ BroadcastTransaction(t))

FairSpec == Spec /\ Fairness

\* The refund query finds a swap whose coins lightzd has claimed: its output
\* makes every transaction of the block listener invalid.
Spoiled ==
  \E s \in Swaps :
    Refundable(s, height) /\ row[s].dest /\ coins[s] = "server"

(***************************************************************************)
(* Coins the client has seen locked, that have a place to go back to, do   *)
(* not stay locked: lightzd pays for them or they are refunded.            *)
(***************************************************************************)
CoinsComeBack ==
  \A s \in Swaps :
    /\ row[s].lockup = "right"
    /\ row[s].dest
    /\ coins[s] \in Unspent
    /\ ~paid[s]
    ~> coins[s] \notin Unspent \/ paid[s] \/ []Spoiled

(***************************************************************************)
(* The transaction that refunds the coins gets into the rows of all swaps  *)
(* of its batch, whichever goroutine made it.                              *)
(***************************************************************************)
RefundIsRecorded == \A s \in Swaps : coins[s] = "client" ~> row[s].refund

(***************************************************************************)
(* The claim of lightzd is the end of a swap that is still subscribed to:  *)
(* the client learns of it and shows the swap as successful, also when the *)
(* update comes late or the status has moved on meanwhile.                 *)
(***************************************************************************)
PaidSwapSucceeds ==
  \A s \in Swaps :
    srv[s] = "TransactionClaimed" /\ s \in sub \cap live
      ~> row[s].state = "SUCCESSFUL"
=============================================================================
