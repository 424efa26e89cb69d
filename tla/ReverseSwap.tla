----------------------------- MODULE ReverseSwap ----------------------------
(***************************************************************************)
(* Reverse swaps in the nursery: a lightning payment is held by lightzd    *)
(* until it learns the preimage, which the client gives away to claim the  *)
(* coins lightzd has locked up for it on chain.                            *)
(*                                                                         *)
(* The goroutines that touch a swap, and the shared state between them:    *)
(*   - Ws, the reader of the lightzd websocket: processUpdate re-reads the *)
(*     row and runs handleReverseSwapStatus with updateLock held;          *)
(*   - Block, the block listener: checkExternalReverseSwaps without, then  *)
(*     checkClaimableSwaps with updateLock;                                *)
(*   - the receiver of wallet notifications: checkExternalReverseSwaps,    *)
(*     without a lock;                                                     *)
(*   - the RPC server: CreateReverseSwap, and ClaimSwaps in each of the    *)
(*     other Threads, which asks what can be claimed before it locks;      *)
(*   - one goroutine for each swap that pays its invoice.                  *)
(* A swap may also be paid on chain directly, to its claim address: then   *)
(* the lightning payment never happens.                                    *)
(***************************************************************************)
EXTENDS CreateTransaction, Subscriptions

CONSTANTS Ws, Block,   \* two of the Threads
          Checkers,    \* Block and the receiver of wallet notifications
          Requests,    \* Requests[s]: what the user may ask for with the swap
          Cautious,    \* swaps whose direct payments must confirm
          MaxCrashes   \* bound on the crashes of the daemon

\* "wallet": no claim address before it is claimed; "both": a wallet, and an
\* address of it that lightzd may hint to, or one given to ClaimSwaps.
Destination == {"wallet", "address", "both"}

\* An address of the wallet is only asked for when somebody else pays.
Request == {r \in [zeroConf : BOOLEAN, external : BOOLEAN, dest : Destination] :
              r.dest = "both" => r.external}

ASSUME ReverseAssumption ==
  /\ Swaps # {}
  /\ {Ws, Block} \subseteq Threads
  /\ Ws # Block
  /\ Block \in Checkers
  /\ Requests \in [Swaps -> SUBSET Request]
  /\ Cautious \subseteq Swaps
  /\ MaxCrashes \in Nat

VARIABLES
  row,       \* database: row[s], the table reverseSwaps
  payment,   \* payment[s]: the lightning payment, as the paying node knows it
  paying,    \* swaps a goroutine of the client pays the invoice of
  revealed,  \* swaps whose preimage has left the client
  direct,    \* direct[s]: an output at the claim address that is not a claim
  daemon,    \* "running" or "down"
  crashes,   \* number of crashes so far
  h,         \* the update processUpdate works on, with updateLock held
  block,     \* where the block listener is
  listed,    \* listed[t]: swaps checkExternalReverseSwaps has still to look at
  asked,     \* asked[t]: what ClaimSwaps waits for updateLock with
  booking,   \* booking[t]: the claim id is stored, the state not yet
  creating   \* creating[s]: where the CreateReverseSwap call is

envVars == <<srv, payment, direct>>
rpcVars == <<creating, asked>>
netVars == <<live, updates>>
wsVars  == <<h, sub, netVars>>
checkVars == <<block, listed>>
sysVars == <<daemon, crashes>>
vars == <<row, coins, job, booking, paying, revealed, envVars, rpcVars, wsVars,
          checkVars, sysVars>>

Rpcs == Threads \ {Ws, Block}

\* "claim" and "direct": the id of such a transaction, from the wallet or the
\* chain; "named": one that lightzd gave for a direct payment.
ClaimId == {"none", "claim", "direct", "named"}

Row == [state    : SwapState \cup {"NONE"},
        status   : SwapUpdateEvent,
        lockup   : BOOLEAN,                      \* lockupTransactionId # ''
        claim    : ClaimId,                      \* claimTransactionId
        zeroConf : BOOLEAN,                      \* acceptZeroConf
        external : BOOLEAN,                      \* externalPay
        dest     : Destination]

\* There is no row.
NoRow == [state |-> "NONE", status |-> "SwapCreated", lockup |-> FALSE,
          claim |-> "none", zeroConf |-> FALSE, external |-> FALSE,
          dest |-> "wallet"]

UpdateStep == {"idle", "direct", "lockup", "claim", "status", "failed"}

Update == [pc    : UpdateStep,
           swap  : Swaps,
           ev    : SwapUpdateEvent,           \* parsedStatus
           state : SwapState \cup {"NONE"}]   \* state of the copy of the row

NoUpdate == [pc |-> "idle", swap |-> CHOOSE s \in Swaps : TRUE,
             ev |-> "SwapCreated", state |-> "NONE"]

\* "held": lightzd has the payment and can not take it without the preimage.
Payment == {"none", "held", "settled", "failed"}

\* "short": an output that is worth too little for the swap.
Direct == {"none", "short", "mempool", "confirmed"}

Exists(s) == row[s].state # "NONE"

(***************************************************************************)
(* Types, and that nothing is written to a swap that has no row.           *)
(***************************************************************************)
TypeOK ==
  /\ row \in [Swaps -> Row]
  /\ \A s \in Swaps : ~Exists(s) => row[s] = NoRow
  /\ h.pc # "idle" => Exists(h.swap)
  /\ coins \in [Swaps -> Coins]
  /\ job \in [Threads -> Job]
  /\ booking \in [Threads -> SUBSET Swaps]
  /\ payment \in [Swaps -> Payment]
  /\ direct \in [Swaps -> Direct]
  /\ srv \in [Swaps -> SwapUpdateEvent]
  /\ paying \subseteq Swaps
  /\ revealed \subseteq Swaps
  /\ daemon \in {"running", "down"}
  /\ crashes \in 0 .. MaxCrashes
  /\ h \in Update
  /\ sub \subseteq Swaps
  /\ live \subseteq Swaps
  /\ updates \in [Swaps -> Seq(SwapUpdateEvent)]
  /\ block \in {"idle", "external", "outputs", "claiming"}
  /\ listed \in [Checkers -> SUBSET Swaps]
  /\ asked \in [Rpcs -> SUBSET Swaps]
  /\ creating \in [Swaps -> {"no", "register", "pay"}]

Init ==
  /\ row = [s \in Swaps |-> NoRow]
  /\ coins = [s \in Swaps |-> "none"]
  /\ job = [t \in Threads |-> NoJob]
  /\ booking = [t \in Threads |-> {}]
  /\ payment = [s \in Swaps |-> "none"]
  /\ direct = [s \in Swaps |-> "none"]
  /\ srv = [s \in Swaps |-> "SwapCreated"]
  /\ paying = {}
  /\ revealed = {}
  /\ daemon = "running"
  /\ crashes = 0
  /\ h = NoUpdate
  /\ sub = {}
  /\ live = {}
  /\ updates = [s \in Swaps |-> <<>>]
  /\ block = "idle"
  /\ listed = [t \in Checkers |-> {}]
  /\ asked = [t \in Rpcs |-> {}]
  /\ creating = [s \in Swaps |-> "no"]
-----------------------------------------------------------------------------
(***************************************************************************)
(* RPC CreateReverseSwap.  The row is inserted, the websocket is           *)
(* subscribed to, and only then the invoice is paid.                       *)
(***************************************************************************)
CreateReverseSwap(s) ==
  /\ daemon = "running"
  /\ ~Exists(s)
  /\ \E r \in Requests[s] :
       row' = [row EXCEPT ![s] =
                 [NoRow EXCEPT !.state = "PENDING", !.zeroConf = r.zeroConf,
                               !.external = r.external, !.dest = r.dest]]
  /\ creating' = [creating EXCEPT ![s] = "register"]
  /\ UNCHANGED <<coins, job, booking, paying, revealed, envVars, asked, wsVars,
                 checkVars, sysVars>>

\* A subscription that fails ends the call, with or without a connection left.
RegisterReverseSwap(s) ==
  /\ creating[s] = "register"
  /\ \/ LET S == IF live = {} THEN sub \cup {s} ELSE {s}
        IN  /\ \A x \in S : Room(x)
            /\ sub' = sub \cup {s}
            /\ live' = live \cup S
            /\ Subscribe(S, AllKept)
            /\ creating' = [creating EXCEPT ![s] = "pay"]
     \/ /\ "api" \in Faults
        /\ live' \in {live, {}}
        /\ creating' = [creating EXCEPT ![s] = "no"]
        /\ UNCHANGED <<sub, updates>>
  /\ UNCHANGED <<row, coins, job, booking, paying, revealed, envVars, asked, h,
                 checkVars, sysVars>>

\* PaymentStatus is asked for before a payment is made; an answer that is an
\* error is taken as no payment.
NeedsPayment(s) ==
  /\ ~row[s].external
  /\ payment[s] \in {"none", "failed"} \/ "api" \in Faults

PayReverseSwap(s) ==
  /\ creating[s] = "pay"
  /\ creating' = [creating EXCEPT ![s] = "no"]
  /\ \/ paying' = IF NeedsPayment(s) THEN paying \cup {s} ELSE paying
     \/ "api" \in Faults /\ UNCHANGED paying
  /\ UNCHANGED <<row, coins, job, booking, revealed, envVars, asked, wsVars,
                 checkVars, sysVars>>

\* The node sends the payment, and the goroutine waits for its outcome.
PayInvoice(s) ==
  /\ s \in paying
  /\ payment[s] = "none"
  /\ payment' = [payment EXCEPT ![s] = "held"]
  /\ UNCHANGED <<row, coins, job, booking, paying, revealed, srv, direct,
                 rpcVars, wsVars, checkVars, sysVars>>

\* An error is stored whatever the row holds by now.  ERROR is not final, so
\* the subscription stays.
PayInvoiceReturns(s) ==
  /\ s \in paying
  /\ \/ payment[s] = "settled" /\ UNCHANGED row
     \/ /\ payment[s] = "failed" \/ "api" \in Faults
        /\ row' = [row EXCEPT ![s].state = "ERROR"]
  /\ paying' = paying \ {s}
  /\ UNCHANGED <<coins, job, booking, revealed, envVars, rpcVars, wsVars,
                 checkVars, sysVars>>

\* The connection is lost and made anew.
Reconnect ==
  /\ "connection" \in Faults
  /\ Resubscribe
  /\ UNCHANGED <<row, coins, job, booking, paying, revealed, envVars, rpcVars,
                 h, sub, checkVars, sysVars>>
-----------------------------------------------------------------------------
(***************************************************************************)
(* processUpdate and handleReverseSwapStatus.  updateLock is held by an    *)
(* update, and by every job: those of ClaimSwaps and checkClaimableSwaps   *)
(* run with it, that of an update inside it.                               *)
(***************************************************************************)
LockFree == h.pc = "idle" /\ \A t \in Threads : ~Running(t)

\* The switch over the status, with the copy r of the row.
Dispatch(ev, r) ==
  IF ev = "TransactionDirect" THEN "direct"
  ELSE IF ev \in {"TransactionMempool", "TransactionConfirmed"}
          /\ r.claim = "none"
       THEN "lockup" ELSE "status"

\* One status of each kind that handleReverseSwapStatus tells apart:
\* transaction.mempool falls through to transaction.confirmed.
AnyStatus == {"TransactionMempool", "TransactionDirect", "InvoiceSettled",
              "SwapExpired", "TransactionRefunded"}

\* Mutant: an update of an unknown swap is worked on.
QueryAnySwap_Unchecked(s) == TRUE

QueryAnySwap(s) == Exists(s)

ProcessUpdate(s) ==
  /\ daemon = "running"
  /\ LockFree
  /\ QueryAnySwap(s)
  /\ Trusted => updates[s] # <<>>
  /\ \E ev \in IF Trusted THEN {Head(updates[s])} ELSE AnyStatus :
       IF ev = row[s].status
       THEN UNCHANGED h
       ELSE h' = [pc |-> Dispatch(ev, row[s]), swap |-> s, ev |-> ev,
                  state |-> row[s].state]
  /\ updates' = [updates EXCEPT ![s] = IF Trusted THEN Tail(@) ELSE @]
  /\ UNCHANGED <<row, coins, job, booking, paying, revealed, envVars, rpcVars,
                 sub, live, checkVars, sysVars>>

\* handleReverseSwapError.
HandleError(s) ==
  /\ row' = [row EXCEPT ![s].state = "ERROR"]
  /\ UNCHANGED <<sub, live>>

\* sendReverseSwapUpdate: a final update unsubscribes the swap.
SendUpdate(s, state) ==
  IF state \in {"SUCCESSFUL", "SERVER_ERROR"} THEN Unsubscribe(s)
  ELSE UNCHANGED <<sub, live>>

UpdateUnchanged ==
  UNCHANGED <<coins, booking, paying, revealed, envVars, rpcVars, updates,
              checkVars, sysVars>>

\* The lockup id is stored as lightzd reports it; a swap that trusts it
\* unconfirmed is claimed at once.
StoreLockup ==
  LET s == h.swap
  IN  /\ h.pc = "lockup"
      /\ row' = [row EXCEPT ![s].lockup = TRUE]
      /\ IF row[s].zeroConf
         THEN Start(Ws, {s}, {s}) /\ h' = [h EXCEPT !.pc = "claim"]
         ELSE h' = [h EXCEPT !.pc = "status"] /\ UNCHANGED job
      /\ UNCHANGED <<sub, live>>
      /\ UpdateUnchanged

\* A claim that failed ends the update before its status is stored, so that
\* the same status is not taken for an old one.
ClaimReturned ==
  /\ h.pc = "claim"
  /\ Return(Ws)
  /\ h' = IF job[Ws].pc = "err" THEN NoUpdate ELSE [h EXCEPT !.pc = "status"]
  /\ UNCHANGED <<row, sub, live>>
  /\ UpdateUnchanged

UpdateReverseSwapStatus ==
  LET failed == h.ev \in FailedStatus /\ h.state = "PENDING"
  IN  /\ h.pc = "status"
      /\ row' = [row EXCEPT ![h.swap].status = h.ev]
      /\ IF failed
         THEN h' = [h EXCEPT !.pc = "failed"] /\ UNCHANGED <<sub, live>>
         ELSE h' = NoUpdate /\ SendUpdate(h.swap, h.state)
      /\ UNCHANGED job
      /\ UpdateUnchanged

\* SERVER_ERROR goes over whatever the row holds by now.
FailReverseSwap ==
  /\ h.pc = "failed"
  /\ row' = [row EXCEPT ![h.swap].state = "SERVER_ERROR"]
  /\ h' = NoUpdate
  /\ SendUpdate(h.swap, "SERVER_ERROR")
  /\ UNCHANGED job
  /\ UpdateUnchanged
-----------------------------------------------------------------------------
(***************************************************************************)
(* Direct payments.  The outputs at the claim address include the claim    *)
(* itself when it went to the address the swap was created with.           *)
(***************************************************************************)
\* What chooseDirectOutput may choose: an output that pays enough.
Choices(s) ==
  (IF direct[s] \in {"mempool", "confirmed"} THEN {"direct"} ELSE {})
    \cup (IF coins[s] = "client" THEN {"claim"} ELSE {})

\* Mutant: a direct payment counts before it confirms.
Accepted_Always(s, choice) == TRUE

\* A claim may be confirmed or not, as far as the model is concerned.
Accepted(s, choice) ==
  choice = "direct" => s \notin Cautious \/ direct[s] = "confirmed"

\* handleReverseSwapDirectPayments: one transaction of the database.
DirectPayments(s) ==
  \/ \E choice \in Choices(s) :
       /\ Accepted(s, choice)
       /\ row' = [row EXCEPT ![s].claim = choice, ![s].state = "SUCCESSFUL",
                             ![s].status = "TransactionDirect"]
       /\ Unsubscribe(s)
  \/ /\ s \in Cautious
     /\ "claim" \in Choices(s) \/ direct[s] = "mempool"
     /\ row' = [row EXCEPT ![s].status = "TransactionDirectMempool"]
     /\ UNCHANGED <<sub, live>>
  \/ direct[s] = "short" /\ UNCHANGED <<row, sub, live>>
  \/ "api" \in Faults /\ HandleError(s)

\* The same for a transaction under an id that lightzd names: nothing compares
\* the two.  It is the id whose confirmation is asked for, so the answer may be
\* anything; one that is empty stores none; the claim of another swap is passed
\* over.
NamedPayments(s) ==
  \/ /\ Choices(s) # {}
     /\ \E id \in IF s \in Cautious THEN {"named"} ELSE {"named", "none"} :
          row' = [row EXCEPT ![s].claim = id, ![s].state = "SUCCESSFUL",
                             ![s].status = "TransactionDirect"]
     /\ Unsubscribe(s)
  \/ /\ Choices(s) # {}
     /\ s \in Cautious
     /\ row' = [row EXCEPT ![s].status = "TransactionDirectMempool"]
     /\ UNCHANGED <<sub, live>>
  \/ UNCHANGED <<row, sub, live>>

\* transaction.direct: lightzd gives the transaction, which is broadcast, and
\* its id; an untrusted lightzd may give a transaction that is not valid or
\* pays somebody else, the claim of the client, or the id of another one.
DirectTransaction ==
  LET s == h.swap
  IN  /\ h.pc = "direct"
      /\ \/ /\ row[s].dest # "wallet"
            /\ direct[s] # "none" \/ coins[s] = "client"
            /\ DirectPayments(s) \/ (~Trusted /\ NamedPayments(s))
            /\ h' = NoUpdate
         \/ /\ row[s].dest = "wallet" \/ ~Trusted \/ "api" \in Faults
            /\ HandleError(s)
            /\ h' = NoUpdate
         \* A wallet of gdk notices the payment by itself.
         \/ /\ row[s].dest # "address"
            /\ h' = [h EXCEPT !.pc = "status"]
            /\ UNCHANGED <<row, sub, live>>
      /\ UNCHANGED job
      /\ UpdateUnchanged

NewBlock ==
  /\ daemon = "running"
  /\ block = "idle"
  /\ block' = "external"
  /\ UNCHANGED <<row, coins, job, booking, paying, revealed, envVars, rpcVars,
                 wsVars, listed, sysVars>>

\* Mutant: a swap that was seen before it confirmed is not looked at again.
External_Once(s) ==
  /\ row[s].state \in RecoveredState
  /\ row[s].status = "SwapCreated"
  /\ row[s].external
  /\ row[s].dest = "both"

\* Swaps somebody else pays, to an address of a wallet of the client.
External(s) ==
  /\ row[s].state \in RecoveredState
  /\ row[s].external
  /\ row[s].dest = "both"

\* checkExternalReverseSwaps, on a block or on a notification of the wallet.
CheckExternalReverseSwaps(t) ==
  /\ daemon = "running"
  /\ IF t = Block THEN block = "external" /\ block' = "outputs"
     ELSE listed[t] = {} /\ UNCHANGED block
  /\ listed' = [listed EXCEPT ![t] = {s \in Swaps : External(s)}]
  /\ UNCHANGED <<row, coins, job, booking, paying, revealed, envVars, rpcVars,
                 wsVars, sysVars>>

\* The swaps one after the other, each with the outputs of its address.  A
\* wallet that can not list them ends the check.
CheckOutputs(t, s) ==
  /\ s \in listed[t]
  /\ \/ /\ direct[s] # "none" \/ coins[s] = "client"
        /\ DirectPayments(s)
        /\ listed' = [listed EXCEPT ![t] = @ \ {s}]
     \/ /\ direct[s] = "none"
        /\ listed' = [listed EXCEPT ![t] = @ \ {s}]
        /\ UNCHANGED <<row, sub, live>>
     \/ /\ "api" \in Faults
        /\ listed' = [listed EXCEPT ![t] = {}]
        /\ UNCHANGED <<row, sub, live>>
  /\ UNCHANGED <<coins, job, booking, paying, revealed, envVars, rpcVars, h,
                 updates, block, sysVars>>
-----------------------------------------------------------------------------
(***************************************************************************)
(* Claims by the block listener and by RPC ClaimSwaps.                     *)
(***************************************************************************)
\* Mutant: the lockup need not be confirmed.
LockupConfirmed_Always(s) == TRUE

\* IsTransactionConfirmed of the lockup transaction.
LockupConfirmed(s) == coins[s] \in {"locked", "server", "client"}

\* Mutant: the query goes by the status, which a direct payment overwrites.
Claimable_Confirmed(s) ==
  /\ row[s].lockup
  /\ row[s].claim = "none"
  /\ row[s].status \in {"TransactionMempool", "TransactionConfirmed"}
  /\ row[s].zeroConf \/ LockupConfirmed(s)

\* Mutant: the query does not look for a claim.
Claimable_Again(s) ==
  /\ row[s].lockup
  /\ row[s].status # "TransactionRefunded"
  /\ row[s].zeroConf \/ LockupConfirmed(s)

\* QueryClaimableSwaps.  What the query returns does not depend on the state
\* of a swap, nor on its timeout.
Claimable(s) ==
  /\ row[s].lockup
  /\ row[s].claim = "none"
  /\ row[s].status # "TransactionRefunded"
  /\ row[s].zeroConf \/ LockupConfirmed(s)

CheckClaimableSwaps ==
  LET outs == {s \in Swaps : Claimable(s)}
  IN  /\ daemon = "running"
      /\ block = "outputs"
      /\ listed[Block] = {}
      /\ LockFree
      /\ IF outs = {}
         THEN block' = "idle" /\ UNCHANGED job
         ELSE block' = "claiming" /\ Start(Block, outs, outs)
      /\ UNCHANGED <<row, coins, booking, paying, revealed, envVars, rpcVars,
                     wsVars, listed, sysVars>>

\* ClaimSwaps stores the destination of the request, then waits for the lock.
AskToClaim(t, S) ==
  /\ daemon = "running"
  /\ asked[t] = {}
  /\ ~Running(t)
  /\ S # {}
  /\ \A s \in S : Claimable(s)
  /\ \E to \in {"wallet", "address"} :
       row' = [s \in Swaps |->
                 IF s \in S THEN [row[s] EXCEPT !.dest = IF @ = to THEN @
                                                         ELSE "both"]
                 ELSE row[s]]
  /\ asked' = [asked EXCEPT ![t] = S]
  /\ UNCHANGED <<coins, job, booking, paying, revealed, envVars, creating,
                 wsVars, checkVars, sysVars>>

ClaimSwaps(t) ==
  /\ asked[t] # {}
  /\ LockFree
  /\ Start(t, asked[t], asked[t])
  /\ asked' = [asked EXCEPT ![t] = {}]
  /\ UNCHANGED <<row, coins, booking, paying, revealed, envVars, creating,
                 wsVars, checkVars, sysVars>>

\* output.setError of the outputs in S.
SetErrors(S) ==
  row' = [s \in Swaps |-> IF s \in S THEN [row[s] EXCEPT !.state = "ERROR"]
                          ELSE row[s]]

JobUnchanged ==
  UNCHANGED <<paying, envVars, rpcVars, h, updates, listed, sysVars>>

PopulateOutputs(t) ==
  /\ \E bad \in SUBSET job[t].outs :
       Populate(t, Missing(t), bad) /\ SetErrors(bad)
  /\ UNCHANGED <<booking, revealed, sub, live, block>>
  /\ JobUnchanged

\* A request for a partial signature carries the preimage.
ConstructTransaction(t) ==
  /\ \E small \in SUBSET job[t].outs : ConstructClaim(t, small)
  /\ revealed' = revealed \cup job[t].outs
  /\ UNCHANGED <<row, booking, sub, live, block>>
  /\ JobUnchanged

TransactionFails(t) ==
  /\ ConstructFails(t) \/ BroadcastFails(t)
  /\ SetErrors(job[t].outs)
  /\ UNCHANGED <<booking, revealed, sub, live, block>>
  /\ JobUnchanged

BroadcastTransaction(t) ==
  /\ Broadcast(t) \/ Rebroadcast(t) \/ BroadcastUnanswered(t)
  /\ UNCHANGED <<row, booking, revealed, sub, live, block>>
  /\ JobUnchanged

\* setTransaction: SetReverseSwapClaimTransactionId ...
SetClaimTransactionId(t, s) ==
  /\ job[t].pc = "record"
  /\ s \in job[t].todo
  /\ booking[t] = {}
  /\ booking' = [booking EXCEPT ![t] = {s}]
  /\ row' = [row EXCEPT ![s].claim = "claim"]
  /\ UNCHANGED <<coins, job, revealed, sub, live, block>>
  /\ JobUnchanged

\* ... then finalizeReverseSwap.  A payment status that can not be had leaves
\* the state as it is and skips ApplyTransaction; the error is only logged.
FinalizeReverseSwap(t, s) ==
  /\ s \in booking[t]
  /\ Record(t, s)
  /\ booking' = [booking EXCEPT ![t] = {}]
  /\ \/ /\ row' = [row EXCEPT ![s].state = "SUCCESSFUL"]
        /\ Unsubscribe(s)
        /\ row[s].dest = "address" => job'[t].errs = job[t].errs
     \/ /\ "api" \in Faults
        /\ ~row[s].external
        /\ job'[t].errs = job[t].errs
        /\ UNCHANGED <<row, sub, live>>
  /\ UNCHANGED <<revealed, block>>
  /\ JobUnchanged

FinishTransaction(t) ==
  /\ Finish(t)
  /\ SetErrors(job[t].errs)
  /\ UNCHANGED <<booking, revealed, sub, live, block>>
  /\ JobUnchanged

ClaimSwapsReturns(t) ==
  /\ t # Ws
  /\ Return(t)
  /\ block' = IF t = Block THEN "idle" ELSE block
  /\ UNCHANGED <<row, coins, booking, revealed, sub, live>>
  /\ JobUnchanged

CreateClaim(t) ==
  \/ PopulateOutputs(t)
  \/ ConstructTransaction(t)
  \/ TransactionFails(t)
  \/ BroadcastTransaction(t)
  \/ \E s \in Swaps : SetClaimTransactionId(t, s) \/ FinalizeReverseSwap(t, s)
  \/ FinishTransaction(t)
  \/ ClaimSwapsReturns(t)
-----------------------------------------------------------------------------
(***************************************************************************)
(* The daemon stops anywhere, and starts again with recoverSwaps.          *)
(***************************************************************************)
Crash ==
  /\ crashes < MaxCrashes
  /\ daemon = "running"
  /\ crashes' = crashes + 1
  /\ daemon' = "down"
  /\ job' = [t \in Threads |-> NoJob]
  /\ booking' = [t \in Threads |-> {}]
  /\ paying' = {}
  /\ h' = NoUpdate
  /\ sub' = {}
  /\ live' = {}
  /\ updates' = [s \in Swaps |-> <<>>]
  /\ block' = "idle"
  /\ listed' = [t \in Checkers |-> {}]
  /\ asked' = [t \in Rpcs |-> {}]
  /\ creating' = [s \in Swaps |-> "no"]
  /\ UNCHANGED <<row, coins, revealed, envVars>>

\* The invoices are paid first; a swap whose payment can not be started is not
\* subscribed to.
RecoverSwaps ==
  LET recovered == {s \in Swaps : row[s].state \in RecoveredState}
  IN  /\ daemon = "down"
      /\ daemon' = "running"
      /\ \E skipped \in SUBSET {s \in recovered : ~row[s].external} :
           /\ skipped # {} => "api" \in Faults
           /\ sub' = recovered \ skipped
           /\ paying' = {s \in sub' : NeedsPayment(s)}
      /\ live' = sub'
      /\ Subscribe(sub', AllKept)
      /\ UNCHANGED <<row, coins, job, booking, revealed, envVars, rpcVars, h,
                     checkVars, crashes>>
-----------------------------------------------------------------------------
(***************************************************************************)
(* The environment: the payer, the chain and lightzd.                      *)
(***************************************************************************)
EnvUnchanged ==
  UNCHANGED <<row, job, booking, paying, revealed, rpcVars, h, sub, live,
              checkVars, sysVars>>

Quiet == UNCHANGED <<srv, updates>>

\* Somebody else pays the invoice, over lightning or to the claim address.
UserPays(s) ==
  /\ row[s].external
  /\ Quiet
  /\ \/ /\ payment[s] = "none"
        /\ payment' = [payment EXCEPT ![s] = "held"]
        /\ UNCHANGED direct
     \/ /\ direct[s] = "none"
        /\ row[s].dest # "wallet"
        /\ \E d \in {"short", "mempool"} :
             direct' = [direct EXCEPT ![s] = d]
        /\ UNCHANGED payment
  /\ UNCHANGED coins
  /\ EnvUnchanged

DirectConfirms(s) ==
  /\ direct[s] = "mempool"
  /\ direct' = [direct EXCEPT ![s] = "confirmed"]
  /\ UNCHANGED <<coins, payment>>
  /\ Quiet
  /\ EnvUnchanged

LockupConfirms(s) ==
  /\ coins[s] = "mempool"
  /\ coins' = [coins EXCEPT ![s] = "locked"]
  /\ UNCHANGED <<payment, direct>>
  /\ Quiet
  /\ EnvUnchanged

\* An untrusted lightzd locks coins up whenever it likes.
ServerLocksUp(s) ==
  /\ Exists(s)
  /\ coins[s] = "none"
  /\ srv[s] = "SwapCreated"
  /\ Trusted => payment[s] = "held"
  /\ coins' = [coins EXCEPT ![s] = "mempool"]
  /\ Report(s, "TransactionMempool")
  /\ UNCHANGED <<payment, direct>>
  /\ EnvUnchanged

\* What an untrusted lightzd reports is in AnyStatus.
ServerSees(s) ==
  /\ Trusted
  /\ \/ /\ coins[s] = "locked"
        /\ srv[s] = "TransactionMempool"
        /\ Report(s, "TransactionConfirmed")
     \/ /\ direct[s] # "none"
        /\ srv[s] = "SwapCreated"
        /\ Report(s, "TransactionDirect")
  /\ UNCHANGED <<coins, payment, direct>>
  /\ EnvUnchanged

\* lightzd takes the payment when it knows the preimage, from a request of the
\* client or from the claim on chain.
ServerSettles(s) ==
  /\ payment[s] = "held"
  /\ s \in revealed
  /\ payment' = [payment EXCEPT ![s] = "settled"]
  /\ Report(s, "InvoiceSettled")
  /\ UNCHANGED <<coins, direct>>
  /\ EnvUnchanged

\* The swap expires: lightzd cancels the payment and takes its coins back.  One
\* that can not be trusted may keep the payment, to settle it nevertheless.
ServerGivesUp(s) ==
  /\ "expire" \in Faults
  /\ coins[s] # "client"
  /\ \/ /\ Exists(s)
        /\ srv[s] \notin {"SwapExpired", "TransactionRefunded"}
        /\ Report(s, "SwapExpired")
        /\ UNCHANGED coins
     \/ /\ Trusted => srv[s] = "SwapExpired"
        /\ coins[s] \in Unspent
        /\ coins' = [coins EXCEPT ![s] = "server"]
        /\ Report(s, "TransactionRefunded")
  /\ \/ /\ payment[s] # "settled"
        /\ payment' = [payment EXCEPT ![s] = "failed"]
     \/ ~Trusted /\ UNCHANGED payment
  /\ UNCHANGED direct
  /\ EnvUnchanged

Environment(s) ==
  \/ UserPays(s)
  \/ DirectConfirms(s)
  \/ LockupConfirms(s)
  \/ ServerLocksUp(s)
  \/ ServerSees(s)
  \/ ServerSettles(s)
  \/ ServerGivesUp(s)
-----------------------------------------------------------------------------
HandleReverseSwapStatus ==
  \/ StoreLockup
  \/ ClaimReturned
  \/ UpdateReverseSwapStatus
  \/ FailReverseSwap
  \/ DirectTransaction

Next ==
  \/ \E s \in Swaps : \/ CreateReverseSwap(s)
                      \/ RegisterReverseSwap(s)
                      \/ PayReverseSwap(s)
                      \/ PayInvoice(s)
                      \/ PayInvoiceReturns(s)
  \/ Reconnect
  \/ \E s \in Swaps : ProcessUpdate(s)
  \/ HandleReverseSwapStatus
  \/ NewBlock
  \/ \E t \in Checkers : CheckExternalReverseSwaps(t)
  \/ \E t \in Checkers, s \in Swaps : CheckOutputs(t, s)
  \/ CheckClaimableSwaps
  \/ \E t \in Rpcs : ClaimSwaps(t) \/ \E S \in SUBSET Swaps : AskToClaim(t, S)
  \/ \E t \in Threads : CreateClaim(t)
  \/ Crash
  \/ RecoverSwaps
  \/ \E s \in Swaps : Environment(s)

Spec == Init /\ [][Next]_vars
-----------------------------------------------------------------------------
(***************************************************************************)
(* Safety.                                                                 *)
(***************************************************************************)
(***************************************************************************)
(* The preimage buys lightzd the lightning payment, so it only leaves the  *)
(* client for a lockup of the agreed amount, and for an unconfirmed one    *)
(* only when the user accepted that: src/docs/grpc.md of accept_zero_conf. *)
(* It takes QueryClaimableSwaps and FindOutput together, on a row that     *)
(* says what lightzd said.  Neither asks for the timeout of the swap or    *)
(* whether the output is still unspent: lightzd may have taken the coins   *)
(* back by then, so "server" is among the coins allowed here.              *)
(***************************************************************************)
PreimageOnlyForLockup ==
  \A s \in revealed :
    /\ coins[s] # "none"
    /\ coins[s] = "mempool" => row[s].zeroConf

\* The coins were claimed, or enough was paid to the claim address.
Received(s) == coins[s] = "client" \/ direct[s] \in {"mempool", "confirmed"}

(***************************************************************************)
(* A claim in the database is a claim on chain, a direct payment found by  *)
(* the wallet is one that was accepted, and a swap is only successful, or  *)
(* stored with an id of lightzd's, when a claim or a payment of enough has *)
(* at least been broadcast: whichever of the three goroutines that store   *)
(* them came last.  That a payment lightzd names has confirmed is not      *)
(* among it, as its id may be that of another transaction                  *)
(* (src/internal/nursery/reverse.go:241).                                  *)
(***************************************************************************)
SuccessIsReceived ==
  \A s \in Swaps :
    /\ row[s].claim = "claim" => coins[s] = "client"
    /\ row[s].claim = "direct" =>
         \/ direct[s] = "confirmed"
         \/ direct[s] = "mempool" /\ s \notin Cautious
    /\ row[s].claim = "named" \/ row[s].state = "SUCCESSFUL" => Received(s)

(***************************************************************************)
(* What updateLock is for (src/internal/nursery/nursery.go:47): it should  *)
(* keep a ClaimSwaps call and an update from each other until the claim    *)
(* "is updated in the db", so that a swap that succeeded stays so.         *)
(***************************************************************************)
SuccessIsFinal ==
  [][\A s \in Swaps : row[s].state = "SUCCESSFUL"
                         => row'[s].state = "SUCCESSFUL"]_vars

(***************************************************************************)
(* The swap keeps the contract of module ReverseContract, which promises   *)
(* less with a lightzd that can not be trusted.                            *)
(***************************************************************************)
Contract ==
  INSTANCE ReverseContract WITH
    funds   <- [s \in Swaps |-> IF coins[s] \in Unspent THEN "locked"
                                ELSE coins[s]],
    settled <- [s \in Swaps |-> payment[s] = "settled"],
    gift    <- [s \in Swaps |-> direct[s] \in {"mempool", "confirmed"}],
    success <- [s \in Swaps |-> row[s].state = "SUCCESSFUL"]

KeepsContract == Contract!Spec
-----------------------------------------------------------------------------
(***************************************************************************)
(* Liveness.  Goroutines run, blocks are found, the daemon is started      *)
(* again, and a broadcast that is tried again and again gets through once. *)
(* updateLock is a mutex that goes to whoever waits for it in the end.     *)
(* Nothing is assumed of lightzd or the payer.                             *)
(***************************************************************************)
Fairness ==
  /\ WF_vars(HandleReverseSwapStatus)
  /\ \A s \in Swaps : SF_vars(ProcessUpdate(s))
  /\ WF_vars(NewBlock)
  /\ WF_vars(CheckExternalReverseSwaps(Block))
  /\ \A t \in Checkers : WF_vars(\E s \in Swaps : CheckOutputs(t, s))
  /\ SF_vars(CheckClaimableSwaps)
  /\ WF_vars(RecoverSwaps)
  /\ \A t \in Threads : WF_vars(CreateClaim(t))
  /\ \A t \in Threads : SF_vars(Valid(t) /\ BroadcastTransaction(t))

FairSpec == Spec /\ Fairness

\* Coins the client has been told of and may claim.
LockedUp(s) ==
  /\ row[s].lockup
  /\ coins[s] \in IF row[s].zeroConf THEN Unspent ELSE {"locked"}

(***************************************************************************)
(* Coins that lightzd reported locked up are claimed, by the update itself *)
(* or once they have confirmed at a block, unless lightzd takes them back  *)
(* or a direct payment has made the claim unnecessary.                     *)
(***************************************************************************)
LockedCoinsAreClaimed ==
  \A s \in Swaps :
    LockedUp(s) ~> coins[s] \notin Unspent \/ row[s].claim = "direct"

\* lightzd has cancelled the payment, and the goroutine that made it has stored
\* that (src/internal/nursery/reverse.go:74).
Unpaid(s) ==
  ~row[s].external /\ payment[s] = "failed" /\ row[s].state = "ERROR"

(***************************************************************************)
(* A claim on chain makes the swap successful for good, also when the swap *)
(* expires meanwhile: no update that read the row before puts SERVER_ERROR *)
(* over it.  The goroutine that pays the invoice does put ERROR over it    *)
(* when lightzd has cancelled the payment, and nobody else does.           *)
(***************************************************************************)
ClaimedSwapSucceeds ==
  \A s \in Swaps :
    coins[s] = "client" ~> Unpaid(s) \/ [](row[s].state = "SUCCESSFUL")

(***************************************************************************)
(* A payment to the claim address of a swap is noticed, without lightzd,   *)
(* from the blocks alone, unless lightzd has reported the end of the swap, *)
(* after which the client does not look for it any more.                   *)
(***************************************************************************)
DirectPaymentSucceeds ==
  \A s \in Swaps :
    direct[s] = "confirmed" /\ row[s].dest = "both"
      ~> row[s].state \in {"SUCCESSFUL", "SERVER_ERROR"}
=============================================================================
