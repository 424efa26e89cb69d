# Verification of lightz-client

lightz-client is the daemon (`lightzd`) a user runs to swap coins between a
chain (the base chain or Liquid) and the Lightning network, with the help of a
swap service, also called lightzd in the code. In this project *lightzd* is the
service and *daemon* or *client* the program under `src/`. A swap is atomic by
construction of its scripts; what is left to the client is bookkeeping that must
survive concurrency, crashes and an uncooperative service: know where the coins
are, claim or refund them before it is too late, give no signature away for
nothing, and tell the user the truth. That is what is modelled here.

- [Inventory](#inventory)
- [The modules](#the-modules)
- [Model and code](#model-and-code)
- [What is checked](#what-is-checked)
- [What is proved](#what-is-proved)
- [What the models leave out](#what-the-models-leave-out)
- [Plan](#plan)

## Inventory

| Component | Code | State | Operations |
|---|---|---|---|
| Nursery, submarine swaps | `internal/nursery/swap.go`, `nursery.go`, `listener.go` | the row of the swap, a copy of it per goroutine, `updateLock` | `processUpdate`, `handleSwapStatus`, `cooperativeSwapClaim`, `RefundSwaps`, `recoverSwaps` |
| Nursery, reverse swaps | `internal/nursery/reverse.go` | the row, the payment goroutine | `handleReverseSwapStatus`, `payReverseSwap`, `handleReverseSwapDirectPayments`, `checkExternalReverseSwaps`, `checkClaimableSwaps` |
| Nursery, chain swaps | `internal/nursery/chain.go` | two rows per swap (`from` and `to` data) | `handleChainSwapStatus`, `setChainSwapLockupTransaction`, quotes, claims, refunds |
| Batched transactions | `nursery.createTransaction`, `pkg/lightz/transaction.go` | none of its own: runs in the caller's goroutine | `populateOutputs`, `ConstructTransaction`, broadcast, recording |
| Websocket | `pkg/lightz/ws.go` | connection, `swapIds`, pending acknowledgement, `Updates` (50) | `Connect`, `Reconnect`, `Subscribe`, `Unsubscribe`, `Close` |
| Channel forwarder | `internal/utils/channelforwarder.go` | receivers, saved values, closed | `Get`, `Remove`, `Send`, `Close` |
| Database | `internal/database/*.go` | tables `swaps`, `reverseSwaps`, `chainSwaps`, `chainSwapsData`, wallets, autobudget, tenants | one UPDATE per column group; queries of the refundable and the claimable swaps |
| On-chain layer | `internal/onchain/*.go` | wallets, last block height per currency | block listeners, broadcast, `FindOutput`, fallback between providers |
| RPC server | `internal/rpcserver/router.go`, `server.go` | lifecycle state, services | create, refund and claim swaps; unlock, stop, wallets |
| Autoswap | `internal/autoswap/*.go` | configuration, budget interval, running loops | recommendations, budget, execution, start and stop |
| Amounts | `pkg/lightz/fees.go` | none | `CheckAmounts`, `CalculatePercentage` |
| Wallets, lightning nodes, chain providers | `internal/onchain/*wallet*`, `lnd`, `cln`, `electrum`, `esplora`, `mempool` | inside libraries and services | requests that may fail |

How they interact. The websocket's reader puts updates into `Updates`; one
goroutine of the nursery (`startSwapListener`) takes them and runs the handler of
the swap with `updateLock` held. A second goroutine per currency
(`startBlockListener`) is woken by a new block, refunds what the database says is
refundable *without* the lock, and claims *with* it. RPC calls run in goroutines
of the gRPC server: `CreateSwap` inserts the row, pays from a wallet and then
subscribes; `RefundSwap` refunds, without the lock; `ClaimSwaps` queries first and
locks afterwards. Paying the invoice of a reverse swap is one more goroutine, and
wallet notifications another. Nearly every path ends in `createTransaction`, which
gives each output a callback for success and one for failure; both write the row.
After a restart, `recoverSwaps` subscribes to all swaps in state PENDING or ERROR
and lightzd answers with their status.

What makes it hard:

- A row is written column by column, from copies read some time before, by
  several goroutines. `handleSwapError` overwrites any state with ERROR.
- One transaction serves many swaps, so the failure of one output is a failure
  of others.
- A broadcast may be lost, or be done and unanswered; a crash may come between
  the broadcast and its record.
- Updates come late, twice, not at all, or ahead of what the client knows.
- lightzd is not trusted: a status is a claim, not a fact.
- Nothing happens without retries: by the block listener, by updates, by
  restarts. Whether they suffice is a liveness question.

What makes each component correct:

- *Submarine swaps*: no signature and no success without a payment
  (`SignedOnlyIfPaid`, `ProofOfPayment`), refunds in the database are real
  (`RefundIsOnChain`), locked coins stay refundable and come back
  (`StaysRefundable`, `CoinsComeBack`), and what is shown is true
  (`KeepsContract`, `PaidSwapSucceeds`).
- *Reverse swaps*: the preimage only leaves for a lockup the user accepted
  (`PreimageOnlyForLockup`), what is recorded has been received
  (`SuccessIsReceived`), coins that can be claimed are (`LockedCoinsAreClaimed`),
  and a success stays one (`ClaimedSwapSucceeds`, but for a cancelled payment;
  violated by RPC claims: `SuccessIsFinal`).
- *Chain swaps*: the preimage only leaves for coins worth what was agreed on
  (`PreimageOnlyForLockup`), claims and refunds in the database are real
  (`RecordsAreReal`, `KeepsContract`).
- *Websocket*: in the end the nursery knows the status of every swap it subscribed
  to, whatever connections are lost (`NothingIsMissed`, `LossIsRepaired`), and no
  reader keeps `updatesLock` for an acknowledgement nobody takes (`AckIsAwaited`).
- *Forwarder*: a receiver reads the history of its swap without a gap (`History`),
  `Remove` takes nobody else out of the list (`RemovesItself`), no handler waits for a receiver for good (`SendersGoOn`), and receivers of a
  final swap are let go (`ReceiversEnd`).
- *Autoswap*: one pending swap per configuration object (`NoDoubleSwap`), what is enabled
  runs and what was replaced does not (`EnabledIsRunning`, `ReplacedIsStopped`),
  calls return (`CallsReturn`); the fees of automatic swaps stay in the budget.
- *Server*: a stopped server does not come back; a password change keeps all
  wallets readable.
- *Amounts*: a fee above the tolerance is refused, also where unsigned
  arithmetic wraps around (`NeverOvercharged`, `Overcharged = {}`), and one within it
  is not (`FairButRefused = {}`).

`PROJECT.json` lists every hazard with its line and the properties that cover it.

## The modules

| Module | Content |
|---|---|
| `SwapEvents` | swap states and lightzd's events, shared vocabulary |
| `CreateTransaction` | `createTransaction`, `FindOutput` and `ConstructTransaction`: the job of each goroutine, step by step, and the coins it spends |
| `Subscriptions` | lightzd's updates as the handlers see them: order, loss, resubscription |
| `SubmarineSwap` | the complete life of submarine swaps; extends `CreateTransaction` and `Subscriptions` |
| `ReverseSwap` | the complete life of reverse swaps; extends the same two |
| `ChainSwap` | chain swaps, with an instance of `CreateTransaction` for the refunds and one for the claims; extends `Amounts` for the quotes |
| `Websocket` | the websocket client with all its goroutines and locks |
| `ChannelForwarder` | the listener of one swap: the goroutine that forwards, the handlers that send, the streams that read |
| `Autoswap` | a swapper of either kind: the calls that configure it, wallet changes, its loop, checks and forced executions |
| `Amounts` | `CheckAmounts`, with integers of a given width |
| `SwapContract`, `ReverseContract`, `ChainContract` | abstract specifications: what a swap of each kind promises, in three or four variables |
| `MCSubmarineSwap`, `MCReverseSwap`, `MCChainSwap`, `MCWebsocket` | constants for model checking |
| `CreateTransactionProofs` | lemmas about `CreateTransaction`: what every step of a call leaves true |
| `SubmarineSwapProofs` | theorems about `SubmarineSwap`, with its refinement of `SwapContract` |
| `ReverseSwapProofs` | theorems about `ReverseSwap`, with its refinement of `ReverseContract` |
| `ChainSwapProofs` | theorems about `ChainSwap`, with its refinement of `ChainContract` |
| `WebsocketProofs`, `ChannelForwarderProofs`, `AutoswapProofs`, `AmountsProofs` | theorems about the module each is named after |

Each swap module instantiates its contract with a refinement mapping (`Contract`),
and `KeepsContract` states that it implements it. `ChannelForwarder` and `Autoswap` need
no constants but those of a `.cfg` and are checked as they are. `Amounts` has no
variables: `ChainSwap` asks it which quotes of lightzd are accepted (`AcceptedQuotes`), and
`MCChainSwap` assumes that it refuses no fair order, which TLC evaluates. `Subscriptions` is what
`Websocket` provides: it lets a connection lose any part of what was under way
and resubscribe at once, `Websocket` shows which goroutines make that true and
when they do not.

## Model and code

**Goroutines.** `Threads` are the goroutines that may run `createTransaction`: `Ws`
(the listener of updates), `Block` (one block listener; swaps of one currency) and
any number of RPC handlers. `job[t]` is the call a thread is in. The handler of an
update has a program counter and a copy of the row (`h.pc`, `h.mem`); there is
one `h` because `processUpdate` holds `updateLock`.

**Atomicity.** An action ends where the code writes to the database, calls
lightzd, the lightning node or the chain, unless nothing that runs in between
could see the difference: then two of these are one action (the invoice is made
and given to lightzd in `CreateInvoice`, whose failure branch has the intermediate
outcomes; the preimage and the state SUCCESSFUL in `Complete`). A crash may come
between any two actions.

**Rows.** `row[s]` has the columns the handlers read; the strings are reduced to
whether they are set. Two ids are more: of the lockup of a submarine swap whether it is
the `"right"` one, since the code stores whatever lightzd sent before it looks for the
output (`swap.go:178`, `183`), and of the claim of a reverse swap where it comes from,
since a direct payment is stored under the id lightzd names (`ClaimId`,
`reverse.go:241`). `Refundable` is the SQL query. `SetErrors` and
`SetTransaction` are the two callbacks of an output from `getRefundOutput`.

**Handlers.** `handleSwapStatus` is cut at its calls:

| Action | `swap.go` |
|---|---|
| `ProcessUpdate` | `nursery.go:222-241`, and 145-152: skip what is stored already, except `transaction.mempool` |
| `FetchLockup`, `FetchLockupPanics` | 160-209: the id is stored before the output is found, so an untrusted lightzd may put a wrong one in, over the right one too, and for coins that are not there |
| `CreateInvoice`, `StoreInvoice` | 219-274 |
| `ClaimPending` with `CooperativeSwapClaim` | 276-304, 96-135 |
| `UpdateSwapStatus`, `AfterStatus` | 306-313, 357-358 |
| `Complete` | 313-356 |
| `RefundFailed`, `RefundReturned` | 357-375 |

`handleReverseSwapStatus` (`reverse.go`):

| Action | Lines |
|---|---|
| `ProcessUpdate` | 176-182: every status equal to the stored one is skipped |
| `DirectTransaction`, `DirectPayments` | 192-246, 294-381: which outputs at the claim address count, and whether they must confirm (`Cautious`) |
| `NamedPayments` | 239-243, 345-361: the same for a payment an untrusted lightzd reports, whose confirmation is asked for under the id it names: the answer may be anything |
| `StoreLockup`, `ClaimReturned` | 247-272: the lockup id is stored unseen; with zero-conf the claim runs inside the update |
| `UpdateReverseSwapStatus`, `FailReverseSwap` | 275-292 |
| `PayInvoice`, `PayInvoiceReturns` | 66-90, a goroutine of its own |
| `CheckExternalReverseSwaps`, `CheckOutputs` | 383-415, from a block or a notification of the wallet |
| `CheckClaimableSwaps` | `listener.go:13-29`, with `updateLock` |
| `AskToClaim`, `ClaimSwaps` | `router.go:485-546` before, `nursery.go:423-439` with the lock |

`handleChainSwapStatus` (`chain.go`):

| Action | Lines |
|---|---|
| `ProcessUpdate` | 167-182: a status stored already is skipped, but for those of `MempoolStatus` |
| `StoreLockups`, `FetchLockupsPanics` | 182-200, 34-61 |
| `GetChainSwapQuote`, `StoreAmounts` | 203-247: a crash may come between accepting a quote and storing it; the row remembers whether the quote was an overcharge |
| `GoOn`, `ClaimReturned` | 251-260 |
| `UpdateChainSwapStatus`, `FailChainSwap`, `RefundReturned` | 264-295 |
| `CheckRefundableSwaps`, `CheckClaimableSwaps` | `listener.go`, one goroutine for each chain |

**createTransaction.** `Populate`, `ConstructRefund` (the recursion over refused
signatures is one step with the set of all refused outputs), `Broadcast` and its
failures, one `Record` per output, `Finish`. `ConstructPanics` is the
assignment to a nil map after a refusal of the whole batch in more than one round.

The recording of an output is two steps where the code writes the id before the
state: `SetClaimTransactionId`, then `FinalizeReverseSwap` or `FinalizeChainSwap`;
`booking` holds what is in between.

**Updates.** In `Subscriptions`, `sub` is `swapIds`, `live` what lightzd sends over
the connection, `updates[s]` what is under way. A trusted lightzd queues each
status change; an untrusted one may have any update handled at any time (`AnyStatus`
holds one status of each kind the handler tells apart); what it thinks of the swap
itself, `srv`, means nothing then and does not move. A `"connection"` fault
drops the tail of the queues and subscribes again. In `ChainSwap` lightzd is never
trusted, so there are no queues.

**Websocket.** `at[t]` is where a goroutine is: `stage` the call it is in (the
Connect of Subscribe, of Reconnect or of a reader, or the first or second subscribe
of Subscribe), `step` the point between two operations on a shared variable or the
network. Goroutine 0 is the caller of Subscribe, of which there is one since
`registerSwaps` holds a lock (`nursery.go:166`); goroutine `k` is the reader of
connection `k`, which may outlive it and dial the next one. `subscriptions` is an
unbuffered channel: `TakeAck` is a rendezvous, and the acknowledgement goes to any one of
those that wait, not to the one that asked. There is no clock. `before[k]` holds who was
waiting already when reader `k` fell asleep for fifteen seconds (`ws.go:161`): a wait is
over after five (`ws.go:197`), so the reader wakes up after them (`Wake`). Unless `"late"`
is in `Faults`, a wait times out only when there are fewer acknowledgements under way
than goroutines that wait (`Elapses`).

**Channel forwarder.** All channels are unbuffered, as the nursery makes them, so a send
is a rendezvous between two goroutines. Three kinds of them share a forwarder:

| Goroutine | State | Actions |
|---|---|---|
| the goroutine of `ForwardChannel`, the *pump* | `pump`, `todo` | `Lock`, `Forward`, `Unlock`, `OriginalClosed`, `PumpEnds` |
| a handler in `sendUpdate` | `from[x]` | `SendUpdate`, `Send`, `Close`, `Delete` (`removeSwapListener`), `SendPanics` |
| a stream, or a call that waits for a swap | `at[r]`, `got[r]` | `SwapUpdates`, `Get`, `Replay`, `Handled`, `RangeEnds`, `Stop`, `Remove` |

`lock` says who holds the mutex; after `Get` it is the goroutine that sends the saved
values (`Replay`). `Draining` is the goroutine that `Remove` starts first.
`SwapUpdates` and the function it returns look the forwarder up without a lock
(`nursery.go:106`, `109`), so it may be closed in between.

**Autoswap.** The objects of the code are numbers: `swappers`, `configs` and stop
`channels` are those made so far, `current` is the swapper in `lnSwapper` or
`chainSwappers`. A caller or a loop `p` has a point and its locals in `proc[p]`. `start` and
`Stop` are cut at each access to a shared field, because nothing protects them:
`SetConfig`, `Stop`, `Signal`, `Send`, `Clear`, `InitConfig`, `CheckEnabled`,
`MakeStop`, `GoRun`, `Store`. A configuration may turn out invalid at any start
(`InitConfig`: a wallet may be gone). `executeLock` belongs to a configuration
object, and is held while a swap is created and, for a reverse swap with
`acceptZeroConf`, followed (`Listen`, `Followed`).

**Amounts.** `Order` is the arguments of `CheckAmounts`, `Modulus` stands for 2^64. A
percentage is a multiple of `1 / Whole` and a fee rate one of `1 / Unit`. Products of
floats are exact and then rounded up; `Converted` is `uint64(x)`, and what that gives
for an `x` that is no word depends on the processor: any word, or for a small negative
`x` the wrapped one or 0. So `CheckAmounts` is a set of answers.

**Environment.** `paid`, `payment`, `direct`, `srv`, `coins`, `from`, `to` and
`value` are the truth the client cannot see: lightzd's payment, its status and the
chains. `ServerClaims` needs the preimage or our signature. The user may lock coins
at any time, also after lightzd gave up. An untrusted lightzd may take the coins of a
reverse swap back at any time and keep the payment, to settle it should it learn the
preimage (`ServerGivesUp`).

**Faults** are switched on by name: `"api"` (calls fail), `"refuse"` (no partial
signature), `"broadcast"`, `"apply"` (wallet), `"connection"`, `"dust"`, `"expire"`
(a swap nobody paid expires).

## What is checked

| Run | Specification | Question |
|---|---|---|
| `SubmarineLies` | `Spec` | Can lightzd, saying anything it likes, get a signature or a success without paying? Every fault but a lost connection, which an untrusted lightzd subsumes; one crash. |
| `SubmarineRaces` | `Spec` | Three goroutines refund one swap; broadcasts are lost or unanswered, the connection drops, the daemon crashes. Are recorded refunds real, and are locked coins still found? |
| `SubmarineBatch` | `Spec` | Two swaps in one transaction, one below the minimum of a cooperative claim (`Small`), one left from an earlier run; one refused, dust or worse, broadcasts lost, wallets failing: is what is recorded what was spent, and is the contract kept? |
| `SubmarineLive` | `FairSpec` | Two swaps under way whose refunds share a transaction, without faults and crashes, while lightzd may still pay and claim either: do coins come back, are refunds recorded, do paid swaps succeed? |
| `SubmarinePanics` | `Spec` | violated: an expired swap without a lockup stops the daemon |
| `ReverseLies` | `Spec` | Can lightzd, saying anything it likes, naming ids and taking coins back with the payment held, get the preimage without a lockup, or make the client believe in a success? Block listener, RPC claim, payment goroutine, one crash. |
| `ReverseLive` | `FairSpec` | With an honest lightzd and all requests a user can make, over lost connections and with swaps that expire: is what is locked up claimed, does a claim end as a success for good unless lightzd has cancelled the payment, is a direct payment noticed? |
| `ReverseClaimed` | `Spec` | violated: RPC ClaimSwaps claims a second time, and ERROR goes over SUCCESSFUL |
| `ChainLies` | `Spec` | lightzd reports, quotes and locks up what it likes; refunds and claims by the websocket and by the block listeners of two chains, crashes at any time, as often as may be. Does the preimage stay, are the records true, is the contract kept, and can lightzd name an amount that is an overcharge once words wrap around? |
| `WebsocketLossy` | `Spec` | Two swaps, a loss, refused dials, a nursery that stops: is there always a goroutine that repairs what was lost, has the nursery every status once all is quiet, does a reader with an acknowledgement find who waits for it? |
| `Forwarder` | `FairSpec` | Two handlers send three events, one of them final, to two streams that come at any time, fail and leave: is what they read the history, does everybody get on? |
| `Autoswap` | `FairSpec` | Two overlapping calls (update, reset, forced execution, wallet change, reload) and a loop, for a swapper of each kind: is there one loop, one pending swap of a configuration object, and do calls return? |

Deadlock is checked in every run of the swap modules: the system can always take a
step, since a stopped daemon restarts. The other three may end: the nursery stops, the
connections of the model are used up, the swap is final and its streams
have left, the calls of the model are made.

**Properties.** Each is stated with a comment in its module. Some are worth a
word. `StaysRefundable` is about `Refundable` one block after the timeout for
coins that are unspent *now*: a state of the columns, in whatever order they were
written, from which the refund query would never find the swap again, violates it. It
speaks of coins whose transaction the row knows (`lockup = "right"`): a row that never
learns it, because `RegisterSwap` fails after the coins were sent, or that holds the wrong
id of an untrusted lightzd, leads to no coins until lightzd gives the right one. It
excludes swaps whose invoice the client made itself, for which lightzd can make
the client believe in a success (the preimage is the client's own); such a success
is the user's own money received or a lie that costs the swap amount, and the contract says
"success" of it only when lightzd is trusted.

`PreimageOnlyForLockup` is about the state at any later time, too: coins that
were locked up cannot become unconfirmed again. They may have been taken back, though:
the query of the claimable swaps asks for no timeout, and `FindOutput` not whether the
output is unspent, so the preimage of a reverse swap can leave for coins that are gone.
A lightzd that cannot be trusted and has kept the payment then settles it; TLC finds such a
behaviour in `ReverseLies`, and `ReverseContract` promises that a payment is settled only for coins not
taken back when lightzd is trusted. In `ChainSwap` the property says nothing about the
amount of swaps created without one, with a quote or before it: until a quote is stored
`FindOutput` has no amount to compare with (`chain.go:90`), and the preimage may leave for
coins of any amount.

`SuccessIsReceived` says that a success stands for a claim or for enough broadcast to the
claim address. That a payment which lightzd reported has confirmed, for a swap that asks
for it (`Cautious`), is no part of it: the code asks for the confirmation of the id that
lightzd names beside the transaction and compares the two nowhere (`reverse.go:241`,
`346`). With it TLC finds a successful swap whose payment never confirmed.

Three liveness properties name what they excuse, and each is violated without.
`CoinsComeBack` excuses `Spoiled`: while the block listener builds the refund of two swaps
past their timeout, lightzd claims one of them; the broadcast fails, ERROR is
written for both (`nursery.go:297-305`), in the end over SUCCESSFUL, and the claimed swap,
without a refund id, spoils every later batch. No crash is needed, two swaps in one batch
are enough. `ClaimedSwapSucceeds` excuses `Unpaid`: lightzd cancels the payment
of a swap that was claimed, and the goroutine that pays stores ERROR whatever the
row holds (`reverse.go:74`). That nobody else does is what the run shows; it has
no call of RPC ClaimSwaps, which `ReverseClaimed` is about, and no failing calls.
`DirectPaymentSucceeds` takes SERVER_ERROR for an end: after `swap.expired`
`checkExternalReverseSwaps` does not look at the swap any more.
`PaidSwapSucceeds` is about swaps still in `swapIds`: the ERROR of a spoiled batch
removes a swap from them (`nursery.go:90`), and no update of it is asked for after that.

`LossIsRepaired` and `NothingIsMissed` excuse two
situations in which the client closed its own last connection: a forced reconnect
that fails, and the Unsubscribe of the last pending swap while another
registration is acknowledged but not yet in `swapIds` (`LeftWith`, `ws.go:254`, `267`).
A client that has fewer answers on the way than goroutines that wait counts as
recovering: one of them will time out and dial or fail. With three swaps, where answers
are easily taken by somebody else, TLC finds `LossIsRepaired` violated without that. What
is excused in `ChannelForwarder` and `Autoswap` is named there, `Broken` with `Locked`
and `Abandoned`, `Forgotten`, `Stuck`, `Hung` and `Dead`, and described below: each is
one place in the code, and without it TLC finds the property violated.
`raced` remembers that two calls overlapped: a chain update may store back
the swapper that a reset has just stopped and deleted (`autoswap.go:173`), so two properties are about calls
one at a time, with the loop and the checks beside them.

**The violated runs** are the findings of `PROJECT.json`:

- `SubmarinePanics`. `var err lightz.Error` at `swap.go:166` shadows the error, so
  `err.Error()` at line 168 is a call on nil. lightzd knows no lockup transaction
  for a swap nobody paid; when it expires, the daemon dies in the listener, and
  again after each restart. `chain.go:185` has the same lines
  (`FetchLockupsPanics`).
- `ReverseClaimed`. RPC ClaimSwaps queries at `router.go:490` and locks at
  `nursery.go:424`. An update that claims the swap in between makes the RPC's claim
  a double spend, whose error overwrites SUCCESSFUL.

More deviations show when a property is checked without what it excuses, or with
other constants. They have no run of their own:

- Submarine swaps: `SubmarineLive` with `MaxCrashes = 1` violates `PaidSwapSucceeds`. The status
  column is written before the state column (`swap.go:306`), and an update equal to
  the stored status is skipped: a crash in between loses the transition. The same
  holds between `CreateInvoice` and `SetSwapInvoice` (`swap.go:269`): the second
  attempt asks for an invoice with a used payment hash.
- `SubmarineLive` without `Spoiled` violates `CoinsComeBack`, as described above. An ERROR
  swap without a refund id is refundable at every block, and its spent output makes
  the batch of all refunds invalid (`nursery.go:297`). With a crash the same follows from
  one swap that lightzd claims while the daemon is down.
- Two refunds of one swap may race (`listener.go:60`); the second broadcast fails,
  ERROR is written over REFUNDED, and no later step looks at the swap again.
- Websocket: `Reconnect` closes the connection and dials once (`ws.go:247`). The
  reader of the closed connection takes the nil connection for a wanted end
  (`ws.go:124-131`). When the dial fails nobody is left to try again, until the
  next Subscribe.
- `"late"` in `Faults` violates `AckIsAwaited`: a subscription that gave up leaves
  its acknowledgement to the next one, or, when there is none, to nobody, and
  `updatesLock` stays held (`ws.go:197`, `231`).
- Forwarder: a `Get` that was given a forwarder before it was closed returns nil with
  the lock held (`Locked`, `channelforwarder.go:84-86`). The goroutine of
  `ForwardChannel` then waits for the lock for good, and so does every later `Get` or
  `Remove`, while the streams it served never end.
- A stream that fails while the forwarder is being deleted does not remove itself
  (`Abandoned`, `nursery.go:109`): with an event still to be sent the goroutine waits for it for good.
- Two handlers that send the final update of a swap: the second sends on the channel
  the first has closed, and the daemon panics (`SendPanics`,
  `channelforwarder.go:106`, `112`).
- Autoswap: a reset of the lightning configuration stores a new swapper over the old
  one without stopping its loop (`Forgotten`, `autoswap.go:113-117`), which goes on
  creating swaps with the old configuration, although `docs/autoswap.md:20` says that
  autoswap does not when `enabled` is false.
- Two overlapping calls of `Stop` both read a channel that is not nil; one loop reads
  one signal, and the other call never returns (`Stuck`, `autoswap.go:329-335`).
- `LoadConfig` sets `lnSwapper` to nil, and a call stores a swapper before its
  configuration: a call that looks in between dereferences nil (`Dead`,
  `autoswap.go:114`, `120`, `132`, `210`).
- `createReverseSwap` ranges over a nil channel when its swap was final
  before it asked (`Hung`, `router.go:1177-1180`). Called by autoswap it keeps `executeLock`,
  and its loop takes no signal to stop any more.

**Bounds.** Of the blocks up to `MaxHeight` the last but one is the timeout: at it and
after it the comparisons `>` and `<` of the code change, later blocks look like the
last, and further epochs still come. With `MaxHeight = 3` there is also an epoch before
the timeout, at which the block listener refunds with the help of lightzd; in
`SubmarineLive` and `SubmarinePanics` (`MaxHeight = 2`) only updates and calls do. Two
swaps are enough for a batch in which one output affects another; one swap is enough
for races on its row, with three goroutines (a second RPC call does what the first one
does). One crash in `SubmarineLies` and `SubmarineRaces`: a second starts from a state a
first one can lead to. In `SubmarineLive` both swaps are `Old`: PENDING at the start, the coins of
one not yet seen by the daemon, the other about to be paid (`MCUnderWay`), so that both
can be in a batch when lightzd claims; what comes before, from the creation on, is in the
other runs, where old swaps are ones lightzd gave up (`MCGivenUp`). No crash in `SubmarineBatch`, where it would multiply the states: that
a crash in the middle of a batch makes no record untrue is what `RefundsAreReal` and
`SubmarineSwapKeepsContract` prove. One update under way for each swap, besides the one
being handled: an update can be overtaken by the row and by the next status.

For reverse swaps `MaxCrashes` and `MaxUpdates` are the bounds; there is no height,
since nothing in the code looks at the timeout of a reverse swap. `ReverseLies` has
one swap and two kinds of requests (an unconfirmed lockup is trusted and the client
pays; somebody else pays, maybe directly), with an RPC claim beside the block
listener; the loop over the outputs of a batch is the one `SubmarineBatch` checks.
`ReverseLive` has all requests, wallet notifications beside blocks, and the faults
`"connection"` and `"expire"`.

For chain swaps the only bound is `MaxHeight = 2` with the timeout at 1: before, at
and after it. Later blocks look like the last one, and blocks may come at any
time. Two kinds of requests: the wallet pays and the unconfirmed lockup of lightzd
counts, or somebody else pays any amount, the lockup has to confirm and there is no
address yet for a refund. `Reports` has the status of the user's lockup, the one of
lightzd's that is handled again when repeated, and one failure; `TransactionServerConfirmed` differs
from the second only in being skipped when the row has it. `Value` has three amounts: what was agreed on, what a quote offers, and less.

For the websocket, `MaxConns = 3` connections: one that is lost, one that replaces
it, and one more while the readers of both are still there. `MaxLosses = 1`: a forced
reconnect replaces a connection, too. `Final = 1` (two statuses) and a channel
`Updates` of one: with a channel of 50 the reader blocks later, not elsewhere. The
fault `"late"` (an acknowledgement after five seconds) is in the module and in no run.

For the amounts words below 22, coins up to five, two fee rates, of which the
higher may make network fees that are no word, and service fees from a discount of the whole
amount to more than a word holds.

For the forwarder two senders and two receivers: of `Remove` the one that is taken out of
the list and the one that takes its place; three events, so that one is saved, one
replayed and one new. For autoswap `MaxCalls = 2` (any two calls may
overlap; with three and one tick, the run holds as well and takes ten times as
long), `MaxTicks = 2` and `MaxSwaps = 2`: a loop that checks again
while its swap, or that of a forced execution, is pending.

The invariants proved below do not depend on any bound.

**Fairness.** Weak fairness of the handlers, of the block listener and of each
call of `createTransaction` (goroutines run); of new blocks; of the restart of a
stopped daemon (its service manager). Strong fairness of taking an update, since
`updateLock` may be held whenever a goroutine looks, and of a valid broadcast that is tried
again and again. Nothing is assumed of lightzd or the user: they may stop at
any time. In `ReverseSwap`, also the steps of the wallet's notifications once they
have started, and strong fairness of the listener's claims, which wait for
`updateLock` like the updates. In `ChannelForwarder` and `Autoswap`, weak fairness of all
goroutines together: while some step can be made, one is. No more is needed, since
what has begun has a bounded number of steps. Updates, calls, wallet
changes and ticks need not come, and a swap that was created ends.

Every property of a passing run has a mutant in `PROJECT.json`, a plausible bug
that the run finds: an ignored broadcast error, an unchecked preimage, a query
without the timeout, a loop that breaks off, a cooperative refund regardless of the
timeout, a PENDING check in the wrong branch, an update of an unknown swap, an
unconfirmed direct payment that counts, a query that forgets the claim, a lockup
that is taken on trust, an amount that is not compared, a double spend taken for
our own, a new connection that forgets the swaps of the old, a reader that dials
once, a caller that waits too short, a receiver that is closed and stays in the
list, saved values without the lock, a `Remove` that does not drain, channels that
are never closed, a tolerance that is a share of the wrong amount,
a check without `executeLock`, a start that does not stop what
runs, a stop that does not wait for a busy loop, a stop channel that is kept.

## What is proved

The theorems hold for every number of swaps, goroutines, connections, receivers and
calls, all timeouts and bounds, every combination of faults, a trusted lightzd and one
that says anything. They rest on the named assumptions about the constants only, which
say what kind of thing each constant is.

| Module | Theorem | Statement |
|---|---|---|
| `SubmarineSwapProofs` | `TypeCorrect` | `Spec => []TypeOK` |
| | `SignaturesAreEarned` | `Spec => []SignedOnlyIfPaid` |
| | `SuccessIsProven` | `Spec => []ProofOfPayment` |
| | `RefundsAreReal` | `Spec => []RefundIsOnChain` |
| | `LockedCoinsStayRefundable` | `Spec => []StaysRefundable`, for rows with the right lockup |
| | `SubmarineSwapKeepsContract` | `Spec => KeepsContract` |
| `ReverseSwapProofs` | `TypeCorrect` | `Spec => []TypeOK` |
| | `PreimageIsEarned` | `Spec => []PreimageOnlyForLockup` |
| | `SuccessIsTrue` | `Spec => []SuccessIsReceived` |
| | `ReverseSwapKeepsContract` | `Spec => KeepsContract` |
| `ChainSwapProofs` | `TypeCorrect` | `Spec => []TypeOK` |
| | `PreimageIsEarned` | `Spec => []PreimageOnlyForLockup` |
| | `RecordsAreTrue` | `Spec => []RecordsAreReal` |
| | `QuotesAreFair` | `Spec => []NeverOvercharged` |
| | `ChainSwapKeepsContract` | `Spec => KeepsContract` |
| `WebsocketProofs` | `TypeCorrect` | `Spec => []TypeOK` |
| | `AcksAreAwaited` | `"late" \notin Faults => (Spec => []AckIsAwaited)` |
| | `LossesAreRepaired` | `"late" \notin Faults => (Spec => []LossIsRepaired)` |
| | `NothingIsLost` | `"late" \notin Faults => (Spec => []NothingIsMissed)` |
| `ChannelForwarderProofs` | `TypeCorrect` | `Spec => []TypeOK` |
| | `HistoryIsWhole` | `Spec => []History` |
| | `RemoveTakesItself` | `Spec => []RemovesItself` |
| `AutoswapProofs` | `TypeCorrect` | `Spec => []TypeOK` |
| | `OneSwapAtATime` | `Spec => []NoDoubleSwap` |
| | `EnabledRuns` | `Spec => []EnabledIsRunning` |
| | `ReplacedStops` | `Spec => []ReplacedIsStopped` |
| `AmountsProofs` | `PassedAmountsAreFair` | `Overcharged = {}` |
| | `FairAmountsPass` | `FairButRefused = {}` |

`"late" \notin Faults` says that lightzd answers a subscription within the five seconds
the client waits. It is needed: with late answers TLC finds the first of the three
violated (above).

### Submarine swaps

*TypeCorrect.* `TypeOK` is inductive. It includes that a swap without a row has no
column set and that the handler's swap has a row. `RowWritten` covers every
write to one row, `JobSteps` every step of `createTransaction`.

*Payments.* `ProofOfPayment` is not inductive: `Complete` trusts the preimage of its
copy of the row. `PaymentInv` adds that a preimage in the database
(`PreimageIsProof`) and in the copy (`CopyIsProof`) implies the payment for external
invoices, and that SUCCESSFUL implies the preimage (`SuccessHasPreimage`). Most
steps write neither and fall under `PaymentKept`.

*Refunds.* `RefundIsOnChain` is not inductive: a row is written long after the
broadcast. `RefundInv` adds what the call knows: what it will record are inputs of
its transaction (`PaysItsInputs`), what it records the client has spent
(`RecordsItsOwn`), and, so that the wallet's payment cannot move coins back, that
coins are locked only for known swaps (`NoRowNoCoins`) and at most once by
`SendToAddress` (`PayingNothingYet`). `RefundKept` reduces each action to what it
does to rows, coins, calls and RPCs; `RefundJobs` does that once for all steps of
`createTransaction`.

*LockedCoinsStayRefundable* needs both invariants: unspent coins have no refund id
by `RefundInv`, an unpaid swap is not SUCCESSFUL by `PaymentInv`, and then the
timeout alternative of the query holds.

*The contract.* For invoices of the user, what is shown follows from these
invariants. For an invoice the client made, the word of lightzd counts, and the
contract promises something only when lightzd is trusted: `ContractInv` follows that
word from the status over the connection and the copy of an update into the row
(`WordIsTrue`, `UpdateIsTrue`, `SuccessIsPaid`). Each action then is a step of
`SwapContract`, a batch of refunds is one step for all its inputs, and steps that
move no money are `Show`.

### Reverse and chain swaps

`CreateTransactionProofs` states once what a step of `createTransaction` leaves true
(`CallInv`: what a call records are inputs of its own transaction, and the client
has spent them). `ReverseSwapProofs` uses it for claims; `ChainSwapProofs` has two
instances of it, one for the refunds and one for the claims.

*ClaimInv* of reverse swaps. A claim is built long after the update that asked for
it, so the invariant says of the outputs of every call, and of every request to
claim, that their lockup may be claimed if it is there (`GoodOutputs`), and of an id
that is stored before the state that it is (`BookedIsClaimed`). `RefundedIsFailed`
says of a trusted lightzd that it does not take its coins back while a payment is held; of another
nothing of the kind is known, and the contract asks for less. Each action is
reduced to what it may do to rows, coins, direct payments and calls (`RowStep`,
`CoinsStep`, `DirectStep`, `CallsStep`).

*SwapInv* of chain swaps. Also who may be in which call (`OwnJobs`: the two block
listeners, and the one update), and of claims how far they are: what is constructed
pays enough (`Priced`), and when a transaction is ready to be broadcast its preimages
have been given away (`ClaimOutputs`).

Both refinements map rows and coins of the detailed module to those of the
contract; a broadcast moves all inputs at once, and everything the goroutines do
among themselves is a stutter or a `Show`.

### Websocket

`WebsocketInv` is one invariant for the three safety properties. `PlaceInv`,
`ConnInv` and `MessageInv` say where goroutines may be, that the connection in use is
the last one made and that messages are not ahead of lightzd. `AnswerInv` counts:
never more acknowledgements under way than goroutines that wait, which is why a
reader that holds `updatesLock` gets rid of its acknowledgement. `LossInv` is about
the time in between: the swaps of `swapIds` are served by somebody or somebody will
time out (`ServedInv`), so are those a caller of Subscribe is about to append
(`WantInv`), and without a connection somebody dials (`DialInv`). Here the timing of
`ws.go` is needed: a reader that sleeps outlasts whoever waited before (`Outlasted`).
For *NothingIsLost* `CarriedInv` adds that on a connection that is up the present
status of each swap subscribed to is in the connection, in `Updates` or handled.

### Channel forwarder

`ForwarderInv`: who holds the lock and what has been saved (`PumpInv`), whom the pump
still sends to (`TodoInv`), how far a replay is (`ReplayInv`), who is in the list
(`ListInv`), and the core, `NoGap`: the last event a receiver has read is just before
the one that comes to it next. For the receiver that is being served, the ones the
pump has still to send to and the others that is a different event (`Due`).

### Autoswap

`NoDoubleSwap` is about one configuration object, since each has its own
`executeLock`: a loop that goes on with a replaced one does not wait for the loop of
its successor, and each may have a swap pending. It is not inductive: a check creates a swap long after it saw that none
was pending. `CheckInv` adds that nobody else holds the lock of its configuration
(`Exclusive`), so that what the check saw is still so (`NothingPending`).

The other three rest on `SwapperInv`. They speak of the moment when all calls have
returned, so the invariant must follow a call from the loop it stops to the one it
starts, one field at a time. For lightning, where calls overlap, `LightInv`: while what
is enabled does not run, or its stop channel is nil, a call is on its way that points
to the swapper in use and will start it. That a call cannot take the channel of
another swapper for its own is `OwnInv`. For calls one at a time, `SoloInv` says at each point what runs
(`Phase`): up to the signal only loops of the channel that will be signalled, then
none, after `GoRun` the new one (`Settled`). Loops have channels of their own
(`Apart`), which the signal needs to reach the right one. `GoRun` needs a loop that is
free, a matter of counting: loops that run and calls that may start one are together
at most one more than the calls begun, and so are stop channels (`CountInv`). The
`Does` lemmas state what each step changes, `Aside` what checks, ticks and final swaps
leave alone; each part of the invariant then has one lemma for the steps of calls, one
for their start, and one for the rest.

### Amounts

The two theorems are about swaps of all three kinds and hold for words of any width, all
fees, rates and estimations. `QuotesAreFair` of `ChainSwapProofs` follows from the first:
what the handler stores of a quote has passed the check, and nothing else writes it.
`CeilRounds` and `CeilMonotone` bound what is rounded up, `Wraps` and `ConvertedWord` say
which word a number or a float becomes. What is expected is never more than the network
fees are, even where a sum of them wraps around (`ExpectedFee`), and the tolerance
grows with it (`ToleranceMonotone`), so what passes is within the limit (`PassedFee`).
What is left after the subtraction of the service fee is less than the difference of the
amounts by no more than that fee (`Remainder`): a fee that is no word becomes a smaller
one. Only a discount can make a difference so large that it starts again at zero. That
is excluded by an assumption on the constants: twice all coins there are, with the
largest discount on them, fit into a word. For 64 bits and 21 million coins it
allows discounts of four thousand times the amount. The code has no limit of its own.

### Only model-checked

- Everything that is liveness (`CoinsComeBack`, `RefundIsRecorded`, `PaidSwapSucceeds`,
  `LockedCoinsAreClaimed`, `ClaimedSwapSucceeds`, `DirectPaymentSucceeds`, `SendersGoOn`,
  `ReceiversEnd`, `CallsReturn`), which is beyond the prover together with `ENABLED`.
- The violated runs, whose properties the code does not have.

## What the models leave out

- Addresses, keys and transaction contents; in the modules of the swaps also fees, and
  of amounts all but what `FindOutput` and `CheckAmounts` decide. The second addition of the on-chain fee by a batched swap that completes
  twice is therefore not visible (listed as a hazard).
- The height of a block epoch and the height `GetBlockHeight` reports are one
  variable: the code stores the height before it sends the epoch.
- Updates of a swap keep their order, updates of different swaps do not: one queue
  per swap over-approximates the single channel.
- A second payment to the lockup address of a submarine swap: at most one transaction pays it, so
  an id is the right one or leads to no output.
- A wrong lockup id is followed no further than to the output it does not lead to: of an
  untrusted lightzd any output may be missing when a refund is built (`WrongId`), also after
  the row has the right id, since a call works on a copy.
- Database calls do not fail; the file is local.
- Errors of `ConstructTransaction` other than refusals and the fee estimate: on
  some of them the results are nil, and the daemon panics as in `ConstructPanics`.
- One batch may hold swaps of different kinds; each module has its own. What the
  kinds share is `createTransaction` and `updateLock`, which each module has.
- RPC RefundSwap and ClaimSwaps of chain swaps: the calls are those of the other
  two kinds, with a third goroutine the state space is out of reach.
- Chain swaps: the timeout of lightzd's lockup (the client does not look at it),
  whether the user's own lockup has confirmed (neither), the subscription,
  liveness (it was checked on single statuses, with a run too long to keep).
- Reverse swaps: a zero-conf lockup that is double spent (the user accepted that
  with `accept_zero_conf`), and a lightzd that takes back the coins of a claimed swap.
- A claim id that is stored without the state after it, because the daemon stops or
  `PaymentStatus` fails (`reverse.go:155-160`, `chain.go:107-115`), leaves
  the swap PENDING for ever. The steps are in the modules, no property forbids it.
- `Rebroadcast`, where the node accepts a transaction it has, is possible
  but never required: a second transaction usually pays to another address.
- Messages of the websocket with several updates, errors in them, and pings.
- `eventListenersLock`, which `registerSwaps` holds while it subscribes and
  `removeSwapListener` waits for (`nursery.go:167`, `277`): it joins the websocket,
  the forwarder and the nursery, and only the timeout of five seconds ends the wait.
- The global listener, which is not closed before the daemon stops, and saves no values:
  with `SaveValues = FALSE` the run `Forwarder` holds as well. Its streams may hang
  in `stream.Send`, and then `sendUpdate` hangs with `updateLock` held.
- Autoswap: amounts, thresholds, fees and the budget, which counts the fees recorded so far
  and not those of swaps under way (`budget.go:77`, `docs/autoswap.md:78`); the file of the
  configuration and its races, among them a nil dereference in `saveConfig` beside a call that has just stored
  a swapper without configuration (`autoswap.go:246`); the unsynchronized map of chain swappers; rebalancing
  per channel; a loop of chain swaps whose block channel is closed, which spins
  (`chain.go:238`).
- Amounts: the rounding of the floats themselves (an amount of coins is exact, a product
  need not be), and fee rates that are negative or no number.
- Server lifecycle, wallets, lightning nodes, chain providers, access
  control, migrations, swap scripts, the command line and generated code: the reasons are in
  `PROJECT.json`. Most of the lines of the repository are in the last four.

## Plan

All invariants and refinements that the runs check are theorems. What is left, in
order:

1. `ServerLifecycle` and wallet credentials: unlock, stop (`router.go:2064`),
   password change.
2. The budget of autoswap against swaps under way (`budget.go:77`).
