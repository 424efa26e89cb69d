------------------------------- MODULE Autoswap ----------------------------
(***************************************************************************)
(* A swapper of internal/autoswap: the one for lightning, of the admin, or *)
(* the one for the chain swaps of a tenant.  RPC calls and the goroutine   *)
(* that follows wallet changes replace configurations, stop and start the  *)
(* loops that create swaps, and share the fields of the swapper without a  *)
(* lock.  A loop belongs to a configuration object, and so does the lock   *)
(* that CheckAndExecute holds.  Swappers of other kinds and tenants share  *)
(* nothing with this one but the order in which wallet changes reach them. *)
(*                                                                         *)
(* Left out: amounts, thresholds, fees and the budget (a check may find    *)
(* nothing to do), the file of the configuration, and the rebalancing per  *)
(* channel, which does for each channel what is done here once.            *)
(***************************************************************************)
EXTENDS Naturals, Sequences, FiniteSets

CONSTANTS Kinds,       \* kinds of swapper: "lightning", "chain"
          Callers,     \* calls and wallet changes that may overlap
          MaxCalls,    \* bound on the calls and wallet changes
          MaxTicks,    \* bound on the ticks and blocks that start a check
          MaxSwaps     \* bound on the swaps created

ASSUME AutoswapAssumption ==
  /\ Kinds \subseteq {"lightning", "chain"}
  /\ {MaxCalls, MaxTicks, MaxSwaps} \subseteq Nat
  /\ Callers \cap Nat = {}

VARIABLES
  kind,      \* of the swapper
  current,   \* lnSwapper, or the entry in chainSwappers: 0 for nil
  swappers,  \* the swapper objects made: cfg and stop (0 for nil), err
  configs,   \* the configuration objects made: whether enabled
  channels,  \* stop channels made
  proc,      \* proc[p]: where caller or loop p is, and its locals
  swaps,     \* the rows of autoswap: cfg, forced and whether pending
  calls,     \* calls begun
  ticks,     \* ticks and blocks that came
  raced      \* history: two calls were under way at the same time

fields == <<kind, current, swappers, configs, channels>>
begun == <<calls, ticks, raced>>
vars == <<fields, proc, swaps, begun>>

Loops   == 1 .. MaxCalls + 1
Workers == Callers \cup Loops

\* Of a call: what it does, the swapper it has a pointer to, whether its
\* configuration is enabled, the channel it sends on.  Of a loop: its stop
\* channel.  Of a check: the configuration, whether forced, the swap it made.
Locals == [op |-> "none", swapper |-> 0, enabled |-> FALSE, stop |-> 0,
           cfg |-> 0, forced |-> FALSE, swap |-> 0]

At(p, step) == proc[p].step = step
Run(step, locals) == [step |-> step, locals |-> locals]
None == Run("none", Locals)

Goes(p, step) ==
  proc' = [proc EXCEPT ![p] = IF step = "none" THEN None
                              ELSE Run(step, proc[p].locals)]

New == [cfg |-> 0, stop |-> 0, err |-> FALSE]

\* The daemon serves calls when it has loaded its configuration: if it has one
\* that is enabled, its loop runs.
Init ==
  /\ kind \in Kinds
  /\ \E loaded \in {0, 1} :
       /\ current = loaded
       /\ swappers = [i \in 1 .. loaded |-> [New EXCEPT !.cfg = 1, !.stop = 1]]
       /\ configs = [i \in 1 .. loaded |-> TRUE]
       /\ channels = loaded
       /\ proc = [p \in Workers |->
                    IF p \in 1 .. loaded
                    THEN Run("wait", [Locals EXCEPT !.cfg = 1, !.stop = 1])
                    ELSE None]
  /\ swaps = <<>>
  /\ calls = 0 /\ ticks = 0 /\ raced = FALSE

\* A call has stored the swapper and not its configuration yet.
Unset == current # 0 /\ swappers[current].cfg = 0

Quiet == \A c \in Callers : proc[c] = None

\* The start of a call c.
Begin(c, step, locals) ==
  /\ proc[c] = None /\ calls < MaxCalls
  /\ calls' = calls + 1
  /\ raced' = (raced \/ ~Quiet)
  /\ proc' = [proc EXCEPT ![c] = Run(step, locals)]
  /\ UNCHANGED <<kind, configs, channels, swaps, ticks>>
-----------------------------------------------------------------------------
(***************************************************************************)
(* The calls.                                                              *)
(***************************************************************************)

\* A reset stores a new swapper over the old one; any other update reads the
\* configuration of the old one.
UpdateLightningConfig(c, enabled, reset) ==
  /\ kind = "lightning"
  /\ Begin(c, IF ~reset /\ Unset THEN "nil" ELSE "set",
           [Locals EXCEPT !.op = "update", !.enabled = enabled /\ ~reset])
  /\ IF current = 0 \/ reset
     THEN swappers' = Append(swappers, New) /\ current' = Len(swappers) + 1
     ELSE UNCHANGED <<current, swappers>>

\* A new swapper is stored at the end.
UpdateChainConfig(c, enabled) ==
  /\ kind = "chain"
  /\ Begin(c, "set",
           [Locals EXCEPT !.op = "update", !.enabled = enabled,
              !.swapper = IF current = 0 THEN Len(swappers) + 1 ELSE current])
  /\ swappers' = IF current = 0 THEN Append(swappers, New) ELSE swappers
  /\ UNCHANGED current

\* The reset of chain swaps, and what LoadConfig does with each swapper before
\* it updates them from the file.
Unload(c) ==
  /\ current # 0
  /\ Begin(c, "stop", [Locals EXCEPT !.op = "unload", !.swapper = current])
  /\ UNCHANGED <<current, swappers>>

\* One goroutine follows the wallet changes.
WalletChange(c) ==
  /\ current # 0
  /\ \A d \in Callers : proc[d].locals.op # "wallet"
  /\ Begin(c, "stop", [Locals EXCEPT !.op = "wallet", !.swapper = current])
  /\ UNCHANGED <<current, swappers>>

ExecuteRecommendations(c, forced) ==
  /\ current # 0
  /\ Begin(c, IF Unset THEN "nil" ELSE "lock",
           [Locals EXCEPT !.op = "execute", !.forced = forced,
                          !.cfg = swappers[current].cfg])
  /\ UNCHANGED <<current, swappers>>
-----------------------------------------------------------------------------
(***************************************************************************)
(* setConfig, start and Stop, on the swapper the call has a pointer to.    *)
(***************************************************************************)
My(c) == proc[c].locals
Swapper(c) == swappers[My(c).swapper]
Sets(c, swapper) == swappers' = [swappers EXCEPT ![My(c).swapper] = swapper]
Unchanged == UNCHANGED <<kind, swaps, begun>>

\* Where a caller goes when start returns, and when Stop does.
AfterStart(c) ==
  IF My(c).op = "update" /\ kind = "chain" THEN "store" ELSE "none"
AfterStop(c) == IF My(c).op = "unload" THEN "delete" ELSE "init"

\* The lightning swapper is looked up again.
Target(c) == IF kind = "lightning" THEN current ELSE My(c).swapper

SetConfig(c) ==
  /\ At(c, "set") /\ Target(c) # 0
  /\ configs' = Append(configs, My(c).enabled)
  /\ swappers' = [swappers EXCEPT ![Target(c)].cfg = Len(configs) + 1]
  /\ proc' = [proc EXCEPT
               ![c] = Run("stop", [My(c) EXCEPT !.swapper = Target(c)])]
  /\ Unchanged /\ UNCHANGED <<current, channels>>

\* A nil pointer stops the daemon: LoadConfig has set lnSwapper to nil, or the
\* swapper that a call has just stored has no configuration yet.  The same in
\* saveConfig, at the end of a call (autoswap.go:246), is left out with the file.
Panics(c) ==
  /\ \/ At(c, "nil")
     \/ At(c, "set") /\ Target(c) = 0
     \/ At(c, "init") /\ Swapper(c).cfg = 0
  /\ proc' = [p \in Workers |-> Run("dead", Locals)]
  /\ Unchanged /\ UNCHANGED fields

\* Mutant: a loop that is busy is not waited for.
Stop_Hastily(c) ==
  /\ At(c, "stop")
  /\ Goes(c, IF Swapper(c).stop = 0 THEN AfterStop(c)
             ELSE IF \E l \in Loops : At(l, "wait") THEN "signal" ELSE "clear")
  /\ Unchanged /\ UNCHANGED fields

\* Mutant: a swapper that runs is left as it is.
Stop_Running(c) ==
  /\ At(c, "stop")
  /\ Goes(c, IF Swapper(c).stop = 0 THEN AfterStop(c)
             ELSE IF My(c).op = "unload" THEN "signal" ELSE AfterStart(c))
  /\ Unchanged /\ UNCHANGED fields

Stop(c) ==
  /\ At(c, "stop")
  /\ Goes(c, IF Swapper(c).stop = 0 THEN AfterStop(c) ELSE "signal")
  /\ Unchanged /\ UNCHANGED fields

\* The channel is read once more for the send.
Signal(c) ==
  /\ At(c, "signal")
  /\ proc' = [proc EXCEPT
               ![c] = Run("send", [My(c) EXCEPT !.stop = Swapper(c).stop])]
  /\ Unchanged /\ UNCHANGED fields

Send(c) ==
  /\ At(c, "send") /\ My(c).stop # 0
  /\ \E l \in Loops :
       /\ At(l, "wait") /\ My(l).stop = My(c).stop
       /\ proc' = [proc EXCEPT ![c] = Run("clear", My(c)), ![l] = None]
  /\ Unchanged /\ UNCHANGED fields

\* Mutant: the channel of the loop that has ended is kept.
Clear_Keeps(c) ==
  /\ At(c, "clear")
  /\ Sets(c, [Swapper(c) EXCEPT !.err = FALSE])
  /\ Goes(c, AfterStop(c))
  /\ Unchanged /\ UNCHANGED <<current, configs, channels>>

Clear(c) ==
  /\ At(c, "clear")
  /\ Sets(c, [Swapper(c) EXCEPT !.stop = 0, !.err = FALSE])
  /\ Goes(c, AfterStop(c))
  /\ Unchanged /\ UNCHANGED <<current, configs, channels>>

Delete(c) ==
  /\ At(c, "delete")
  /\ current' = 0
  /\ Goes(c, "none")
  /\ Unchanged /\ UNCHANGED <<swappers, configs, channels>>

\* Values of the configuration may contradict each other, a wallet be missing.
InitConfig(c) ==
  /\ At(c, "init") /\ Swapper(c).cfg # 0
  /\ \E err \in BOOLEAN : Sets(c, [Swapper(c) EXCEPT !.err = err])
  /\ Goes(c, "check")
  /\ Unchanged /\ UNCHANGED <<current, configs, channels>>

CheckEnabled(c) ==
  /\ At(c, "check")
  /\ Goes(c, IF ~Swapper(c).err /\ configs[Swapper(c).cfg] THEN "make"
             ELSE AfterStart(c))
  /\ Unchanged /\ UNCHANGED fields

MakeStop(c) ==
  /\ At(c, "make")
  /\ channels' = channels + 1
  /\ Sets(c, [Swapper(c) EXCEPT !.stop = channels + 1])
  /\ Goes(c, "go")
  /\ Unchanged /\ UNCHANGED <<current, configs>>

\* The lightning loop begins with a check, the other one waits for a block.
GoRun(c) ==
  /\ At(c, "go")
  /\ LET l == CHOOSE l \in Loops : proc[l] = None
         after == AfterStart(c)
     IN  proc' = [proc EXCEPT
           ![c] = IF after = "none" THEN None ELSE Run(after, My(c)),
           ![l] = Run(IF kind = "lightning" THEN "lock" ELSE "wait",
                      [Locals EXCEPT !.cfg = Swapper(c).cfg,
                                     !.stop = Swapper(c).stop])]
  /\ Unchanged /\ UNCHANGED fields

\* chainSwappers gets the swapper unless its configuration has an error.
Store(c) ==
  /\ At(c, "store")
  /\ current' = IF Swapper(c).err THEN current ELSE My(c).swapper
  /\ Goes(c, "none")
  /\ Unchanged /\ UNCHANGED <<swappers, configs, channels>>
-----------------------------------------------------------------------------
(***************************************************************************)
(* run and CheckAndExecute.                                                *)
(***************************************************************************)
Holding == {"create", "return", "listen", "follow", "hung"}
Live    == {"wait", "lock"} \cup Holding

\* Where p is when CheckAndExecute returns.
AfterCheck(p) == IF p \in Callers THEN "none" ELSE "wait"

Tick(l) ==
  /\ At(l, "wait") /\ ticks < MaxTicks
  /\ ticks' = ticks + 1
  /\ Goes(l, "lock")
  /\ UNCHANGED <<fields, swaps, calls, raced>>

\* Mutant: there is no lock.
Unlocked_Always(p) == TRUE

\* executeLock, of the configuration.
Unlocked(p) ==
  \A q \in Workers : proc[q].step \in Holding => My(q).cfg # My(p).cfg

\* A pending swap dismisses the recommendation; there may be none, for many
\* other reasons.
Recommend(p) ==
  /\ At(p, "lock")
  /\ Unlocked(p)
  /\ \/ /\ (\E i \in DOMAIN swaps : swaps[i].pending) => My(p).forced
        /\ Goes(p, "create")
     \/ Goes(p, AfterCheck(p))
  /\ Unchanged /\ UNCHANGED fields

\* The row is there before the call that creates the swap returns.
Create(p) ==
  /\ At(p, "create") /\ Len(swaps) < MaxSwaps
  /\ swaps' = Append(swaps, [cfg |-> My(p).cfg, forced |-> My(p).forced,
                             pending |-> TRUE])
  /\ \E step \in {"return", "listen"} :
       /\ step = "listen" => kind = "lightning"
       /\ proc' = [proc EXCEPT
                    ![p] = Run(step, [My(p) EXCEPT !.swap = Len(swaps) + 1])]
  /\ UNCHANGED <<fields, begun>>

\* With or without a row, the call returns; the rest is skipped on an error.
Returns(p) ==
  /\ At(p, "create") \/ At(p, "return")
  /\ proc' = [proc EXCEPT ![p] = IF p \in Callers THEN None
                                 ELSE Run("wait", [My(p) EXCEPT !.swap = 0])]
  /\ Unchanged /\ UNCHANGED fields

\* createReverseSwap follows a swap with acceptZeroConf until it is final; when
\* it is final already there is no listener, and a nil channel never ends.
Listen(p) ==
  /\ At(p, "listen")
  /\ Goes(p, IF swaps[My(p).swap].pending THEN "follow" ELSE "hung")
  /\ Unchanged /\ UNCHANGED fields

Followed(p) ==
  /\ At(p, "follow") /\ ~swaps[My(p).swap].pending
  /\ Goes(p, "return")
  /\ Unchanged /\ UNCHANGED fields

\* The nursery brings a swap to its end.
Final(i) ==
  /\ swaps[i].pending
  /\ swaps' = [swaps EXCEPT ![i].pending = FALSE]
  /\ UNCHANGED <<fields, proc, begun>>
-----------------------------------------------------------------------------
Start(c) ==
  \/ \E enabled, reset \in BOOLEAN : UpdateLightningConfig(c, enabled, reset)
  \/ \E enabled \in BOOLEAN : UpdateChainConfig(c, enabled)
  \/ Unload(c)
  \/ WalletChange(c)
  \/ \E forced \in BOOLEAN : ExecuteRecommendations(c, forced)

CallStep(c) ==
  \/ SetConfig(c) \/ Panics(c) \/ Stop(c) \/ Signal(c) \/ Send(c) \/ Clear(c)
  \/ Delete(c) \/ InitConfig(c) \/ CheckEnabled(c) \/ MakeStop(c) \/ GoRun(c)
  \/ Store(c)

CheckStep(p) ==
  Recommend(p) \/ Create(p) \/ Returns(p) \/ Listen(p) \/ Followed(p)

\* What goes on by itself once a call or a check has begun.
Goroutines ==
  \/ \E c \in Callers : CallStep(c)
  \/ \E p \in Workers : CheckStep(p)
  \/ \E i \in DOMAIN swaps : Final(i)

Next ==
  \/ Goroutines
  \/ \E c \in Callers : Start(c)
  \/ \E l \in Loops : Tick(l)

Spec == Init /\ [][Next]_vars

(***************************************************************************)
(* While a goroutine can go on, one does, and swaps end.  Calls and ticks  *)
(* need not come, and come seldom: a loop that waits takes a signal before *)
(* it has had ticks without end.                                           *)
(***************************************************************************)
Fairness == WF_vars(Goroutines)

FairSpec == Spec /\ Fairness
-----------------------------------------------------------------------------
Steps == {"none", "nil", "set", "stop", "signal", "send", "clear", "delete",
          "init", "check", "make", "go", "store", "dead"} \cup Live

TypeOK ==
  /\ kind \in Kinds
  /\ current \in 0 .. Len(swappers)
  /\ \A i \in DOMAIN swappers :
       /\ swappers[i].cfg \in 0 .. Len(configs)
       /\ swappers[i].stop \in 0 .. channels
       /\ swappers[i].err \in BOOLEAN
  /\ configs \in Seq(BOOLEAN)
  /\ channels \in Loops \cup {0}
  /\ \A p \in Workers :
       /\ proc[p].step \in Steps
       /\ At(p, "none") => proc[p] = None
       /\ proc[p].step \in Live => My(p).cfg \in DOMAIN configs
  /\ \A p, q \in Workers :
       proc[p].step \in Holding /\ proc[q].step \in Holding /\ p # q
         => My(p).cfg # My(q).cfg
  /\ Len(swaps) <= MaxSwaps
  /\ swaps \in Seq([cfg : DOMAIN configs, forced : BOOLEAN, pending : BOOLEAN])
  /\ calls \in 0 .. MaxCalls /\ ticks \in 0 .. MaxTicks
  /\ raced \in BOOLEAN

Dead == \E p \in Workers : At(p, "dead")
Hung == \E p \in Workers : At(p, "hung")

(***************************************************************************)
(* One configuration object does not make a second swap while one of its   *)
(* own is pending, unless a call forces it (lightning.go:372-392,          *)
(* chain.go:190-229): the loop and the RPC calls of a configuration wait   *)
(* for each other.  Loops of two objects do not: each has its own lock.    *)
(***************************************************************************)
NoDoubleSwap ==
  \A i, j \in DOMAIN swaps :
    swaps[i].pending /\ swaps[j].pending /\ i < j
    /\ swaps[i].cfg = swaps[j].cfg => swaps[j].forced

\* The configuration in use is enabled and has no error.
Enabled ==
  /\ current # 0 /\ ~Unset
  /\ configs[swappers[current].cfg] /\ ~swappers[current].err

RunsIt(l) ==
  /\ proc[l].step \in Live
  /\ My(l).stop = swappers[current].stop /\ My(l).stop # 0
  /\ My(l).cfg = swappers[current].cfg

(***************************************************************************)
(* Once all calls have returned, whatever the order in which they changed  *)
(* the fields, a lightning configuration that is enabled and has no error  *)
(* runs, and can be stopped (autoswap.go:322-350); one for chain swaps     *)
(* does when calls come one at a time: an update may store back the swapper*)
(* that a reset has just stopped.                                          *)
(***************************************************************************)
EnabledIsRunning ==
  Quiet /\ Enabled /\ (kind = "chain" => ~raced) => \E l \in Loops : RunsIt(l)

\* A reset of the lightning configuration forgets the swapper with its loop.
Forgotten(l) ==
  /\ kind = "lightning"
  /\ \E o \in DOMAIN swappers :
       o # current /\ swappers[o].stop = My(l).stop

(***************************************************************************)
(* When calls come one at a time, no loop goes on with a configuration     *)
(* that was replaced, disabled or deleted, but for the reset of the        *)
(* lightning configuration (autoswap.go:113-117).                          *)
(***************************************************************************)
ReplacedIsStopped ==
  Quiet /\ ~raced =>
    \A l \in Loops :
      proc[l].step \in Live => (Enabled /\ RunsIt(l)) \/ Forgotten(l)

\* Of two calls that stop one loop the second waits for good.
Stuck(c) ==
  /\ At(c, "send") /\ raced
  /\ ~\E l \in Loops : proc[l].step \in Live /\ My(l).stop = My(c).stop

(***************************************************************************)
(* Calls return, however many swaps the loop they stop creates meanwhile,  *)
(* unless two that overlap stop the same loop, or a check hangs with the   *)
(* lock (autoswap.go:329-336).                                             *)
(***************************************************************************)
CallsReturn ==
  ~Quiet ~> Quiet \/ Hung \/ Dead \/ \E c \in Callers : Stuck(c)
=============================================================================
