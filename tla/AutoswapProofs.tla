---------------------------- MODULE AutoswapProofs --------------------------
(***************************************************************************)
(* Theorems of Autoswap for any callers, loops and bounds.                 *)
(*                                                                         *)
(* One configuration makes one swap at a time: NoDoubleSwap is not         *)
(* inductive.  Once a check has seen no pending swap it creates one much   *)
(* later: CheckInv adds that nobody else holds the lock of its             *)
(* configuration (Exclusive), so that what the check saw is still so       *)
(* (NothingPending).                                                       *)
(*                                                                         *)
(* What is enabled runs and what was replaced has stopped once the calls   *)
(* have returned: SwapperInv adds where each call stands between the loops *)
(* it stops and the one it starts (LightInv, SoloInv), which stop channels *)
(* are whose (OwnInv), and that a loop is free for each call that starts   *)
(* one (CountInv).                                                         *)
(***************************************************************************)
EXTENDS Autoswap, FiniteSetTheorems, SequenceTheorems, TLAPS

SwapperSet == [cfg : Nat, stop : Nat, err : BOOLEAN]

Ops == {"none", "update", "unload", "wallet", "execute"}

LocalsSet == [op : Ops, swapper : Nat, enabled : BOOLEAN, stop : Nat,
              cfg : Nat, forced : BOOLEAN, swap : Nat]

\* A caller at one of these points has a pointer to a swapper.
Pointing == {"stop", "signal", "send", "clear", "delete", "init", "check",
             "make", "go", "store"}

ProcSet == [step : Steps, locals : LocalsSet]

SwapSet == [cfg : Nat, forced : BOOLEAN, pending : BOOLEAN]

Objects ==
  /\ kind \in {"lightning", "chain"}
  /\ swappers \in Seq(SwapperSet)
  /\ current \in 0 .. Len(swappers)
  /\ configs \in Seq(BOOLEAN)
  /\ channels \in Nat

PointsRight(v, made) ==
  /\ v.locals.swapper <= made
  /\ v.step \in Pointing => v.locals.swapper # 0
  /\ v.step = "set" /\ kind = "chain" => v.locals.swapper # 0

Typed ==
  /\ Objects
  /\ proc \in [Workers -> ProcSet]
  /\ \A p \in Workers : PointsRight(proc[p], Len(swappers))
  /\ swaps \in Seq(SwapSet)

Exclusive ==
  \A p, q \in Workers :
    proc[p].step \in Holding /\ proc[q].step \in Holding /\ p # q
      => My(p).cfg # My(q).cfg

NothingPending ==
  \A p \in Workers :
    At(p, "create") /\ ~My(p).forced =>
      \A i \in DOMAIN swaps : swaps[i].cfg = My(p).cfg => ~swaps[i].pending

CheckInv == Typed /\ Exclusive /\ NothingPending /\ NoDoubleSwap

\* What a step that neither takes the lock nor creates a swap does to p.
HolderKept(p) ==
  proc'[p].step \in Holding =>
    /\ proc[p].step \in Holding
    /\ proc'[p].locals.cfg = My(p).cfg
    /\ proc'[p].step = "create" =>
         At(p, "create") /\ proc'[p].locals.forced = My(p).forced

-----------------------------------------------------------------------------
(* Typed.                                                                  *)

LEMMA NoneTyped == None \in ProcSet
BY DEF None, Run, Locals, LocalsSet, ProcSet, Ops, Steps

LEMMA NewTyped == New \in SwapperSet
BY DEF New, SwapperSet

LEMMA TypedInit == Init => Typed
<1> SUFFICES ASSUME Init PROVE Typed
  OBVIOUS
<1> USE AutoswapAssumption DEF Init
<1>1. PICK loaded \in {0, 1} :
       /\ current = loaded
       /\ swappers = [i \in 1 .. loaded |-> [New EXCEPT !.cfg = 1, !.stop = 1]]
       /\ configs = [i \in 1 .. loaded |-> TRUE]
       /\ channels = loaded
       /\ proc = [p \in Workers |->
                    IF p \in 1 .. loaded
                    THEN Run("wait", [Locals EXCEPT !.cfg = 1, !.stop = 1])
                    ELSE None]
  OBVIOUS
<1>2. [New EXCEPT !.cfg = 1, !.stop = 1] \in SwapperSet
  BY DEF New, SwapperSet
<1>3. swappers \in Seq(SwapperSet) /\ current \in 0 .. Len(swappers)
  BY <1>1, <1>2
<1>4. Run("wait", [Locals EXCEPT !.cfg = 1, !.stop = 1])
        \in ProcSet
  BY DEF Run, Locals, LocalsSet, ProcSet, Ops, Steps, Live
<1>5. proc \in [Workers -> ProcSet]
  BY <1>1, <1>4, NoneTyped
<1>6. \A p \in Workers :
        proc[p].step \in {"none", "wait"} /\ proc[p].locals.swapper = 0
  BY <1>1 DEF None, Run, Locals
<1>7. \A p \in Workers : PointsRight(proc[p], Len(swappers))
  BY <1>3, <1>6 DEF PointsRight, Pointing
<1>8. configs \in Seq(BOOLEAN)
  <2>1. configs \in [1 .. loaded -> BOOLEAN]
    BY <1>1
  <2>2. loaded \in Nat
    OBVIOUS
  <2>3. Seq(BOOLEAN) = UNION {[1 .. n -> BOOLEAN] : n \in Nat}
    BY SeqDef, Zenon
  <2> QED
    BY <2>1, <2>2, <2>3, Zenon
<1>9. swaps \in Seq(SwapSet)
  OBVIOUS
<1>10. kind \in {"lightning", "chain"} /\ channels \in Nat
  BY <1>1
<1> QED
  BY <1>3, <1>5, <1>7, <1>8, <1>9, <1>10 DEF Typed, Objects

-----------------------------------------------------------------------------
(* The steps of a call.                                                    *)

\* A place to go without a lock.
Free(v) ==
  /\ v \in ProcSet
  /\ v.step \notin Holding
  /\ PointsRight(v, Len(swappers'))

Kept == Typed' /\ (\A p \in Workers : HolderKept(p)) /\ swaps' = swaps

\* What the steps of calls do beside moving.
Beside ==
  /\ Objects'
  /\ kind' = kind /\ swaps' = swaps
  /\ Len(swappers) <= Len(swappers')

LEMMA CallerTyped ==
  ASSUME Typed, NEW c \in Callers
  PROVE  /\ c \in Workers /\ proc[c] \in ProcSet /\ My(c) \in LocalsSet
         /\ PointsRight(proc[c], Len(swappers))
BY DEF Typed, Workers, ProcSet, My

LEMMA FreeKept ==
  ASSUME Typed, Beside,
         proc' = [p \in Workers |-> proc'[p]],
         \A p \in Workers : proc'[p] = proc[p] \/ Free(proc'[p])
  PROVE  Kept
<1>1. \A p \in Workers : proc'[p] \in ProcSet
  BY DEF Typed, Free
<1>2. proc' \in [Workers -> ProcSet]
  BY <1>1
<1>3. ASSUME NEW d \in Workers PROVE PointsRight(proc'[d], Len(swappers'))
  <2>2. CASE Free(proc'[d])
    BY <2>2 DEF Free
  <2>3. CASE proc'[d] = proc[d]
    <3>1. PointsRight(proc[d], Len(swappers)) /\ proc[d].locals.swapper \in Nat
      BY DEF Typed, ProcSet, LocalsSet
    <3>2. Len(swappers) \in Nat /\ Len(swappers') \in Nat
      BY DEF Typed, Objects, Beside
    <3> QED
      BY <2>3, <3>1, <3>2 DEF PointsRight, Beside
  <2> QED
    BY <2>2, <2>3
<1>4. \A p \in Workers : HolderKept(p)
  BY DEF HolderKept, Free, At, My
<1> QED
  BY <1>2, <1>3, <1>4 DEF Kept, Typed, Beside, PointsRight

LEMMA MovedKept ==
  ASSUME Typed, Beside, NEW c \in Workers, NEW v, Free(v),
         proc' = [proc EXCEPT ![c] = v]
  PROVE  Kept
<1>1. proc' = [p \in Workers |-> proc'[p]]
  BY DEF Typed
<1>2. \A p \in Workers : proc'[p] = proc[p] \/ proc'[p] = v
  BY DEF Typed
<1> QED
  BY <1>1, <1>2, FreeKept

LEMMA BothKept ==
  ASSUME Typed, Beside, NEW c \in Callers, NEW l, NEW v, NEW w,
         Free(v), Free(w),
         proc' = [proc EXCEPT ![c] = v, ![l] = w]
  PROVE  Kept
<1>1. proc' = [p \in Workers |-> proc'[p]]
  BY DEF Typed
<1>2. \A p \in Workers : proc'[p] = proc[p] \/ proc'[p] = v \/ proc'[p] = w
  BY DEF Typed
<1> QED
  BY <1>1, <1>2, FreeKept

LEMMA GoesKept ==
  ASSUME Typed, Beside, NEW c \in Callers, proc[c].step \in Pointing,
         NEW step \in {"none"} \cup Pointing, Goes(c, step)
  PROVE  Kept
<1> DEFINE v == IF step = "none" THEN None ELSE Run(step, My(c))
<1>1. proc[c] \in ProcSet
  BY CallerTyped
<1>2. v \in ProcSet
  BY <1>1, NoneTyped DEF ProcSet, My, Pointing, Steps, Run
<1>3. proc' = [proc EXCEPT ![c] = v]
  BY DEF Goes, My
<1>4. v.step \notin Holding
  BY DEF None, Run, Pointing, Holding
<1>5. PointsRight(v, Len(swappers'))
  <2>1. My(c).swapper \in Nat /\ My(c).swapper # 0
        /\ My(c).swapper <= Len(swappers)
    BY CallerTyped DEF PointsRight, LocalsSet, My
  <2>2. Len(swappers) \in Nat /\ Len(swappers') \in Nat
    BY DEF Typed, Objects, Beside
  <2> QED
    BY <2>1, <2>2 DEF PointsRight, None, Run, Locals, Pointing, Beside
<1> HIDE DEF v
<1>6. Free(v)
  BY <1>2, <1>4, <1>5 DEF Free
<1> QED
  BY <1>3, <1>6, CallerTyped, MovedKept

LEMMA SwapperTyped ==
  ASSUME Typed, NEW c \in Callers, proc[c].step \in Pointing
  PROVE  /\ My(c).swapper \in DOMAIN swappers
         /\ Swapper(c) \in SwapperSet
BY DEF Typed, Objects, PointsRight, ProcSet, LocalsSet, My, Swapper, Workers

LEMMA SetsTyped ==
  ASSUME Typed, NEW c \in Callers, proc[c].step \in Pointing,
         NEW s \in SwapperSet, Sets(c, s)
  PROVE  /\ swappers' \in Seq(SwapperSet)
         /\ Len(swappers') = Len(swappers)
<1> DEFINE i == My(c).swapper
<1>1. i \in DOMAIN swappers
  BY SwapperTyped
<1>2. swappers' = [swappers EXCEPT ![i] = s]
  BY DEF Sets
<1> HIDE DEF i
<1> QED
  BY <1>1, <1>2 DEF Typed, Objects

LEMMA CallStepKept ==
  ASSUME Typed, NEW c \in Callers, CallStep(c)
  PROVE  Kept
<1>a. /\ c \in Workers /\ proc[c] \in ProcSet /\ My(c) \in LocalsSet
      /\ PointsRight(proc[c], Len(swappers))
  BY CallerTyped
<1>1. CASE Panics(c)
  <2>1. proc' = [p \in Workers |-> Run("dead", Locals)]
    BY <1>1 DEF Panics
  <2>2. Run("dead", Locals) \in ProcSet
    BY DEF Run, Locals, LocalsSet, ProcSet, Ops, Steps
  <2>3. Beside
    BY <1>1 DEF Typed, Objects, Panics, Unchanged, fields, Beside
  <2>4. Free(Run("dead", Locals))
    BY <2>2, <2>3 DEF Free, PointsRight, Run, Locals, Pointing, Holding, Beside,
                      Objects
  <2> HIDE DEF Run
  <2> QED
    BY <2>1, <2>3, <2>4, FreeKept
<1>2. CASE SetConfig(c)
  <2> DEFINE n == Len(configs) + 1
  <2> DEFINE o == [swappers[Target(c)] EXCEPT !.cfg = n]
  <2> DEFINE l == [My(c) EXCEPT !.swapper = Target(c)]
  <2> DEFINE v == Run("stop", l)
  <2>1. Target(c) \in DOMAIN swappers
    BY <1>2, <1>a DEF SetConfig, Target, Typed, Objects, PointsRight, At, My,
                      LocalsSet
  <2>2. n \in Nat /\ configs' \in Seq(BOOLEAN)
    BY <1>2, <1>a DEF SetConfig, Typed, Objects, LocalsSet
  <2>3. swappers[Target(c)] \in SwapperSet
    BY <2>1 DEF Typed, Objects
  <2>4. o \in SwapperSet
    BY <2>2, <2>3 DEF SwapperSet
  <2>5. swappers' = [swappers EXCEPT ![Target(c)] = o]
    BY <1>2 DEF SetConfig
  <2>6. swappers' \in Seq(SwapperSet) /\ Len(swappers') = Len(swappers)
    BY <2>1, <2>4, <2>5 DEF Typed, Objects
  <2>7. Beside
    BY <1>2, <2>2, <2>6 DEF SetConfig, Typed, Objects, Unchanged, Beside
  <2>8. Target(c) \in Nat /\ Target(c) # 0 /\ Target(c) <= Len(swappers')
    BY <2>1, <2>6 DEF Typed, Objects
  <2>9. l \in LocalsSet /\ l.swapper = Target(c)
    BY <1>a, <2>8 DEF LocalsSet
  <2>10. v \in ProcSet
    BY <2>9 DEF ProcSet, Steps, Run
  <2>11. Free(v)
    BY <2>8, <2>9, <2>10 DEF PointsRight, Run, Holding, Free
  <2>12. proc' = [proc EXCEPT ![c] = v]
    BY <1>2 DEF SetConfig
  <2> HIDE DEF v
  <2> QED
    BY <1>a, <2>7, <2>11, <2>12, MovedKept
<1>3. CASE Stop(c)
  <2>1. PICK step \in {"none"} \cup Pointing : Goes(c, step)
    BY <1>3 DEF Stop, AfterStop, Pointing
  <2>2. Beside /\ proc[c].step \in Pointing
    BY <1>3 DEF Stop, At, Unchanged, fields, Typed, Objects, Pointing, Beside
  <2> QED
    BY <2>1, <2>2, GoesKept
<1>4. CASE Signal(c)
  <2> DEFINE l == [My(c) EXCEPT !.stop = Swapper(c).stop]
  <2> DEFINE v == Run("send", l)
  <2>1. proc[c].step \in Pointing
    BY <1>4 DEF Signal, At, Pointing
  <2>2. Swapper(c).stop \in Nat
    BY <2>1, SwapperTyped DEF SwapperSet
  <2>3. l \in LocalsSet /\ l.swapper = My(c).swapper
    BY <1>a, <2>2 DEF LocalsSet
  <2>4. Beside /\ swappers' = swappers
    BY <1>4 DEF Signal, Unchanged, fields, Typed, Objects, Beside
  <2>5. v \in ProcSet
    BY <2>3 DEF ProcSet, Steps, Run
  <2>6. Free(v)
    BY <1>a, <2>1, <2>3, <2>4, <2>5 DEF PointsRight, Run, Holding, My, Free
  <2>7. proc' = [proc EXCEPT ![c] = v]
    BY <1>4 DEF Signal
  <2> HIDE DEF v
  <2> QED
    BY <1>a, <2>4, <2>6, <2>7, MovedKept
<1>5. CASE Send(c)
  <2> DEFINE v == Run("clear", My(c))
  <2>1. PICK l \in Loops : proc' = [proc EXCEPT ![c] = v, ![l] = None]
    BY <1>5 DEF Send
  <2>2. Beside /\ swappers' = swappers
    BY <1>5 DEF Send, Unchanged, fields, Typed, Objects, Beside
  <2>3. v \in ProcSet
    BY <1>a DEF ProcSet, Steps, Run
  <2>4. Free(v)
    BY <1>5, <1>a, <2>2, <2>3 DEF Send, At, PointsRight, Run, Holding, Pointing,
                                  Typed, My, Free
  <2>5. Free(None)
    BY <2>2, NoneTyped DEF Free, PointsRight, None, Run, Locals, Holding,
                           Pointing, Typed, Objects
  <2> HIDE DEF v
  <2> QED
    BY <2>1, <2>2, <2>4, <2>5, BothKept
<1>6. CASE Clear(c)
  <2> DEFINE o == [Swapper(c) EXCEPT !.stop = 0, !.err = FALSE]
  <2>1. proc[c].step \in Pointing
    BY <1>6 DEF Clear, At, Pointing
  <2>2. o \in SwapperSet
    BY <2>1, SwapperTyped DEF SwapperSet
  <2>3. Sets(c, o)
    BY <1>6 DEF Clear
  <2> HIDE DEF o
  <2>4. Beside
    BY <1>6, <2>1, <2>2, <2>3, SetsTyped DEF Clear, Unchanged, Typed, Objects,
                                             Beside
  <2>5. PICK step \in {"none"} \cup Pointing : Goes(c, step)
    BY <1>6 DEF Clear, AfterStop, Pointing
  <2> QED
    BY <2>1, <2>4, <2>5, GoesKept
<1>7. CASE Delete(c)
  <2>1. Goes(c, "none") /\ proc[c].step \in Pointing
    BY <1>7 DEF Delete, At, Pointing
  <2>2. Beside
    BY <1>7 DEF Delete, Unchanged, Typed, Objects, Beside
  <2> QED
    BY <2>1, <2>2, GoesKept
<1>8. CASE InitConfig(c)
  <2>1. proc[c].step \in Pointing
    BY <1>8 DEF InitConfig, At, Pointing
  <2>2. PICK err \in BOOLEAN : Sets(c, [Swapper(c) EXCEPT !.err = err])
    BY <1>8 DEF InitConfig
  <2> DEFINE o == [Swapper(c) EXCEPT !.err = err]
  <2>3. o \in SwapperSet
    BY <2>1, SwapperTyped DEF SwapperSet
  <2>4. Sets(c, o)
    BY <2>2
  <2> HIDE DEF o
  <2>5. Beside
    BY <1>8, <2>1, <2>3, <2>4, SetsTyped DEF InitConfig, Unchanged, Typed,
                                             Objects, Beside
  <2>6. Goes(c, "check")
    BY <1>8 DEF InitConfig
  <2> QED
    BY <2>1, <2>5, <2>6, GoesKept DEF Pointing
<1>9. CASE CheckEnabled(c)
  <2>1. PICK step \in {"none"} \cup Pointing : Goes(c, step)
    BY <1>9 DEF CheckEnabled, AfterStart, Pointing
  <2>2. Beside /\ proc[c].step \in Pointing
    BY <1>9 DEF CheckEnabled, At, Unchanged, fields, Typed, Objects, Pointing,
                Beside
  <2> QED
    BY <2>1, <2>2, GoesKept
<1>10. CASE MakeStop(c)
  <2> DEFINE o == [Swapper(c) EXCEPT !.stop = channels + 1]
  <2>1. proc[c].step \in Pointing
    BY <1>10 DEF MakeStop, At, Pointing
  <2>2. o \in SwapperSet
    <3>1. Swapper(c) \in SwapperSet /\ channels + 1 \in Nat
      BY <2>1, SwapperTyped DEF Typed, Objects
    <3> QED
      BY <3>1 DEF SwapperSet
  <2>3. Sets(c, o)
    BY <1>10 DEF MakeStop
  <2> HIDE DEF o
  <2>4. Beside
    BY <1>10, <2>1, <2>2, <2>3, SetsTyped DEF MakeStop, Unchanged, Typed,
                                              Objects, Beside
  <2>5. Goes(c, "go")
    BY <1>10 DEF MakeStop
  <2> QED
    BY <2>1, <2>4, <2>5, GoesKept DEF Pointing
<1>11. CASE GoRun(c)
  <2> DEFINE l == CHOOSE l \in Loops : proc[l] = None
  <2> DEFINE v == IF AfterStart(c) = "none" THEN None
                  ELSE Run(AfterStart(c), My(c))
  <2> DEFINE k == [Locals EXCEPT !.cfg = Swapper(c).cfg, !.stop = Swapper(c).stop]
  <2> DEFINE w == Run(IF kind = "lightning" THEN "lock" ELSE "wait", k)
  <2>1. proc' = [proc EXCEPT ![c] = v, ![l] = w]
    BY <1>11 DEF GoRun
  <2>2. Beside /\ swappers' = swappers
    BY <1>11 DEF GoRun, Unchanged, fields, Typed, Objects, Beside
  <2>3. proc[c].step \in Pointing
    BY <1>11 DEF GoRun, At, Pointing
  <2>4. v \in ProcSet
    BY <1>a, NoneTyped DEF ProcSet, Steps, Run, AfterStart
  <2>5. Free(v)
    BY <1>a, <2>2, <2>3, <2>4 DEF PointsRight, None, Run, Locals, Holding,
                       Pointing, AfterStart, Typed, Objects, My, Free
  <2>6. k \in LocalsSet /\ k.swapper = 0
    BY <2>3, SwapperTyped DEF SwapperSet, Locals, LocalsSet, Ops
  <2>7. w \in ProcSet
    BY <2>6 DEF ProcSet, Steps, Live, Run
  <2>8. Free(w)
    <3>1. w.step \in {"lock", "wait"} /\ w.locals.swapper = 0
      BY <2>6 DEF Run
    <3> HIDE DEF w
    <3>2. Len(swappers') \in Nat
      BY <2>2 DEF Typed, Objects
    <3> QED
      BY <2>7, <3>1, <3>2 DEF PointsRight, Holding, Pointing, Free
  <2> HIDE DEF l, v, w
  <2> QED
    BY <2>1, <2>2, <2>5, <2>8, BothKept
<1>12. CASE Store(c)
  <2>1. Goes(c, "none") /\ proc[c].step \in Pointing
    BY <1>12 DEF Store, At, Pointing
  <2>2. My(c).swapper \in 0 .. Len(swappers)
    BY <2>1, SwapperTyped DEF Typed, Objects
  <2>3. Beside
    BY <1>12, <2>2 DEF Store, Unchanged, Typed, Objects, Beside
  <2> QED
    BY <2>1, <2>3, GoesKept
<1> QED
  BY <1>1, <1>2, <1>3, <1>4, <1>5, <1>6, <1>7, <1>8, <1>9, <1>10, <1>11, <1>12
     DEF CallStep

-----------------------------------------------------------------------------
(* The start of a call, and of a check.                                    *)

LEMMA BeginKept ==
  ASSUME Typed, NEW c \in Callers, NEW step \in Steps, step \notin Holding,
         step \notin Pointing, NEW locals \in LocalsSet, Begin(c, step, locals),
         swappers' \in Seq(SwapperSet), current' \in 0 .. Len(swappers'),
         Len(swappers) <= Len(swappers'), locals.swapper <= Len(swappers'),
         step = "set" /\ kind = "chain" => locals.swapper # 0
  PROVE  Kept
<1> DEFINE v == Run(step, locals)
<1>1. proc' = [proc EXCEPT ![c] = v]
  BY DEF Begin
<1>2. Beside
  BY DEF Begin, Beside, Typed, Objects
<1>3. Free(v)
  BY DEF Free, Run, ProcSet, PointsRight
<1> HIDE DEF v
<1> QED
  BY <1>1, <1>2, <1>3, CallerTyped, MovedKept

LEMMA StartKept ==
  ASSUME Typed, NEW c \in Callers, Start(c)
  PROVE  Kept
<1>a. Append(swappers, New) \in Seq(SwapperSet)
      /\ Len(Append(swappers, New)) = Len(swappers) + 1
      /\ Len(swappers) \in Nat
  BY NewTyped DEF Typed, Objects
<1>b. Locals \in LocalsSet
  BY DEF Locals, LocalsSet, Ops
<1>1. ASSUME NEW enabled \in BOOLEAN, NEW reset \in BOOLEAN,
             UpdateLightningConfig(c, enabled, reset)
      PROVE  Kept
  <2> DEFINE l == [Locals EXCEPT !.op = "update", !.enabled = enabled /\ ~reset]
  <2>1. l \in LocalsSet /\ l.swapper = 0
    BY DEF Locals, LocalsSet, Ops
  <2>2. PICK step \in {"nil", "set"} : Begin(c, step, l)
    BY <1>1 DEF UpdateLightningConfig
  <2>3. \/ swappers' = Append(swappers, New) /\ current' = Len(swappers) + 1
        \/ swappers' = swappers /\ current' = current
    BY <1>1 DEF UpdateLightningConfig
  <2>6. /\ swappers' \in Seq(SwapperSet) /\ Len(swappers) <= Len(swappers')
        /\ current' \in 0 .. Len(swappers')
    <3>1. CASE swappers' = Append(swappers, New) /\ current' = Len(swappers) + 1
      BY <3>1, <1>a
    <3>2. CASE swappers' = swappers /\ current' = current
      BY <3>2, <1>a DEF Typed, Objects
    <3> QED
      BY <2>3, <3>1, <3>2
  <2>4. kind # "chain"
    BY <1>1 DEF UpdateLightningConfig
  <2>5. step \in Steps /\ step \notin Holding /\ step \notin Pointing
    BY DEF Steps, Holding, Pointing
  <2> HIDE DEF l
  <2> QED
    BY <1>a, <2>1, <2>2, <2>4, <2>5, <2>6, BeginKept
<1>2. ASSUME NEW enabled \in BOOLEAN, UpdateChainConfig(c, enabled)
      PROVE  Kept
  <2> DEFINE i == IF current = 0 THEN Len(swappers) + 1 ELSE current
  <2> DEFINE l == [Locals EXCEPT !.op = "update", !.enabled = enabled,
                                 !.swapper = i]
  <2>1. i \in Nat /\ i # 0 /\ i <= Len(swappers')
    BY <1>2, <1>a DEF UpdateChainConfig, Typed, Objects
  <2>2. l \in LocalsSet /\ l.swapper = i
    BY <2>1 DEF Locals, LocalsSet, Ops
  <2>3. Begin(c, "set", l)
    BY <1>2 DEF UpdateChainConfig
  <2>4. /\ swappers' \in Seq(SwapperSet) /\ Len(swappers) <= Len(swappers')
        /\ current' \in 0 .. Len(swappers')
    BY <1>2, <1>a DEF UpdateChainConfig, Typed, Objects
  <2>5. "set" \in Steps /\ "set" \notin Holding /\ "set" \notin Pointing
    BY DEF Steps, Holding, Pointing
  <2> HIDE DEF l
  <2> QED
    BY <2>1, <2>2, <2>3, <2>4, <2>5, BeginKept
<1>3. CASE Unload(c) \/ WalletChange(c)
  <2>1. PICK op \in {"unload", "wallet"} :
          Begin(c, "stop", [Locals EXCEPT !.op = op, !.swapper = current])
    BY <1>3 DEF Unload, WalletChange
  <2> DEFINE l == [Locals EXCEPT !.op = op, !.swapper = current]
  <2> DEFINE v == Run("stop", l)
  <2>2. current \in Nat /\ current # 0 /\ current <= Len(swappers)
    BY <1>3 DEF Unload, WalletChange, Typed, Objects
  <2>3. l \in LocalsSet /\ l.swapper = current
    BY <2>2 DEF Locals, LocalsSet, Ops
  <2>4. Beside /\ swappers' = swappers
    BY <1>3, <2>1, <1>a DEF Unload, WalletChange, Begin, Typed, Objects, Beside
  <2>5. proc' = [proc EXCEPT ![c] = v]
    BY <2>1 DEF Begin
  <2>6. Free(v)
    BY <2>2, <2>3, <2>4 DEF Free, Run, ProcSet, Steps, Holding, PointsRight
  <2> HIDE DEF v
  <2> QED
    BY <2>4, <2>5, <2>6, CallerTyped, MovedKept
<1>4. ASSUME NEW forced \in BOOLEAN, ExecuteRecommendations(c, forced)
      PROVE  Kept
  <2> DEFINE l == [Locals EXCEPT !.op = "execute", !.forced = forced,
                                 !.cfg = swappers[current].cfg]
  <2>1. swappers[current].cfg \in Nat
    <3>1. current \in DOMAIN swappers
      BY <1>4 DEF ExecuteRecommendations, Typed, Objects
    <3>2. swappers[current] \in SwapperSet
      BY <3>1 DEF Typed, Objects
    <3> QED
      BY <3>2 DEF SwapperSet
  <2>2. l \in LocalsSet /\ l.swapper = 0
    BY <2>1 DEF Locals, LocalsSet, Ops
  <2>3. PICK step \in {"nil", "lock"} : Begin(c, step, l)
    BY <1>4 DEF ExecuteRecommendations
  <2>4. swappers' = swappers /\ current' = current
    BY <1>4 DEF ExecuteRecommendations
  <2>5. step \in Steps /\ step \notin Holding /\ step \notin Pointing
        /\ step # "set"
    BY DEF Steps, Holding, Pointing, Live
  <2> HIDE DEF l
  <2> QED
    BY <1>a, <2>2, <2>3, <2>4, <2>5, BeginKept DEF Typed, Objects
<1> QED
  BY <1>1, <1>2, <1>3, <1>4 DEF Start

LEMMA TickKept ==
  ASSUME Typed, NEW l \in Loops, Tick(l)
  PROVE  Kept
<1> DEFINE v == Run("lock", My(l))
<1>1. l \in Workers /\ proc[l] \in ProcSet
  BY DEF Workers, Typed
<1>2. proc' = [proc EXCEPT ![l] = v]
  BY DEF Tick, Goes, My
<1>3. Beside /\ swappers' = swappers
  BY DEF Tick, fields, Typed, Objects, Beside
<1>4. v \in ProcSet /\ v.locals.swapper <= Len(swappers)
  BY <1>1 DEF Run, ProcSet, Steps, Live, My, Typed, PointsRight
<1>5. v.step = "lock"
  BY DEF Run
<1> HIDE DEF v
<1>6. Free(v)
  BY <1>3, <1>4, <1>5 DEF Free, PointsRight, Holding, Pointing
<1> QED
  BY <1>1, <1>2, <1>3, <1>6, MovedKept

-----------------------------------------------------------------------------
(* The steps of a check, which holds the lock.                             *)

\* Calls change nothing of what a check relies on.
LEMMA KeptInv ==
  ASSUME CheckInv, Kept
  PROVE  CheckInv'
<1>1. Exclusive'
  BY DEF CheckInv, Kept, HolderKept, Exclusive, My
<1>2. NothingPending'
  <2> SUFFICES ASSUME NEW p \in Workers, At(p, "create")', ~My(p)'.forced,
                      NEW i \in DOMAIN swaps', swaps'[i].cfg = My(p)'.cfg
               PROVE  ~swaps'[i].pending
    BY DEF NothingPending
  <2>1. HolderKept(p) /\ swaps' = swaps
    BY DEF Kept
  <2>2. At(p, "create") /\ ~My(p).forced /\ My(p).cfg = My(p)'.cfg
    BY <2>1 DEF HolderKept, At, My, Holding
  <2> QED
    BY <2>1, <2>2 DEF CheckInv, NothingPending
<1>3. NoDoubleSwap'
  BY DEF CheckInv, Kept, NoDoubleSwap
<1> QED
  BY <1>1, <1>2, <1>3 DEF CheckInv, Kept

LEMMA CheckTyped ==
  ASSUME Typed, NEW p \in Workers, NEW v \in ProcSet,
         proc' = [proc EXCEPT ![p] = v], UNCHANGED fields,
         v.locals.swapper <= Len(swappers), v.step \notin Pointing,
         v.step # "set", swaps' \in Seq(SwapSet)
  PROVE  Typed'
<1>1. proc' \in [Workers -> ProcSet]
  BY DEF Typed
<1>2. \A q \in Workers : PointsRight(proc'[q], Len(swappers))
  BY DEF Typed, PointsRight
<1>3. Objects' /\ swappers' = swappers /\ kind' = kind
  BY DEF fields, Typed, Objects
<1> QED
  BY <1>1, <1>2, <1>3 DEF Typed, PointsRight

LEMMA CheckKept ==
  ASSUME Typed, NEW p \in Workers, NEW v \in ProcSet,
         proc' = [proc EXCEPT ![p] = v], UNCHANGED fields,
         v.locals.swapper <= Len(swappers), v.step \notin Pointing,
         v.step \notin {"set", "create"}, swaps' = swaps,
         v.step \in Holding =>
           proc[p].step \in Holding /\ v.locals.cfg = My(p).cfg
  PROVE  Kept
<1>1. Typed'
  BY CheckTyped DEF Typed
<1>2. \A q \in Workers : HolderKept(q)
  BY DEF HolderKept, Typed, At, My
<1> QED
  BY <1>1, <1>2 DEF Kept

LEMMA GoesOn ==
  ASSUME Typed, NEW p \in Workers, NEW step \in {"none"} \cup Live,
         Goes(p, step), step # "create",
         step \in Holding => proc[p].step \in Holding,
         UNCHANGED fields, swaps' = swaps
  PROVE  Kept
<1> DEFINE v == IF step = "none" THEN None ELSE Run(step, My(p))
<1>1. proc[p] \in ProcSet /\ PointsRight(proc[p], Len(swappers))
  BY DEF Typed
<1>2. proc' = [proc EXCEPT ![p] = v]
  BY DEF Goes, My
<1>3. v \in ProcSet
  BY <1>1, NoneTyped DEF ProcSet, My, Steps, Run
<1>4. v.locals.swapper <= Len(swappers)
  BY <1>1 DEF PointsRight, My, None, Run, Locals, Typed, Objects
<1>5. v.step = step /\ (step # "none" => v.locals = My(p))
  BY DEF None, Run
<1> HIDE DEF v
<1>6. v.step \notin Pointing /\ v.step \notin {"set", "create"}
  BY <1>5 DEF Pointing, Live, Holding
<1>7. v.step \in Holding =>
        proc[p].step \in Holding /\ v.locals.cfg = My(p).cfg
  BY <1>5 DEF Holding
<1> QED
  BY <1>2, <1>3, <1>4, <1>6, <1>7, CheckKept

\* The lock is taken when no one else holds it, and no swap is pending or the
\* check is forced.
LEMMA RecommendInv ==
  ASSUME CheckInv, NEW p \in Workers, Recommend(p)
  PROVE  CheckInv'
<1>a. Typed /\ UNCHANGED fields /\ swaps' = swaps
  BY DEF CheckInv, Recommend, Unchanged, fields
<1>1. CASE Goes(p, AfterCheck(p))
  <2>1. PICK step \in {"none", "wait"} : Goes(p, step)
    BY <1>1 DEF AfterCheck
  <2>2. step \in {"none"} \cup Live /\ step \notin {"create"} \cup Holding
    BY DEF Live, Holding
  <2>3. Kept
    BY <1>a, <2>1, <2>2, GoesOn
  <2> QED
    BY <2>3, KeptInv
<1>2. CASE /\ (\E i \in DOMAIN swaps : swaps[i].pending) => My(p).forced
           /\ Goes(p, "create")
  <2> DEFINE v == Run("create", My(p))
  <2>1. proc[p] \in ProcSet /\ PointsRight(proc[p], Len(swappers))
    BY <1>a DEF Typed
  <2>2. proc' = [proc EXCEPT ![p] = v]
    BY <1>2 DEF Goes, My
  <2>3. v \in ProcSet
    BY <2>1 DEF ProcSet, My, Steps, Live, Holding, Run
  <2>4. v.step = "create" /\ v.locals = My(p)
    BY DEF Run
  <2> HIDE DEF v
  <2>5. Typed'
    BY <1>a, <2>1, <2>2, <2>3, <2>4, CheckTyped
       DEF Typed, PointsRight, Pointing, My
  <2>6. \A q \in Workers :
          IF q = p THEN proc'[q] = v ELSE proc'[q] = proc[q]
    BY <1>a, <2>2 DEF Typed
  <2>7. Unlocked(p)
    BY DEF Recommend
  <2>8. Exclusive'
    BY <2>4, <2>6, <2>7 DEF CheckInv, Exclusive, Unlocked, My
  <2>9. NothingPending'
    BY <1>2, <1>a, <2>4, <2>6 DEF CheckInv, NothingPending, At, My
  <2>10. NoDoubleSwap'
    BY <1>a DEF CheckInv, NoDoubleSwap
  <2> QED
    BY <2>5, <2>8, <2>9, <2>10 DEF CheckInv
<1> QED
  BY <1>1, <1>2 DEF Recommend

\* The swap made is of a configuration that no one else is creating one for.
LEMMA CreateInv ==
  ASSUME CheckInv, NEW p \in Workers, Create(p)
  PROVE  CheckInv'
<1> DEFINE row == [cfg |-> My(p).cfg, forced |-> My(p).forced, pending |-> TRUE]
<1> DEFINE n == Len(swaps) + 1
<1>1. /\ Typed
      /\ UNCHANGED fields
      /\ At(p, "create")
      /\ swaps' = Append(swaps, row)
  BY DEF CheckInv, Create
<1>2. PICK step \in {"return", "listen"} :
        proc' = [proc EXCEPT ![p] = Run(step, [My(p) EXCEPT !.swap = n])]
  BY DEF Create
<1>3. proc[p] \in ProcSet /\ PointsRight(proc[p], Len(swappers))
      /\ My(p) \in LocalsSet /\ swaps \in Seq(SwapSet)
  BY <1>1 DEF Typed, ProcSet, My
<1>4. row \in SwapSet
  BY <1>3 DEF SwapSet, LocalsSet
<1> DEFINE l == [My(p) EXCEPT !.swap = n]
<1>5. l \in LocalsSet /\ l.swapper = My(p).swapper /\ l.cfg = My(p).cfg
  BY <1>3 DEF LocalsSet
<1> HIDE DEF l
<1> DEFINE v == Run(step, l)
<1>6. v \in ProcSet /\ v.step = step /\ v.locals = l
  BY <1>5 DEF ProcSet, Steps, Live, Holding, Run
<1>7. proc' = [proc EXCEPT ![p] = v]
  BY <1>2 DEF l
<1> HIDE DEF v
<1>8. /\ swaps' \in Seq(SwapSet) /\ Len(swaps') = n
      /\ swaps'[n] = row
      /\ \A i \in DOMAIN swaps : swaps'[i] = swaps[i]
      /\ \A i \in DOMAIN swaps' : i \in DOMAIN swaps \/ i = n
      /\ \A i \in DOMAIN swaps : i \in Nat /\ i < n
  <2> HIDE DEF row
  <2> QED
    BY <1>1, <1>3, <1>4
<1>9. Typed'
  <2>1. v.locals.swapper <= Len(swappers)
    BY <1>3, <1>5, <1>6 DEF PointsRight, My
  <2>2. v.step \notin Pointing /\ v.step # "set"
    BY <1>6 DEF Pointing
  <2> QED
    BY <1>1, <1>6, <1>7, <1>8, <2>1, <2>2, CheckTyped
<1>10. \A q \in Workers :
         IF q = p THEN proc'[q] = v ELSE proc'[q] = proc[q]
  BY <1>1, <1>7 DEF Typed
<1>11. Exclusive'
  BY <1>1, <1>5, <1>6, <1>10 DEF CheckInv, Exclusive, At, My, Holding
<1>12. NothingPending'
  <2> SUFFICES ASSUME NEW q \in Workers, proc'[q].step = "create",
                      ~proc'[q].locals.forced,
                      NEW i \in DOMAIN swaps',
                      swaps'[i].cfg = proc'[q].locals.cfg
               PROVE  ~swaps'[i].pending
    BY DEF NothingPending, At, My
  <2>1. q # p /\ proc'[q] = proc[q]
    BY <1>6, <1>10
  <2>2. My(q).cfg # My(p).cfg
    BY <1>1, <2>1 DEF CheckInv, Exclusive, Holding, At
  <2>3. i \in DOMAIN swaps /\ swaps'[i] = swaps[i]
    BY <1>8, <2>1, <2>2 DEF My
  <2> QED
    BY <2>1, <2>3 DEF CheckInv, NothingPending, At, My
<1>13. NoDoubleSwap'
  <2> SUFFICES ASSUME NEW i \in DOMAIN swaps', NEW j \in DOMAIN swaps',
                      swaps'[i].pending, swaps'[j].pending, i < j,
                      swaps'[i].cfg = swaps'[j].cfg
               PROVE  swaps'[j].forced
    BY DEF NoDoubleSwap
  <2>1. CASE j \in DOMAIN swaps
    <3>1. i \in DOMAIN swaps
      BY <1>8, <2>1
    <3> QED
      BY <1>8, <2>1, <3>1 DEF CheckInv, NoDoubleSwap
  <2>2. CASE j = n
    <3>1. i \in DOMAIN swaps
      BY <1>8, <2>2
    <3>2. swaps[i].pending /\ swaps[i].cfg = My(p).cfg
      BY <1>8, <2>2, <3>1
    <3>3. My(p).forced
      BY <1>1, <3>1, <3>2 DEF CheckInv, NothingPending
    <3> QED
      BY <1>8, <2>2, <3>3
  <2> QED
    BY <1>8, <2>1, <2>2
<1> QED
  BY <1>9, <1>11, <1>12, <1>13 DEF CheckInv

LEMMA ReturnsKept ==
  ASSUME Typed, NEW p \in Workers, Returns(p)
  PROVE  Kept
<1> DEFINE l == [My(p) EXCEPT !.swap = 0]
<1> DEFINE v == IF p \in Callers THEN None ELSE Run("wait", l)
<1>1. proc[p] \in ProcSet /\ PointsRight(proc[p], Len(swappers))
      /\ My(p) \in LocalsSet
  BY DEF Typed, ProcSet, My
<1>2. l \in LocalsSet /\ l.swapper = My(p).swapper
  BY <1>1 DEF LocalsSet
<1> HIDE DEF l
<1>3. v \in ProcSet
  BY <1>2, NoneTyped DEF ProcSet, Steps, Live, Run
<1>4. v.locals.swapper <= Len(swappers) /\ v.step \in {"none", "wait"}
  BY <1>1, <1>2 DEF PointsRight, My, None, Run, Locals, Typed, Objects
<1>5. proc' = [proc EXCEPT ![p] = v]
  BY DEF Returns, l
<1>6. UNCHANGED fields /\ swaps' = swaps
  BY DEF Returns, Unchanged
<1> HIDE DEF v
<1> QED
  BY <1>3, <1>4, <1>5, <1>6, CheckKept DEF Pointing, Holding

LEMMA CheckStepInv ==
  ASSUME CheckInv, NEW p \in Workers, CheckStep(p)
  PROVE  CheckInv'
<1>a. Typed
  BY DEF CheckInv
<1>1. CASE Returns(p)
  BY <1>1, <1>a, ReturnsKept, KeptInv
<1>2. CASE Listen(p) \/ Followed(p)
  <2>1. PICK step \in {"follow", "hung", "return"} : Goes(p, step)
    BY <1>2 DEF Listen, Followed
  <2>2. UNCHANGED fields /\ swaps' = swaps /\ proc[p].step \in Holding
    BY <1>2 DEF Listen, Followed, Unchanged, At, Holding
  <2>3. step \in Live /\ step \in Holding \ {"create"}
    BY DEF Live, Holding
  <2>4. Kept
    BY <1>a, <2>1, <2>2, <2>3, GoesOn
  <2> QED
    BY <2>4, KeptInv
<1> QED
  BY <1>1, <1>2, RecommendInv, CreateInv DEF CheckStep

LEMMA FinalInv ==
  ASSUME CheckInv, NEW i \in DOMAIN swaps, Final(i)
  PROVE  CheckInv'
<1>1. Typed /\ UNCHANGED fields /\ proc' = proc
      /\ swaps' = [swaps EXCEPT ![i].pending = FALSE]
  BY DEF CheckInv, Final
<1>2. swaps[i] \in SwapSet
  BY <1>1 DEF Typed
<1>3. [swaps[i] EXCEPT !.pending = FALSE] \in SwapSet
  BY <1>2 DEF SwapSet
<1>4. swaps' = [swaps EXCEPT ![i] = [swaps[i] EXCEPT !.pending = FALSE]]
  BY <1>1
<1>5. swaps' \in Seq(SwapSet) /\ DOMAIN swaps' = DOMAIN swaps
  BY <1>1, <1>3, <1>4 DEF Typed
<1>6. \A j \in DOMAIN swaps :
        /\ swaps'[j].cfg = swaps[j].cfg /\ swaps'[j].forced = swaps[j].forced
        /\ swaps'[j].pending => swaps[j].pending
  BY <1>1, <1>2 DEF Typed, SwapSet
<1>7. Typed'
  BY <1>1, <1>5 DEF Typed, Objects, PointsRight, fields
<1>8. Exclusive'
  BY <1>1 DEF CheckInv, Exclusive, My
<1>9. NothingPending'
  BY <1>1, <1>5, <1>6 DEF CheckInv, NothingPending, At, My
<1>10. NoDoubleSwap'
  BY <1>5, <1>6 DEF CheckInv, NoDoubleSwap
<1> QED
  BY <1>7, <1>8, <1>9, <1>10 DEF CheckInv

-----------------------------------------------------------------------------
LEMMA CheckInit == Init => CheckInv
<1> SUFFICES ASSUME Init PROVE CheckInv
  OBVIOUS
<1>1. \A p \in Workers : proc[p].step \in {"none", "wait"}
  BY DEF Init, None, Run
<1>2. swaps = <<>>
  BY DEF Init
<1>3. Exclusive /\ NothingPending
  BY <1>1 DEF Exclusive, NothingPending, Holding, At
<1>4. NoDoubleSwap
  BY <1>2 DEF NoDoubleSwap
<1> QED
  BY <1>3, <1>4, TypedInit DEF CheckInv

LEMMA CheckNext == CheckInv /\ [Next]_vars => CheckInv'
<1> SUFFICES ASSUME CheckInv, [Next]_vars PROVE CheckInv'
  OBVIOUS
<1>a. Typed
  BY DEF CheckInv
<1>1. ASSUME NEW c \in Callers, CallStep(c) \/ Start(c) PROVE CheckInv'
  BY <1>1, <1>a, CallStepKept, StartKept, KeptInv
<1>2. ASSUME NEW p \in Workers, CheckStep(p) PROVE CheckInv'
  BY <1>2, CheckStepInv
<1>3. ASSUME NEW i \in DOMAIN swaps, Final(i) PROVE CheckInv'
  BY <1>3, FinalInv
<1>4. ASSUME NEW l \in Loops, Tick(l) PROVE CheckInv'
  BY <1>4, <1>a, TickKept, KeptInv
<1>5. CASE UNCHANGED vars
  BY <1>5 DEF vars, fields, CheckInv, Typed, Objects, PointsRight, Exclusive,
              NothingPending, NoDoubleSwap, At, My
<1> QED
  BY <1>1, <1>2, <1>3, <1>4, <1>5 DEF Next, Goroutines

(***************************************************************************)
(* While a swap made with a configuration object is pending, only a forced *)
(* call makes another one with that object, for any number of calls and    *)
(* loops that overlap: CheckAndExecute holds the lock of the object from   *)
(* the look at the pending swaps to the row of the new one                 *)
(* (lightning.go:372-392, chain.go:190-229).  It is not said of two        *)
(* objects: each has a lock of its own, so a loop that goes on with a      *)
(* configuration that was replaced may make a swap beside the new one.     *)
(***************************************************************************)
THEOREM OneSwapAtATime == Spec => []NoDoubleSwap
<1>1. CheckInv => NoDoubleSwap
  BY DEF CheckInv
<1> QED
  BY <1>1, CheckInit, CheckNext, PTL DEF Spec

-----------------------------------------------------------------------------
(***************************************************************************)
(* Which loops run.  A configuration that is enabled runs once the calls   *)
(* have returned: while it does not, some call is on its way to start it   *)
(* (LightInv), or, when calls come one at a time, the one call is at a     *)
(* known point between what it stops and what it starts (SoloInv).  A call *)
(* always finds a loop to start, and channels stay in bounds, because      *)
(* there are no more of either than calls (CountInv).                      *)
(***************************************************************************)
Busy == Pointing \ {"store"}

\* A call at one of these points may start a loop; before the last, it may
\* make a channel.
CanRun == (Busy \ {"delete"}) \cup {"set"}
CanMake == CanRun \ {"go"}

Running == {l \in Loops : proc[l].step \in Live}
Going == {c \in Callers : proc[c].step \in CanRun}
Making == {c \in Callers : proc[c].step \in CanMake}

\* What may run, or may be made to.
Active == Running \cup Going

CountInv ==
  /\ IsFiniteSet(Going) /\ IsFiniteSet(Making)
  /\ Cardinality(Active) <= calls + 1
  /\ channels + Cardinality(Making) <= calls + 1

\* Where the goroutines are.
PlaceInv ==
  /\ \A l \in Loops : proc[l].step \in Live \cup {"none", "dead"}
  /\ \A c \in Callers : proc[c].step # "wait"
  /\ \A c \in Callers : proc[c].step = "store" => kind = "chain"
  /\ \A p \in Workers : proc[p].step = "none" => proc[p] = None
  /\ Dead => Callers # {} /\ \A p \in Workers : proc[p].step = "dead"

\* Configurations and channels that are pointed to have been made.
MadeInv ==
  /\ \A p \in Workers :
       /\ proc[p].step \in Live => My(p).cfg \in DOMAIN configs
       /\ My(p).stop <= channels
  /\ \A c \in Callers :
       proc[c].step \in {"check", "make", "go"} => Swapper(c).cfg # 0
  /\ \A o \in DOMAIN swappers : /\ swappers[o].cfg <= Len(configs)
                                /\ swappers[o].stop <= channels
  /\ \A i \in DOMAIN swaps : swaps[i].cfg \in DOMAIN configs

BoundInv ==
  /\ kind \in Kinds
  /\ Len(swaps) <= MaxSwaps
  /\ calls \in 0 .. MaxCalls /\ ticks \in 0 .. MaxTicks
  /\ raced \in BOOLEAN

\* A channel belongs to one swapper, also when a call has read it to send.
OwnInv ==
  /\ \A o, u \in DOMAIN swappers :
       o # u /\ swappers[o].stop # 0 => swappers[u].stop # swappers[o].stop
  /\ \A c \in Callers :
       proc[c].step = "send" /\ My(c).stop # 0 =>
         \A o \in DOMAIN swappers :
           swappers[o].stop = My(c).stop => o = My(c).swapper

Ready(x) ==
  x # 0 /\ swappers[x].cfg # 0 /\ configs[swappers[x].cfg] /\ ~swappers[x].err

RunFor(l, x) ==
  /\ proc[l].step \in Live
  /\ My(l).cfg = swappers[x].cfg /\ My(l).stop = swappers[x].stop

\* A call starts the lightning swapper, or it runs and can be stopped.
LightInv ==
  kind = "lightning" /\ ~Dead /\ Ready(current) =>
    /\ \/ \E c \in Callers : proc[c].step \in Busy /\ My(c).swapper = current
       \/ \E l \in Loops : RunFor(l, current)
    /\ swappers[current].stop = 0 =>
         \E c \in Callers :
           proc[c].step \in Busy \ {"go"} /\ My(c).swapper = current

\* All that runs, runs for x, and x runs if it should.
Settled(x) ==
  /\ \A l \in Running : Forgotten(l) \/ (Ready(x) /\ RunFor(l, x))
  /\ Ready(x) /\ kind = "chain" => \E l \in Loops : RunFor(l, x)

Cleared == \A l \in Running : Forgotten(l)

\* How far a call is with the swapper it points to.
Phase(c) ==
  LET x == My(c).swapper
  IN
  /\ x = current \/ (kind = "chain" /\ My(c).op = "update" /\ current = 0)
  /\ proc[c].step \in {"stop", "signal", "send"} =>
       \A l \in Running : Forgotten(l) \/ My(l).stop = swappers[x].stop
  /\ proc[c].step = "send" => My(c).stop = swappers[x].stop
  /\ proc[c].step \in {"clear", "delete", "init", "check", "make", "go"} =>
       Cleared
  /\ proc[c].step \in {"make", "go"} => Ready(x)
  /\ proc[c].step = "go" => swappers[x].stop # 0
  /\ proc[c].step = "store" => Settled(x)
  /\ proc[c].step = "delete" => My(c).op = "unload"

Alone == \A c, d \in Callers : proc[c] # None /\ proc[d] # None => c = d

\* Each loop has a channel of its own.
Apart ==
  \A l \in Running :
    /\ My(l).stop # 0
    /\ \A m \in Running : l # m => My(l).stop # My(m).stop

SoloInv ==
  ~raced /\ ~Dead =>
    /\ Alone
    /\ Apart
    /\ (\A c \in Callers : proc[c].step \notin Pointing) => Settled(current)
    /\ \A c \in Callers : proc[c].step \in Pointing => Phase(c)
    /\ \A c \in Callers :
         proc[c].step = "set" /\ kind = "chain" =>
           My(c).op = "update" /\ (My(c).swapper = current \/ current = 0)

SwapperInv ==
  /\ CheckInv /\ BoundInv /\ PlaceInv /\ MadeInv /\ CountInv /\ OwnInv
  /\ LightInv /\ SoloInv
-----------------------------------------------------------------------------
(***************************************************************************)
(* What the steps do, point by point.                                      *)
(***************************************************************************)
Others(c) == \A q \in Workers : q # c => proc'[q] = proc[q]

LEMMA CallerIsNoLoop == \A c \in Callers : c \in Workers /\ c \notin Loops
BY AutoswapAssumption DEF Workers, Loops

LEMMA LoopIsWorker == \A l \in Loops : l \in Workers /\ l \notin Callers
BY AutoswapAssumption DEF Workers, Loops

LEMMA Moves ==
  ASSUME Typed, NEW p \in Workers, NEW v, proc' = [proc EXCEPT ![p] = v]
  PROVE  proc'[p] = v /\ Others(p)
BY DEF Typed, Others

LEMMA GoesTo ==
  ASSUME Typed, NEW p \in Workers, NEW step, Goes(p, step)
  PROVE  /\ step = "none" => proc'[p] = None
         /\ step # "none" => proc'[p].step = step /\ proc'[p].locals = My(p)
         /\ Others(p)
<1> DEFINE v == IF step = "none" THEN None ELSE Run(step, My(p))
<1>1. proc' = [proc EXCEPT ![p] = v]
  BY DEF Goes, My
<1>2. /\ step = "none" => v = None
      /\ step # "none" => v.step = step /\ v.locals = My(p)
  BY DEF Run
<1> HIDE DEF v
<1> QED BY <1>1, <1>2, Moves

\* The step of a call that sets nothing but fields of its swapper.
LEMMA SetsOne ==
  ASSUME Typed, NEW c \in Callers, proc[c].step \in Pointing,
         NEW s, Sets(c, s)
  PROVE  /\ swappers'[My(c).swapper] = s
         /\ DOMAIN swappers' = DOMAIN swappers
         /\ \A o \in DOMAIN swappers :
              o # My(c).swapper => swappers'[o] = swappers[o]
BY SwapperTyped DEF Sets, Typed, Objects

LEMMA SwapperOf ==
  ASSUME Typed, NEW o \in DOMAIN swappers
  PROVE  /\ swappers[o] \in SwapperSet
         /\ swappers[o].cfg \in Nat /\ swappers[o].stop \in Nat
         /\ swappers[o].err \in BOOLEAN /\ o # 0 /\ o \in Nat
<1>1. swappers \in Seq(SwapperSet) /\ o \in 1 .. Len(swappers)
  BY DEF Typed, Objects
<1>2. swappers[o] \in SwapperSet
  BY <1>1
<1> QED BY <1>1, <1>2 DEF SwapperSet

LEMMA NoneIs == /\ None.step = "none" /\ None.locals.swapper = 0
                /\ None.locals.stop = 0 /\ None.locals.op = "none"
BY DEF None, Run, Locals

LEMMA SetConfigDoes ==
  ASSUME Typed, NEW c \in Callers, SetConfig(c), NEW x, x = Target(c)
  PROVE  /\ x \in DOMAIN swappers
         /\ proc[c].step = "set"
         /\ proc'[c].step = "stop" /\ proc'[c].locals.swapper = x
         /\ proc'[c].locals.op = My(c).op /\ proc'[c].locals.stop = My(c).stop
         /\ Others(c)
         /\ DOMAIN swappers' = DOMAIN swappers
         /\ \A o \in DOMAIN swappers : o # x => swappers'[o] = swappers[o]
         /\ swappers'[x].cfg = Len(configs) + 1
         /\ swappers'[x].stop = swappers[x].stop
         /\ Len(configs') = Len(configs) + 1
         /\ \A i \in DOMAIN configs : configs'[i] = configs[i]
         /\ UNCHANGED <<kind, current, channels, swaps, begun>>
<1>1. /\ c \in Workers
      /\ My(c) \in LocalsSet
      /\ PointsRight(proc[c], Len(swappers))
  BY CallerTyped
<1>2. proc[c].step = "set" /\ x # 0
  BY DEF SetConfig, At
<1>3. x \in DOMAIN swappers
  BY <1>1, <1>2 DEF Target, Typed, Objects, PointsRight, My, LocalsSet
<1>4. swappers[x] \in SwapperSet
  BY <1>3, SwapperOf
<1> DEFINE v == Run("stop", [My(c) EXCEPT !.swapper = x])
<1>5. proc' = [proc EXCEPT ![c] = v]
  BY DEF SetConfig
<1>6. /\ v.step = "stop" /\ v.locals.swapper = x /\ v.locals.op = My(c).op
      /\ v.locals.stop = My(c).stop
  BY <1>1 DEF Run, LocalsSet
<1> HIDE DEF v
<1>7. proc'[c] = v /\ Others(c)
  BY <1>1, <1>5, Moves
<1>8. swappers' = [swappers EXCEPT ![x] = [swappers[x] EXCEPT !.cfg = Len(configs) + 1]]
  BY DEF SetConfig
<1>9. /\ DOMAIN swappers' = DOMAIN swappers
      /\ \A o \in DOMAIN swappers : o # x => swappers'[o] = swappers[o]
      /\ swappers'[x].cfg = Len(configs) + 1
      /\ swappers'[x].stop = swappers[x].stop
  BY <1>3, <1>4, <1>8 DEF SwapperSet, Typed, Objects
<1>10. configs' = Append(configs, My(c).enabled) /\ My(c).enabled \in BOOLEAN
  BY <1>1 DEF SetConfig, LocalsSet
<1>11. /\ Len(configs') = Len(configs) + 1
       /\ \A i \in DOMAIN configs : configs'[i] = configs[i]
  BY <1>10 DEF Typed, Objects
<1> QED
  BY <1>2, <1>3, <1>6, <1>7, <1>9, <1>11 DEF SetConfig, Unchanged

LEMMA StopDoes ==
  ASSUME Typed, NEW c \in Callers, Stop(c)
  PROVE  /\ proc[c].step = "stop"
         /\ Swapper(c).stop = 0 =>
              proc'[c].step = IF My(c).op = "unload" THEN "delete" ELSE "init"
         /\ Swapper(c).stop # 0 => proc'[c].step = "signal"
         /\ proc'[c].locals = My(c)
         /\ Others(c)
         /\ UNCHANGED <<fields, swaps, begun>>
<1>1. c \in Workers
  BY CallerIsNoLoop
<1>2. CASE Swapper(c).stop = 0
  BY <1>1, <1>2, GoesTo DEF Stop, At, AfterStop, Unchanged, fields
<1>3. CASE Swapper(c).stop # 0
  BY <1>1, <1>3, GoesTo DEF Stop, At, Unchanged, fields
<1> QED BY <1>2, <1>3

LEMMA SignalDoes ==
  ASSUME Typed, NEW c \in Callers, Signal(c)
  PROVE  /\ proc[c].step = "signal" /\ proc'[c].step = "send"
         /\ proc'[c].locals.swapper = My(c).swapper
         /\ proc'[c].locals.op = My(c).op
         /\ proc'[c].locals.stop = Swapper(c).stop
         /\ Others(c)
         /\ UNCHANGED <<fields, swaps, begun>>
<1>1. c \in Workers /\ My(c) \in LocalsSet
  BY CallerTyped
<1> DEFINE v == Run("send", [My(c) EXCEPT !.stop = Swapper(c).stop])
<1>2. proc' = [proc EXCEPT ![c] = v]
  BY DEF Signal
<1>3. /\ v.step = "send" /\ v.locals.swapper = My(c).swapper
      /\ v.locals.op = My(c).op /\ v.locals.stop = Swapper(c).stop
  BY <1>1 DEF Run, LocalsSet
<1> HIDE DEF v
<1> QED
  BY <1>1, <1>2, <1>3, Moves DEF Signal, At, Unchanged, fields

LEMMA SendDoes ==
  ASSUME Typed, NEW c \in Callers, Send(c)
  PROVE  \E l \in Loops :
           /\ proc[l].step = "wait" /\ My(l).stop = My(c).stop
           /\ proc'[l] = None
           /\ proc[c].step = "send" /\ My(c).stop # 0
           /\ proc'[c].step = "clear" /\ proc'[c].locals = My(c)
           /\ \A q \in Workers : q # c /\ q # l => proc'[q] = proc[q]
           /\ UNCHANGED <<fields, swaps, begun>>
<1> DEFINE v == Run("clear", My(c))
<1>1. PICK l \in Loops :
        /\ proc[l].step = "wait" /\ My(l).stop = My(c).stop
        /\ proc' = [proc EXCEPT ![c] = v, ![l] = None]
  BY DEF Send, At
<1>2. v.step = "clear" /\ v.locals = My(c)
  BY DEF Run
<1> HIDE DEF v
<1>3. c \in Workers /\ l \in Workers /\ c # l
  BY CallerIsNoLoop, LoopIsWorker
<1>4. /\ proc'[c] = v /\ proc'[l] = None
      /\ \A q \in Workers : q # c /\ q # l => proc'[q] = proc[q]
  BY <1>1, <1>3 DEF Typed
<1>5. /\ proc[c].step = "send"
      /\ My(c).stop # 0
      /\ UNCHANGED <<fields, swaps, begun>>
  BY DEF Send, At, Unchanged, fields
<1> QED BY <1>1, <1>2, <1>4, <1>5

LEMMA ClearDoes ==
  ASSUME Typed, NEW c \in Callers, Clear(c), NEW x, x = My(c).swapper
  PROVE  /\ x \in DOMAIN swappers
         /\ proc[c].step = "clear"
         /\ proc'[c].step = IF My(c).op = "unload" THEN "delete" ELSE "init"
         /\ proc'[c].locals = My(c)
         /\ Others(c)
         /\ DOMAIN swappers' = DOMAIN swappers
         /\ \A o \in DOMAIN swappers : o # x => swappers'[o] = swappers[o]
         /\ swappers'[x].cfg = swappers[x].cfg /\ swappers'[x].stop = 0
         /\ UNCHANGED <<kind, current, configs, channels, swaps, begun>>
<1>1. c \in Workers /\ proc[c].step = "clear" /\ proc[c].step \in Pointing
  BY CallerIsNoLoop DEF Clear, At, Pointing
<1>2. /\ x \in DOMAIN swappers
      /\ Swapper(c) = swappers[x]
      /\ swappers[x] \in SwapperSet
  BY <1>1, SwapperTyped DEF Swapper
<1> DEFINE s == [Swapper(c) EXCEPT !.stop = 0, !.err = FALSE]
<1>3. Sets(c, s) /\ Goes(c, AfterStop(c))
  BY DEF Clear
<1>4. s.cfg = swappers[x].cfg /\ s.stop = 0
  BY <1>2 DEF SwapperSet
<1> HIDE DEF s
<1>5. /\ DOMAIN swappers' = DOMAIN swappers /\ swappers'[x] = s
      /\ \A o \in DOMAIN swappers : o # x => swappers'[o] = swappers[o]
  BY <1>1, <1>3, SetsOne
<1>6. /\ proc'[c].step = IF My(c).op = "unload" THEN "delete" ELSE "init"
      /\ proc'[c].locals = My(c) /\ Others(c)
  BY <1>1, <1>3, GoesTo DEF AfterStop
<1> QED
  BY <1>1, <1>2, <1>4, <1>5, <1>6 DEF Clear, Unchanged

LEMMA DeleteDoes ==
  ASSUME Typed, NEW c \in Callers, Delete(c)
  PROVE  /\ proc[c].step = "delete" /\ proc'[c] = None /\ Others(c)
         /\ current' = 0
         /\ UNCHANGED <<kind, swappers, configs, channels, swaps, begun>>
BY CallerIsNoLoop, GoesTo DEF Delete, At, Unchanged

LEMMA InitConfigDoes ==
  ASSUME Typed, NEW c \in Callers, InitConfig(c), NEW x, x = My(c).swapper
  PROVE  /\ x \in DOMAIN swappers /\ swappers[x].cfg # 0
         /\ proc[c].step = "init"
         /\ proc'[c].step = "check" /\ proc'[c].locals = My(c)
         /\ Others(c)
         /\ DOMAIN swappers' = DOMAIN swappers
         /\ \A o \in DOMAIN swappers : o # x => swappers'[o] = swappers[o]
         /\ swappers'[x].cfg = swappers[x].cfg
         /\ swappers'[x].stop = swappers[x].stop
         /\ UNCHANGED <<kind, current, configs, channels, swaps, begun>>
<1>1. c \in Workers /\ proc[c].step = "init" /\ proc[c].step \in Pointing
  BY CallerIsNoLoop DEF InitConfig, At, Pointing
<1>2. /\ x \in DOMAIN swappers
      /\ Swapper(c) = swappers[x]
      /\ swappers[x] \in SwapperSet
  BY <1>1, SwapperTyped DEF Swapper
<1>3. PICK err \in BOOLEAN : Sets(c, [Swapper(c) EXCEPT !.err = err])
  BY DEF InitConfig
<1> DEFINE s == [Swapper(c) EXCEPT !.err = err]
<1>4. Sets(c, s) /\ Goes(c, "check")
  BY <1>3 DEF InitConfig
<1>5. s.cfg = swappers[x].cfg /\ s.stop = swappers[x].stop
  BY <1>2 DEF SwapperSet
<1> HIDE DEF s
<1>6. /\ DOMAIN swappers' = DOMAIN swappers /\ swappers'[x] = s
      /\ \A o \in DOMAIN swappers : o # x => swappers'[o] = swappers[o]
  BY <1>1, <1>4, SetsOne
<1>7. proc'[c].step = "check" /\ proc'[c].locals = My(c) /\ Others(c)
  BY <1>1, <1>4, GoesTo
<1> QED
  BY <1>1, <1>2, <1>5, <1>6, <1>7 DEF InitConfig, Unchanged

LEMMA CheckEnabledDoes ==
  ASSUME Typed, NEW c \in Callers, CheckEnabled(c), NEW x, x = My(c).swapper
  PROVE  /\ x \in DOMAIN swappers
         /\ proc[c].step = "check"
         /\ \/ /\ ~swappers[x].err /\ configs[swappers[x].cfg]
               /\ proc'[c].step = "make" /\ proc'[c].locals = My(c)
            \/ /\ ~(~swappers[x].err /\ configs[swappers[x].cfg])
               /\ \/ /\ ~(My(c).op = "update" /\ kind = "chain")
                     /\ proc'[c] = None
                  \/ /\ My(c).op = "update" /\ kind = "chain"
                     /\ proc'[c].step = "store" /\ proc'[c].locals = My(c)
         /\ Others(c)
         /\ UNCHANGED <<fields, swaps, begun>>
<1>1. c \in Workers /\ proc[c].step = "check" /\ proc[c].step \in Pointing
  BY CallerIsNoLoop DEF CheckEnabled, At, Pointing
<1>2. x \in DOMAIN swappers /\ Swapper(c) = swappers[x]
  BY <1>1, SwapperTyped DEF Swapper
<1>3. CASE ~swappers[x].err /\ configs[swappers[x].cfg]
  <2>1. Goes(c, "make")
    BY <1>2, <1>3 DEF CheckEnabled
  <2> QED
    BY <1>1, <1>2, <1>3, <2>1, GoesTo DEF CheckEnabled, Unchanged, fields
<1>4. CASE ~(~swappers[x].err /\ configs[swappers[x].cfg])
  <2>1. Goes(c, AfterStart(c))
    BY <1>2, <1>4 DEF CheckEnabled
  <2>2. CASE My(c).op = "update" /\ kind = "chain"
    <3>1. Goes(c, "store")
      BY <2>1, <2>2 DEF AfterStart
    <3> QED
      BY <1>1, <1>2, <1>4, <2>2, <3>1, GoesTo
         DEF CheckEnabled, Unchanged, fields
  <2>3. CASE ~(My(c).op = "update" /\ kind = "chain")
    <3>1. Goes(c, "none")
      BY <2>1, <2>3 DEF AfterStart
    <3> QED
      BY <1>1, <1>2, <1>4, <2>3, <3>1, GoesTo
         DEF CheckEnabled, Unchanged, fields
  <2> QED BY <2>2, <2>3
<1> QED BY <1>3, <1>4

LEMMA MakeStopDoes ==
  ASSUME Typed, NEW c \in Callers, MakeStop(c), NEW x, x = My(c).swapper
  PROVE  /\ x \in DOMAIN swappers
         /\ proc[c].step = "make"
         /\ proc'[c].step = "go" /\ proc'[c].locals = My(c)
         /\ Others(c)
         /\ DOMAIN swappers' = DOMAIN swappers
         /\ \A o \in DOMAIN swappers : o # x => swappers'[o] = swappers[o]
         /\ swappers'[x].cfg = swappers[x].cfg
         /\ swappers'[x].err = swappers[x].err
         /\ swappers'[x].stop = channels + 1 /\ channels' = channels + 1
         /\ UNCHANGED <<kind, current, configs, swaps, begun>>
<1>1. c \in Workers /\ proc[c].step = "make" /\ proc[c].step \in Pointing
  BY CallerIsNoLoop DEF MakeStop, At, Pointing
<1>2. /\ x \in DOMAIN swappers
      /\ Swapper(c) = swappers[x]
      /\ swappers[x] \in SwapperSet
  BY <1>1, SwapperTyped DEF Swapper
<1> DEFINE s == [Swapper(c) EXCEPT !.stop = channels + 1]
<1>3. Sets(c, s) /\ Goes(c, "go")
  BY DEF MakeStop
<1>4. /\ s.cfg = swappers[x].cfg /\ s.err = swappers[x].err
      /\ s.stop = channels + 1
  BY <1>2 DEF SwapperSet
<1> HIDE DEF s
<1>5. /\ DOMAIN swappers' = DOMAIN swappers /\ swappers'[x] = s
      /\ \A o \in DOMAIN swappers : o # x => swappers'[o] = swappers[o]
  BY <1>1, <1>3, SetsOne
<1>6. proc'[c].step = "go" /\ proc'[c].locals = My(c) /\ Others(c)
  BY <1>1, <1>3, GoesTo
<1> QED
  BY <1>1, <1>2, <1>4, <1>5, <1>6 DEF MakeStop, Unchanged

LEMMA GoRunDoes ==
  ASSUME Typed, NEW c \in Callers, GoRun(c), NEW x, x = My(c).swapper,
         proc[c].step = "go" => \E l \in Loops : proc[l] = None
  PROVE  /\ x \in DOMAIN swappers
         /\ proc[c].step = "go"
         /\ \/ /\ ~(My(c).op = "update" /\ kind = "chain")
               /\ proc'[c] = None
            \/ /\ My(c).op = "update" /\ kind = "chain"
               /\ proc'[c].step = "store" /\ proc'[c].locals = My(c)
         /\ \E l \in Loops :
              /\ proc[l] = None
              /\ proc'[l].step \in {"lock", "wait"}
              /\ proc'[l].locals.cfg = swappers[x].cfg
              /\ proc'[l].locals.stop = swappers[x].stop
              /\ \A q \in Workers : q # c /\ q # l => proc'[q] = proc[q]
         /\ UNCHANGED <<fields, swaps, begun>>
<1>1. c \in Workers /\ proc[c].step = "go" /\ proc[c].step \in Pointing
  BY CallerIsNoLoop DEF GoRun, At, Pointing
<1>2. x \in DOMAIN swappers /\ Swapper(c) = swappers[x]
  BY <1>1, SwapperTyped DEF Swapper
<1> DEFINE free == CHOOSE l \in Loops : proc[l] = None
<1> DEFINE v == IF AfterStart(c) = "none" THEN None
                ELSE Run(AfterStart(c), My(c))
<1> DEFINE k == [Locals EXCEPT !.cfg = Swapper(c).cfg,
                          !.stop = Swapper(c).stop]
<1> DEFINE w == Run(IF kind = "lightning" THEN "lock" ELSE "wait", k)
<1>3. proc' = [proc EXCEPT ![c] = v, ![free] = w]
  BY DEF GoRun
<1>4. free \in Loops /\ proc[free] = None
  BY <1>1
<1>5. k.cfg = swappers[x].cfg /\ k.stop = swappers[x].stop
  BY <1>2 DEF Locals
<1> HIDE DEF k
<1>6. w.step \in {"lock", "wait"} /\ w.locals = k
  BY DEF Run
<1>7. \/ ~(My(c).op = "update" /\ kind = "chain") /\ v = None
      \/ /\ My(c).op = "update" /\ kind = "chain"
         /\ v.step = "store" /\ v.locals = My(c)
  BY DEF AfterStart, Run
<1> HIDE DEF free, v, w
<1>8. free \in Workers /\ c # free
  BY <1>4, CallerIsNoLoop, LoopIsWorker
<1>9. /\ proc'[c] = v /\ proc'[free] = w
      /\ \A q \in Workers : q # c /\ q # free => proc'[q] = proc[q]
  BY <1>1, <1>3, <1>8 DEF Typed
<1>10. UNCHANGED <<fields, swaps, begun>>
  BY DEF GoRun, Unchanged, fields
<1> QED
  BY <1>1, <1>2, <1>4, <1>5, <1>6, <1>7, <1>9, <1>10

LEMMA StoreDoes ==
  ASSUME Typed, NEW c \in Callers, Store(c), NEW x, x = My(c).swapper
  PROVE  /\ x \in DOMAIN swappers
         /\ proc[c].step = "store" /\ proc'[c] = None /\ Others(c)
         /\ \/ swappers[x].err /\ current' = current
            \/ ~swappers[x].err /\ current' = x
         /\ UNCHANGED <<kind, swappers, configs, channels, swaps, begun>>
<1>1. c \in Workers /\ proc[c].step = "store" /\ proc[c].step \in Pointing
  BY CallerIsNoLoop DEF Store, At, Pointing
<1>2. x \in DOMAIN swappers /\ Swapper(c) = swappers[x]
  BY <1>1, SwapperTyped DEF Swapper
<1>3. proc'[c] = None /\ Others(c)
  BY <1>1, GoesTo DEF Store
<1> QED
  BY <1>1, <1>2, <1>3 DEF Store, Unchanged

LEMMA PanicsDoes ==
  ASSUME Typed, NEW c \in Callers, Panics(c)
  PROVE  /\ \A p \in Workers : proc'[p] = Run("dead", Locals)
         /\ proc[c].step \in {"nil", "set", "init"}
         /\ UNCHANGED <<fields, swaps, begun>>
BY DEF Panics, At, Unchanged, fields

\* What the start of a call sets; an update may have a new swapper.
LEMMA BeginDoes ==
  ASSUME Typed, NEW c \in Callers, NEW step, NEW locals, Begin(c, step, locals)
  PROVE  /\ proc[c] = None
         /\ proc'[c].step = step /\ proc'[c].locals = locals
         /\ Others(c)
         /\ calls < MaxCalls /\ calls' = calls + 1
         /\ raced' = (raced \/ ~Quiet)
         /\ UNCHANGED <<kind, configs, channels, swaps, ticks>>
<1> DEFINE v == Run(step, locals)
<1>1. proc' = [proc EXCEPT ![c] = v]
  BY DEF Begin
<1>2. v.step = step /\ v.locals = locals
  BY DEF Run
<1> HIDE DEF v
<1> QED
  BY <1>1, <1>2, CallerIsNoLoop, Moves DEF Begin

NewSwapper ==
  /\ DOMAIN swappers' = 1 .. Len(swappers) + 1
  /\ \A o \in DOMAIN swappers : swappers'[o] = swappers[o]
  /\ LET n == Len(swappers) + 1
     IN swappers'[n].cfg = 0 /\ swappers'[n].stop = 0

LEMMA AppendsNew ==
  ASSUME Typed, swappers' = Append(swappers, New)
  PROVE  NewSwapper
<1>1. swappers \in Seq(SwapperSet)
  BY DEF Typed, Objects
<1>2. New \in SwapperSet /\ New.cfg = 0 /\ New.stop = 0
  BY NewTyped DEF New
<1> QED
  BY <1>1, <1>2 DEF NewSwapper

\* The five ways in which a call begins.
Begins(c) ==
  /\ proc[c] = None /\ Others(c)
  /\ calls < MaxCalls /\ calls' = calls + 1
  /\ raced' = (raced \/ ~Quiet)
  /\ UNCHANGED <<kind, configs, channels, swaps, ticks>>
  /\ proc'[c].locals.stop = 0

BeginsLightning(c) ==
  /\ kind = "lightning" /\ proc'[c].step \in {"nil", "set"}
  /\ \/ UNCHANGED <<current, swappers>>
     \/ NewSwapper /\ current' = Len(swappers) + 1

BeginsChain(c) ==
  /\ kind = "chain" /\ proc'[c].step = "set" /\ current' = current
  /\ proc'[c].locals.op = "update"
  /\ \/ current = 0 /\ NewSwapper
     \/ UNCHANGED swappers /\ proc'[c].locals.swapper = current

BeginsStop(c) ==
  /\ proc'[c].step = "stop" /\ UNCHANGED <<current, swappers>>
  /\ current # 0 /\ proc'[c].locals.swapper = current
  /\ proc'[c].locals.op # "update"

BeginsCheck(c) ==
  /\ UNCHANGED <<current, swappers>> /\ current # 0
  /\ \/ proc'[c].step = "nil"
     \/ /\ proc'[c].step = "lock" /\ swappers[current].cfg # 0
        /\ proc'[c].locals.cfg = swappers[current].cfg

LEMMA StartDoes ==
  ASSUME Typed, NEW c \in Callers, Start(c)
  PROVE  /\ Begins(c)
         /\ \/ BeginsLightning(c) \/ BeginsChain(c) \/ BeginsStop(c)
            \/ BeginsCheck(c)
<1>1. ASSUME NEW enabled \in BOOLEAN, NEW reset \in BOOLEAN,
             UpdateLightningConfig(c, enabled, reset)
      PROVE  Begins(c) /\ BeginsLightning(c)
  <2> DEFINE l == [Locals EXCEPT !.op = "update", !.enabled = enabled /\ ~reset]
  <2>1. l.stop = 0
    BY DEF Locals
  <2>2. PICK step \in {"nil", "set"} : Begin(c, step, l)
    BY <1>1 DEF UpdateLightningConfig
  <2> HIDE DEF l
  <2>3. \/ UNCHANGED <<current, swappers>>
        \/ NewSwapper /\ current' = Len(swappers) + 1
    BY <1>1, AppendsNew DEF UpdateLightningConfig
  <2> QED
    BY <1>1, <2>1, <2>2, <2>3, BeginDoes
       DEF Begins, BeginsLightning, UpdateLightningConfig
<1>2. ASSUME NEW enabled \in BOOLEAN, UpdateChainConfig(c, enabled)
      PROVE  Begins(c) /\ BeginsChain(c)
  <2> DEFINE x == IF current = 0 THEN Len(swappers) + 1 ELSE current
  <2> DEFINE l == [Locals EXCEPT !.op = "update", !.enabled = enabled,
                                 !.swapper = x]
  <2>1. l.stop = 0 /\ l.op = "update" /\ (current # 0 => l.swapper = current)
    BY DEF Locals
  <2>2. Begin(c, "set", l)
    BY <1>2 DEF UpdateChainConfig
  <2> HIDE DEF l
  <2>3. \/ current = 0 /\ NewSwapper
        \/ current # 0 /\ UNCHANGED swappers
    BY <1>2, AppendsNew DEF UpdateChainConfig
  <2> QED
    BY <1>2, <2>1, <2>2, <2>3, BeginDoes
       DEF Begins, BeginsChain, UpdateChainConfig
<1>3. ASSUME Unload(c) \/ WalletChange(c)
      PROVE  Begins(c) /\ BeginsStop(c)
  <2>1. PICK op \in {"unload", "wallet"} :
          Begin(c, "stop", [Locals EXCEPT !.op = op, !.swapper = current])
    BY <1>3 DEF Unload, WalletChange
  <2> DEFINE l == [Locals EXCEPT !.op = op, !.swapper = current]
  <2>2. l.stop = 0 /\ l.op # "update" /\ l.swapper = current
    BY DEF Locals
  <2>3. Begin(c, "stop", l)
    BY <2>1
  <2> HIDE DEF l
  <2> QED
    BY <1>3, <2>2, <2>3, BeginDoes DEF Begins, BeginsStop, Unload, WalletChange
<1>4. ASSUME NEW forced \in BOOLEAN, ExecuteRecommendations(c, forced)
      PROVE  Begins(c) /\ BeginsCheck(c)
  <2> DEFINE l == [Locals EXCEPT !.op = "execute", !.forced = forced,
                                 !.cfg = swappers[current].cfg]
  <2>1. l.stop = 0 /\ l.cfg = swappers[current].cfg
    BY DEF Locals
  <2>2. PICK step \in {"nil", "lock"} :
          Begin(c, step, l) /\ (Unset => step = "nil")
    BY <1>4 DEF ExecuteRecommendations
  <2> HIDE DEF l
  <2>3. current # 0 /\ UNCHANGED <<current, swappers>>
    BY <1>4 DEF ExecuteRecommendations
  <2> QED
    BY <2>1, <2>2, <2>3, BeginDoes DEF Begins, BeginsCheck, Unset
<1> QED
  BY <1>1, <1>2, <1>3, <1>4 DEF Start

\* Checks, ticks and swaps that end change no field and start and end no loop.
Checks(p) ==
  /\ proc[p].step \in Live
  /\ \/ p \in Callers /\ proc'[p] = None
     \/ /\ proc'[p].step \in Live
        /\ proc'[p].locals.cfg = My(p).cfg
        /\ proc'[p].locals.stop = My(p).stop
        /\ p \in Callers => proc'[p].step # "wait"

Aside ==
  /\ UNCHANGED <<fields, calls, raced>>
  /\ \A p \in Workers : proc'[p] = proc[p] \/ Checks(p)

LEMMA CheckStepAside ==
  ASSUME Typed, NEW p \in Workers, CheckStep(p)
  PROVE  Aside /\ UNCHANGED ticks
<1>0. ASSUME Others(p), Checks(p), UNCHANGED <<fields, begun>>
      PROVE  Aside /\ UNCHANGED ticks
  BY <1>0 DEF Aside, Others, begun
<1>a. My(p) \in LocalsSet /\ UNCHANGED <<fields, begun>>
  BY DEF Typed, ProcSet, My, CheckStep, Recommend, Create, Returns, Listen,
         Followed, Unchanged
<1>1. CASE Recommend(p)
  <2>1. proc[p].step = "lock" /\ proc[p].step \in Live
    BY <1>1 DEF Recommend, At, Live
  <2>2. CASE Goes(p, "create")
    <3>1. Others(p) /\ Checks(p)
      BY <2>1, <2>2, GoesTo DEF Checks, Live, Holding
    <3> QED BY <1>a, <1>0, <3>1
  <2>3. CASE Goes(p, AfterCheck(p))
    <3>1. Others(p) /\ Checks(p)
      BY <2>1, <2>3, GoesTo DEF Checks, Live, AfterCheck
    <3> QED BY <1>a, <1>0, <3>1
  <2> QED BY <1>1, <2>2, <2>3 DEF Recommend
<1>2. CASE Create(p)
  <2> DEFINE l == [My(p) EXCEPT !.swap = Len(swaps) + 1]
  <2>1. PICK step \in {"return", "listen"} :
          proc' = [proc EXCEPT ![p] = Run(step, l)]
    BY <1>2 DEF Create
  <2> DEFINE v == Run(step, l)
  <2>2. proc' = [proc EXCEPT ![p] = v]
    BY <2>1
  <2>3. l.cfg = My(p).cfg /\ l.stop = My(p).stop
    BY <1>a DEF LocalsSet
  <2> HIDE DEF l
  <2>4. v.step = step /\ v.locals = l
    BY DEF Run
  <2> HIDE DEF v
  <2>5. Others(p) /\ Checks(p)
    BY <1>2, <2>2, <2>3, <2>4, Moves DEF Create, At, Checks, Live, Holding
  <2> QED BY <1>a, <1>0, <2>5
<1>3. CASE Returns(p)
  <2> DEFINE l == [My(p) EXCEPT !.swap = 0]
  <2> DEFINE v == IF p \in Callers THEN None ELSE Run("wait", l)
  <2>1. proc' = [proc EXCEPT ![p] = v]
    BY <1>3 DEF Returns
  <2>2. l.cfg = My(p).cfg /\ l.stop = My(p).stop
    BY <1>a DEF LocalsSet
  <2> HIDE DEF l
  <2>3. \/ p \in Callers /\ v = None
        \/ p \notin Callers /\ v.step = "wait" /\ v.locals = l
    BY DEF Run
  <2> HIDE DEF v
  <2>4. Others(p) /\ Checks(p)
    BY <1>3, <2>1, <2>2, <2>3, Moves DEF Returns, At, Checks, Live, Holding
  <2> QED BY <1>a, <1>0, <2>4
<1>4. CASE Listen(p) \/ Followed(p)
  <2>1. PICK step \in {"follow", "hung", "return"} : Goes(p, step)
    BY <1>4 DEF Listen, Followed
  <2>2. proc[p].step \in Live
    BY <1>4 DEF Listen, Followed, At, Live, Holding
  <2>3. Others(p) /\ Checks(p)
    BY <2>1, <2>2, GoesTo DEF Checks, Live, Holding
  <2> QED BY <1>a, <1>0, <2>3
<1> QED BY <1>1, <1>2, <1>3, <1>4 DEF CheckStep

LEMMA TickAside ==
  ASSUME Typed, NEW l \in Loops, Tick(l)
  PROVE  Aside /\ ticks < MaxTicks /\ ticks' = ticks + 1 /\ swaps' = swaps
<1>1. l \in Workers /\ l \notin Callers /\ proc[l].step = "wait"
  BY LoopIsWorker DEF Tick, At
<1>2. Others(l) /\ Checks(l)
  BY <1>1, GoesTo DEF Tick, Checks, Live
<1> QED
  BY <1>2 DEF Aside, Others, Tick

-----------------------------------------------------------------------------
(***************************************************************************)
(* PlaceInv, MadeInv and BoundInv.                                         *)
(***************************************************************************)
LEMMA DeadIs == /\ Run("dead", Locals).step = "dead"
                /\ Run("dead", Locals).locals.stop = 0
BY DEF Run, Locals

\* A goroutine that takes a step is not dead, so none is.
LEMMA NobodyIsDead ==
  ASSUME PlaceInv, NEW p \in Workers, proc[p].step # "dead"
  PROVE  ~Dead
BY DEF PlaceInv

LEMMA PlaceMoves ==
  ASSUME PlaceInv, NEW c \in Callers, proc[c].step # "dead", Others(c),
         kind' = kind,
         proc'[c].step \notin {"wait", "dead"},
         proc'[c].step = "store" => kind = "chain",
         proc'[c].step = "none" => proc'[c] = None
  PROVE  PlaceInv'
<1>1. c \in Workers /\ ~Dead
  BY CallerIsNoLoop, NobodyIsDead
<1>2. \A p \in Workers : p = c \/ proc'[p] = proc[p]
  BY DEF Others
<1>3. ~Dead'
  BY <1>1, <1>2 DEF Dead, At
<1>4. \A l \in Loops : l \in Workers /\ l # c
  BY LoopIsWorker
<1>5. \A d \in Callers : d \in Workers
  BY CallerIsNoLoop
<1> QED
  BY <1>2, <1>3, <1>4, <1>5 DEF PlaceInv

LEMMA PlaceCall ==
  ASSUME Typed, PlaceInv, NEW c \in Callers, CallStep(c),
         proc[c].step = "go" => \E l \in Loops : proc[l] = None
  PROVE  PlaceInv'
<1>1. CASE SetConfig(c)
  <2> DEFINE x == Target(c)
  <2> HIDE DEF x
  <2> QED
    BY <1>1, SetConfigDoes, PlaceMoves
<1>2. CASE Panics(c)
  <2>1. \A p \in Workers : proc'[p].step = "dead"
    BY <1>2, PanicsDoes, DeadIs
  <2>2. c \in Workers /\ \A l \in Loops : l \in Workers
    BY CallerIsNoLoop, LoopIsWorker
  <2> QED
    BY <2>1, <2>2, CallerIsNoLoop DEF PlaceInv
<1>3. CASE Stop(c)
  BY <1>3, StopDoes, PlaceMoves DEF fields
<1>4. CASE Signal(c)
  BY <1>4, SignalDoes, PlaceMoves DEF fields
<1>5. CASE Send(c)
  <2>1. PICK l \in Loops :
           /\ proc[l].step = "wait" /\ My(l).stop = My(c).stop
           /\ proc'[l] = None
           /\ proc[c].step = "send" /\ My(c).stop # 0
           /\ proc'[c].step = "clear" /\ proc'[c].locals = My(c)
           /\ \A q \in Workers : q # c /\ q # l => proc'[q] = proc[q]
           /\ UNCHANGED <<fields, swaps, begun>>
    BY <1>5, SendDoes
  <2>2. c \in Workers /\ l \in Workers /\ ~Dead
    BY <2>1, CallerIsNoLoop, LoopIsWorker, NobodyIsDead
  <2>3. ~Dead'
    BY <2>1, <2>2, NoneIs DEF Dead, At
  <2>4. \A d \in Callers : d \in Workers /\ d # l
    BY CallerIsNoLoop
  <2>5. \A m \in Loops : m \in Workers /\ m # c
    BY LoopIsWorker
  <2>6. kind' = kind
    BY <2>1 DEF fields
  <2> QED
    BY <2>1, <2>2, <2>3, <2>4, <2>5, <2>6, NoneIs DEF PlaceInv
<1>6. CASE Clear(c)
  BY <1>6, ClearDoes, PlaceMoves
<1>7. CASE Delete(c)
  BY <1>7, DeleteDoes, PlaceMoves, NoneIs
<1>8. CASE InitConfig(c)
  BY <1>8, InitConfigDoes, PlaceMoves
<1>9. CASE CheckEnabled(c)
  BY <1>9, CheckEnabledDoes, PlaceMoves, NoneIs DEF fields
<1>10. CASE MakeStop(c)
  BY <1>10, MakeStopDoes, PlaceMoves
<1>11. CASE GoRun(c)
  <2>1. PICK l \in Loops :
              /\ proc[l] = None
              /\ proc'[l].step \in {"lock", "wait"}
              /\ \A q \in Workers : q # c /\ q # l => proc'[q] = proc[q]
    BY <1>11, GoRunDoes
  <2>2. /\ proc[c].step = "go"
        /\ proc'[c] = None \/ (proc'[c].step = "store" /\ kind = "chain")
        /\ kind' = kind
    BY <1>11, GoRunDoes DEF fields
  <2>3. c \in Workers /\ l \in Workers /\ ~Dead
    BY <2>1, <2>2, CallerIsNoLoop, LoopIsWorker, NobodyIsDead
  <2>4. ~Dead'
    BY <2>1, <2>2, <2>3, NoneIs DEF Dead, At
  <2>5. \A d \in Callers : d \in Workers /\ d # l
    BY CallerIsNoLoop
  <2>6. \A m \in Loops : m \in Workers /\ m # c
    BY LoopIsWorker
  <2>7. {"lock", "wait"} \subseteq Live
    BY DEF Live
  <2> QED
    BY <2>1, <2>2, <2>3, <2>4, <2>5, <2>6, <2>7, NoneIs DEF PlaceInv
<1>12. CASE Store(c)
  BY <1>12, StoreDoes, PlaceMoves, NoneIs
<1> QED
  BY <1>1, <1>2, <1>3, <1>4, <1>5, <1>6, <1>7, <1>8, <1>9, <1>10, <1>11, <1>12
     DEF CallStep

LEMMA PlaceStart ==
  ASSUME Typed, PlaceInv, NEW c \in Callers, Start(c)
  PROVE  PlaceInv'
<1>1. /\ Begins(c)
      /\ proc'[c].step \in {"nil", "set", "stop", "lock"}
  BY StartDoes DEF BeginsLightning, BeginsChain, BeginsStop, BeginsCheck
<1> QED
  BY <1>1, PlaceMoves, NoneIs DEF Begins

LEMMA PlaceAside ==
  ASSUME PlaceInv, Aside
  PROVE  PlaceInv'
<1>1. \A p \in Workers : proc'[p] = proc[p] \/ Checks(p)
  BY DEF Aside
<1>2. Live \cap {"none", "dead", "store"} = {}
  BY DEF Live, Holding
<1>3. \A p \in Workers :
        Checks(p) => /\ proc[p].step # "dead"
                     /\ proc'[p].step \in Live \cup {"none"}
                     /\ proc'[p].step = "none" => proc'[p] = None
                     /\ p \in Callers => proc'[p].step # "wait"
                     /\ p \notin Callers => proc'[p].step \in Live
  BY <1>2, NoneIs DEF Checks
<1>4. Dead' => \A p \in Workers : proc'[p] = proc[p]
  <2> SUFFICES ASSUME NEW q \in Workers, proc'[q].step = "dead",
                      NEW p \in Workers
               PROVE  proc'[p] = proc[p]
    BY DEF Dead, At
  <2>1. proc[q].step = "dead"
    BY <1>1, <1>2, <1>3
  <2>2. proc[p].step = "dead"
    BY <2>1 DEF PlaceInv, Dead, At
  <2> QED BY <2>2, <1>1, <1>3
<1>5. kind' = kind
  BY DEF Aside, fields
<1>6. \A l \in Loops : l \in Workers /\ l \notin Callers
  BY LoopIsWorker
<1>7. \A c \in Callers : c \in Workers
  BY CallerIsNoLoop
<1>8. Dead' => Dead
  BY <1>4 DEF Dead, At
<1> QED
  BY <1>1, <1>2, <1>3, <1>4, <1>5, <1>6, <1>7, <1>8 DEF PlaceInv

LEMMA BoundNext ==
  ASSUME Typed, BoundInv, Next
  PROVE  BoundInv'
<1>1. ASSUME NEW c \in Callers, CallStep(c) PROVE BoundInv'
  <2>1. UNCHANGED <<kind, swaps, calls, ticks, raced>>
    BY <1>1 DEF CallStep, SetConfig, Panics, Stop, Signal, Send, Clear, Delete,
       InitConfig, CheckEnabled, MakeStop, GoRun, Store, Unchanged, begun
  <2> QED
    BY <2>1 DEF BoundInv
<1>2. ASSUME NEW c \in Callers, Start(c) PROVE BoundInv'
  <2>1. Begins(c)
    BY <1>2, StartDoes
  <2>2. raced' \in BOOLEAN
    BY <2>1, Zenon DEF Begins
  <2> QED
    BY <2>1, <2>2, AutoswapAssumption DEF Begins, BoundInv
<1>3. ASSUME NEW p \in Workers, CheckStep(p) PROVE BoundInv'
  <2>1. Aside /\ UNCHANGED ticks
    BY <1>3, CheckStepAside
  <2>2. Len(swaps') <= MaxSwaps
    <3>1. CASE Create(p)
      <4> DEFINE row == [cfg |-> My(p).cfg, forced |-> My(p).forced,
                         pending |-> TRUE]
      <4>1. swaps' = Append(swaps, row) /\ Len(swaps) < MaxSwaps
        BY <3>1 DEF Create
      <4> HIDE DEF row
      <4>2. Len(swaps') = Len(swaps) + 1 /\ Len(swaps) \in Nat
        BY <4>1 DEF Typed
      <4> QED
        BY <4>1, <4>2, AutoswapAssumption
    <3>2. CASE ~Create(p)
      <4>1. swaps' = swaps
        BY <1>3, <3>2 DEF CheckStep, Recommend, Returns, Listen, Followed,
                          Unchanged
      <4> QED
        BY <4>1 DEF BoundInv
    <3> QED BY <3>1, <3>2
  <2> QED
    BY <2>1, <2>2 DEF BoundInv, Aside, fields
<1>4. ASSUME NEW i \in DOMAIN swaps, Final(i) PROVE BoundInv'
  <2>1. Len(swaps') = Len(swaps)
    BY <1>4 DEF Final, Typed
  <2> QED
    BY <1>4, <2>1 DEF Final, BoundInv, fields, begun
<1>5. ASSUME NEW l \in Loops, Tick(l) PROVE BoundInv'
  <2>1. Aside /\ ticks < MaxTicks /\ ticks' = ticks + 1 /\ swaps' = swaps
    BY <1>5, TickAside
  <2> QED
    BY <2>1, AutoswapAssumption DEF BoundInv, Aside, fields
<1> QED
  BY <1>1, <1>2, <1>3, <1>4, <1>5 DEF Next, Goroutines

LEMMA MadeMoves ==
  ASSUME Typed, MadeInv, NEW c \in Callers, Others(c),
         Len(configs') \in Nat, Len(configs) <= Len(configs'),
         DOMAIN configs' = 1 .. Len(configs'),
         channels' \in Nat, channels <= channels', swaps' = swaps,
         proc'[c].locals.stop <= channels',
         proc'[c].step \in Live => proc'[c].locals.cfg \in DOMAIN configs',
         proc'[c].step \in {"check", "make", "go"} =>
           swappers'[proc'[c].locals.swapper].cfg # 0,
         \A o \in DOMAIN swappers :
           o \in DOMAIN swappers' /\ (swappers[o].cfg # 0 => swappers'[o].cfg # 0),
         \A o \in DOMAIN swappers' : /\ swappers'[o].cfg <= Len(configs')
                                     /\ swappers'[o].stop <= channels'
  PROVE  MadeInv'
<1>1. /\ Len(configs) \in Nat /\ DOMAIN configs = 1 .. Len(configs)
      /\ channels \in Nat
  BY DEF Typed, Objects
<1>2. DOMAIN configs \subseteq DOMAIN configs'
  BY <1>1
<1>3. ASSUME NEW p \in Workers
      PROVE  /\ proc'[p].step \in Live => proc'[p].locals.cfg \in DOMAIN configs'
             /\ proc'[p].locals.stop <= channels'
  <2>1. CASE p = c
    BY <2>1
  <2>2. CASE p # c
    <3>1. proc'[p] = proc[p] /\ proc[p].locals.stop \in Nat
      BY <2>2 DEF Others, Typed, ProcSet, LocalsSet
    <3>2. /\ proc[p].step \in Live => proc[p].locals.cfg \in DOMAIN configs
          /\ proc[p].locals.stop <= channels
      BY DEF MadeInv, My
    <3> QED BY <1>1, <1>2, <3>1, <3>2
  <2> QED BY <2>1, <2>2
<1>4. ASSUME NEW d \in Callers, proc'[d].step \in {"check", "make", "go"}
      PROVE  swappers'[proc'[d].locals.swapper].cfg # 0
  <2>1. CASE d = c
    BY <1>4, <2>1
  <2>2. CASE d # c
    <3>1. proc'[d] = proc[d]
      BY <2>2, CallerIsNoLoop DEF Others
    <3>2. proc[d].step \in Pointing
      BY <1>4, <3>1 DEF Pointing
    <3>3. My(d).swapper \in DOMAIN swappers /\ swappers[My(d).swapper].cfg # 0
      BY <1>4, <3>1, <3>2, SwapperTyped DEF MadeInv, Swapper
    <3> QED BY <3>1, <3>3 DEF My
  <2> QED BY <2>1, <2>2
<1>5. \A i \in DOMAIN swaps' : swaps'[i].cfg \in DOMAIN configs'
  BY <1>2 DEF MadeInv
<1> QED
  BY <1>3, <1>4, <1>5 DEF MadeInv, My, Swapper

\* A call that makes no configuration and no channel.
LEMMA MadeStays ==
  ASSUME Typed, MadeInv, NEW c \in Callers, Others(c),
         UNCHANGED <<configs, channels, swaps>>,
         proc'[c].locals.stop <= channels,
         proc'[c].step \in Live => proc'[c].locals.cfg \in DOMAIN configs,
         proc'[c].step \in {"check", "make", "go"} =>
           /\ proc'[c].locals.swapper \in DOMAIN swappers
           /\ swappers[proc'[c].locals.swapper].cfg # 0,
         \A o \in DOMAIN swappers :
           o \in DOMAIN swappers' /\ swappers'[o].cfg = swappers[o].cfg,
         \A o \in DOMAIN swappers' :
           \/ /\ o \in DOMAIN swappers
              /\ swappers'[o].stop \in {0, swappers[o].stop}
           \/ swappers'[o].cfg = 0 /\ swappers'[o].stop = 0
  PROVE  MadeInv'
<1>1. /\ Len(configs) \in Nat /\ DOMAIN configs = 1 .. Len(configs)
      /\ channels \in Nat
  BY DEF Typed, Objects
<1>2. \A o \in DOMAIN swappers' : /\ swappers'[o].cfg <= Len(configs')
                                  /\ swappers'[o].stop <= channels'
  BY <1>1, SwapperOf DEF MadeInv
<1>3. /\ Len(configs') \in Nat /\ Len(configs) <= Len(configs')
      /\ DOMAIN configs' = 1 .. Len(configs')
      /\ channels' \in Nat /\ channels <= channels'
  BY <1>1
<1>4. proc'[c].step \in {"check", "make", "go"} =>
           swappers'[proc'[c].locals.swapper].cfg # 0
  OBVIOUS
<1> QED
  BY <1>2, <1>3, <1>4, MadeMoves

LEMMA MadeCall ==
  ASSUME Typed, MadeInv, NEW c \in Callers, CallStep(c),
         proc[c].step = "go" => \E l \in Loops : proc[l] = None
  PROVE  MadeInv'
<1>a. /\ Len(configs) \in Nat /\ DOMAIN configs = 1 .. Len(configs)
      /\ channels \in Nat
  BY DEF Typed, Objects
<1>b. My(c) \in LocalsSet /\ My(c).stop <= channels /\ My(c).stop \in Nat
  BY CallerTyped DEF MadeInv, LocalsSet
<1>c. \A o \in DOMAIN swappers :
        /\ swappers[o].cfg \in Nat /\ swappers[o].cfg <= Len(configs)
        /\ swappers[o].stop \in Nat /\ swappers[o].stop <= channels
  BY SwapperOf DEF MadeInv
<1>d. Live \cap ({"none", "dead"} \cup Pointing) = {}
  BY DEF Live, Holding, Pointing
<1>e. proc[c].step \in Pointing =>
        My(c).swapper \in DOMAIN swappers /\ Swapper(c) = swappers[My(c).swapper]
  BY SwapperTyped DEF Swapper
<1>1. CASE SetConfig(c)
  <2> DEFINE x == Target(c)
  <2> HIDE DEF x
  <2>1. /\ x \in DOMAIN swappers
        /\ proc'[c].step = "stop" /\ proc'[c].locals.stop = My(c).stop
        /\ Others(c)
        /\ DOMAIN swappers' = DOMAIN swappers
        /\ \A o \in DOMAIN swappers : o # x => swappers'[o] = swappers[o]
        /\ swappers'[x].cfg = Len(configs) + 1
        /\ swappers'[x].stop = swappers[x].stop
        /\ Len(configs') = Len(configs) + 1
        /\ channels' = channels /\ swaps' = swaps
    BY <1>1, SetConfigDoes DEF x
  <2>2. DOMAIN configs' = 1 .. Len(configs')
    BY <1>1, <1>b DEF SetConfig, Typed, Objects, LocalsSet
  <2>3. \A o \in DOMAIN swappers' : /\ swappers'[o].cfg <= Len(configs')
                                    /\ swappers'[o].stop <= channels'
    BY <1>a, <1>c, <2>1
  <2>4. \A o \in DOMAIN swappers :
           o \in DOMAIN swappers' /\ (swappers[o].cfg # 0 => swappers'[o].cfg # 0)
    BY <1>a, <2>1
  <2>5. proc'[c].step \notin Live
    BY <2>1, <1>d DEF Pointing
  <2>6. /\ Len(configs') \in Nat /\ Len(configs) <= Len(configs')
        /\ channels' \in Nat /\ channels <= channels'
        /\ proc'[c].locals.stop <= channels'
    BY <1>a, <1>b, <2>1
  <2> QED
    BY <2>1, <2>2, <2>3, <2>4, <2>5, <2>6, MadeMoves
<1>2. CASE Panics(c)
  <2>1. /\ \A p \in Workers : proc'[p] = Run("dead", Locals)
        /\ UNCHANGED <<configs, channels, swaps, swappers>>
    BY <1>2, PanicsDoes DEF fields
  <2>2. /\ \A p \in Workers :
             proc'[p].step = "dead" /\ proc'[p].locals.stop = 0
        /\ "dead" \notin Live
    BY <2>1, DeadIs, <1>d
  <2> QED
    BY <1>a, <2>1, <2>2, CallerIsNoLoop DEF MadeInv, My
<1>3. CASE Stop(c)
  BY <1>3, <1>b, <1>d, StopDoes, MadeStays DEF fields, Pointing
<1>4. CASE Signal(c)
  <2>1. proc[c].step \in Pointing
    BY <1>4, SignalDoes DEF Pointing
  <2> QED
  BY <2>1, <1>4, <1>b, <1>c, <1>d, <1>e, SignalDoes, MadeStays
     DEF fields, Pointing
<1>5. CASE Send(c)
  <2>1. PICK l \in Loops :
           /\ proc[l].step = "wait" /\ My(l).stop = My(c).stop
           /\ proc'[l] = None
           /\ proc[c].step = "send" /\ My(c).stop # 0
           /\ proc'[c].step = "clear" /\ proc'[c].locals = My(c)
           /\ \A q \in Workers : q # c /\ q # l => proc'[q] = proc[q]
           /\ UNCHANGED <<fields, swaps, begun>>
    BY <1>5, SendDoes
  <2>2. UNCHANGED <<swappers, configs, channels, swaps>>
    BY <2>1 DEF fields
  <2>3. \A d \in Callers : d \in Workers /\ d # l
    BY CallerIsNoLoop
  <2>4. "clear" \notin Live
    BY <1>d DEF Pointing
  <2> QED
    BY <1>a, <1>b, <1>d, <2>1, <2>2, <2>3, <2>4, NoneIs DEF MadeInv, My, Swapper
<1>6. CASE Clear(c)
  <2> DEFINE x == My(c).swapper
  <2> HIDE DEF x
  <2> QED
  BY <1>6, <1>b, <1>d, ClearDoes, MadeStays DEF Pointing, x
<1>7. CASE Delete(c)
  BY <1>7, <1>a, <1>d, DeleteDoes, MadeStays, NoneIs
<1>8. CASE InitConfig(c)
  <2> DEFINE x == My(c).swapper
  <2> HIDE DEF x
  <2> QED
  BY <1>8, <1>b, <1>d, InitConfigDoes, MadeStays DEF Pointing, x
<1>9. CASE CheckEnabled(c)
  <2> DEFINE x == My(c).swapper
  <2>1. x \in DOMAIN swappers /\ swappers[x].cfg # 0
    BY <1>9, CheckEnabledDoes DEF MadeInv, Swapper
  <2> HIDE DEF x
  <2> QED
  BY <1>9, <1>a, <1>b, <1>d, <2>1, CheckEnabledDoes, MadeStays, NoneIs
     DEF Pointing, x, fields
<1>10. CASE MakeStop(c)
  <2> DEFINE x == My(c).swapper
  <2> HIDE DEF x
  <2>1. /\ x \in DOMAIN swappers
        /\ proc[c].step = "make"
        /\ proc'[c].step = "go" /\ proc'[c].locals = My(c)
        /\ Others(c)
        /\ DOMAIN swappers' = DOMAIN swappers
        /\ \A o \in DOMAIN swappers : o # x => swappers'[o] = swappers[o]
        /\ swappers'[x].cfg = swappers[x].cfg
        /\ swappers'[x].stop = channels + 1 /\ channels' = channels + 1
        /\ UNCHANGED <<configs, swaps>>
    BY <1>10, MakeStopDoes DEF x
  <2>2. swappers[x].cfg # 0
    BY <2>1 DEF x, MadeInv, Swapper
  <2>3. \A o \in DOMAIN swappers' : /\ swappers'[o].cfg <= Len(configs')
                                    /\ swappers'[o].stop <= channels'
    BY <1>a, <1>c, <2>1
  <2>4. proc'[c].step \notin Live
    BY <2>1, <1>d DEF Pointing
  <2>5. swappers'[proc'[c].locals.swapper].cfg # 0
    BY <2>1, <2>2 DEF x
  <2>6. /\ Len(configs') \in Nat /\ Len(configs) <= Len(configs')
        /\ DOMAIN configs' = 1 .. Len(configs')
        /\ channels' \in Nat /\ channels <= channels'
        /\ proc'[c].locals.stop <= channels'
    BY <1>a, <1>b, <2>1
  <2>7. \A o \in DOMAIN swappers :
           o \in DOMAIN swappers' /\ (swappers[o].cfg # 0 => swappers'[o].cfg # 0)
    BY <2>1
  <2> QED
    BY <2>1, <2>3, <2>4, <2>5, <2>6, <2>7, MadeMoves
<1>11. CASE GoRun(c)
  <2> DEFINE x == My(c).swapper
  <2>1. /\ x \in DOMAIN swappers
        /\ proc[c].step = "go"
        /\ proc'[c] = None \/ (proc'[c].step = "store" /\ proc'[c].locals = My(c))
        /\ UNCHANGED <<swappers, configs, channels, swaps>>
    BY <1>11, GoRunDoes DEF fields
  <2>2. PICK l \in Loops :
              /\ proc[l] = None
              /\ proc'[l].step \in {"lock", "wait"}
              /\ proc'[l].locals.cfg = swappers[x].cfg
              /\ proc'[l].locals.stop = swappers[x].stop
              /\ \A q \in Workers : q # c /\ q # l => proc'[q] = proc[q]
    BY <1>11, GoRunDoes
  <2>3. swappers[x].cfg # 0
    BY <2>1 DEF MadeInv, Swapper
  <2>4. swappers[x].cfg \in DOMAIN configs /\ swappers[x].stop <= channels
    BY <1>a, <1>c, <2>1, <2>3
  <2> HIDE DEF x
  <2>5. \A d \in Callers : d \in Workers /\ d # l
    BY CallerIsNoLoop
  <2>6. /\ proc'[c].step \in {"none", "store"} /\ proc'[c].step \notin Live
        /\ proc'[c].locals.stop <= channels
    BY <1>a, <1>b, <1>d, <2>1, NoneIs DEF Pointing
  <2>7. \A p \in Workers :
          /\ proc'[p].step \in Live => proc'[p].locals.cfg \in DOMAIN configs
          /\ proc'[p].locals.stop <= channels
    BY <2>2, <2>4, <2>6 DEF MadeInv, My
  <2>8. \A d \in Callers :
          proc'[d].step \in {"check", "make", "go"} =>
            swappers[proc'[d].locals.swapper].cfg # 0
    BY <2>2, <2>5, <2>6 DEF MadeInv, My, Swapper
  <2> QED
    BY <2>1, <2>7, <2>8 DEF MadeInv, My, Swapper
<1>12. CASE Store(c)
  BY <1>12, <1>a, <1>d, StoreDoes, MadeStays, NoneIs
<1> QED
  BY <1>1, <1>2, <1>3, <1>4, <1>5, <1>6, <1>7, <1>8, <1>9, <1>10, <1>11, <1>12
     DEF CallStep

LEMMA MadeStart ==
  ASSUME Typed, MadeInv, NEW c \in Callers, Start(c)
  PROVE  MadeInv'
<1>1. /\ Begins(c)
      /\ BeginsLightning(c) \/ BeginsChain(c) \/ BeginsStop(c) \/ BeginsCheck(c)
  BY StartDoes
<1>2. /\ Len(configs) \in Nat /\ DOMAIN configs = 1 .. Len(configs)
      /\ channels \in Nat /\ Len(swappers) \in Nat
      /\ DOMAIN swappers = 1 .. Len(swappers)
      /\ current \in 0 .. Len(swappers)
  BY DEF Typed, Objects
<1>3. NewSwapper \/ UNCHANGED swappers
  BY <1>1 DEF BeginsLightning, BeginsChain, BeginsStop, BeginsCheck
<1>4. /\ \A o \in DOMAIN swappers :
           o \in DOMAIN swappers' /\ swappers'[o].cfg = swappers[o].cfg
      /\ \A o \in DOMAIN swappers' :
           \/ o \in DOMAIN swappers /\ swappers'[o].stop \in {0, swappers[o].stop}
           \/ swappers'[o].cfg = 0 /\ swappers'[o].stop = 0
  BY <1>2, <1>3 DEF NewSwapper
<1>5. proc'[c].step \in Live => proc'[c].locals.cfg \in DOMAIN configs
  <2>1. CASE BeginsCheck(c)
    <3>1. proc'[c].step = "nil" => proc'[c].step \notin Live
      BY DEF Live, Holding
    <3>2. /\ current \in DOMAIN swappers
          /\ proc'[c].step # "nil" =>
               /\ swappers[current].cfg # 0
               /\ proc'[c].locals.cfg = swappers[current].cfg
      BY <2>1, <1>2 DEF BeginsCheck
    <3>3. swappers[current].cfg \in Nat /\ swappers[current].cfg <= Len(configs)
      BY <3>2, SwapperOf DEF MadeInv
    <3> QED
      BY <1>2, <3>1, <3>2, <3>3
  <2>2. CASE ~BeginsCheck(c)
    BY <1>1, <2>2 DEF BeginsLightning, BeginsChain, BeginsStop, Live, Holding
  <2> QED BY <2>1, <2>2
<1>6. proc'[c].step \notin {"check", "make", "go"}
  BY <1>1 DEF BeginsLightning, BeginsChain, BeginsStop, BeginsCheck
<1>7. Others(c) /\ UNCHANGED <<configs, channels, swaps>>
      /\ proc'[c].locals.stop <= channels
  BY <1>1, <1>2 DEF Begins
<1> QED
  BY <1>4, <1>5, <1>6, <1>7, MadeStays

LEMMA MadeAside ==
  ASSUME Typed, MadeInv, Aside,
         \A i \in DOMAIN swaps' : swaps'[i].cfg \in DOMAIN configs
  PROVE  MadeInv'
<1>1. UNCHANGED <<swappers, configs, channels>>
      /\ \A p \in Workers : proc'[p] = proc[p] \/ Checks(p)
  BY DEF Aside, fields
<1>2. channels \in Nat /\ Live \cap {"check", "make", "go", "none"} = {}
  BY DEF Typed, Objects, Live, Holding
<1>3. ASSUME NEW p \in Workers
      PROVE  /\ proc'[p].step \in Live => proc'[p].locals.cfg \in DOMAIN configs
             /\ proc'[p].locals.stop <= channels
             /\ proc'[p].step \in {"check", "make", "go"} => proc'[p] = proc[p]
  <2>1. /\ proc[p].step \in Live => proc[p].locals.cfg \in DOMAIN configs
        /\ proc[p].locals.stop <= channels
    BY DEF MadeInv, My
  <2>2. CASE proc'[p] = proc[p]
    BY <2>1, <2>2
  <2>3. CASE Checks(p)
    BY <1>2, <2>1, <2>3, NoneIs DEF Checks, My
  <2> QED BY <1>1, <2>2, <2>3
<1>4. \A d \in Callers : d \in Workers
  BY CallerIsNoLoop
<1> QED
  BY <1>1, <1>3, <1>4 DEF MadeInv, My, Swapper

LEMMA MadeCheck ==
  ASSUME Typed, MadeInv, NEW p \in Workers, CheckStep(p)
  PROVE  MadeInv'
<1>1. Aside
  BY CheckStepAside
<1>2. \A i \in DOMAIN swaps' : swaps'[i].cfg \in DOMAIN configs
  <2>1. CASE Create(p)
    <3> DEFINE row == [cfg |-> My(p).cfg, forced |-> My(p).forced,
                       pending |-> TRUE]
    <3>1. swaps' = Append(swaps, row) /\ row.cfg = My(p).cfg
      BY <2>1 DEF Create
    <3> HIDE DEF row
    <3>2. My(p).cfg \in DOMAIN configs
      BY <2>1 DEF Create, At, MadeInv, Live, Holding
    <3>3. swaps \in Seq(SwapSet)
      BY DEF Typed
    <3>4. \A i \in DOMAIN swaps' :
            (i \in DOMAIN swaps /\ swaps'[i] = swaps[i]) \/ swaps'[i] = row
      BY <3>1, <3>3
    <3> QED
      BY <3>1, <3>2, <3>4 DEF MadeInv
  <2>2. CASE ~Create(p)
    <3>1. swaps' = swaps
      BY <2>2 DEF CheckStep, Recommend, Returns, Listen, Followed, Unchanged
    <3> QED
      BY <3>1 DEF MadeInv
  <2> QED BY <2>1, <2>2
<1> QED
  BY <1>1, <1>2, MadeAside

LEMMA FinalAside ==
  ASSUME Typed, MadeInv, NEW i \in DOMAIN swaps, Final(i)
  PROVE  /\ Aside
         /\ \A j \in DOMAIN swaps' : swaps'[j].cfg \in DOMAIN configs
<1>1. Aside
  BY DEF Final, Aside, begun
<1>2. swaps \in Seq(SwapSet)
  BY DEF Typed
<1>3. swaps[i] \in SwapSet
  BY <1>2
<1>4. swaps' = [swaps EXCEPT ![i] = [swaps[i] EXCEPT !.pending = FALSE]]
  BY DEF Final
<1>5. DOMAIN swaps' = DOMAIN swaps
      /\ \A j \in DOMAIN swaps : swaps'[j].cfg = swaps[j].cfg
  BY <1>2, <1>3, <1>4 DEF SwapSet
<1> QED
  BY <1>1, <1>5 DEF MadeInv

-----------------------------------------------------------------------------
(***************************************************************************)
(* CountInv.                                                               *)
(***************************************************************************)
LEMMA LoopsFinite == IsFiniteSet(Loops) /\ Cardinality(Loops) = MaxCalls + 1
<1>1. MaxCalls \in Nat
  BY AutoswapAssumption
<1>2. 1 \in Int /\ MaxCalls + 1 \in Int /\ ~(1 > MaxCalls + 1)
  BY <1>1
<1>3. IsFiniteSet(1 .. MaxCalls + 1)
      /\ Cardinality(1 .. MaxCalls + 1) = (MaxCalls + 1) - 1 + 1
  BY <1>2, FS_Interval
<1> QED
  BY <1>1, <1>3 DEF Loops

LEMMA ActiveFinite ==
  ASSUME CountInv
  PROVE  /\ IsFiniteSet(Active) /\ Cardinality(Active) \in Nat
         /\ Cardinality(Making) \in Nat
<1>1. Running \subseteq Loops
  BY DEF Running
<1>2. IsFiniteSet(Running)
  BY <1>1, LoopsFinite, FS_Subset
<1>3. IsFiniteSet(Active)
  BY <1>2, FS_Union DEF CountInv, Active
<1> QED
  BY <1>3, FS_CardinalityType DEF CountInv

\* There is a loop for a call that starts one.
LEMMA LoopIsFree ==
  ASSUME Typed, PlaceInv, BoundInv, CountInv, NEW c \in Callers,
         proc[c].step = "go"
  PROVE  \E l \in Loops : proc[l] = None
<1>1. c \in Going /\ c \notin Loops /\ c \in Workers
  BY CallerIsNoLoop DEF Going, CanRun, Busy, Pointing
<1>2. IsFiniteSet(Active) /\ Cardinality(Active) \in Nat
  BY ActiveFinite
<1>3. /\ IsFiniteSet(Active \ {c})
      /\ Cardinality(Active \ {c}) = Cardinality(Active) - 1
  BY <1>1, <1>2, FS_RemoveElement DEF Active
<1>4. Running \subseteq Active \ {c} /\ Running \subseteq Loops
  BY <1>1 DEF Running, Active
<1>5. IsFiniteSet(Running) /\ Cardinality(Running) <= Cardinality(Active) - 1
  BY <1>3, <1>4, FS_Subset
<1>6. Cardinality(Running) < Cardinality(Loops)
  <2>1. Cardinality(Active) <= calls + 1 /\ calls <= MaxCalls /\ calls \in Nat
    BY AutoswapAssumption DEF CountInv, BoundInv, Active
  <2>2. Cardinality(Running) \in Nat
    BY <1>5, FS_CardinalityType
  <2> QED
    BY <1>2, <1>5, <2>1, <2>2, LoopsFinite, AutoswapAssumption
<1>7. Running # Loops
  <2>1. Cardinality(Running) \in Nat
    BY <1>5, FS_CardinalityType
  <2> QED
    BY <1>6, <2>1
<1>8. PICK l \in Loops : proc[l].step \notin Live
  BY <1>4, <1>7 DEF Running
<1>9. l \in Workers /\ ~Dead
  BY <1>1, LoopIsWorker, NobodyIsDead
<1>10. proc[l].step # "dead"
  BY <1>9 DEF Dead, At
<1> QED
  BY <1>8, <1>9, <1>10 DEF PlaceInv

LEMMA CountMoves ==
  ASSUME CountInv, NEW A, IsFiniteSet(A), Cardinality(A) <= calls' + 1,
         Active' \subseteq A,
         NEW M, IsFiniteSet(M), channels' + Cardinality(M) <= calls' + 1,
         Making' \subseteq M,
         calls' \in Nat, channels' \in Nat
  PROVE  CountInv'
<1>1. /\ IsFiniteSet(Active') /\ Cardinality(Active') <= Cardinality(A)
      /\ IsFiniteSet(Making') /\ Cardinality(Making') <= Cardinality(M)
  BY FS_Subset
<1>2. /\ Cardinality(Active') \in Nat /\ Cardinality(A) \in Nat
      /\ Cardinality(Making') \in Nat /\ Cardinality(M) \in Nat
  BY <1>1, FS_CardinalityType
<1>3. Going' \in SUBSET (Active')
  BY DEF Active
<1>4. IsFiniteSet(Going')
  BY <1>1, <1>3, FS_Subset
<1>5. /\ Cardinality(Active') <= calls' + 1
      /\ channels' + Cardinality(Making') <= calls' + 1
  BY <1>1, <1>2
<1> QED
  BY <1>1, <1>4, <1>5 DEF CountInv, Active

LEMMA CountStays ==
  ASSUME Typed, BoundInv, CountInv, UNCHANGED <<channels, calls>>,
         Active' \subseteq Active, Making' \subseteq Making
  PROVE  CountInv'
<1>1. calls \in Nat /\ channels \in Nat
  BY AutoswapAssumption DEF BoundInv, Typed, Objects
<1>2. IsFiniteSet(Active) /\ IsFiniteSet(Making)
  BY ActiveFinite DEF CountInv
<1>3. /\ Cardinality(Active) <= calls + 1
      /\ channels + Cardinality(Making) <= calls + 1
  BY DEF CountInv, Active
<1> QED
  BY <1>1, <1>2, <1>3, CountMoves

LEMMA AddsOne ==
  ASSUME NEW S, NEW x, IsFiniteSet(S)
  PROVE  /\ IsFiniteSet(S \cup {x})
         /\ Cardinality(S \cup {x}) <= Cardinality(S) + 1
<1>1. Cardinality(S) \in Nat
  BY FS_CardinalityType
<1>2. /\ IsFiniteSet(S \cup {x})
      /\ Cardinality(S \cup {x}) =
           IF x \in S THEN Cardinality(S) ELSE Cardinality(S) + 1
  BY FS_AddElement
<1> QED BY <1>1, <1>2

\* A caller that moves towards its end.
LEMMA CountCaller ==
  ASSUME Typed, BoundInv, CountInv, NEW c \in Callers, Others(c),
         UNCHANGED <<channels, calls>>,
         proc'[c].step \in CanRun => proc[c].step \in CanRun,
         proc'[c].step \in CanMake => proc[c].step \in CanMake
  PROVE  CountInv'
<1>1. \A l \in Loops : l \in Workers /\ l # c
  BY LoopIsWorker
<1>2. \A d \in Callers : d \in Workers
  BY CallerIsNoLoop
<1>3. Active' \subseteq Active /\ Making' \subseteq Making
  BY <1>1, <1>2 DEF Others, Active, Running, Going, Making
<1> QED
  BY <1>3, CountStays

LEMMA PointsIn ==
  /\ CanRun = {"set", "stop", "signal", "send", "clear", "init", "check",
               "make", "go"}
  /\ CanMake = {"set", "stop", "signal", "send", "clear", "init", "check",
                "make"}
  /\ Busy = {"stop", "signal", "send", "clear", "delete", "init", "check",
             "make", "go"}
  /\ Live = {"wait", "lock", "create", "return", "listen", "follow", "hung"}
BY DEF CanMake, CanRun, Busy, Pointing, Live, Holding

LEMMA CountCall ==
  ASSUME Typed, PlaceInv, BoundInv, CountInv, NEW c \in Callers, CallStep(c)
  PROVE  CountInv'
<1> USE PointsIn
<1>a. calls \in Nat /\ channels \in Nat
  BY AutoswapAssumption DEF BoundInv, Typed, Objects
<1>b. IsFiniteSet(Active) /\ Cardinality(Active) \in Nat /\ IsFiniteSet(Making)
      /\ Cardinality(Making) \in Nat
  BY ActiveFinite DEF CountInv
<1>c. /\ Cardinality(Active) <= calls + 1
      /\ channels + Cardinality(Making) <= calls + 1
  BY DEF CountInv, Active
<1>d. c \in Workers /\ \A l \in Loops : l \in Workers /\ l # c
  BY LoopIsWorker, CallerIsNoLoop
<1>e. \A d \in Callers : d \in Workers
  BY CallerIsNoLoop
<1>1. CASE SetConfig(c)
  <2> DEFINE x == Target(c)
  <2> HIDE DEF x
  <2> QED
    BY <1>1, SetConfigDoes, CountCaller DEF x, begun
<1>2. CASE Panics(c)
  <2>1. /\ \A p \in Workers : proc'[p].step = "dead"
        /\ UNCHANGED <<channels, calls>>
    BY <1>2, PanicsDoes, DeadIs DEF fields, begun
  <2>2. Active' \subseteq Active /\ Making' \subseteq Making
    BY <2>1, <1>d, <1>e DEF Active, Running, Going, Making
  <2> QED
    BY <2>1, <2>2, CountStays
<1>3. CASE Stop(c)
  BY <1>3, StopDoes, CountCaller DEF fields, begun
<1>4. CASE Signal(c)
  BY <1>4, SignalDoes, CountCaller DEF fields, begun
<1>5. CASE Send(c)
  <2>1. PICK l \in Loops :
           /\ proc[l].step = "wait" /\ My(l).stop = My(c).stop
           /\ proc'[l] = None
           /\ proc[c].step = "send" /\ My(c).stop # 0
           /\ proc'[c].step = "clear" /\ proc'[c].locals = My(c)
           /\ \A q \in Workers : q # c /\ q # l => proc'[q] = proc[q]
           /\ UNCHANGED <<fields, swaps, begun>>
    BY <1>5, SendDoes
  <2>2. \A d \in Callers : d # l
    BY CallerIsNoLoop
  <2>3. Active' \subseteq Active /\ Making' \subseteq Making
    BY <2>1, <2>2, <1>d, <1>e, NoneIs DEF Active, Running, Going, Making
  <2> QED
    BY <2>1, <2>3, CountStays DEF fields, begun
<1>6. CASE Clear(c)
  BY <1>6, ClearDoes, CountCaller DEF begun
<1>7. CASE Delete(c)
  BY <1>7, DeleteDoes, CountCaller, NoneIs DEF begun
<1>8. CASE InitConfig(c)
  BY <1>8, InitConfigDoes, CountCaller DEF begun
<1>9. CASE CheckEnabled(c)
  BY <1>9, CheckEnabledDoes, CountCaller, NoneIs DEF fields, begun
<1>10. CASE MakeStop(c)
  <2>1. /\ proc[c].step = "make" /\ proc'[c].step = "go" /\ Others(c)
        /\ channels' = channels + 1 /\ calls' = calls
    BY <1>10, MakeStopDoes DEF begun
  <2>2. /\ Active' \subseteq Active
        /\ Making' \subseteq Making \ {c}
        /\ c \in Making
    BY <2>1, <1>d, <1>e DEF Others, Active, Running, Going, Making
  <2>3. /\ IsFiniteSet(Making \ {c})
        /\ Cardinality(Making \ {c}) = Cardinality(Making) - 1
    BY <1>b, <2>2, FS_RemoveElement
  <2>4. channels' + Cardinality(Making \ {c}) <= calls' + 1
    BY <1>a, <1>b, <1>c, <2>1, <2>3
  <2> QED
    BY <1>a, <1>b, <1>c, <2>1, <2>2, <2>3, <2>4, CountMoves
<1>11. CASE GoRun(c)
  <2>1. proc[c].step = "go"
    BY <1>11 DEF GoRun, At
  <2>2. \E l \in Loops : proc[l] = None
    BY <2>1, LoopIsFree
  <2>3. PICK l \in Loops :
              /\ proc[l] = None
              /\ proc'[l].step \in {"lock", "wait"}
              /\ \A q \in Workers : q # c /\ q # l => proc'[q] = proc[q]
    BY <1>11, <2>2, GoRunDoes
  <2>4. /\ proc'[c] = None \/ (proc'[c].step = "store" /\ kind = "chain")
        /\ UNCHANGED <<channels, calls>>
    BY <1>11, <2>2, GoRunDoes DEF fields, begun
  <2>5. \A d \in Callers : d # l
    BY CallerIsNoLoop
  <2> DEFINE A == (Active \ {c}) \cup {l}
  <2>6. Active' \subseteq A /\ Making' \subseteq Making /\ c \in Active
    BY <2>1, <2>3, <2>4, <2>5, <1>d, <1>e, NoneIs
       DEF Active, Running, Going, Making
  <2>7. /\ IsFiniteSet(Active \ {c})
        /\ Cardinality(Active \ {c}) = Cardinality(Active) - 1
    BY <1>b, <2>6, FS_RemoveElement
  <2>8. IsFiniteSet(A) /\ Cardinality(A) <= Cardinality(Active)
    <3> DEFINE B == Active \ {c}
    <3> HIDE DEF B
    <3>1. /\ IsFiniteSet(B \cup {l})
          /\ Cardinality(B \cup {l}) <= Cardinality(B) + 1
      BY <2>7, AddsOne DEF B
    <3>2. Cardinality(B \cup {l}) \in Nat
      BY <3>1, FS_CardinalityType
    <3>3. Cardinality(B) = Cardinality(Active) - 1
      BY <2>7 DEF B
    <3>4. Cardinality(B \cup {l}) <= Cardinality(Active)
      BY <1>b, <3>1, <3>2, <3>3
    <3> QED
      BY <3>1, <3>4 DEF B
  <2>9. Cardinality(A) \in Nat
    BY <2>8, FS_CardinalityType
  <2> HIDE DEF A
  <2>10. Cardinality(A) <= calls' + 1
    BY <1>a, <1>b, <1>c, <2>4, <2>8, <2>9
  <2> QED
    BY <1>a, <1>b, <1>c, <2>4, <2>6, <2>8, <2>10, CountMoves
<1>12. CASE Store(c)
  BY <1>12, StoreDoes, CountCaller, NoneIs DEF begun
<1> QED
  BY <1>1, <1>2, <1>3, <1>4, <1>5, <1>6, <1>7, <1>8, <1>9, <1>10, <1>11, <1>12
     DEF CallStep

LEMMA CountStart ==
  ASSUME Typed, BoundInv, CountInv, NEW c \in Callers, Start(c)
  PROVE  CountInv'
<1>1. Begins(c)
  BY StartDoes
<1>2. calls \in Nat /\ channels \in Nat /\ calls' = calls + 1
      /\ channels' = channels
  BY <1>1, AutoswapAssumption DEF BoundInv, Typed, Objects, Begins
<1>3. IsFiniteSet(Active) /\ Cardinality(Active) \in Nat /\ IsFiniteSet(Making)
      /\ Cardinality(Making) \in Nat
  BY ActiveFinite DEF CountInv
<1>4. /\ Cardinality(Active) <= calls + 1
      /\ channels + Cardinality(Making) <= calls + 1
  BY DEF CountInv, Active
<1>5. /\ IsFiniteSet(Active \cup {c})
      /\ Cardinality(Active \cup {c}) <= Cardinality(Active) + 1
  BY <1>3, AddsOne
<1>6. /\ IsFiniteSet(Making \cup {c})
      /\ Cardinality(Making \cup {c}) <= Cardinality(Making) + 1
  BY <1>3, AddsOne
<1>7. /\ Cardinality(Active \cup {c}) \in Nat
      /\ Cardinality(Making \cup {c}) \in Nat
  BY <1>5, <1>6, FS_CardinalityType
<1>8. Active' \subseteq Active \cup {c} /\ Making' \subseteq Making \cup {c}
  BY <1>1, LoopIsWorker, CallerIsNoLoop
     DEF Begins, Others, Active, Running, Going, Making
<1>9. /\ Cardinality(Active \cup {c}) <= calls' + 1
      /\ channels' + Cardinality(Making \cup {c}) <= calls' + 1
  BY <1>2, <1>3, <1>4, <1>5, <1>6, <1>7
<1> QED
  BY <1>2, <1>5, <1>6, <1>8, <1>9, CountMoves

LEMMA CountAside ==
  ASSUME Typed, BoundInv, CountInv, Aside
  PROVE  CountInv'
<1>1. /\ \A p \in Workers : proc'[p] = proc[p] \/ Checks(p)
      /\ UNCHANGED <<channels, calls>>
  BY DEF Aside, fields
<1>2. \A c \in Callers : c \in Workers
  BY CallerIsNoLoop
<1>3. \A l \in Loops : l \in Workers /\ l \notin Callers
  BY LoopIsWorker
<1>4. Active' \subseteq Active /\ Making' \subseteq Making
  BY <1>1, <1>2, <1>3, NoneIs, PointsIn
     DEF Checks, Active, Running, Going, Making
<1> QED
  BY <1>1, <1>4, CountStays DEF Aside, fields

-----------------------------------------------------------------------------
(***************************************************************************)
(* OwnInv.                                                                 *)
(***************************************************************************)
LEMMA OwnMoves ==
  ASSUME OwnInv,
         \A o \in DOMAIN swappers' :
           \/ swappers'[o].stop = 0
           \/ o \in DOMAIN swappers /\ swappers'[o].stop = swappers[o].stop,
         \A d \in Callers :
           proc'[d].step = "send" =>
             /\ proc[d].step = "send"
             /\ proc'[d].locals.stop = proc[d].locals.stop
             /\ proc'[d].locals.swapper = proc[d].locals.swapper
  PROVE  OwnInv'
BY DEF OwnInv, My

\* Most calls do not begin to send.
LEMMA OwnCaller ==
  ASSUME OwnInv, NEW c \in Callers, Others(c), proc'[c].step # "send",
         \A o \in DOMAIN swappers' :
           \/ swappers'[o].stop = 0
           \/ o \in DOMAIN swappers /\ swappers'[o].stop = swappers[o].stop
  PROVE  OwnInv'
BY CallerIsNoLoop, OwnMoves DEF Others

LEMMA OwnCall ==
  ASSUME Typed, MadeInv, OwnInv, NEW c \in Callers, CallStep(c),
         proc[c].step = "go" => \E l \in Loops : proc[l] = None
  PROVE  OwnInv'
<1>a. \A d \in Callers : d \in Workers
  BY CallerIsNoLoop
<1>1. CASE SetConfig(c)
  <2> DEFINE x == Target(c)
  <2> HIDE DEF x
  <2> QED
    BY <1>1, SetConfigDoes, OwnCaller DEF x
<1>2. CASE Panics(c)
  <2>1. /\ \A p \in Workers : proc'[p].step = "dead"
        /\ UNCHANGED swappers
    BY <1>2, PanicsDoes, DeadIs DEF fields
  <2> QED
    BY <2>1, <1>a, OwnMoves
<1>3. CASE Stop(c)
  BY <1>3, StopDoes, OwnCaller DEF fields
<1>4. CASE Signal(c)
  <2>1. /\ proc'[c].step = "send"
        /\ proc'[c].locals.swapper = My(c).swapper
        /\ proc'[c].locals.stop = swappers[My(c).swapper].stop
        /\ Others(c)
        /\ UNCHANGED swappers
    BY <1>4, SignalDoes DEF fields, Swapper
  <2>2. My(c).swapper \in DOMAIN swappers
    BY <1>4, SwapperTyped DEF Signal, At, Pointing
  <2>3. \A d \in Callers : d # c => proc'[d] = proc[d]
    BY <2>1, <1>a DEF Others
  <2> HIDE DEF My
  <2>4. ASSUME NEW d \in Callers, proc'[d].step = "send",
               proc'[d].locals.stop # 0, NEW o \in DOMAIN swappers,
               swappers[o].stop = proc'[d].locals.stop
        PROVE  o = proc'[d].locals.swapper
    <3>1. CASE d = c
      BY <2>1, <2>2, <2>4, <3>1 DEF OwnInv
    <3>2. CASE d # c
      BY <2>3, <2>4, <3>2 DEF OwnInv, My
    <3> QED BY <3>1, <3>2
  <2> QED
    BY <2>1, <2>4 DEF OwnInv, My
<1>5. CASE Send(c)
  <2>1. PICK l \in Loops :
           /\ proc[l].step = "wait" /\ My(l).stop = My(c).stop
           /\ proc'[l] = None
           /\ proc[c].step = "send" /\ My(c).stop # 0
           /\ proc'[c].step = "clear" /\ proc'[c].locals = My(c)
           /\ \A q \in Workers : q # c /\ q # l => proc'[q] = proc[q]
           /\ UNCHANGED <<fields, swaps, begun>>
    BY <1>5, SendDoes
  <2>2. \A d \in Callers : d # l
    BY CallerIsNoLoop
  <2> QED
    BY <1>a, <2>1, <2>2, OwnMoves DEF fields
<1>6. CASE Clear(c)
  <2> DEFINE x == My(c).swapper
  <2> HIDE DEF x
  <2> QED
    BY <1>6, ClearDoes, OwnCaller DEF x
<1>7. CASE Delete(c)
  BY <1>7, DeleteDoes, OwnCaller, NoneIs
<1>8. CASE InitConfig(c)
  <2> DEFINE x == My(c).swapper
  <2> HIDE DEF x
  <2> QED
    BY <1>8, InitConfigDoes, OwnCaller DEF x
<1>9. CASE CheckEnabled(c)
  BY <1>9, CheckEnabledDoes, OwnCaller, NoneIs DEF fields
<1>10. CASE MakeStop(c)
  <2> DEFINE x == My(c).swapper
  <2> HIDE DEF x
  <2>1. /\ x \in DOMAIN swappers /\ proc'[c].step = "go" /\ Others(c)
        /\ DOMAIN swappers' = DOMAIN swappers
        /\ \A o \in DOMAIN swappers : o # x => swappers'[o] = swappers[o]
        /\ swappers'[x].stop = channels + 1
    BY <1>10, MakeStopDoes DEF x
  <2>2. /\ channels \in Nat
        /\ \A o \in DOMAIN swappers :
             swappers[o].stop \in Nat /\ swappers[o].stop <= channels
    BY SwapperOf DEF Typed, Objects, MadeInv
  <2>3. \A d \in Callers : d # c => proc'[d] = proc[d]
    BY <2>1, <1>a DEF Others
  <2>4. \A d \in Callers : proc[d].locals.stop <= channels
    BY <1>a DEF MadeInv, My
  <2>5. ASSUME NEW o \in DOMAIN swappers, NEW u \in DOMAIN swappers,
               o # u, swappers'[o].stop # 0
        PROVE  swappers'[u].stop # swappers'[o].stop
    <3>1. CASE o # x /\ u # x
      BY <2>1, <2>5, <3>1 DEF OwnInv
    <3>2. CASE o = x \/ u = x
      BY <2>1, <2>2, <2>5, <3>2
    <3> QED BY <3>1, <3>2
  <2>6. ASSUME NEW d \in Callers, proc'[d].step = "send",
               proc'[d].locals.stop # 0, NEW o \in DOMAIN swappers,
               swappers'[o].stop = proc'[d].locals.stop
        PROVE  o = proc'[d].locals.swapper
    <3>1. d # c /\ proc'[d] = proc[d] /\ o # x
      BY <2>1, <2>2, <2>3, <2>4, <2>6
    <3> QED
      BY <2>1, <2>6, <3>1 DEF OwnInv, My
  <2> QED
    BY <2>1, <2>5, <2>6 DEF OwnInv, My
<1>11. CASE GoRun(c)
  <2>1. PICK l \in Loops :
          \A q \in Workers : q # c /\ q # l => proc'[q] = proc[q]
    BY <1>11, GoRunDoes
  <2>2. /\ proc'[c] = None \/ proc'[c].step = "store"
        /\ UNCHANGED swappers
    BY <1>11, GoRunDoes DEF fields
  <2>3. \A d \in Callers : d # l
    BY CallerIsNoLoop
  <2> QED
    BY <1>a, <2>1, <2>2, <2>3, NoneIs, OwnMoves
<1>12. CASE Store(c)
  BY <1>12, StoreDoes, OwnCaller, NoneIs
<1> QED
  BY <1>1, <1>2, <1>3, <1>4, <1>5, <1>6, <1>7, <1>8, <1>9, <1>10, <1>11, <1>12
     DEF CallStep

LEMMA OwnStart ==
  ASSUME Typed, OwnInv, NEW c \in Callers, Start(c)
  PROVE  OwnInv'
<1>1. /\ Begins(c)
      /\ BeginsLightning(c) \/ BeginsChain(c) \/ BeginsStop(c) \/ BeginsCheck(c)
  BY StartDoes
<1>2. (NewSwapper \/ UNCHANGED swappers) /\ proc'[c].step # "send"
  BY <1>1 DEF BeginsLightning, BeginsChain, BeginsStop, BeginsCheck
<1>3. Len(swappers) \in Nat /\ DOMAIN swappers = 1 .. Len(swappers)
  BY DEF Typed, Objects
<1>4. \A o \in DOMAIN swappers' :
           \/ swappers'[o].stop = 0
           \/ o \in DOMAIN swappers /\ swappers'[o].stop = swappers[o].stop
  BY <1>2, <1>3 DEF NewSwapper
<1> QED
  BY <1>1, <1>2, <1>4, OwnCaller DEF Begins

LEMMA OwnAside ==
  ASSUME OwnInv, Aside
  PROVE  OwnInv'
<1>1. \A d \in Callers : proc'[d].step = "send" => proc'[d] = proc[d]
  BY CallerIsNoLoop, NoneIs, PointsIn DEF Aside, Checks
<1> QED
  BY <1>1, OwnMoves DEF Aside, fields

-----------------------------------------------------------------------------
(***************************************************************************)
(* LightInv.                                                               *)
(***************************************************************************)

\* The call that moves takes care of the swapper itself,
LEMMA LightByCaller ==
  ASSUME NEW c \in Callers, proc'[c].step \in Busy \ {"go"},
         proc'[c].locals.swapper = current'
  PROVE  LightInv'
BY DEF LightInv, My

\* or it has nothing to do with it.
LEMMA LightByOthers ==
  ASSUME LightInv, ~Dead, NEW c \in Callers, Others(c),
         UNCHANGED <<kind, configs>>,
         current' # 0 =>
           current' = current /\ swappers'[current] = swappers[current],
         ~(proc[c].step \in Busy /\ My(c).swapper = current)
  PROVE  LightInv'
<1> SUFFICES ASSUME kind = "lightning", Ready(current)'
             PROVE  /\ \/ \E d \in Callers :
                            /\ proc'[d].step \in Busy
                            /\ proc'[d].locals.swapper = current'
                       \/ \E l \in Loops : RunFor(l, current)'
                    /\ swappers'[current'].stop = 0 =>
                         \E d \in Callers :
                           /\ proc'[d].step \in Busy \ {"go"}
                           /\ proc'[d].locals.swapper = current'
  BY DEF LightInv, My
<1>1. current' = current /\ swappers'[current] = swappers[current]
  BY DEF Ready
<1>2. Ready(current)
  BY <1>1 DEF Ready
<1>3. \A d \in Callers : d # c => proc'[d] = proc[d]
  BY CallerIsNoLoop DEF Others
<1>4. \A l \in Loops : proc'[l] = proc[l]
  BY LoopIsWorker DEF Others
<1>5. /\ \/ \E d \in Callers : proc[d].step \in Busy /\ My(d).swapper = current
         \/ \E l \in Loops : RunFor(l, current)
      /\ swappers[current].stop = 0 =>
           \E d \in Callers :
             proc[d].step \in Busy \ {"go"} /\ My(d).swapper = current
  BY <1>2 DEF LightInv
<1>6. \A l \in Loops : RunFor(l, current) => RunFor(l, current)'
  BY <1>1, <1>4 DEF RunFor, My
<1> QED
  BY <1>1, <1>3, <1>5, <1>6 DEF My

LEMMA LightCall ==
  ASSUME Typed, PlaceInv, OwnInv, LightInv, NEW c \in Callers, CallStep(c),
         proc[c].step = "go" => \E l \in Loops : proc[l] = None
  PROVE  LightInv'
<1> USE PointsIn
<1> DEFINE x == My(c).swapper
<1> HIDE DEF x
<1>a. c \in Workers /\ (proc[c].step # "dead" => ~Dead)
  BY CallerIsNoLoop, NobodyIsDead
<1>1. CASE SetConfig(c)
  <2> DEFINE y == Target(c)
  <2> HIDE DEF y
  <2>1. proc'[c].step = "stop" /\ proc'[c].locals.swapper = y
        /\ current' = current /\ kind' = kind
    BY <1>1, SetConfigDoes DEF y
  <2>2. CASE kind = "lightning"
    BY <2>1, <2>2, LightByCaller DEF y, Target
  <2>3. CASE kind # "lightning"
    BY <2>1, <2>3 DEF LightInv
  <2> QED BY <2>2, <2>3
<1>2. CASE Panics(c)
  <2>1. proc'[c].step = "dead"
    BY <1>2, <1>a, PanicsDoes, DeadIs
  <2> QED
    BY <2>1, <1>a DEF LightInv, Dead, At
<1>3. CASE Stop(c)
  <2>1. /\ proc[c].step = "stop" /\ proc'[c].step \in {"signal", "delete", "init"}
        /\ proc'[c].locals = My(c) /\ Others(c) /\ UNCHANGED fields
    BY <1>3, StopDoes
  <2>2. CASE My(c).swapper = current
    BY <2>1, <2>2, LightByCaller DEF fields
  <2>3. CASE My(c).swapper # current
    BY <2>1, <2>3, <1>a, LightByOthers DEF fields
  <2> QED BY <2>2, <2>3
<1>4. CASE Signal(c)
  <2>1. /\ proc[c].step = "signal" /\ proc'[c].step = "send"
        /\ proc'[c].locals.swapper = My(c).swapper
        /\ Others(c) /\ UNCHANGED fields
    BY <1>4, SignalDoes
  <2>2. CASE My(c).swapper = current
    BY <2>1, <2>2, LightByCaller DEF fields
  <2>3. CASE My(c).swapper # current
    BY <2>1, <2>3, <1>a, LightByOthers DEF fields
  <2> QED BY <2>2, <2>3
<1>5. CASE Send(c)
  <2>1. PICK l \in Loops :
           /\ proc[l].step = "wait" /\ My(l).stop = My(c).stop
           /\ proc'[l] = None
           /\ proc[c].step = "send" /\ My(c).stop # 0
           /\ proc'[c].step = "clear" /\ proc'[c].locals = My(c)
           /\ \A q \in Workers : q # c /\ q # l => proc'[q] = proc[q]
           /\ UNCHANGED <<fields, swaps, begun>>
    BY <1>5, SendDoes
  <2>2. CASE My(c).swapper = current
    BY <2>1, <2>2, LightByCaller DEF fields
  <2>3. CASE My(c).swapper # current
    <3> SUFFICES ASSUME kind = "lightning", Ready(current)
                 PROVE  LightInv'
      BY <2>1 DEF LightInv, Ready, fields
    <3>1. UNCHANGED <<current, swappers, kind>>
      BY <2>1 DEF fields
    <3>2. \A d \in Callers : d # c => proc'[d] = proc[d]
      BY <2>1, CallerIsNoLoop
    <3>3. current \in DOMAIN swappers
      BY DEF Ready, Typed, Objects
    <3>4. ~RunFor(l, current)
      BY <2>1, <2>3, <3>3 DEF RunFor, OwnInv
    <3>5. \A m \in Loops : m # l => proc'[m] = proc[m]
      BY <2>1, LoopIsWorker
    <3>6. \A m \in Loops : RunFor(m, current) => RunFor(m, current)'
      BY <3>1, <3>4, <3>5 DEF RunFor, My
    <3>7. ~Dead
      BY <1>a, <2>1
    <3> QED
      BY <2>3, <3>1, <3>2, <3>6, <3>7 DEF LightInv, My
  <2> QED BY <2>2, <2>3
<1>6. CASE Clear(c)
  <2>1. /\ x \in DOMAIN swappers /\ proc[c].step = "clear"
        /\ proc'[c].step \in {"delete", "init"}
        /\ proc'[c].locals = My(c) /\ Others(c)
        /\ \A o \in DOMAIN swappers : o # x => swappers'[o] = swappers[o]
        /\ UNCHANGED <<kind, current, configs>>
    BY <1>6, ClearDoes DEF x
  <2>2. CASE x = current
    BY <2>1, <2>2, LightByCaller DEF x
  <2>3. CASE x # current
    <3>1. current # 0 => swappers'[current] = swappers[current]
      BY <2>1, <2>3 DEF Typed, Objects
    <3> QED
      BY <2>1, <2>3, <3>1, <1>a, LightByOthers DEF x
  <2> QED BY <2>2, <2>3
<1>7. CASE Delete(c)
  BY <1>7, DeleteDoes DEF LightInv, Ready
<1>8. CASE InitConfig(c)
  <2>1. /\ x \in DOMAIN swappers /\ proc[c].step = "init"
        /\ proc'[c].step = "check"
        /\ proc'[c].locals = My(c) /\ Others(c)
        /\ \A o \in DOMAIN swappers : o # x => swappers'[o] = swappers[o]
        /\ UNCHANGED <<kind, current, configs>>
    BY <1>8, InitConfigDoes DEF x
  <2>2. CASE x = current
    BY <2>1, <2>2, LightByCaller DEF x
  <2>3. CASE x # current
    <3>1. current # 0 => swappers'[current] = swappers[current]
      BY <2>1, <2>3 DEF Typed, Objects
    <3> QED
      BY <2>1, <2>3, <3>1, <1>a, LightByOthers DEF x
  <2> QED BY <2>2, <2>3
<1>9. CASE CheckEnabled(c)
  <2>1. /\ proc[c].step = "check"
        /\ \/ proc'[c].step = "make" /\ proc'[c].locals = My(c)
           \/ ~(~swappers[x].err /\ configs[swappers[x].cfg])
        /\ Others(c) /\ UNCHANGED <<kind, current, configs, swappers>>
    BY <1>9, CheckEnabledDoes DEF x, fields
  <2>2. CASE x = current
    BY <2>1, <2>2, LightByCaller DEF x, LightInv, Ready
  <2>3. CASE x # current
    BY <2>1, <2>3, <1>a, LightByOthers DEF x
  <2> QED BY <2>2, <2>3
<1>10. CASE MakeStop(c)
  <2>1. /\ x \in DOMAIN swappers /\ proc[c].step = "make"
        /\ proc'[c].step = "go" /\ proc'[c].locals = My(c) /\ Others(c)
        /\ \A o \in DOMAIN swappers : o # x => swappers'[o] = swappers[o]
        /\ swappers'[x].stop = channels + 1
        /\ UNCHANGED <<kind, current, configs>>
    BY <1>10, MakeStopDoes DEF x
  <2>2. CASE x = current
    <3>1. channels + 1 # 0
      BY DEF Typed, Objects
    <3> QED
      BY <2>1, <2>2, <3>1 DEF x, LightInv, My
  <2>3. CASE x # current
    <3>1. current # 0 => swappers'[current] = swappers[current]
      BY <2>1, <2>3 DEF Typed, Objects
    <3> QED
      BY <2>1, <2>3, <3>1, <1>a, LightByOthers DEF x
  <2> QED BY <2>2, <2>3
<1>11. CASE GoRun(c)
  <2>1. /\ proc[c].step = "go" /\ UNCHANGED <<kind, current, configs, swappers>>
    BY <1>11, GoRunDoes DEF fields
  <2>2. PICK l \in Loops :
              /\ proc[l] = None
              /\ proc'[l].step \in {"lock", "wait"}
              /\ proc'[l].locals.cfg = swappers[x].cfg
              /\ proc'[l].locals.stop = swappers[x].stop
              /\ \A q \in Workers : q # c /\ q # l => proc'[q] = proc[q]
    BY <1>11, GoRunDoes DEF x
  <2> SUFFICES ASSUME kind = "lightning", Ready(current)
               PROVE  LightInv'
    BY <2>1 DEF LightInv, Ready
  <2>3. \A d \in Callers : d # c => proc'[d] = proc[d]
    BY <2>2, CallerIsNoLoop
  <2>4. \A m \in Loops : m # l => proc'[m] = proc[m]
    BY <2>2, LoopIsWorker
  <2>5. \A m \in Loops : RunFor(m, current) => RunFor(m, current)'
    BY <2>1, <2>2, <2>4, NoneIs DEF RunFor, My
  <2>6. x = current => RunFor(l, current)'
    BY <2>1, <2>2 DEF RunFor, My
  <2>7. ~Dead
    BY <1>a, <2>1
  <2> QED
    BY <2>1, <2>3, <2>5, <2>6, <2>7 DEF LightInv, My, x
<1>12. CASE Store(c)
  <2>1. kind = "chain" /\ kind' = kind
    BY <1>12, StoreDoes DEF PlaceInv
  <2> QED
    BY <2>1 DEF LightInv
<1> QED
  BY <1>1, <1>2, <1>3, <1>4, <1>5, <1>6, <1>7, <1>8, <1>9, <1>10, <1>11, <1>12
     DEF CallStep

LEMMA LightStart ==
  ASSUME Typed, PlaceInv, LightInv, NEW c \in Callers, Start(c)
  PROVE  LightInv'
<1>1. /\ Begins(c)
      /\ BeginsLightning(c) \/ BeginsChain(c) \/ BeginsStop(c) \/ BeginsCheck(c)
  BY StartDoes
<1>2. proc[c].step \notin Busy /\ ~Dead
  BY <1>1, NoneIs, PointsIn, CallerIsNoLoop, NobodyIsDead DEF Begins
<1>3. CASE UNCHANGED <<current, swappers>>
  BY <1>1, <1>2, <1>3, LightByOthers DEF Begins
<1>4. CASE NewSwapper /\ current' = Len(swappers) + 1
  BY <1>4 DEF LightInv, Ready, NewSwapper
<1>5. CASE kind = "chain"
  BY <1>1, <1>5 DEF LightInv, Begins
<1> QED
  BY <1>1, <1>3, <1>4, <1>5
     DEF BeginsLightning, BeginsChain, BeginsStop, BeginsCheck

LEMMA AsidePoints ==
  ASSUME Aside
  PROVE  /\ UNCHANGED <<kind, current, swappers, configs, channels, raced>>
         /\ \A d \in Callers :
              /\ proc'[d] = proc[d] \/ proc'[d].step \in Live \cup {"none"}
              /\ proc'[d] = proc[d] \/ proc[d].step \in Live
              /\ proc'[d] = proc[d] \/ proc[d] # None
         /\ \A l \in Loops :
              /\ proc'[l].step \in Live <=> proc[l].step \in Live
              /\ proc[l].step \in Live =>
                   /\ proc'[l].locals.cfg = My(l).cfg
                   /\ proc'[l].locals.stop = My(l).stop
         /\ Dead => Dead'
<1>1. \A p \in Workers : proc'[p] = proc[p] \/ Checks(p)
  BY DEF Aside
<1>2. \A d \in Callers : d \in Workers
  BY CallerIsNoLoop
<1>3. \A l \in Loops : l \in Workers /\ l \notin Callers
  BY LoopIsWorker
<1>4. Dead => Dead'
  BY <1>1, PointsIn DEF Dead, At, Checks
<1>5. "none" \notin Live
  BY PointsIn
<1>6. ASSUME NEW d \in Callers
      PROVE  /\ proc'[d] = proc[d] \/ proc'[d].step \in Live \cup {"none"}
             /\ proc'[d] = proc[d] \/ proc[d].step \in Live
             /\ proc'[d] = proc[d] \/ proc[d] # None
  BY <1>1, <1>2, <1>5, NoneIs DEF Checks
<1>7. ASSUME NEW l \in Loops
      PROVE  /\ proc'[l].step \in Live <=> proc[l].step \in Live
             /\ proc[l].step \in Live =>
                   /\ proc'[l].locals.cfg = My(l).cfg
                   /\ proc'[l].locals.stop = My(l).stop
  BY <1>1, <1>3 DEF Checks, My
<1> QED
  BY <1>4, <1>6, <1>7 DEF Aside, fields

LEMMA LightAside ==
  ASSUME LightInv, Aside
  PROVE  LightInv'
<1> SUFFICES ASSUME kind = "lightning", ~Dead', Ready(current)
             PROVE  LightInv'
  BY AsidePoints DEF LightInv, Ready
<1>1. ~Dead
  BY AsidePoints
<1>2. \A d \in Callers : proc[d].step \in Busy => proc'[d] = proc[d]
  BY AsidePoints, PointsIn
<1>3. \A l \in Loops : RunFor(l, current) => RunFor(l, current)'
  BY AsidePoints DEF RunFor, My
<1> QED
  BY <1>1, <1>2, <1>3, AsidePoints DEF LightInv, My

-----------------------------------------------------------------------------
(***************************************************************************)
(* SoloInv.                                                                *)
(***************************************************************************)

\* What is to be shown of the one call that moves.
LEMMA SoloByCaller ==
  ASSUME NEW c \in Callers,
         \A d \in Callers : d # c => proc'[d] = None,
         Apart',
         proc'[c].step \in Pointing => Phase(c)',
         proc'[c].step \notin Pointing => Settled(current)',
         proc'[c].step = "set" /\ kind' = "chain" =>
           /\ proc'[c].locals.op = "update"
           /\ proc'[c].locals.swapper = current' \/ current' = 0
  PROVE  SoloInv'
<1>1. Alone'
  BY DEF Alone
<1>2. ASSUME NEW d \in Callers, proc'[d].step \in Pointing
      PROVE  Phase(d)'
  <2>1. d = c
    BY <1>2, NoneIs DEF Pointing
  <2>2. Phase(c)'
    BY <1>2, <2>1
  <2> QED
    BY <2>1, <2>2, Zenon
<1>3. ASSUME NEW d \in Callers, proc'[d].step = "set", kind' = "chain"
      PROVE  /\ proc'[d].locals.op = "update"
             /\ proc'[d].locals.swapper = current' \/ current' = 0
  BY <1>3, NoneIs
<1>4. (\A d \in Callers : proc'[d].step \notin Pointing) => Settled(current)'
  OBVIOUS
<1> QED
  BY <1>1, <1>2, <1>3, <1>4 DEF SoloInv, My

LEMMA ForgottenStays ==
  ASSUME NEW l \in Loops, Forgotten(l), proc'[l] = proc[l],
         kind' = kind, current' = current,
         \A o \in DOMAIN swappers :
           o # current =>
             o \in DOMAIN swappers' /\ swappers'[o].stop = swappers[o].stop
  PROVE  Forgotten(l)'
BY DEF Forgotten, My

\* What is known when the one call takes a step.
LEMMA SoloKnows ==
  ASSUME SoloInv, ~raced, ~Dead, NEW c \in Callers, proc[c] # None
  PROVE  /\ Apart
         /\ \A d \in Callers : d # c => proc[d] = None
         /\ proc[c].step \in Pointing => Phase(c)
         /\ proc[c].step \notin Pointing => Settled(current)
         /\ proc[c].step = "set" /\ kind = "chain" =>
              My(c).op = "update" /\ (My(c).swapper = current \/ current = 0)
<1>1. \A d \in Callers : d # c => proc[d] = None
  BY DEF SoloInv, Alone
<1>2. (\A d \in Callers : proc[d].step \notin Pointing)
        <=> proc[c].step \notin Pointing
  BY <1>1, NoneIs DEF Pointing
<1> QED
  BY <1>1, <1>2 DEF SoloInv

\* Loops that are left alone.
LEMMA LoopsStay ==
  ASSUME \A l \in Loops : proc'[l] = proc[l]
  PROVE  Running' = Running /\ Apart' = Apart
<1>1. Running' = Running
  BY DEF Running
<1> QED
  BY <1>1 DEF Apart, Running, My

LEMMA SoloCall ==
  ASSUME Typed, PlaceInv, BoundInv, MadeInv, CountInv, OwnInv, SoloInv,
         NEW c \in Callers, CallStep(c)
  PROVE  SoloInv'
<1> USE PointsIn
<1>a. /\ c \in Workers /\ \A l \in Loops : l \in Workers /\ l # c
      /\ \A d \in Callers : d \in Workers
  BY CallerIsNoLoop, LoopIsWorker
<1>b. /\ proc[c].step \notin {"dead", "none"}
      /\ raced' = raced /\ kind' = kind
  BY DEF CallStep, SetConfig, Panics, Stop, Signal, Send, Clear, Delete,
     InitConfig, CheckEnabled, MakeStop, GoRun, Store, Unchanged, begun, At,
     fields
<1>c. ~Dead /\ proc[c] # None
  BY <1>a, <1>b, NobodyIsDead, NoneIs
<1> SUFFICES ASSUME ~raced, ~Dead'
             PROVE  SoloInv'
  BY <1>b DEF SoloInv
<1>d. /\ Apart
      /\ \A d \in Callers : d # c => proc[d] = None
      /\ proc[c].step \in Pointing => Phase(c)
      /\ proc[c].step \notin Pointing => Settled(current)
      /\ proc[c].step = "set" /\ kind = "chain" =>
           My(c).op = "update" /\ (My(c).swapper = current \/ current = 0)
  BY <1>c, SoloKnows
<1>e. Others(c) =>
        /\ \A d \in Callers : d # c => proc'[d] = None
        /\ \A l \in Loops : proc'[l] = proc[l]
        /\ Running' = Running /\ Apart'
  BY <1>a, <1>d, LoopsStay DEF Others
<1>f. \A l \in Running : l \in Loops
  BY DEF Running
<1>x. PICK x : x = My(c).swapper
  OBVIOUS
<1>1. CASE SetConfig(c)
  <2> DEFINE y == Target(c)
  <2>1. /\ y \in DOMAIN swappers
        /\ proc[c].step = "set"
        /\ proc'[c].step = "stop" /\ proc'[c].locals.swapper = y
        /\ proc'[c].locals.op = My(c).op
        /\ Others(c)
        /\ DOMAIN swappers' = DOMAIN swappers
        /\ \A o \in DOMAIN swappers : swappers'[o].stop = swappers[o].stop
        /\ current' = current
    BY <1>1, SetConfigDoes
  <2>2. \/ y = current
        \/ kind = "chain" /\ My(c).op = "update" /\ current = 0
    BY <1>d, <2>1, AutoswapAssumption DEF Target, BoundInv
  <2>3. Settled(current)
    BY <1>d, <2>1 DEF Pointing
  <2> HIDE DEF y
  <2>4. ASSUME NEW l \in Running
        PROVE  Forgotten(l)' \/ proc'[l].locals.stop = swappers'[y].stop
    <3>1. l \in Loops /\ proc'[l] = proc[l]
      BY <1>e, <1>f, <2>1
    <3>2. CASE Forgotten(l)
      BY <1>b, <2>1, <3>1, <3>2, ForgottenStays
    <3>3. CASE Ready(current) /\ RunFor(l, current)
      BY <2>1, <2>2, <3>1, <3>3 DEF Ready, RunFor, My
    <3> QED BY <2>3, <3>2, <3>3 DEF Settled
  <2>5. Phase(c)'
    BY <1>b, <1>e, <2>1, <2>2, <2>4 DEF Phase, My
  <2> QED
    BY <1>e, <2>1, <2>5, SoloByCaller DEF Pointing
<1>2. CASE Panics(c)
  BY <1>2, <1>a, PanicsDoes, DeadIs DEF Dead, At
<1>3. CASE Stop(c)
  <2>1. /\ proc[c].step = "stop"
        /\ swappers[x].stop = 0 =>
             proc'[c].step = IF My(c).op = "unload" THEN "delete" ELSE "init"
        /\ swappers[x].stop # 0 => proc'[c].step = "signal"
        /\ proc'[c].locals = My(c)
        /\ Others(c)
        /\ UNCHANGED <<kind, current, swappers>>
    BY <1>x, <1>3, StopDoes DEF Swapper, fields
  <2>2. /\ x = current \/ (kind = "chain" /\ My(c).op = "update" /\ current = 0)
        /\ \A l \in Running : Forgotten(l) \/ My(l).stop = swappers[x].stop
    BY <1>x, <1>d, <2>1 DEF Phase, Pointing
  <2>3. ASSUME NEW l \in Running
        PROVE  /\ Forgotten(l)' \/ proc'[l].locals.stop = swappers[x].stop
               /\ swappers[x].stop = 0 => Forgotten(l)'
    <3>1. l \in Loops /\ proc'[l] = proc[l] /\ My(l).stop # 0
      BY <1>d, <1>e, <1>f, <2>1 DEF Apart
    <3>2. CASE Forgotten(l)
      BY <2>1, <3>1, <3>2, ForgottenStays
    <3>3. CASE My(l).stop = swappers[x].stop
      BY <3>1, <3>3 DEF My
    <3> QED BY <2>2, <3>2, <3>3
  <2>4. Phase(c)'
    BY <1>x, <1>b, <1>e, <2>1, <2>2, <2>3 DEF Phase, Cleared, My
  <2> QED
    BY <1>e, <2>1, <2>4, SoloByCaller DEF Pointing
<1>4. CASE Signal(c)
  <2>1. /\ proc[c].step = "signal" /\ proc'[c].step = "send"
        /\ proc'[c].locals.swapper = x
        /\ proc'[c].locals.op = My(c).op
        /\ proc'[c].locals.stop = swappers[x].stop
        /\ Others(c)
        /\ UNCHANGED <<kind, current, swappers>>
    BY <1>x, <1>4, SignalDoes DEF Swapper, fields
  <2>2. /\ x = current \/ (kind = "chain" /\ My(c).op = "update" /\ current = 0)
        /\ \A l \in Running : Forgotten(l) \/ My(l).stop = swappers[x].stop
    BY <1>x, <1>d, <2>1 DEF Phase, Pointing
  <2>3. ASSUME NEW l \in Running
        PROVE  Forgotten(l)' \/ proc'[l].locals.stop = swappers[x].stop
    <3>1. l \in Loops /\ proc'[l] = proc[l]
      BY <1>e, <1>f, <2>1
    <3>2. CASE Forgotten(l)
      BY <2>1, <3>1, <3>2, ForgottenStays
    <3>3. CASE My(l).stop = swappers[x].stop
      BY <3>1, <3>3 DEF My
    <3> QED BY <2>2, <3>2, <3>3
  <2>4. Phase(c)'
    BY <1>b, <1>e, <2>1, <2>2, <2>3 DEF Phase, My
  <2> QED
    BY <1>e, <2>1, <2>4, SoloByCaller DEF Pointing
<1>5. CASE Send(c)
  <2>1. PICK m \in Loops :
           /\ proc[m].step = "wait" /\ My(m).stop = My(c).stop
           /\ proc'[m] = None
           /\ proc[c].step = "send" /\ My(c).stop # 0
           /\ proc'[c].step = "clear" /\ proc'[c].locals = My(c)
           /\ \A q \in Workers : q # c /\ q # m => proc'[q] = proc[q]
           /\ UNCHANGED <<fields, swaps, begun>>
    BY <1>5, SendDoes
  <2>2. UNCHANGED <<kind, current, swappers>>
    BY <2>1 DEF fields
  <2>3. /\ x = current \/ (kind = "chain" /\ My(c).op = "update" /\ current = 0)
        /\ \A l \in Running : Forgotten(l) \/ My(l).stop = swappers[x].stop
        /\ My(c).stop = swappers[x].stop
    BY <1>x, <1>d, <2>1 DEF Phase, Pointing
  <2>4. m \in Running /\ \A d \in Callers : d # m
    BY <2>1, CallerIsNoLoop DEF Running
  <2>5. \A l \in Loops : l # m => proc'[l] = proc[l]
    BY <2>1, <1>a
  <2>6. Running' = Running \ {m}
    BY <2>1, <2>5, NoneIs DEF Running
  <2>7. Apart'
    BY <1>d, <1>f, <2>5, <2>6 DEF Apart, My
  <2>8. ASSUME NEW l \in Running, l # m
        PROVE  Forgotten(l)'
    <3>1. l \in Loops /\ proc'[l] = proc[l]
      BY <1>f, <2>5, <2>8
    <3>2. My(l).stop # My(m).stop
      BY <1>d, <2>4, <2>8 DEF Apart
    <3>3. Forgotten(l)
      BY <2>1, <2>3, <3>2
    <3> QED
      BY <2>2, <3>1, <3>3, ForgottenStays
  <2>9. Phase(c)'
    BY <1>x, <1>b, <2>1, <2>2, <2>3, <2>6, <2>8 DEF Phase, Cleared, My
  <2>10. \A d \in Callers : d # c => proc'[d] = None
    BY <1>a, <1>d, <2>1, <2>4
  <2> QED
    BY <2>1, <2>7, <2>9, <2>10, SoloByCaller DEF Pointing
<1>6. CASE Clear(c)
  <2>1. /\ x \in DOMAIN swappers
        /\ proc[c].step = "clear"
        /\ proc'[c].step = IF My(c).op = "unload" THEN "delete" ELSE "init"
        /\ proc'[c].locals = My(c)
        /\ Others(c)
        /\ DOMAIN swappers' = DOMAIN swappers
        /\ \A o \in DOMAIN swappers : o # x => swappers'[o] = swappers[o]
        /\ UNCHANGED <<kind, current>>
    BY <1>x, <1>6, ClearDoes
  <2>2. /\ x = current \/ (kind = "chain" /\ My(c).op = "update" /\ current = 0)
        /\ Cleared
    BY <1>x, <1>d, <2>1 DEF Phase, Pointing
  <2>3. Cleared'
    <3>1. ASSUME NEW l \in Running PROVE Forgotten(l)'
      <4>1. l \in Loops /\ proc'[l] = proc[l] /\ Forgotten(l)
        BY <1>e, <1>f, <2>1, <2>2 DEF Cleared
      <4>2. kind = "lightning"
        BY <4>1 DEF Forgotten
      <4> QED
        BY <2>1, <2>2, <4>1, <4>2, ForgottenStays
    <3> QED BY <1>e, <2>1, <3>1 DEF Cleared
  <2>4. Phase(c)'
    BY <1>x, <1>b, <1>e, <2>1, <2>2, <2>3 DEF Phase, My
  <2> QED
    BY <1>e, <2>1, <2>4, SoloByCaller DEF Pointing
<1>7. CASE Delete(c)
  <2>1. /\ proc[c].step = "delete" /\ proc'[c] = None /\ Others(c)
        /\ current' = 0 /\ UNCHANGED <<kind, swappers>>
    BY <1>7, DeleteDoes
  <2>2. Cleared
    BY <1>d, <2>1 DEF Phase, Pointing
  <2>3. ASSUME NEW l \in Running PROVE Forgotten(l)'
    <3>1. proc'[l] = proc[l] /\ Forgotten(l)
      BY <1>e, <1>f, <2>1, <2>2 DEF Cleared
    <3>2. \A o \in DOMAIN swappers : o # 0
      BY SwapperOf
    <3> QED
      BY <2>1, <3>1, <3>2 DEF Forgotten, My
  <2>4. Settled(current)'
    BY <1>e, <2>1, <2>3 DEF Settled, Ready
  <2> QED
    BY <1>e, <2>1, <2>4, NoneIs, SoloByCaller DEF Pointing
<1>8. CASE InitConfig(c)
  <2>1. /\ x \in DOMAIN swappers
        /\ proc[c].step = "init"
        /\ proc'[c].step = "check" /\ proc'[c].locals = My(c)
        /\ Others(c)
        /\ DOMAIN swappers' = DOMAIN swappers
        /\ \A o \in DOMAIN swappers : swappers'[o].stop = swappers[o].stop
        /\ UNCHANGED <<kind, current>>
    BY <1>x, <1>8, InitConfigDoes
  <2>2. /\ x = current \/ (kind = "chain" /\ My(c).op = "update" /\ current = 0)
        /\ Cleared
    BY <1>x, <1>d, <2>1 DEF Phase, Pointing
  <2>3. Cleared'
    <3>1. ASSUME NEW l \in Running PROVE Forgotten(l)'
      BY <1>e, <1>f, <2>1, <2>2, ForgottenStays DEF Cleared
    <3> QED BY <1>e, <2>1, <3>1 DEF Cleared
  <2>4. Phase(c)'
    BY <1>x, <1>b, <1>e, <2>1, <2>2, <2>3 DEF Phase, My
  <2> QED
    BY <1>e, <2>1, <2>4, SoloByCaller DEF Pointing
<1>9. CASE CheckEnabled(c)
  <2>1. /\ x \in DOMAIN swappers
        /\ proc[c].step = "check"
        /\ \/ /\ ~swappers[x].err /\ configs[swappers[x].cfg]
              /\ proc'[c].step = "make" /\ proc'[c].locals = My(c)
           \/ /\ ~(~swappers[x].err /\ configs[swappers[x].cfg])
              /\ \/ /\ ~(My(c).op = "update" /\ kind = "chain")
                    /\ proc'[c] = None
                 \/ /\ My(c).op = "update" /\ kind = "chain"
                    /\ proc'[c].step = "store" /\ proc'[c].locals = My(c)
        /\ Others(c)
        /\ UNCHANGED <<kind, current, swappers, configs>>
    BY <1>x, <1>9, CheckEnabledDoes DEF fields
  <2>2. /\ x = current \/ (kind = "chain" /\ My(c).op = "update" /\ current = 0)
        /\ Cleared
    BY <1>x, <1>d, <2>1 DEF Phase, Pointing
  <2>3. Cleared'
    <3>1. ASSUME NEW l \in Running PROVE Forgotten(l)'
      BY <1>e, <1>f, <2>1, <2>2, ForgottenStays DEF Cleared
    <3> QED BY <1>e, <2>1, <3>1 DEF Cleared
  <2>4. x # 0 /\ swappers[x].cfg # 0
    BY <1>x, <2>1, SwapperOf DEF MadeInv, Swapper
  <2>5. CASE proc'[c].step = "make"
    <3>1. Ready(x)' /\ proc'[c].locals = My(c)
      BY <1>x, <2>1, <2>4, <2>5, NoneIs DEF Ready, My
    <3>2. Phase(c)'
      <4>1. /\ proc'[c].locals.swapper = x /\ proc'[c].locals.op = My(c).op
        BY <1>x, <3>1
      <4>2. Ready(My(c).swapper)'
        BY <3>1, <4>1 DEF Ready, My
      <4> QED
        BY <1>b, <2>1, <2>2, <2>3, <2>5, <4>1, <4>2 DEF Phase, My
    <3> QED
      BY <1>e, <2>1, <2>5, <3>2, SoloByCaller DEF Pointing
  <2>6. CASE proc'[c].step # "make"
    <3>1. ~(~swappers[x].err /\ configs[swappers[x].cfg])
      BY <2>1, <2>6
    <3>2. CASE proc'[c] = None
      <4>1. x = current
        BY <2>1, <2>2, <3>1, <3>2, NoneIs
      <4>2. Settled(current)'
        BY <2>1, <2>3, <3>1, <4>1 DEF Settled, Cleared, Ready
      <4> QED
        BY <1>e, <2>1, <3>2, <4>2, NoneIs, SoloByCaller DEF Pointing
    <3>3. CASE proc'[c].step = "store" /\ proc'[c].locals = My(c)
      <4>1. /\ proc'[c].locals.swapper = x /\ proc'[c].locals.op = My(c).op
        BY <1>x, <3>3
      <4>2. ~Ready(My(c).swapper)'
        BY <2>1, <3>1, <4>1 DEF Ready, My
      <4>3. Settled(My(c).swapper)'
        BY <2>3, <4>2 DEF Settled, Cleared
      <4>4. Phase(c)'
        BY <1>b, <2>1, <2>2, <3>3, <4>1, <4>3 DEF Phase, My
      <4> QED
        BY <1>e, <2>1, <3>3, <4>4, SoloByCaller DEF Pointing
    <3> QED BY <2>1, <3>1, <3>2, <3>3
  <2> QED BY <2>5, <2>6
<1>10. CASE MakeStop(c)
  <2>1. /\ x \in DOMAIN swappers
        /\ proc[c].step = "make"
        /\ proc'[c].step = "go" /\ proc'[c].locals = My(c)
        /\ Others(c)
        /\ DOMAIN swappers' = DOMAIN swappers
        /\ \A o \in DOMAIN swappers : o # x => swappers'[o] = swappers[o]
        /\ swappers'[x].cfg = swappers[x].cfg
        /\ swappers'[x].err = swappers[x].err
        /\ swappers'[x].stop = channels + 1
        /\ UNCHANGED <<kind, current, configs>>
    BY <1>x, <1>10, MakeStopDoes
  <2>2. /\ x = current \/ (kind = "chain" /\ My(c).op = "update" /\ current = 0)
        /\ Cleared /\ Ready(x)
    BY <1>x, <1>d, <2>1 DEF Phase, Pointing
  <2>3. Cleared'
    <3>1. ASSUME NEW l \in Running PROVE Forgotten(l)'
      <4>1. l \in Loops /\ proc'[l] = proc[l] /\ Forgotten(l)
        BY <1>e, <1>f, <2>1, <2>2 DEF Cleared
      <4>2. kind = "lightning"
        BY <4>1 DEF Forgotten
      <4> QED
        BY <2>1, <2>2, <4>1, <4>2, ForgottenStays
    <3> QED BY <1>e, <2>1, <3>1 DEF Cleared
  <2>4. /\ proc'[c].locals.swapper = x /\ proc'[c].locals.op = My(c).op
        /\ swappers'[x].stop # 0
    BY <1>x, <2>1 DEF Typed, Objects
  <2>5. Ready(My(c).swapper)'
    BY <2>1, <2>2, <2>4 DEF Ready, My
  <2>6. Phase(c)'
    BY <1>b, <2>1, <2>2, <2>3, <2>4, <2>5 DEF Phase, My
  <2> QED
    BY <1>e, <2>1, <2>6, SoloByCaller DEF Pointing
<1>11. CASE GoRun(c)
  <2>0. \E l \in Loops : proc[l] = None
    BY <1>11, LoopIsFree DEF GoRun, At
  <2>1. /\ x \in DOMAIN swappers
        /\ proc[c].step = "go"
        /\ \/ /\ ~(My(c).op = "update" /\ kind = "chain")
              /\ proc'[c] = None
           \/ /\ My(c).op = "update" /\ kind = "chain"
              /\ proc'[c].step = "store" /\ proc'[c].locals = My(c)
        /\ UNCHANGED <<kind, current, swappers, configs>>
    BY <1>x, <1>11, <2>0, GoRunDoes DEF fields
  <2>2. PICK m \in Loops :
              /\ proc[m] = None
              /\ proc'[m].step \in {"lock", "wait"}
              /\ proc'[m].locals.cfg = swappers[x].cfg
              /\ proc'[m].locals.stop = swappers[x].stop
              /\ \A q \in Workers : q # c /\ q # m => proc'[q] = proc[q]
    BY <1>x, <1>11, <2>0, GoRunDoes
  <2>3. /\ x = current \/ (kind = "chain" /\ My(c).op = "update" /\ current = 0)
        /\ Cleared /\ Ready(x) /\ swappers[x].stop # 0
    BY <1>x, <1>d, <2>1 DEF Phase, Pointing
  <2>4. \A d \in Callers : d # m
    BY CallerIsNoLoop
  <2>5. \A d \in Callers : d # c => proc'[d] = None
    BY <1>a, <1>d, <2>2, <2>4
  <2>6. \A l \in Loops : l # m => proc'[l] = proc[l]
    BY <2>2, <1>a
  <2>7. Running' = Running \cup {m} /\ m \notin Running
    BY <2>2, <2>6, NoneIs DEF Running
  <2>8. ASSUME NEW l \in Running
        PROVE  /\ Forgotten(l)' /\ proc'[l] = proc[l]
               /\ My(l).stop # 0 /\ My(l).stop # swappers[x].stop
    <3>1. /\ l \in Loops /\ proc'[l] = proc[l] /\ Forgotten(l)
          /\ My(l).stop # 0
      BY <1>d, <1>f, <2>3, <2>6, <2>7 DEF Cleared, Apart
    <3>2. /\ kind = "lightning"
          /\ \E o \in DOMAIN swappers :
               o # current /\ swappers[o].stop = My(l).stop
      BY <3>1 DEF Forgotten
    <3>3. My(l).stop # swappers[x].stop
      BY <2>1, <2>3, <3>1, <3>2 DEF OwnInv
    <3>4. Forgotten(l)'
      BY <2>1, <3>1, ForgottenStays
    <3> QED BY <3>1, <3>3, <3>4
  <2>9. Apart'
    <3>1. ASSUME NEW l \in Running', NEW k \in Running', l # k
          PROVE  proc'[l].locals.stop # 0
                 /\ proc'[l].locals.stop # proc'[k].locals.stop
      <4>1. CASE l \in Running /\ k \in Running
        BY <1>d, <2>8, <3>1, <4>1 DEF Apart, My
      <4>2. CASE l = m \/ k = m
        BY <2>2, <2>3, <2>7, <2>8, <3>1, <4>2 DEF My
      <4> QED BY <2>7, <4>1, <4>2
    <3>2. ASSUME NEW l \in Running' PROVE proc'[l].locals.stop # 0
      BY <2>2, <2>3, <2>7, <2>8 DEF My
    <3> QED BY <3>1, <3>2 DEF Apart, My
  <2>10. ASSUME NEW y, y = x
         PROVE  /\ \A l \in Running' :
                     Forgotten(l)' \/ (Ready(y)' /\ RunFor(l, y)')
                /\ \E l \in Loops : RunFor(l, y)'
    <3>1. Ready(y)'
      BY <2>1, <2>3, <2>10 DEF Ready
    <3>2. RunFor(m, y)'
      BY <2>1, <2>2, <2>10 DEF RunFor, My
    <3> QED BY <2>7, <2>8, <3>1, <3>2
  <2>11. CASE proc'[c] = None
    <3>1. x = current
      BY <2>1, <2>3, <2>11, NoneIs
    <3>2. Settled(current)'
      BY <2>1, <2>10, <3>1 DEF Settled
    <3> QED
      BY <2>5, <2>9, <2>11, <3>2, NoneIs, SoloByCaller DEF Pointing
  <2>12. CASE proc'[c].step = "store" /\ proc'[c].locals = My(c)
    <3>1. /\ proc'[c].locals.swapper = x /\ proc'[c].locals.op = My(c).op
      BY <1>x, <2>12
    <3>2. Settled(x)'
      BY <2>10 DEF Settled
    <3>3. Settled(My(c).swapper)'
      BY <3>1, <3>2 DEF Settled, Ready, RunFor, My
    <3>4. Phase(c)'
      BY <1>b, <2>1, <2>3, <2>12, <3>1, <3>3 DEF Phase, My
    <3> QED
      BY <2>5, <2>9, <2>12, <3>4, SoloByCaller DEF Pointing
  <2> QED BY <2>1, <2>11, <2>12
<1>12. CASE Store(c)
  <2>1. /\ x \in DOMAIN swappers
        /\ proc[c].step = "store" /\ proc'[c] = None /\ Others(c)
        /\ \/ swappers[x].err /\ current' = current
           \/ ~swappers[x].err /\ current' = x
        /\ UNCHANGED <<kind, swappers, configs>>
    BY <1>x, <1>12, StoreDoes
  <2>2. /\ x = current \/ (kind = "chain" /\ My(c).op = "update" /\ current = 0)
        /\ Settled(x) /\ kind = "chain"
    BY <1>x, <1>d, <2>1 DEF Phase, PlaceInv, Pointing
  <2>3. \A l \in Running : Ready(x) /\ RunFor(l, x)
    BY <2>2 DEF Settled, Forgotten
  <2>4. Running' = Running
        /\ \A l \in Loops : proc'[l] = proc[l]
    BY <1>e, <2>1
  <2>5. ASSUME current' = x PROVE Settled(current)'
    <3>1. Ready(x)' <=> Ready(x)
      BY <2>1 DEF Ready
    <3>2. \A l \in Loops : RunFor(l, x)' <=> RunFor(l, x)
      BY <2>1, <2>4 DEF RunFor, My
    <3>3. Settled(x)'
      BY <1>f, <2>1, <2>2, <2>3, <2>4, <3>1, <3>2 DEF Settled
    <3> QED
      BY <2>5, <3>3 DEF Settled, Ready, RunFor
  <2>6. ASSUME current' # x PROVE Settled(current)'
    <3>1. current' = 0 /\ swappers[x].err
      BY <2>1, <2>2, <2>6
    <3>2. Running = {}
      BY <2>3, <3>1 DEF Ready
    <3> QED
      BY <2>4, <3>1, <3>2 DEF Settled, Ready
  <2>7. Settled(current)'
    BY <2>5, <2>6
  <2> QED
    BY <1>e, <2>1, <2>7, NoneIs, SoloByCaller DEF Pointing
<1> QED
  BY <1>1, <1>2, <1>3, <1>4, <1>5, <1>6, <1>7, <1>8, <1>9, <1>10, <1>11, <1>12
     DEF CallStep

\* What is to be shown of the one call that begins when no other is on its way:
\* the swapper it points to is the one in use.
LEMMA SoloBegins ==
  ASSUME Typed, BoundInv, PlaceInv, SoloInv, NEW c \in Callers, Start(c),
         ~raced'
  PROVE  /\ Begins(c) /\ ~Dead
         /\ \A d \in Callers : proc[d] = None
         /\ \A d \in Callers : d # c => proc'[d] = None
         /\ Settled(current) /\ Apart'
         /\ Running' = Running
         /\ \A l \in Loops : proc'[l] = proc[l]
<1>1. Begins(c)
  BY StartDoes
<1>2. c \in Workers /\ ~Dead
  BY <1>1, CallerIsNoLoop, NobodyIsDead, NoneIs DEF Begins
<1>3. ~raced /\ \A d \in Callers : proc[d] = None
  BY <1>1 DEF Begins, BoundInv, Quiet
<1>4. \A d \in Callers : d # c => proc'[d] = None
  BY <1>1, <1>3, CallerIsNoLoop DEF Begins, Others
<1>5. \A l \in Loops : proc'[l] = proc[l]
  BY <1>1, LoopIsWorker DEF Begins, Others
<1>6. Settled(current) /\ Apart
  BY <1>2, <1>3, NoneIs, PointsIn DEF SoloInv, Pointing
<1> QED
  BY <1>1, <1>2, <1>3, <1>4, <1>5, <1>6, LoopsStay

LEMMA SoloStart ==
  ASSUME Typed, BoundInv, PlaceInv, SoloInv, NEW c \in Callers, Start(c)
  PROVE  SoloInv'
<1> USE PointsIn
<1> SUFFICES ASSUME ~raced'
             PROVE  SoloInv'
  BY DEF SoloInv
<1>a. /\ Begins(c) /\ ~Dead
      /\ \A d \in Callers : d # c => proc'[d] = None
      /\ Settled(current) /\ Apart'
      /\ Running' = Running
      /\ \A l \in Loops : proc'[l] = proc[l]
  BY SoloBegins
<1>b. kind' = kind /\ configs' = configs
  BY <1>a DEF Begins
<1>c. \A l \in Running : l \in Loops
  BY DEF Running
<1>1. ASSUME UNCHANGED <<current, swappers>>
      PROVE  Settled(current)'
  <2>1. Ready(current)' <=> Ready(current)
    BY <1>1, <1>b DEF Ready
  <2>2. \A l \in Loops : RunFor(l, current)' <=> RunFor(l, current)
    BY <1>1, <1>a DEF RunFor, My
  <2>3. \A l \in Loops : Forgotten(l)' <=> Forgotten(l)
    BY <1>1, <1>a, <1>b DEF Forgotten, My
  <2> QED
    BY <1>a, <1>b, <1>c, <2>1, <2>2, <2>3 DEF Settled
<1>2. CASE BeginsLightning(c)
  <2>1. Settled(current)'
    <3>1. CASE UNCHANGED <<current, swappers>>
      BY <1>1, <3>1
    <3>2. CASE NewSwapper /\ current' = Len(swappers) + 1
      <4>1. Len(swappers) \in Nat /\ DOMAIN swappers = 1 .. Len(swappers)
            /\ current \in 0 .. Len(swappers)
        BY DEF Typed, Objects
      <4>2. ~Ready(current)'
        BY <3>2 DEF NewSwapper, Ready
      <4>3. ASSUME NEW l \in Running PROVE Forgotten(l)'
        <5>1. l \in Loops /\ proc'[l] = proc[l] /\ My(l).stop # 0
          BY <1>a, <1>c DEF Apart, My
        <5>2. PICK o \in DOMAIN swappers : swappers[o].stop = My(l).stop
          <6>1. CASE Forgotten(l)
            BY <6>1 DEF Forgotten
          <6>2. CASE Ready(current) /\ RunFor(l, current)
            BY <4>1, <6>2 DEF Ready, RunFor
          <6> QED
            BY <1>a, <6>1, <6>2 DEF Settled
        <5>3. o \in DOMAIN swappers' /\ o # current'
              /\ swappers'[o].stop = swappers[o].stop
          BY <3>2, <4>1 DEF NewSwapper
        <5> QED
          BY <1>2, <1>b, <5>1, <5>2, <5>3 DEF Forgotten, My, BeginsLightning
      <4> QED
        BY <1>a, <4>2, <4>3 DEF Settled
    <3> QED
      BY <1>2, <3>1, <3>2 DEF BeginsLightning
  <2>2. proc'[c].step \notin Pointing /\ kind = "lightning"
    BY <1>2 DEF BeginsLightning, Pointing
  <2> QED
    BY <1>a, <1>b, <2>1, <2>2, SoloByCaller
<1>3. CASE BeginsChain(c)
  <2>1. /\ proc'[c].step = "set" /\ current' = current /\ kind = "chain"
        /\ proc'[c].locals.op = "update"
    BY <1>3 DEF BeginsChain
  <2>2. proc'[c].locals.swapper = current' \/ current' = 0
    BY <1>3 DEF BeginsChain
  <2>3. Settled(current)'
    <3>1. CASE UNCHANGED <<current, swappers>>
      BY <1>1, <3>1
    <3>2. CASE current = 0
      <4>1. \A l \in Running : Forgotten(l)
        BY <1>a, <3>2 DEF Settled, Ready
      <4>2. Running = {}
        BY <2>1, <4>1 DEF Forgotten
      <4> QED
        BY <1>a, <2>1, <3>2, <4>2 DEF Settled, Ready
    <3> QED
      BY <1>3, <3>1, <3>2 DEF BeginsChain
  <2> QED
    BY <1>a, <1>b, <2>1, <2>2, <2>3, SoloByCaller DEF Pointing
<1>4. CASE BeginsStop(c)
  <2>1. /\ UNCHANGED <<current, swappers>> /\ proc'[c].step = "stop"
        /\ proc'[c].locals.swapper = current
    BY <1>4 DEF BeginsStop
  <2>2. ASSUME NEW l \in Running
        PROVE  Forgotten(l)' \/ proc'[l].locals.stop = swappers[current].stop
    <3>1. l \in Loops /\ proc'[l] = proc[l]
      BY <1>a, <1>c
    <3>2. CASE Forgotten(l)
      BY <1>b, <2>1, <3>1, <3>2, ForgottenStays
    <3>3. CASE RunFor(l, current)
      BY <3>1, <3>3 DEF RunFor, My
    <3> QED
      BY <1>a, <3>2, <3>3 DEF Settled
  <2>3. Phase(c)'
    BY <1>a, <2>1, <2>2 DEF Phase, My
  <2> QED
    BY <1>a, <2>1, <2>3, SoloByCaller DEF Pointing
<1>5. CASE BeginsCheck(c)
  <2>1. Settled(current)' /\ proc'[c].step \in {"nil", "lock"}
    BY <1>1, <1>5 DEF BeginsCheck
  <2> QED
    BY <1>a, <2>1, SoloByCaller DEF Pointing
<1> QED
  BY <1>2, <1>3, <1>4, <1>5, StartDoes

LEMMA SoloAside ==
  ASSUME Typed, SoloInv, Aside
  PROVE  SoloInv'
<1> USE PointsIn
<1> SUFFICES ASSUME ~raced', ~Dead'
             PROVE  SoloInv'
  BY DEF SoloInv
<1>1. /\ ~raced /\ ~Dead
      /\ UNCHANGED <<kind, current, swappers, configs>>
  BY AsidePoints
<1>2. Running' = Running
  BY AsidePoints DEF Running
<1>3. ASSUME NEW l \in Running
      PROVE  /\ l \in Loops
             /\ proc'[l].locals.stop = My(l).stop
             /\ Forgotten(l)' <=> Forgotten(l)
  BY <1>1, AsidePoints DEF Running, Forgotten, My
<1>4. \A l \in Loops :
        \A y \in 0 .. Len(swappers) : RunFor(l, y)' <=> RunFor(l, y)
  BY <1>1, AsidePoints DEF RunFor, My
<1>5. \A y \in 0 .. Len(swappers) : Ready(y)' <=> Ready(y)
  BY <1>1 DEF Ready
<1>6. \A y \in 0 .. Len(swappers) : Settled(y)' <=> Settled(y)
  BY <1>1, <1>2, <1>3, <1>4, <1>5 DEF Settled
<1>7. Cleared' <=> Cleared
  BY <1>2, <1>3 DEF Cleared
<1>8. Alone'
  BY <1>1, AsidePoints DEF SoloInv, Alone
<1>9. Apart'
  <2>1. Apart
    BY <1>1 DEF SoloInv
  <2> QED
    BY <1>2, <1>3, <2>1 DEF Apart, My
<1>10. \A d \in Callers :
         proc[d].step \in Pointing \cup {"set"}
           \/ proc'[d].step \in Pointing \cup {"set"}
         => proc'[d] = proc[d]
  BY AsidePoints DEF Pointing
<1>11. ASSUME NEW d \in Callers, proc'[d].step \in Pointing
       PROVE  Phase(d)'
  <2>1. proc'[d] = proc[d]
    BY <1>10, <1>11
  <2>2. Phase(d)
    BY <1>1, <1>11, <2>1 DEF SoloInv
  <2>3. PICK y \in 0 .. Len(swappers) : y = My(d).swapper
    BY CallerTyped DEF PointsRight, My, LocalsSet, Typed, Objects
  <2> QED
    BY <1>1, <1>2, <1>3, <1>5, <1>6, <1>7, <2>1, <2>2, <2>3 DEF Phase, My
<1>12. (\A d \in Callers : proc'[d].step \notin Pointing) => Settled(current)'
  <2> SUFFICES ASSUME \A d \in Callers : proc'[d].step \notin Pointing
               PROVE  Settled(current)'
    OBVIOUS
  <2>1. \A d \in Callers : proc[d].step \notin Pointing
    BY <1>10
  <2>2. Settled(current)
    BY <1>1, <2>1 DEF SoloInv
  <2>3. PICK y \in 0 .. Len(swappers) : y = current
    BY DEF Typed, Objects
  <2>4. Settled(y)'
    BY <1>6, <2>2, <2>3
  <2> QED
    BY <1>1, <2>3, <2>4 DEF Settled, Ready, RunFor
<1>13. ASSUME NEW d \in Callers, proc'[d].step = "set", kind' = "chain"
       PROVE  /\ proc'[d].locals.op = "update"
              /\ proc'[d].locals.swapper = current' \/ current' = 0
  BY <1>1, <1>10, <1>13 DEF SoloInv, My
<1> QED
  BY <1>8, <1>9, <1>11, <1>12, <1>13 DEF SoloInv, My

-----------------------------------------------------------------------------
(***************************************************************************)
(* The inductive invariant.                                                *)
(***************************************************************************)
LEMMA SwapperInit == Init => SwapperInv
<1> SUFFICES ASSUME Init PROVE SwapperInv
  OBVIOUS
<1> USE AutoswapAssumption, PointsIn
<1> DEFINE s == [New EXCEPT !.cfg = 1, !.stop = 1]
           k == [Locals EXCEPT !.cfg = 1, !.stop = 1]
           w == Run("wait", k)
<1>1. PICK loaded \in {0, 1} :
       /\ current = loaded
       /\ swappers = [i \in 1 .. loaded |-> s]
       /\ configs = [i \in 1 .. loaded |-> TRUE]
       /\ channels = loaded
       /\ proc = [p \in Workers |-> IF p \in 1 .. loaded THEN w ELSE None]
  BY DEF Init
<1>2. kind \in Kinds /\ swaps = <<>> /\ calls = 0 /\ ticks = 0 /\ raced = FALSE
  BY DEF Init
<1>3. s.cfg = 1 /\ s.stop = 1 /\ s.err = FALSE
  BY DEF New
<1>4. k.cfg = 1 /\ k.stop = 1
  BY DEF Locals
<1> HIDE DEF s, k
<1>5. w.step = "wait" /\ w.locals = k
  BY DEF Run
<1> HIDE DEF w
<1>6. /\ DOMAIN swappers = 1 .. loaded /\ DOMAIN configs = 1 .. loaded
      /\ Len(configs) = loaded
      /\ \A o \in 1 .. loaded : swappers[o] = s /\ configs[o] = TRUE
  BY <1>1
<1>7. \A c \in Callers : c \in Workers /\ c \notin 1 .. loaded
  BY <1>1, CallerIsNoLoop
<1>8. \A c \in Callers : proc[c] = None
  BY <1>1, <1>7
<1>9. /\ \A l \in Loops : l \in Workers
      /\ \A l \in Loops : proc[l] = IF l \in 1 .. loaded THEN w ELSE None
      /\ \A p \in Workers : p \in 1 .. loaded => p \in Loops
  BY <1>1, <1>7, LoopIsWorker DEF Workers
<1>10. \A p \in Workers : \/ proc[p] = w /\ p \in 1 .. loaded
                         \/ proc[p] = None
  BY <1>1
<1>11. ~Dead
  BY <1>5, <1>10, NoneIs DEF Dead, At
<1>12. CheckInv
  BY CheckInit
<1>13. BoundInv
  <2>1. {MaxCalls, MaxTicks, MaxSwaps} \subseteq Nat /\ Len(swaps) = 0
    BY <1>2
  <2>2. MaxCalls \in Nat /\ MaxTicks \in Nat /\ MaxSwaps \in Nat
    BY <2>1
  <2>3. calls \in 0 .. MaxCalls /\ ticks \in 0 .. MaxTicks
        /\ Len(swaps) <= MaxSwaps
    BY <1>2, <2>1, <2>2
  <2> QED
    BY <1>2, <2>3 DEF BoundInv
<1>14. PlaceInv
  BY <1>5, <1>8, <1>9, <1>10, <1>11, NoneIs DEF PlaceInv
<1>15. MadeInv
  <2>1. \A p \in Workers :
          /\ proc[p].step \in Live => My(p).cfg \in DOMAIN configs
          /\ My(p).stop <= channels
    BY <1>1, <1>4, <1>5, <1>6, <1>10, NoneIs DEF My
  <2>2. \A c \in Callers : proc[c].step = "none"
    BY <1>8, NoneIs
  <2>3. \A o \in DOMAIN swappers : swappers[o].cfg <= Len(configs)
                                   /\ swappers[o].stop <= channels
    BY <1>1, <1>3, <1>6
  <2>4. DOMAIN swaps = {}
    BY <1>2
  <2> QED
    BY <2>1, <2>2, <2>3, <2>4 DEF MadeInv
<1>16. CountInv
  <2>1. Running \subseteq 1 .. loaded /\ Going = {} /\ Making = {}
    BY <1>8, <1>9, NoneIs DEF Running, Going, Making
  <2>2. IsFiniteSet(1 .. loaded) /\ Cardinality(1 .. loaded) = loaded
    <3>1. 1 \in Int /\ loaded \in Int
      BY <1>1
    <3>2. /\ IsFiniteSet(1 .. loaded)
          /\ Cardinality(1 .. loaded) = IF 1 > loaded THEN 0 ELSE loaded - 1 + 1
      BY <3>1, FS_Interval
    <3> QED
      BY <1>1, <3>2
  <2>3. /\ IsFiniteSet(Running)
        /\ Cardinality(Running) \in Nat /\ Cardinality(Running) <= loaded
    <3>1. Running \in SUBSET (1 .. loaded)
      BY <2>1
    <3>2. /\ IsFiniteSet(Running)
          /\ Cardinality(Running) <= Cardinality(1 .. loaded)
      BY <2>2, <3>1, FS_Subset
    <3>3. Cardinality(Running) \in Nat
      BY <3>2, FS_CardinalityType
    <3> QED
      BY <2>2, <3>2, <3>3
  <2>4. IsFiniteSet({}) /\ Cardinality({}) = 0
    BY FS_EmptySet
  <2>5. Running \cup Going = Running
    BY <2>1
  <2> QED
    BY <1>1, <1>2, <2>1, <2>3, <2>4, <2>5 DEF CountInv, Active
<1>17. OwnInv
  <2>1. \A o, u \in DOMAIN swappers : o = u
    BY <1>6
  <2>2. \A c \in Callers : proc[c].step = "none"
    BY <1>8, NoneIs
  <2> QED
    BY <2>1, <2>2 DEF OwnInv
<1>18. Ready(current) => current = 1 /\ loaded = 1
  BY <1>1 DEF Ready
<1>19. loaded = 1 => 1 \in Loops /\ proc[1] = w
  BY <1>1, <1>9 DEF Loops
<1>20. Ready(current) => \E l \in Loops : RunFor(l, current)
  BY <1>3, <1>4, <1>5, <1>6, <1>18, <1>19 DEF RunFor, My
<1>21. LightInv
  BY <1>3, <1>6, <1>18, <1>20 DEF LightInv
<1>22. SoloInv
  <2>1. \A l \in Running : l = 1 /\ loaded = 1
    BY <1>1, <1>9, NoneIs DEF Running
  <2>2. \A c \in Callers : proc[c] = None /\ proc[c].step = "none"
    BY <1>8, NoneIs
  <2>3. Apart
    BY <1>4, <1>5, <1>19, <2>1 DEF Apart, My
  <2>4. ASSUME NEW l \in Running PROVE Ready(current) /\ RunFor(l, current)
    BY <1>1, <1>3, <1>4, <1>5, <1>6, <1>19, <2>1 DEF Ready, RunFor, My
  <2>5. Settled(current)
    BY <1>20, <2>4 DEF Settled
  <2> QED
    BY <2>2, <2>3, <2>5 DEF SoloInv, Alone, Pointing
<1> QED
  BY <1>12, <1>13, <1>14, <1>15, <1>16, <1>17, <1>21, <1>22 DEF SwapperInv

LEMMA SwapperNext == SwapperInv /\ [Next]_vars => SwapperInv'
<1> SUFFICES ASSUME SwapperInv, [Next]_vars PROVE SwapperInv'
  OBVIOUS
<1>1. /\ Typed /\ CheckInv /\ BoundInv /\ PlaceInv /\ MadeInv /\ CountInv
      /\ OwnInv /\ LightInv /\ SoloInv
  BY DEF SwapperInv, CheckInv
<1>2. CheckInv'
  BY <1>1, CheckNext
<1>3. Next => BoundInv'
  BY <1>1, BoundNext
<1>4. ASSUME Aside, MadeInv', BoundInv'
      PROVE  SwapperInv'
  BY <1>1, <1>2, <1>4, PlaceAside, CountAside, OwnAside, LightAside,
     SoloAside DEF SwapperInv
<1>5. CASE UNCHANGED vars
  <2>1. UNCHANGED <<fields, swaps, begun, proc>>
    BY <1>5 DEF vars
  <2>2. Aside
    BY <2>1 DEF Aside, begun
  <2>3. MadeInv'
    BY <1>1, <2>1, <2>2, MadeAside DEF MadeInv
  <2>4. BoundInv'
    BY <1>1, <2>1 DEF BoundInv, fields, begun
  <2> QED
    BY <1>4, <2>2, <2>3, <2>4
<1>6. ASSUME NEW c \in Callers, CallStep(c) PROVE SwapperInv'
  <2>1. proc[c].step = "go" => \E l \in Loops : proc[l] = None
    BY <1>1, LoopIsFree
  <2>2. Next
    BY <1>6 DEF Next, Goroutines
  <2> QED
    BY <1>1, <1>2, <1>3, <1>6, <2>1, <2>2, PlaceCall, MadeCall, CountCall,
       OwnCall, LightCall, SoloCall DEF SwapperInv
<1>7. ASSUME NEW c \in Callers, Start(c) PROVE SwapperInv'
  <2>1. Next
    BY <1>7 DEF Next
  <2> QED
    BY <1>1, <1>2, <1>3, <1>7, <2>1, PlaceStart, MadeStart, CountStart,
       OwnStart, LightStart, SoloStart DEF SwapperInv
<1>8. ASSUME NEW p \in Workers, CheckStep(p) PROVE SwapperInv'
  <2>1. Next
    BY <1>8 DEF Next, Goroutines
  <2> QED
    BY <1>1, <1>3, <1>4, <1>8, <2>1, CheckStepAside, MadeCheck
<1>9. ASSUME NEW i \in DOMAIN swaps, Final(i) PROVE SwapperInv'
  <2>1. Next
    BY <1>9 DEF Next, Goroutines
  <2> QED
    BY <1>1, <1>3, <1>4, <1>9, <2>1, FinalAside, MadeAside
<1>10. ASSUME NEW l \in Loops, Tick(l) PROVE SwapperInv'
  <2>1. Next
    BY <1>10 DEF Next
  <2>2. Aside /\ swaps' = swaps
    BY <1>1, <1>10, TickAside
  <2>3. MadeInv'
    BY <1>1, <2>2, MadeAside DEF MadeInv
  <2> QED
    BY <1>3, <1>4, <2>1, <2>2, <2>3
<1> QED
  BY <1>5, <1>6, <1>7, <1>8, <1>9, <1>10 DEF Next, Goroutines

\* When all calls have returned, the daemon lives.
LEMMA QuietLives ==
  ASSUME PlaceInv, Quiet
  PROVE  /\ ~Dead
         /\ \A c \in Callers : proc[c].step = "none"
<1>1. \A c \in Callers : proc[c].step = "none" /\ c \in Workers
  BY NoneIs, CallerIsNoLoop DEF Quiet
<1>2. ~Dead
  BY <1>1 DEF PlaceInv
<1> QED BY <1>1, <1>2

LEMMA EnabledIsReady ==
  ASSUME Typed
  PROVE  Enabled <=> Ready(current)
BY DEF Enabled, Ready, Unset

(***************************************************************************)
(* The objects of the swapper have the types of TypeOK: no pointer refers  *)
(* to a configuration that was not made, no more stop channels and loops   *)
(* are made than calls were, and one goroutine at a time holds the lock of *)
(* a configuration (autoswap.go:322-350, common.go:104-122).               *)
(***************************************************************************)
THEOREM TypeCorrect == Spec => []TypeOK
<1>1. SwapperInv => TypeOK
  <2> SUFFICES ASSUME SwapperInv PROVE TypeOK
    OBVIOUS
  <2>1. /\ Typed /\ Exclusive /\ BoundInv /\ PlaceInv /\ MadeInv /\ CountInv
    BY DEF SwapperInv, CheckInv
  <2>2. /\ current \in 0 .. Len(swappers) /\ configs \in Seq(BOOLEAN)
        /\ \A i \in DOMAIN swappers :
             /\ swappers[i].cfg \in 0 .. Len(configs)
             /\ swappers[i].stop \in 0 .. channels
             /\ swappers[i].err \in BOOLEAN
    BY <2>1, SwapperOf DEF MadeInv, Typed, Objects
  <2>3. channels \in Loops \cup {0}
    <3>1. MaxCalls \in Nat /\ calls \in 0 .. MaxCalls /\ channels \in Nat
      BY <2>1, AutoswapAssumption DEF BoundInv, Typed, Objects
    <3>2. Cardinality(Making) \in Nat
      BY <2>1, ActiveFinite
    <3>3. channels + Cardinality(Making) <= calls + 1
      BY <2>1 DEF CountInv
    <3> QED
      BY <3>1, <3>2, <3>3 DEF Loops
  <2>4. \A p \in Workers :
          /\ proc[p].step \in Steps
          /\ At(p, "none") => proc[p] = None
          /\ proc[p].step \in Live => My(p).cfg \in DOMAIN configs
    BY <2>1 DEF Typed, ProcSet, PlaceInv, MadeInv, At
  <2>5. swaps \in Seq([cfg : DOMAIN configs, forced : BOOLEAN,
                       pending : BOOLEAN])
    <3> DEFINE S == [cfg : DOMAIN configs, forced : BOOLEAN, pending : BOOLEAN]
    <3>1. \A i \in 1 .. Len(swaps) : swaps[i] \in S
      <4> SUFFICES ASSUME NEW i \in 1 .. Len(swaps) PROVE swaps[i] \in S
        OBVIOUS
      <4>1. swaps \in Seq(SwapSet) /\ i \in DOMAIN swaps
        BY <2>1 DEF Typed
      <4>2. swaps[i] \in SwapSet
        BY <4>1
      <4>3. swaps[i].cfg \in DOMAIN configs
        BY <2>1, <4>1 DEF MadeInv
      <4> QED
        BY <4>2, <4>3 DEF SwapSet
    <3>2. swaps = [i \in 1 .. Len(swaps) |-> swaps[i]] /\ Len(swaps) \in Nat
      BY <2>1 DEF Typed
    <3> HIDE DEF S
    <3>3. swaps \in [1 .. Len(swaps) -> S]
      BY <3>1, <3>2
    <3>4. Seq(S) = UNION {[1 .. n -> S] : n \in Nat}
      BY SeqDef, Zenon
    <3>5. swaps \in Seq(S)
      BY <3>2, <3>3, <3>4, Zenon
    <3> QED
      BY <3>5 DEF S
  <2> QED
    BY <2>1, <2>2, <2>3, <2>4, <2>5 DEF TypeOK, BoundInv, Exclusive
<1> QED
  BY <1>1, SwapperInit, SwapperNext, PTL DEF Spec

(***************************************************************************)
(* A configuration that is enabled runs once the calls have returned, and  *)
(* can be stopped (autoswap.go:322-350).                                   *)
(***************************************************************************)
THEOREM EnabledRuns == Spec => []EnabledIsRunning
<1>1. SwapperInv => EnabledIsRunning
  <2> SUFFICES ASSUME SwapperInv, Quiet, Ready(current),
                      kind = "chain" => ~raced
               PROVE  \E l \in Loops : RunsIt(l)
    BY EnabledIsReady DEF EnabledIsRunning, SwapperInv, CheckInv
  <2>1. /\ ~Dead
        /\ \A c \in Callers : proc[c].step = "none"
        /\ kind \in {"lightning", "chain"} /\ LightInv /\ SoloInv
    BY QuietLives DEF SwapperInv, CheckInv, Typed, Objects
  <2>2. \A c \in Callers : proc[c].step \notin Busy \cup Pointing
    BY <2>1, PointsIn DEF Pointing
  <2>3. CASE kind = "lightning"
    BY <2>1, <2>2, <2>3 DEF LightInv, RunFor, RunsIt
  <2>4. CASE kind = "chain"
    <3>1. Apart /\ Settled(current)
      BY <2>1, <2>2, <2>4 DEF SoloInv
    <3>2. PICK l \in Loops : RunFor(l, current)
      BY <2>4, <3>1 DEF Settled
    <3> QED
      BY <3>1, <3>2 DEF Apart, Running, RunFor, RunsIt
  <2> QED
    BY <2>1, <2>3, <2>4
<1> QED
  BY <1>1, SwapperInit, SwapperNext, PTL DEF Spec

(***************************************************************************)
(* When calls come one at a time, all loops that run are of the            *)
(* configuration in use, or were forgotten by the reset of the lightning   *)
(* configuration (autoswap.go:113-117).                                    *)
(***************************************************************************)
THEOREM ReplacedStops == Spec => []ReplacedIsStopped
<1>1. SwapperInv => ReplacedIsStopped
  <2> SUFFICES ASSUME SwapperInv, Quiet, ~raced,
                      NEW l \in Loops, proc[l].step \in Live
               PROVE  (Enabled /\ RunsIt(l)) \/ Forgotten(l)
    BY DEF ReplacedIsStopped
  <2>1. /\ Typed /\ ~Dead /\ SoloInv
        /\ \A c \in Callers : proc[c].step = "none"
    BY QuietLives DEF SwapperInv, CheckInv
  <2>2. Apart /\ Settled(current)
    BY <2>1 DEF SoloInv, Pointing
  <2>3. l \in Running
    BY DEF Running
  <2> QED
    BY <2>1, <2>2, <2>3, EnabledIsReady DEF Settled, Apart, RunFor, RunsIt
<1> QED
  BY <1>1, SwapperInit, SwapperNext, PTL DEF Spec
=============================================================================
