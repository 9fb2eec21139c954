--------------------------- MODULE FlowControlProofs ---------------------------
(* Proofs about the flow-control state machine, for every set of triggers and   *)
(* paths, every configuration and every environment.                            *)
EXTENDS FlowControl, TLAPS

--------------------------------------------------------------------------------
\* Typing: every transformer of the state machine maps states to states.

LEMMA NoTaskType == NoTask \in Task
BY DEF NoTask, Task, NoTrigger

LEMMA BlockTypes == NoBlock \in Block /\ ZeroBlock \in CommandArea
BY DEF NoBlock, ZeroBlock, Block, CommandArea

LEMMA DeviceOfType == \A t : DeviceOf(t) \in Device
BY DEF DeviceOf, Device

LEMMA NoTriggerNotOne == NoTrigger \notin Trigger
BY TriggerAssumption DEF NoTrigger, AllTriggers

LEMMA PathNat == Path \subseteq Nat
BY PathAssumption

LEMMA CounterTypes ==
  ASSUME NEW w \in State
  PROVE  w.path \in Nat /\ w.gen \in Nat /\ w.served + 1 \in Nat
<1>1. w.path \in Path /\ w.gen \in Nat /\ w.served \in Nat
  BY DEF State
<1>2. w.path \in Nat
  BY <1>1, PathNat
<1>3. w.served + 1 \in Nat
  BY <1>1
<1> QED
  BY <1>1, <1>2, <1>3

LEMMA FirstEnabledPathType == FirstEnabledPath \in Path
<1>1. PICK p \in EnabledPath : \A q \in EnabledPath : p <= q
  BY PathAssumption
<1> QED
  BY <1>1, PathAssumption DEF FirstEnabledPath

LEMMA NextEnabledPathType == ASSUME NEW p \in Path PROVE NextEnabledPath(p) \in Path
<1> DEFINE later == {q \in EnabledPath : q > p}
<1>1. CASE later # {}
  <2>1. PICK first \in later : \A r \in later : first <= r
    BY <1>1, PathAssumption
  <2>2. (CHOOSE q \in later : \A r \in later : q <= r) \in later
    BY <2>1
  <2> QED
    BY <2>2, PathAssumption, FirstEnabledPathType DEF NextEnabledPath
<1>2. CASE later = {}
  BY <1>2, FirstEnabledPathType DEF NextEnabledPath
<1> QED
  BY <1>1, <1>2

LEMMA ClearActiveTaskType ==
  ASSUME NEW w \in State PROVE ClearActiveTask(w) \in State
BY NoTaskType DEF ClearActiveTask, State

LEMMA ClearDoneRegistersType ==
  ASSUME NEW w \in State PROVE ClearDoneRegisters(w) \in State
BY DEF ClearDoneRegisters, State

LEMMA ClearCacheType ==
  ASSUME NEW w \in State
  PROVE  ClearCacheForPathSwitch(w) \in State /\ ResetScanSegmentCache(w) \in State
BY DEF ClearCacheForPathSwitch, ResetScanSegmentCache, State, EmptyCache

LEMMA PrepareNextScanPathType ==
  ASSUME NEW w \in State PROVE PrepareNextScanPath(w) \in State
<1>1. ClearDoneRegisters(ClearCacheForPathSwitch(w)) \in State
  BY ClearDoneRegistersType, ClearCacheType
<1>2. NextEnabledPath(w.path) \in Path
  BY NextEnabledPathType DEF State
<1> QED
  BY <1>1, <1>2 DEF PrepareNextScanPath, State

LEMMA ApplyPlcScanPathIdType ==
  ASSUME NEW w \in State, NEW b, NEW c, NEW d
  PROVE  ApplyPlcScanPathId(w, b, c, d) \in State
<1>1. ClearDoneRegisters(ClearCacheForPathSwitch(w)) \in State
  BY ClearDoneRegistersType, ClearCacheType
<1> QED
  BY <1>1 DEF ApplyPlcScanPathId, State

LEMMA ForgetWorkpieceType ==
  ASSUME NEW w \in State PROVE ForgetWorkpiece(w) \in State
<1>1. ClearTransientWorkpieceState([w EXCEPT !.gen = @ + 1]) \in State
  <2>1. [w EXCEPT !.gen = @ + 1] \in State
    BY DEF State
  <2> QED
    BY <2>1 DEF ClearTransientWorkpieceState, State
<1>2. ResetScanSegmentCache(ClearTransientWorkpieceState([w EXCEPT !.gen = @ + 1])) \in State
  BY <1>1, ClearCacheType
<1> QED
  BY <1>2, FirstEnabledPathType DEF ForgetWorkpiece, State

LEMMA ApplyPolicyType ==
  ASSUME NEW w \in State
  PROVE  ApplyScanFailurePolicy(w) \in State /\ ApplyInspectionTimeoutPolicy(w) \in State
<1>1. [w EXCEPT !.cache[DeviceOf(w.task.trig)] = {e \in @ : e.seg # w.task.seg}] \in State
  BY DeviceOfType DEF State
<1>2. [w EXCEPT !.gen = @ + 1] \in State
  BY DEF State
<1>3. /\ ClearCacheForPathSwitch(w) \in State
      /\ ClearCacheForPathSwitch([w EXCEPT !.gen = @ + 1]) \in State
  BY <1>2, ClearCacheType
<1> QED
  BY <1>1, <1>2, <1>3, ForgetWorkpieceType
  DEF ApplyScanFailurePolicy, ApplyInspectionTimeoutPolicy

LEMMA StoreSegmentType ==
  ASSUME NEW w \in State, NEW d \in Device PROVE StoreSegment(w, d) \in State
<1>1. [seg |-> w.task.seg, path |-> w.task.path, tid |-> w.task.tid] \in Entry
  BY DEF State, Task, Entry
<1>2. EmptyCache \in [Device -> SUBSET Entry]
  BY DEF EmptyCache
<1> DEFINE newRun == w.task.tid # 0 /\ w.runTask # 0 /\ w.task.tid # w.runTask
           kept == IF newRun THEN EmptyCache ELSE w.cache
           entry == [seg |-> w.task.seg, path |-> w.task.path, tid |-> w.task.tid]
           cache == [kept EXCEPT ![d] = {e \in @ : e.seg # w.task.seg} \cup {entry}]
           run == IF w.task.tid # 0 THEN w.task.tid ELSE w.runTask
<1>3. run \in Nat
  BY DEF State, Task
<1>4. kept \in [Device -> SUBSET Entry]
  BY <1>2 DEF State
<1>5. cache \in [Device -> SUBSET Entry]
  BY <1>1, <1>4
<1>6. StoreSegment(w, d) = [w EXCEPT !.cache = cache, !.runTask = run]
  BY DEF StoreSegment
<1>7. ASSUME NEW c \in [Device -> SUBSET Entry], NEW n \in Nat
      PROVE  [w EXCEPT !.cache = c, !.runTask = n] \in State
  BY DEF State
<1> HIDE DEF cache, run
<1> QED
  BY <1>3, <1>5, <1>6, <1>7

LEMMA ReleaseType ==
  ASSUME NEW w \in State, Active(w) PROVE Release(w) \in State
<1> DEFINE c == ClearActiveTask(w)
           t == w.task.trig
           ack == [c.ack EXCEPT ![t] = "idle"]
           res == [c.res EXCEPT ![t] = 0]
           done == IF t \in ScanStage THEN [c.done EXCEPT ![DeviceOf(t)] = 0] ELSE c.done
<1>1. c \in State
  BY ClearActiveTaskType
<1>2. 0 \in ResultCode /\ "idle" \in AckState
  BY DEF ResultCode, AckState
<1>3. done \in [Device -> Nat]
  BY <1>1, DeviceOfType DEF State
<1>4. ack \in [Trigger -> AckState] /\ res \in [Trigger -> ResultCode]
  BY <1>1, <1>2 DEF State
<1>5. Release(w) = [c EXCEPT !.ack = ack, !.res = res, !.mode = "ready", !.done = done]
  BY DEF Release
<1> HIDE DEF c, ack, res, done
<1>6. [c EXCEPT !.ack = ack, !.res = res, !.mode = "ready", !.done = done] \in State
  BY <1>1, <1>3, <1>4 DEF State
<1> QED
  BY <1>5, <1>6

LEMMA FinalizeType ==
  ASSUME NEW w \in State, NEW b, NEW force PROVE Finalize(w, b, force) \in State
<1>1. CASE Announced(w)
  <2>1. Release(w) \in State /\ [Release(w) EXCEPT !.advance = FALSE] \in State
    <3>1. Release(w) \in State
      BY <1>1, ReleaseType DEF Announced
    <3>2. ASSUME NEW v \in State PROVE [v EXCEPT !.advance = FALSE] \in State
      BY DEF State
    <3> QED
      BY <3>1, <3>2
  <2> QED
    BY <2>1, PrepareNextScanPathType DEF Finalize
<1>2. CASE ~Announced(w)
  BY <1>2 DEF Finalize
<1> QED
  BY <1>1, <1>2

LEMMA AnnounceType ==
  ASSUME NEW w \in State, Active(w), NEW result \in ResultCode, NEW ackState \in AckState
  PROVE  Announce(w, result, ackState) \in State
<1>1. w.task.trig \in Trigger
  BY DEF Active, State, Task
<1>2. [w.task EXCEPT !.announced = TRUE, !.rid = 0] \in Task
  BY DEF State, Task
<1> QED
  BY <1>1, <1>2 DEF Announce, State

LEMMA CompleteActiveTaskType ==
  ASSUME NEW w \in State, NEW result \in ResultCode, NEW ackState \in AckState
  PROVE  CompleteActiveTask(w, result, ackState) \in State
<1>1. [w EXCEPT !.mode = "fault", !.clock = FALSE] \in State
  BY DEF State
<1>2. CompletionWriteFault(w) \in State
  BY <1>1, ClearActiveTaskType DEF CompletionWriteFault
<1>3. ASSUME Active(w)
      PROVE  Finalize(Announce(w, result, ackState), w.last, FALSE) \in State
  BY <1>3, AnnounceType, FinalizeType
<1> QED
  BY <1>2, <1>3 DEF CompleteActiveTask

LEMMA WriteScanResultType ==
  ASSUME NEW w \in State PROVE WriteScanResult(w) \in State
<1>1. w.task.seg \in Nat
  BY DEF State, Task
<1>2. [w.done EXCEPT ![DeviceOf(w.task.trig)] = w.task.seg] \in [Device -> Nat]
  BY <1>1, DeviceOfType DEF State
<1> QED
  BY <1>2 DEF WriteScanResult, State

LEMMA RequestCaptureBundleType ==
  ASSUME NEW w \in State, NEW dev, NEW owner \in Nat
  PROVE  RequestCaptureBundle(w, dev, owner) \in State
<1>1. CASE Granted(w, dev)
  <2> DEFINE vp == IF dev = "sync" THEN 0 ELSE w.nextReq
  <2>1. vp \in Nat /\ w.nextReq + 1 \in Nat \ {0}
    BY DEF State
  <2>2. RequestCaptureBundle(w, dev, owner) = [w EXCEPT !.vp = vp, !.nextReq = w.nextReq + 1]
    BY <1>1 DEF RequestCaptureBundle
  <2> HIDE DEF vp
  <2>3. ASSUME NEW a \in Nat, NEW n \in Nat \ {0}
        PROVE  [w EXCEPT !.vp = a, !.nextReq = n] \in State
    BY DEF State
  <2> QED
    BY <2>1, <2>2, <2>3
<1>2. CASE ~Granted(w, dev)
  <2>1. w.fatals \cup {owner} \in SUBSET Nat
    BY DEF State
  <2> QED
    BY <1>2, <2>1 DEF RequestCaptureBundle, State
<1> QED
  BY <1>1, <1>2

--------------------------------------------------------------------------------
\* What a transformer may do to the handshake: nothing (Alike), nothing to the
\* task's deadline and generation either (Busy), or end the task as the PLC sees
\* it (Ends).

Link(w, v) ==
  /\ v.last = w.last /\ v.latch = w.latch /\ v.block = w.block
  /\ v.up = w.up /\ v.wired = w.wired /\ v.stopped = w.stopped

Alike(w, v) ==
  /\ v \in State /\ Link(w, v)
  /\ v.task.trig = w.task.trig /\ v.task.announced = w.task.announced

Busy(w, v) ==
  /\ Alike(w, v)
  /\ v.clock = w.clock /\ v.gen = w.gen /\ v.task.gen = w.task.gen

Ends(w, v) ==
  /\ v \in State /\ Link(w, v)
  /\ IF w.up /\ w.task.trig \in w.last.trig
     THEN v.task.trig = w.task.trig /\ v.task.announced
     ELSE v.task.trig = NoTrigger /\ ~v.task.announced

\* The IPC has read a command area since it took its task.
Fit(w) ==
  /\ w \in State
  /\ Active(w) => ~w.last.empty
  /\ ~Active(w) => ~w.task.announced

LEMMA AlikeTrans ==
  ASSUME NEW w, NEW v, NEW u, Alike(w, v)
  PROVE  /\ Alike(v, u) => Alike(w, u)
         /\ Ends(v, u) => Ends(w, u)
         /\ Fit(w) => Fit(v)
BY DEF Alike, Ends, Link, Fit, Active

\* A transformer that leaves these members alone cannot disturb the handshake.
Core(w) == <<w.task, w.clock, w.gen, w.last, w.latch, w.block, w.up, w.wired, w.stopped>>

LEMMA CoreBusy ==
  ASSUME NEW w, NEW v \in State, Core(v) = Core(w) PROVE Busy(w, v)
BY DEF Core, Busy, Alike, Link

LEMMA BusyTrans ==
  ASSUME NEW w, NEW v, NEW u, Busy(w, v) PROVE Busy(v, u) => Busy(w, u)
BY DEF Busy, Alike, Link

LEMMA EndsAlike ==
  ASSUME NEW w, NEW v, NEW u, Ends(w, v), Alike(v, u) PROVE Ends(w, u)
BY DEF Alike, Ends, Link

LEMMA ClearDoneRegistersBusy ==
  ASSUME NEW w \in State PROVE Busy(w, ClearDoneRegisters(w))
<1>1. Core(ClearDoneRegisters(w)) = Core(w)
  BY DEF ClearDoneRegisters, Core, State
<1> QED
  BY <1>1, ClearDoneRegistersType, CoreBusy

LEMMA ClearCacheBusy ==
  ASSUME NEW w \in State
  PROVE  Busy(w, ClearCacheForPathSwitch(w)) /\ Busy(w, ResetScanSegmentCache(w))
<1>1. Core(ClearCacheForPathSwitch(w)) = Core(w)
  BY DEF ClearCacheForPathSwitch, Core, State
<1>2. Core(ResetScanSegmentCache(w)) = Core(w)
  BY DEF ResetScanSegmentCache, Core, State
<1> QED
  BY <1>1, <1>2, ClearCacheType, CoreBusy

LEMMA PrepareNextScanPathBusy ==
  ASSUME NEW w \in State PROVE Busy(w, PrepareNextScanPath(w))
<1> DEFINE v == ClearDoneRegisters(ClearCacheForPathSwitch(w))
<1>1. v \in State /\ Busy(w, v)
  BY ClearDoneRegistersType, ClearCacheType, ClearDoneRegistersBusy, ClearCacheBusy, BusyTrans
<1>2. PrepareNextScanPath(w) = [v EXCEPT !.path = NextEnabledPath(w.path)]
  BY DEF PrepareNextScanPath
<1> HIDE DEF v
<1> QED
  BY <1>1, <1>2, PrepareNextScanPathType DEF Busy, Alike, Link, State

LEMMA ApplyPlcScanPathIdBusy ==
  ASSUME NEW w \in State, NEW b, NEW c, NEW d
  PROVE  Busy(w, ApplyPlcScanPathId(w, b, c, d))
<1> DEFINE v == ClearDoneRegisters(ClearCacheForPathSwitch(w))
           a == ApplyPlcScanPathId(w, b, c, d)
<1>1. v \in State /\ Busy(w, v)
  BY ClearDoneRegistersType, ClearCacheType, ClearDoneRegistersBusy, ClearCacheBusy, BusyTrans
<1>2. a = w \/ a = [v EXCEPT !.path = b.path]
  BY DEF ApplyPlcScanPathId
<1>3. a \in State
  BY ApplyPlcScanPathIdType
<1> HIDE DEF v, a
<1>4. Busy(w, a)
  BY <1>1, <1>2, <1>3 DEF Busy, Alike, Link, State
<1> QED
  BY <1>4 DEF a

LEMMA ForgetWorkpieceAlike ==
  ASSUME NEW w \in State PROVE Alike(w, ForgetWorkpiece(w)) /\ ForgetWorkpiece(w).clock = w.clock
<1>1. /\ ForgetWorkpiece(w).task = w.task /\ ForgetWorkpiece(w).clock = w.clock
      /\ Link(w, ForgetWorkpiece(w))
  BY DEF ForgetWorkpiece, ResetScanSegmentCache, ClearTransientWorkpieceState, Link, State
<1> QED
  BY <1>1, ForgetWorkpieceType DEF Alike

LEMMA ApplyPolicyAlike ==
  ASSUME NEW w \in State
  PROVE  Alike(w, ApplyScanFailurePolicy(w)) /\ Alike(w, ApplyInspectionTimeoutPolicy(w))
<1>1. /\ ApplyScanFailurePolicy(w) \in State
      /\ ApplyInspectionTimeoutPolicy(w) \in State
  BY ApplyPolicyType
<1>2. Alike(w, ApplyScanFailurePolicy(w))
  <2> DEFINE c == [w EXCEPT !.cache[DeviceOf(w.task.trig)] = {e \in @ : e.seg # w.task.seg}]
  <2>1. Core(c) = Core(w)
    BY DEF Core, State
  <2>2. ApplyScanFailurePolicy(w) \in {ForgetWorkpiece(w), ClearCacheForPathSwitch(w), c}
    BY DEF ApplyScanFailurePolicy
  <2> HIDE DEF c
  <2> QED
    BY <1>1, <2>1, <2>2, ForgetWorkpieceAlike, ClearCacheBusy, CoreBusy DEF Busy
<1>3. Alike(w, ApplyInspectionTimeoutPolicy(w))
  BY <1>1, ForgetWorkpieceAlike
  DEF ApplyInspectionTimeoutPolicy, ClearCacheForPathSwitch, Alike, Link, State
<1> QED
  BY <1>2, <1>3

LEMMA StoreSegmentBusy ==
  ASSUME NEW w \in State, NEW d \in Device PROVE Busy(w, StoreSegment(w, d))
<1>1. Core(StoreSegment(w, d)) = Core(w)
  BY DEF StoreSegment, Core, State
<1> QED
  BY <1>1, StoreSegmentType, CoreBusy

LEMMA WriteScanResultBusy ==
  ASSUME NEW w \in State PROVE Busy(w, WriteScanResult(w))
<1>1. Core(WriteScanResult(w)) = Core(w)
  BY DEF WriteScanResult, Core, State
<1> QED
  BY <1>1, WriteScanResultType, CoreBusy

LEMMA RequestCaptureBundleBusy ==
  ASSUME NEW w \in State, NEW dev, NEW owner \in Nat
  PROVE  Busy(w, RequestCaptureBundle(w, dev, owner))
<1>1. Core(RequestCaptureBundle(w, dev, owner)) = Core(w)
  BY DEF RequestCaptureBundle, Core, State
<1> QED
  BY <1>1, RequestCaptureBundleType, CoreBusy

LEMMA ClearActiveTaskLink ==
  ASSUME NEW w \in State
  PROVE  /\ Link(w, ClearActiveTask(w))
         /\ ClearActiveTask(w).task = NoTask
         /\ ClearActiveTask(w).clock = w.clock
         /\ ClearActiveTask(w).gen = w.gen
BY DEF ClearActiveTask, Link, State

LEMMA ReleaseLink ==
  ASSUME NEW w \in State, Active(w)
  PROVE  /\ Release(w) \in State /\ Link(w, Release(w)) /\ Release(w).task = NoTask
<1> DEFINE c == ClearActiveTask(w)
<1>1. c \in State /\ Link(w, c) /\ c.task = NoTask
  BY ClearActiveTaskType, ClearActiveTaskLink
<1>2. \E a, r, d : Release(w) = [c EXCEPT !.ack = a, !.res = r, !.mode = "ready", !.done = d]
  BY DEF Release
<1> HIDE DEF c
<1> QED
  BY <1>1, <1>2, ReleaseType DEF Link, State

\* A finished task is dropped if its trigger is low, or by force, else kept.
LEMMA FinalizeEnds ==
  ASSUME NEW w \in State, NEW b, NEW force \in BOOLEAN
  PROVE  /\ Finalize(w, b, force) \in State
         /\ Link(w, Finalize(w, b, force))
         /\ IF Announced(w) /\ (force \/ (~b.empty /\ w.task.trig \notin b.trig))
            THEN Finalize(w, b, force).task = NoTask
            ELSE Finalize(w, b, force) = w
<1>1. CASE ~(Announced(w) /\ (force \/ (~b.empty /\ w.task.trig \notin b.trig)))
  <2>0. ~Announced(w) \/ (~force /\ (b.empty \/ w.task.trig \in b.trig))
    BY <1>1
  <2>1. Finalize(w, b, force) = w
    BY <2>0 DEF Finalize
  <2> QED
    BY <1>1, <2>1 DEF Link
<1>2. CASE Announced(w) /\ (force \/ (~b.empty /\ w.task.trig \notin b.trig))
  <2> DEFINE v == [Release(w) EXCEPT !.advance = FALSE]
  <2>1. Release(w) \in State /\ Link(w, Release(w)) /\ Release(w).task = NoTask
    BY <1>2, ReleaseLink DEF Announced
  <2>2. v \in State /\ Link(w, v) /\ v.task = NoTask
    BY <2>1 DEF Link, State
  <2>3. Busy(v, PrepareNextScanPath(v))
    BY <2>2, PrepareNextScanPathBusy
  <2>4. PrepareNextScanPath(v).task = v.task
    BY <2>2 DEF PrepareNextScanPath, ClearDoneRegisters, ClearCacheForPathSwitch, State
  <2>5. Finalize(w, b, force) = PrepareNextScanPath(v) \/ Finalize(w, b, force) = Release(w)
    BY <1>2 DEF Finalize
  <2> HIDE DEF v
  <2> QED
    BY <1>2, <2>1, <2>2, <2>3, <2>4, <2>5, FinalizeType DEF Busy, Alike, Link
<1> QED
  BY <1>1, <1>2

LEMMA NoTaskFields ==
  NoTask.trig = NoTrigger /\ ~NoTask.announced /\ NoTask.gen = 0
BY DEF NoTask

\* completeActiveTask(): the answer is there, or the trigger has been released.
LEMMA CompleteActiveTaskEnds ==
  ASSUME NEW w, Fit(w), Active(w), NEW result \in ResultCode, NEW ackState \in AckState
  PROVE  Ends(w, CompleteActiveTask(w, result, ackState))
<1> DEFINE a == Announce(w, result, ackState)
           f == Finalize(a, w.last, FALSE)
<1>1. w \in State /\ ~w.last.empty
  BY DEF Fit
<1>2. a \in State
  BY <1>1, AnnounceType
<1>3. Link(w, a) /\ a.task.trig = w.task.trig /\ a.task.announced
  BY <1>1 DEF Announce, Link, State, Task
<1>4. Announced(a)
  BY <1>3 DEF Announced, Active
<1>5. CASE w.up
  <2>1. CompleteActiveTask(w, result, ackState) = f
    BY <1>5 DEF CompleteActiveTask
  <2> HIDE DEF a
  <2>2. /\ f \in State /\ Link(a, f)
        /\ IF a.task.trig \notin w.last.trig THEN f.task = NoTask ELSE f = a
    BY <1>1, <1>2, <1>4, FinalizeEnds
  <2> HIDE DEF f
  <2> QED
    BY <1>3, <1>5, <2>1, <2>2, NoTaskFields DEF Ends, Link
<1>6. CASE ~w.up
  <2> DEFINE v == [w EXCEPT !.mode = "fault", !.clock = FALSE]
  <2>1. v \in State /\ Link(w, v)
    BY <1>1 DEF State, Link
  <2>2. CompleteActiveTask(w, result, ackState) = ClearActiveTask(v)
    BY <1>6 DEF CompleteActiveTask, CompletionWriteFault
  <2> HIDE DEF v
  <2> QED
    BY <1>6, <2>1, <2>2, ClearActiveTaskType, ClearActiveTaskLink, NoTaskFields DEF Ends, Link
<1> QED
  BY <1>5, <1>6

LEMMA CodeTypes ==
  /\ \A n \in 0..9 : n \in ResultCode
  /\ "idle" \in AckState /\ "running" \in AckState
  /\ "completed" \in AckState /\ "failed" \in AckState
BY DEF ResultCode, AckState

LEMMA CompleteScanSegmentEnds ==
  ASSUME NEW w, Fit(w), Active(w), NEW result \in ResultCode, NEW ackState \in AckState
  PROVE  Ends(w, CompleteScanSegment(w, result, ackState))
<1> DEFINE u == IF result >= 5 THEN ApplyScanFailurePolicy(w) ELSE w
           v == WriteScanResult(u)
<1>1. w \in State
  BY DEF Fit
<1>2. Alike(w, u)
  BY <1>1, ApplyPolicyAlike DEF Alike, Link
<1>3. u \in State
  BY <1>2 DEF Alike
<1> HIDE DEF u
<1>4. Alike(u, v)
  BY <1>3, WriteScanResultBusy DEF Busy
<1>5. Fit(v) /\ Active(v)
  BY <1>2, <1>4, AlikeTrans DEF Alike, Active
<1> HIDE DEF v
<1>6. Ends(v, CompleteActiveTask(v, result, ackState))
  BY <1>5, CompleteActiveTaskEnds
<1>7. Ends(w, CompleteActiveTask(v, result, ackState))
  BY <1>2, <1>4, <1>6, AlikeTrans
<1> QED
  BY <1>7 DEF CompleteScanSegment, u, v

LEMMA ReadBusy ==
  ASSUME NEW w \in State, NEW r \in {"none", "wait", "soft"}
  PROVE  Busy(w, [w EXCEPT !.read = r])
<1>1. [w EXCEPT !.read = r] \in State
  BY DEF State
<1>2. Core([w EXCEPT !.read = r]) = Core(w)
  BY DEF Core, State
<1> QED
  BY <1>1, <1>2, CoreBusy

LEMMA ReadCodeBusy ==
  ASSUME NEW w \in State, NEW r \in {"none", "wait", "soft"}, NEW c \in Nat
  PROVE  /\ Busy(w, [w EXCEPT !.read = r, !.code = c])
         /\ Busy(w, [w EXCEPT !.read = r, !.readGen = c])
<1>1. /\ [w EXCEPT !.read = r, !.code = c] \in State
      /\ [w EXCEPT !.read = r, !.readGen = c] \in State
  BY DEF State
<1>2. /\ Core([w EXCEPT !.read = r, !.code = c]) = Core(w)
      /\ Core([w EXCEPT !.read = r, !.readGen = c]) = Core(w)
  BY DEF Core, State
<1> QED
  BY <1>1, <1>2, CoreBusy

LEMMA FinishInspectionEnds ==
  ASSUME NEW w, Fit(w), Active(w), w.task.gen = w.gen, NEW result \in ResultCode
  PROVE  Ends(w, FinishInspection(w, result))
<1> DEFINE r == IF w.read = "wait" THEN "none" ELSE w.read
           v == [w EXCEPT !.read = r]
           a == IF result <= 2 THEN "completed" ELSE "failed"
           c == CompleteActiveTask(v, result, a)
<1>1. w \in State /\ r \in {"none", "wait", "soft"}
  BY DEF Fit, State
<1> HIDE DEF r
<1>2. Alike(w, v)
  BY <1>1, ReadBusy DEF Busy
<1>3. Fit(v) /\ Active(v)
  BY <1>2, AlikeTrans DEF Alike, Active
<1>4. a \in AckState
  BY CodeTypes
<1> HIDE DEF a, v
<1>5. Ends(w, c) /\ c \in State
  BY <1>2, <1>3, <1>4, CompleteActiveTaskEnds, AlikeTrans DEF Ends
<1> HIDE DEF c
<1>6. Ends(w, PrepareNextScanPath(c))
  BY <1>5, PrepareNextScanPathBusy, EndsAlike DEF Busy
<1>7. FinishInspection(w, result) = IF result = 1 THEN PrepareNextScanPath(c) ELSE c
  BY DEF FinishInspection, c, v, a, r
<1> QED
  BY <1>5, <1>6, <1>7

LEMMA AbortActiveTaskForFaultEnds ==
  ASSUME NEW w, Fit(w)
  PROVE  IF Active(w) THEN Ends(w, AbortActiveTaskForFault(w))
         ELSE AbortActiveTaskForFault(w) = [w EXCEPT !.clock = FALSE]
<1> DEFINE u == IF w.task.announced THEN w ELSE ApplyScanFailurePolicy(w)
           v == IF w.task.trig \in ScanStage THEN WriteScanResult(u) ELSE w
           x == [v EXCEPT !.clock = FALSE]
<1>1. CASE ~Active(w)
  BY <1>1 DEF AbortActiveTaskForFault
<1>2. CASE Active(w)
  <2>0. AbortActiveTaskForFault(w) = IF v.up THEN CompleteActiveTask(v, 7, "failed")
                                      ELSE ClearActiveTask(x)
    BY <1>2 DEF AbortActiveTaskForFault
  <2>10. 7 \in ResultCode /\ "failed" \in AckState
    BY DEF ResultCode, AckState
  <2>1. w \in State
    BY DEF Fit
  <2>2. Alike(w, u)
    BY <2>1, ApplyPolicyAlike DEF Alike, Link
  <2> HIDE DEF u
  <2>3. Alike(u, WriteScanResult(u)) /\ Alike(w, w)
    BY <2>1, <2>2, WriteScanResultBusy DEF Busy, Alike, Link
  <2>4. Alike(w, v)
    BY <2>2, <2>3, AlikeTrans
  <2> HIDE DEF v
  <2>5. Fit(v) /\ Active(v) /\ v \in State
    BY <1>2, <2>4, AlikeTrans DEF Alike, Active
  <2>6. Ends(w, CompleteActiveTask(v, 7, "failed"))
    BY <2>4, <2>5, <2>10, CompleteActiveTaskEnds, AlikeTrans
  <2>7. x \in State /\ Link(v, x)
    BY <2>5 DEF State, Link
  <2> HIDE DEF x
  <2>8. CASE v.up
    BY <1>2, <2>0, <2>6, <2>8
  <2>9. CASE ~v.up
    <3>1. /\ ClearActiveTask(x) \in State /\ Link(x, ClearActiveTask(x))
          /\ ClearActiveTask(x).task = NoTask
      BY <2>7, ClearActiveTaskType, ClearActiveTaskLink
    <3>2. Ends(w, ClearActiveTask(x))
      BY <2>4, <2>7, <2>9, <3>1, NoTaskFields DEF Ends, Alike, Link
    <3> QED
      BY <1>2, <2>0, <2>9, <3>2
  <2> QED
    BY <1>2, <2>8, <2>9
<1> QED
  BY <1>1, <1>2

\* A fault that notifies the PLC ends the task; one that does not drops it.
LEMMA EnterFaultStateEnds ==
  ASSUME NEW w, Fit(w), NEW notifyPlc \in BOOLEAN
  PROVE  LET v == EnterFaultState(w, notifyPlc)
         IN /\ v \in State /\ Link(w, v)
            /\ IF notifyPlc /\ Active(w) THEN Ends(w, v)
               ELSE v.task.trig = NoTrigger /\ ~v.task.announced
<1> DEFINE f == [w EXCEPT !.mode = "fault"]
           a == AbortActiveTaskForFault(f)
<1>1. w \in State
  BY DEF Fit
<1>2. f \in State /\ Alike(w, f)
  BY <1>1 DEF State, Alike, Link
<1>3. Fit(f) /\ (Active(f) <=> Active(w))
  BY <1>2, AlikeTrans DEF Alike, Active
<1> HIDE DEF f
<1>4. IF Active(w) THEN Ends(w, a) ELSE Alike(w, a)
  <2>1. CASE Active(w)
    BY <1>2, <1>3, <2>1, AbortActiveTaskForFaultEnds, AlikeTrans
  <2>2. CASE ~Active(w)
    <3>1. [f EXCEPT !.clock = FALSE] \in State /\ Alike(f, [f EXCEPT !.clock = FALSE])
      BY <1>2 DEF State, Alike, Link
    <3>2. a = [f EXCEPT !.clock = FALSE]
      BY <1>3, <2>2, AbortActiveTaskForFaultEnds
    <3> QED
      BY <1>2, <2>2, <3>1, <3>2, AlikeTrans
  <2> QED
    BY <2>1, <2>2
<1>5. a \in State /\ Link(w, a)
  BY <1>4 DEF Ends, Alike
<1> HIDE DEF a
<1>6. /\ ClearActiveTask(a) \in State /\ Link(w, ClearActiveTask(a))
      /\ ClearActiveTask(a).task = NoTask
  BY <1>5, ClearActiveTaskType, ClearActiveTaskLink DEF Link
<1>7. EnterFaultState(w, notifyPlc) = IF notifyPlc THEN a ELSE ClearActiveTask(a)
  BY DEF EnterFaultState, a, f
<1>8. ~Active(w) => a.task.trig = NoTrigger /\ ~a.task.announced
  BY <1>4 DEF Alike, Active, Fit
<1> QED
  BY <1>4, <1>5, <1>6, <1>7, <1>8, NoTaskFields

LEMMA StampTypes ==
  ASSUME NEW w \in State, NEW t \in Trigger \cap ScanStage
  PROVE  /\ [gen |-> w.gen, id |-> w.task.id] \in Stamp
         /\ [gen |-> w.gen, trig |-> t, id |-> w.task.id] \in Watchdog
BY DEF Stamp, Watchdog, State, Task

LEMMA FinishCodeScanEnds ==
  ASSUME NEW w, Fit(w), Active(w), w.task.trig \in ScanStage, NEW ok \in BOOLEAN
  PROVE  Ends(w, FinishCodeScan(w, ok))
<1> DEFINE stored == StoreSegment(w, DeviceOf(w.task.trig))
           marked == [stored EXCEPT !.advance = @ \/ QuotaMet(stored)]
           c == IF ok THEN CompleteScanSegment(marked, 1, "completed")
                      ELSE CompleteScanSegment(w, 7, "failed")
           dog == [gen |-> c.gen, trig |-> w.task.trig, id |-> w.task.id]
           watched == [c EXCEPT !.dogs = @ \cup {dog}]
<1>1. w \in State /\ w.task.trig \in Trigger
  BY DEF Fit, Active, State, Task
<1>2. stored \in State /\ Alike(w, stored)
  BY <1>1, DeviceOfType, StoreSegmentType, StoreSegmentBusy DEF Busy
<1> HIDE DEF stored
<1>3. \E a \in BOOLEAN : marked = [stored EXCEPT !.advance = a]
  <2>1. (stored.advance \/ QuotaMet(stored)) \in BOOLEAN
    OBVIOUS
  <2> QED
    BY <2>1
<1>4. marked \in State /\ Alike(stored, marked)
  BY <1>2, <1>3 DEF State, Alike, Link
<1> HIDE DEF marked
<1>5. Fit(marked) /\ Active(marked) /\ Alike(w, marked)
  BY <1>2, <1>4, AlikeTrans DEF Alike, Active
<1>6. 1 \in ResultCode /\ 7 \in ResultCode
  BY DEF ResultCode
<1>7. Ends(marked, CompleteScanSegment(marked, 1, "completed"))
  BY <1>5, <1>6, CodeTypes, CompleteScanSegmentEnds
<1>8. Ends(w, CompleteScanSegment(w, 7, "failed"))
  BY <1>6, CodeTypes, CompleteScanSegmentEnds
<1>9. Ends(w, c) /\ c \in State
  <2>1. Ends(w, CompleteScanSegment(marked, 1, "completed"))
    BY <1>5, <1>7, AlikeTrans
  <2>2. Ends(w, c)
    BY <1>8, <2>1
  <2> QED
    BY <2>2 DEF Ends
<1> HIDE DEF c
<1>10. dog \in Watchdog
  BY <1>1, <1>9 DEF Watchdog, State, Task
<1> HIDE DEF dog
<1>11. watched \in State /\ Alike(c, watched)
  BY <1>9, <1>10 DEF State, Alike, Link
<1> HIDE DEF watched
<1>12. Ends(w, watched)
  BY <1>9, <1>11, EndsAlike
<1>13. FinishCodeScan(w, ok) = IF Announced(c) THEN watched ELSE c
  BY DEF FinishCodeScan, watched, dog, c, marked, stored
<1> QED
  BY <1>9, <1>12, <1>13

LEMMA FinishCodeReadEnds ==
  ASSUME NEW w, Fit(w), Running(w) => w.task.gen = w.gen,
         NEW result \in {1, 2}, NEW text \in Nat
  PROVE  IF Running(w) THEN Ends(w, FinishCodeRead(w, result, text))
                       ELSE Busy(w, FinishCodeRead(w, result, text))
<1> DEFINE r == IF result = 1 /\ w.read = "soft" THEN "soft" ELSE "none"
           code == IF w.up /\ text # 0 THEN text ELSE w.code
           v == [w EXCEPT !.read = r, !.code = code]
           a == IF result = 1 THEN "completed" ELSE "failed"
           c == CompleteActiveTask(v, result, a)
           q == IF w.read = "wait" THEN "none" ELSE w.read
           n == [w EXCEPT !.read = q]
<1>1. /\ w \in State /\ result \in ResultCode /\ a \in AckState /\ code \in Nat
      /\ r \in {"none", "wait", "soft"} /\ q \in {"none", "wait", "soft"}
  BY DEF Fit, State, ResultCode, AckState
<1>2. FinishCodeRead(w, result, text) =
        IF ~Running(w) THEN n
        ELSE IF w.task.trig \in ScanStage THEN FinishCodeScan(v, result = 1)
        ELSE IF w.task.trig # "CodeRead" THEN FinishInspection(v, result)
        ELSE IF result = 1 THEN PrepareNextScanPath(c) ELSE c
  BY DEF FinishCodeRead
<1> HIDE DEF r, code, a, q
<1>3. Busy(w, v) /\ Busy(w, n)
  BY <1>1, ReadBusy, ReadCodeBusy
<1> HIDE DEF v, n
<1>4. ASSUME Running(w)
      PROVE  Ends(w, FinishCodeRead(w, result, text))
  <2>1. /\ Fit(v) /\ Active(v) /\ v.task.gen = v.gen /\ Alike(w, v)
        /\ v.task.trig = w.task.trig
    BY <1>3, <1>4, AlikeTrans DEF Busy, Alike, Active, Running
  <2>2. Ends(v, c) /\ c \in State
    BY <1>1, <2>1, CompleteActiveTaskEnds DEF Ends
  <2> HIDE DEF c
  <2>3. Ends(v, PrepareNextScanPath(c))
    BY <2>2, PrepareNextScanPathBusy, EndsAlike DEF Busy
  <2>4. Ends(v, FinishInspection(v, result))
    BY <1>1, <2>1, FinishInspectionEnds
  <2>5. w.task.trig \in ScanStage => Ends(v, FinishCodeScan(v, result = 1))
    BY <2>1, FinishCodeScanEnds
  <2> QED
    BY <1>2, <1>4, <2>1, <2>2, <2>3, <2>4, <2>5, AlikeTrans
<1> QED
  BY <1>2, <1>3, <1>4

--------------------------------------------------------------------------------
\* The handlers of the triggers: a task is in progress afterwards, or has ended.

Serves(w, v) == Busy(w, v) \/ Ends(w, v)

\* What a handler is called with.
Live(w) == Fit(w) /\ Running(w) /\ w.task.gen = w.gen

LEMMA LiveFacts ==
  ASSUME NEW w, Live(w)
  PROVE  w \in State /\ Fit(w) /\ Active(w) /\ w.task.gen = w.gen /\ w.task.id \in Nat
BY DEF Live, Fit, Running, State, Task

LEMMA ServesTrans ==
  ASSUME NEW w, NEW v, NEW u, Live(w), Busy(w, v)
  PROVE  Live(v) /\ (Serves(v, u) => Serves(w, u)) /\ (Ends(v, u) => Ends(w, u))
BY AlikeTrans, BusyTrans DEF Live, Serves, Busy, Alike, Fit, Running, Active

LEMMA StartCodeReadCaptureServes ==
  ASSUME NEW w, Live(w), NEW dev PROVE Serves(w, StartCodeReadCapture(w, dev))
<1> DEFINE scan == w.task.trig \in ScanStage \/ w.path \in CodePath
           mine == [gen |-> w.gen, id |-> w.task.id]
           r == IF scan THEN "soft" ELSE "wait"
           task == [w.task EXCEPT !.path = w.path]
           v == [w EXCEPT !.read = r, !.readGen = w.gen, !.ocr = w.ocr \cup {mine}, !.task = task]
           f == [v EXCEPT !.fafs = v.fafs \cup {mine}]
           u == [w EXCEPT !.read = "none", !.readGen = 0]
<1>1. w \in State /\ Fit(w) /\ Running(w) /\ w.task.gen = w.gen
  BY LiveFacts DEF Live
<1>2. mine \in Stamp /\ r \in {"none", "wait", "soft"}
  BY <1>1 DEF Stamp, State, Task
<1>3. /\ task \in Task /\ task.gen = w.task.gen
      /\ task.trig = w.task.trig /\ task.announced = w.task.announced
  BY <1>1, PathAssumption DEF State, Task
<1> HIDE DEF mine, r, task, scan
<1>4. v \in State /\ Busy(w, v)
  BY <1>1, <1>2, <1>3 DEF State, Busy, Alike, Link
<1> HIDE DEF v
<1>5. f \in State /\ Busy(v, f)
  BY <1>2, <1>4 DEF State, Busy, Alike, Link
<1>6. Busy(w, u)
  BY <1>1, ReadCodeBusy
<1> HIDE DEF f, u
<1>7. Ends(w, FinishCodeRead(w, 2, 0))
  BY <1>1, FinishCodeReadEnds
<1>8. Fit(u) /\ Running(u) /\ u.task.gen = u.gen
  BY <1>1, <1>6, ServesTrans DEF Live
<1>9. Ends(w, FinishCodeRead(u, 2, 0))
  BY <1>6, <1>8, FinishCodeReadEnds, ServesTrans
<1>10. StartCodeReadCapture(w, dev) \in
         {FinishCodeRead(w, 2, 0), FinishCodeRead(u, 2, 0), f, v}
  BY DEF StartCodeReadCapture, f, v, u, task, mine, r, scan
<1> QED
  BY <1>4, <1>5, <1>7, <1>9, <1>10, BusyTrans DEF Serves

LEMMA MaybeAdvanceBusy ==
  ASSUME NEW w \in State PROVE Busy(w, MaybeAdvancePathOnNewCycleStart(w))
BY PrepareNextScanPathBusy DEF MaybeAdvancePathOnNewCycleStart, Busy, Alike, Link

LEMMA ScanCaptureServes ==
  ASSUME NEW w, Live(w), NEW dev PROVE Serves(w, ScanCapture(w, dev))
<1> DEFINE v == MaybeAdvancePathOnNewCycleStart(w)
           a == RequestCaptureBundle(v, dev, w.task.id)
           task == [[a.task EXCEPT !.rid = v.nextReq] EXCEPT !.path = v.path]
           g == [a EXCEPT !.task = task]
<1>1. w \in State /\ w.task.id \in Nat /\ Live(w)
  BY LiveFacts
<1>2. Busy(w, v) /\ v \in State
  BY <1>1, MaybeAdvanceBusy DEF Busy, Alike
<1>3. ScanCapture(w, dev) \in
        {CompleteScanSegment(v, 5, "failed"), StartCodeReadCapture(v, dev),
         CompleteScanSegment(v, 7, "failed"), g, CompleteScanSegment(a, 7, "failed")}
  BY <1>1, <1>2 DEF ScanCapture
<1> HIDE DEF v
<1>4. Busy(v, a) /\ a \in State
  BY <1>1, <1>2, RequestCaptureBundleBusy DEF Busy, Alike
<1> HIDE DEF a
<1>5. /\ task \in Task /\ task.gen = a.task.gen
      /\ task.trig = a.task.trig /\ task.announced = a.task.announced
  BY <1>2, <1>4, PathAssumption DEF State, Task
<1> HIDE DEF task
<1>6. g \in State /\ Busy(a, g)
  BY <1>4, <1>5 DEF State, Busy, Alike, Link
<1> HIDE DEF g
<1>7. Live(v) /\ Live(a) /\ Busy(w, a) /\ Busy(w, g)
  BY <1>1, <1>2, <1>4, <1>6, ServesTrans, BusyTrans
<1>8. 5 \in ResultCode /\ 7 \in ResultCode
  BY DEF ResultCode
<1>9. /\ Ends(v, CompleteScanSegment(v, 5, "failed"))
      /\ Ends(v, CompleteScanSegment(v, 7, "failed"))
      /\ Ends(a, CompleteScanSegment(a, 7, "failed"))
  BY <1>7, <1>8, LiveFacts, CodeTypes, CompleteScanSegmentEnds
<1>10. /\ Ends(w, CompleteScanSegment(v, 5, "failed"))
       /\ Ends(w, CompleteScanSegment(v, 7, "failed"))
       /\ Ends(w, CompleteScanSegment(a, 7, "failed"))
  BY <1>1, <1>2, <1>7, <1>9, ServesTrans
<1>11. Serves(w, StartCodeReadCapture(v, dev))
  BY <1>1, <1>2, <1>7, StartCodeReadCaptureServes, ServesTrans
<1> QED
  BY <1>3, <1>7, <1>10, <1>11 DEF Serves

LEMMA SelfCheckCaptureServes ==
  ASSUME NEW w, Live(w), NEW dev PROVE Serves(w, SelfCheckCapture(w, dev))
<1> DEFINE a == RequestCaptureBundle(w, dev, w.task.id)
           task == [a.task EXCEPT !.rid = w.nextReq]
           g == [a EXCEPT !.task = task]
<1>1. w \in State /\ w.task.id \in Nat /\ Live(w)
  BY LiveFacts
<1>2. SelfCheckCapture(w, dev) \in
        {CompleteActiveTask(w, 2, "failed"), g, CompleteActiveTask(a, 2, "failed")}
  BY DEF SelfCheckCapture
<1>3. Busy(w, a) /\ a \in State
  BY <1>1, RequestCaptureBundleBusy DEF Busy, Alike
<1> HIDE DEF a
<1>4. /\ task \in Task /\ task.gen = a.task.gen
      /\ task.trig = a.task.trig /\ task.announced = a.task.announced
  BY <1>1, <1>3 DEF State, Task
<1> HIDE DEF task
<1>5. g \in State /\ Busy(a, g)
  BY <1>3, <1>4 DEF State, Busy, Alike, Link
<1> HIDE DEF g
<1>6. Live(a) /\ Busy(w, g)
  BY <1>1, <1>3, <1>5, ServesTrans, BusyTrans
<1>7. 2 \in ResultCode
  BY DEF ResultCode
<1>8. /\ Ends(w, CompleteActiveTask(w, 2, "failed"))
      /\ Ends(a, CompleteActiveTask(a, 2, "failed"))
  BY <1>1, <1>6, <1>7, LiveFacts, CodeTypes, CompleteActiveTaskEnds
<1>9. Ends(w, CompleteActiveTask(a, 2, "failed"))
  BY <1>1, <1>3, <1>8, ServesTrans
<1> QED
  BY <1>2, <1>6, <1>8, <1>9 DEF Serves

LEMMA ReleaseInspectionEnds ==
  ASSUME NEW w, Live(w), NEW verdict \in {1, 2}
  PROVE  Ends(w, ReleaseInspection(w, verdict))
<1> DEFINE c == CompleteActiveTask(w, 1, "completed")
<1>1. \A n \in {1, 2, 3} : n \in ResultCode
  BY DEF ResultCode
<1>2. Ends(w, c) /\ c \in State
  BY <1>1, LiveFacts, CodeTypes, CompleteActiveTaskEnds DEF Ends
<1>3. ReleaseInspection(w, verdict) \in
        {PrepareNextScanPath(c), FinishInspection(w, 3), FinishInspection(w, verdict)}
  BY DEF ReleaseInspection
<1> HIDE DEF c
<1>4. Ends(w, PrepareNextScanPath(c))
  BY <1>2, PrepareNextScanPathBusy, EndsAlike DEF Busy
<1>5. Ends(w, FinishInspection(w, 3)) /\ Ends(w, FinishInspection(w, verdict))
  BY <1>1, LiveFacts, FinishInspectionEnds
<1> QED
  BY <1>3, <1>4, <1>5

LEMMA ExecuteResultResetEnds ==
  ASSUME NEW w, Live(w) PROVE Ends(w, ExecuteResultReset(w))
<1> DEFINE u == [w EXCEPT !.person = FALSE]
           v == ClearDoneRegisters(ForgetWorkpiece(u))
           veto == IF w.up THEN FALSE ELSE v.veto
           x == [v EXCEPT !.veto = veto]
<1>1. w \in State /\ Fit(w) /\ Active(w)
  BY LiveFacts
<1>2. u \in State /\ Alike(w, u)
  BY <1>1 DEF State, Alike, Link
<1> HIDE DEF u
<1>3. v \in State /\ Alike(w, v)
  BY <1>2, ForgetWorkpieceAlike, ForgetWorkpieceType, ClearDoneRegistersBusy, AlikeTrans
  DEF Busy, Alike
<1> HIDE DEF v
<1>0. veto \in BOOLEAN
  BY <1>3 DEF State
<1> HIDE DEF veto
<1>4. x \in State /\ Alike(v, x)
  BY <1>0, <1>3 DEF State, Alike, Link
<1> HIDE DEF x
<1>5. Alike(w, x) /\ Fit(x) /\ Active(x)
  BY <1>1, <1>3, <1>4, AlikeTrans DEF Alike, Active
<1>6. 1 \in ResultCode
  BY DEF ResultCode
<1>7. Ends(x, CompleteActiveTask(x, 1, "completed"))
  BY <1>5, <1>6, CodeTypes, CompleteActiveTaskEnds
<1>8. Ends(w, CompleteActiveTask(x, 1, "completed"))
  BY <1>5, <1>7, AlikeTrans
<1> QED
  BY <1>8 DEF ExecuteResultReset, x, veto, v, u

LEMMA ExecuteActiveTaskServes ==
  ASSUME NEW w, Live(w), NEW in \in FrameInput PROVE Serves(w, ExecuteActiveTask(w, in))
<1>1. \A n \in {1, 5, 7} : n \in ResultCode
  BY DEF ResultCode
<1>2. /\ Ends(w, CompleteActiveTask(w, 1, "completed"))
      /\ Ends(w, CompleteActiveTask(w, 5, "failed"))
      /\ Ends(w, CompleteActiveTask(w, 7, "failed"))
  BY <1>1, LiveFacts, CodeTypes, CompleteActiveTaskEnds
<1>3. in.verdict \in {1, 2}
  BY DEF FrameInput
<1>4. ExecuteActiveTask(w, in) \in
        {ScanCapture(w, in.dev), StartCodeReadCapture(w, in.dev),
         ReleaseInspection(w, in.verdict), SelfCheckCapture(w, in.dev),
         ExecuteResultReset(w), CompleteActiveTask(w, 1, "completed"),
         CompleteActiveTask(w, 5, "failed"), CompleteActiveTask(w, 7, "failed")}
  BY DEF ExecuteActiveTask
<1> QED
  BY <1>2, <1>3, <1>4, ScanCaptureServes, StartCodeReadCaptureServes,
     ReleaseInspectionEnds, SelfCheckCaptureServes, ExecuteResultResetEnds DEF Serves

--------------------------------------------------------------------------------
\* The inductive invariant, as a predicate on the state machine.

Good(w) ==
  /\ Fit(w)
  /\ Announced(w) => w.task.trig \in w.last.trig
  /\ Running(w) => w.clock /\ w.task.gen = w.gen
  /\ Active(w) => w.up /\ w.wired /\ ~w.stopped
  /\ w.latch \subseteq w.last.trig
  /\ w.block # NoTrigger => w.block \in w.last.trig

LEMMA EndsGood ==
  ASSUME NEW w, Good(w), NEW v, Ends(w, v) PROVE Active(w) => Good(v)
BY DEF Good, Fit, Ends, Link, Active, Announced, Running

LEMMA BusyGood ==
  ASSUME NEW w, Good(w), NEW v, Busy(w, v) PROVE Good(v)
BY DEF Good, Fit, Busy, Alike, Link, Active, Announced, Running

\* A task that has been dropped leaves nothing to check but the latches.
LEMMA IdleGood ==
  ASSUME NEW v \in State, v.task.trig = NoTrigger, ~v.task.announced,
         v.latch \subseteq v.last.trig, v.block # NoTrigger => v.block \in v.last.trig
  PROVE  Good(v)
BY DEF Good, Fit, Active, Announced, Running

LEMMA RankMinimum ==
  ASSUME NEW P \in SUBSET Trigger, P # {}
  PROVE  SelectPendingTrigger(P) \in P
<1>1. P \subseteq AllTriggers
  BY TriggerAssumption
<1>2. /\ Rank["TelescopicScan"] = 1 /\ Rank["LoadGrasp"] = 2
      /\ Rank["StationMaterialCheck"] = 3 /\ Rank["PoseCheck"] = 4
      /\ Rank["ScanSegment"] = 5 /\ Rank["Inspection"] = 6 /\ Rank["UnloadCalc"] = 7
      /\ Rank["SelfCheck"] = 8 /\ Rank["CodeRead"] = 9 /\ Rank["ResultReset"] = 10
  BY DEF Rank
<1>3. \A t \in P : Rank[t] \in 1..10
  BY <1>1, <1>2 DEF AllTriggers
<1> DEFINE First(t) == \A u \in P : Rank[t] <= Rank[u]
           From(n) == \A u \in P : Rank[u] >= n
<1>4. From(1)
  BY <1>3
<1>5. From(1) => From(2) \/ ("TelescopicScan" \in P /\ First("TelescopicScan"))
  BY <1>1, <1>2, <1>3 DEF AllTriggers
<1>6. From(2) => From(3) \/ ("LoadGrasp" \in P /\ First("LoadGrasp"))
  BY <1>1, <1>2, <1>3 DEF AllTriggers
<1>7. From(3) => From(4) \/ ("StationMaterialCheck" \in P /\ First("StationMaterialCheck"))
  BY <1>1, <1>2, <1>3 DEF AllTriggers
<1>8. From(4) => From(5) \/ ("PoseCheck" \in P /\ First("PoseCheck"))
  BY <1>1, <1>2, <1>3 DEF AllTriggers
<1>9. From(5) => From(6) \/ ("ScanSegment" \in P /\ First("ScanSegment"))
  BY <1>1, <1>2, <1>3 DEF AllTriggers
<1>10. From(6) => From(7) \/ ("Inspection" \in P /\ First("Inspection"))
  BY <1>1, <1>2, <1>3 DEF AllTriggers
<1>11. From(7) => From(8) \/ ("UnloadCalc" \in P /\ First("UnloadCalc"))
  BY <1>1, <1>2, <1>3 DEF AllTriggers
<1>12. From(8) => From(9) \/ ("SelfCheck" \in P /\ First("SelfCheck"))
  BY <1>1, <1>2, <1>3 DEF AllTriggers
<1>13. From(9) => From(10) \/ ("CodeRead" \in P /\ First("CodeRead"))
  BY <1>1, <1>2, <1>3 DEF AllTriggers
<1>14. From(10) => From(11) \/ ("ResultReset" \in P /\ First("ResultReset"))
  BY <1>1, <1>2, <1>3 DEF AllTriggers
<1>15. ~From(11)
  BY <1>3
<1> HIDE DEF From
<1>16. \E t \in P : First(t)
  BY <1>4, <1>5, <1>6, <1>7, <1>8, <1>9, <1>10, <1>11, <1>12, <1>13, <1>14, <1>15
<1> QED
  BY <1>16 DEF SelectPendingTrigger

LEMMA RejectGood ==
  ASSUME NEW w, Good(w), NEW t \in Trigger, NEW result \in ResultCode
  PROVE  Busy(w, Reject(w, t, result)) /\ Good(Reject(w, t, result))
<1>1. w \in State
  BY DEF Good, Fit
<1>2. /\ [w.res EXCEPT ![t] = result] \in [Trigger -> ResultCode]
      /\ [w.ack EXCEPT ![t] = "failed"] \in [Trigger -> AckState]
  BY <1>1, CodeTypes DEF State
<1>3. Reject(w, t, result) \in State
  BY <1>1, <1>2 DEF Reject, State
<1>4. Core(Reject(w, t, result)) = Core(w)
  BY <1>1 DEF Reject, Core, State
<1> QED
  BY <1>3, <1>4, CoreBusy, BusyGood

\* A trigger is refused, or becomes the task; nothing else of the handshake moves.
LEMMA ProcessTriggerGood ==
  ASSUME NEW w0, Good(w0), ~Active(w0), w0.up, w0.wired, ~w0.stopped,
         NEW b \in CommandArea, w0.last = b, NEW t \in b.trig, NEW in \in FrameInput
  PROVE  LET v == ProcessTrigger(w0, t, b, in)
         IN /\ Good(v) /\ Link(w0, v)
            /\ v.task.trig = t \/ (v.task.trig = NoTrigger /\ ~v.task.announced)
<1> DEFINE w == ApplyPlcScanPathId(w0, b, FALSE, b)
           task == [trig |-> t, seg |-> b.seg[DeviceOf(t)], tid |-> b.tid, path |-> w.path,
                    rid |-> 0, gen |-> w.gen, id |-> w.served + 1, announced |-> FALSE]
           ack == [w.ack EXCEPT ![t] = IF t \in ScanStage THEN w.ack[t] ELSE "running"]
           a == [w EXCEPT !.task = task, !.mode = "busy", !.clock = TRUE,
                          !.served = w.served + 1, !.ack = ack]
           v == ProcessTrigger(w0, t, b, in)
<1>1. w0 \in State /\ t \in Trigger /\ ~b.empty
  BY DEF Good, Fit, CommandArea, Block
<1>2. w \in State /\ Busy(w0, w) /\ Good(w) /\ ~Active(w)
  <2>1. Busy(w0, w)
    BY <1>1, ApplyPlcScanPathIdBusy
  <2> HIDE DEF w
  <2>2. Good(w)
    BY <2>1, BusyGood
  <2> QED
    BY <2>1, <2>2 DEF Busy, Alike, Active
<1>3. v \in {Reject(w, t, 8), Reject(w, t, 9), ExecuteActiveTask(a, in)}
  BY DEF ProcessTrigger
<1> HIDE DEF w
<1>4. task \in Task
  <2>1. b.seg[DeviceOf(t)] \in Nat /\ b.tid \in Nat
    BY DeviceOfType DEF CommandArea, Block
  <2>2. w.path \in Nat /\ w.gen \in Nat /\ w.served + 1 \in Nat
    BY <1>2, CounterTypes
  <2> QED
    BY <1>1, <2>1, <2>2 DEF Task
<1>5. ack \in [Trigger -> AckState] /\ w.served + 1 \in Nat
  BY <1>1, <1>2, CodeTypes DEF State
<1>6. task.trig = t /\ ~task.announced /\ task.gen = w.gen
  OBVIOUS
<1> HIDE DEF task, ack
<1>7. a \in State
  BY <1>2, <1>4, <1>5 DEF State
<1>8. Link(w, a) /\ a.task = task /\ a.clock /\ a.gen = w.gen
  BY <1>2 DEF Link, State
<1> HIDE DEF a, v
<1>9. /\ Link(w0, a) /\ Live(a) /\ Good(a) /\ Active(a)
      /\ a.task.trig = t /\ a.last = b /\ a.up
  <2>1. Link(w0, a) /\ t # NoTrigger
    BY <1>1, <1>2, <1>8, NoTriggerNotOne DEF Busy, Alike, Link
  <2> QED
    BY <1>1, <1>2, <1>6, <1>7, <1>8, <2>1
    DEF Good, Live, Fit, Active, Announced, Running, Link
<1>10. ASSUME Serves(a, v) PROVE Good(v) /\ Link(w0, v) /\ v.task.trig = t
  <2>1. Good(v)
    BY <1>9, <1>10, EndsGood, BusyGood DEF Serves
  <2> QED
    BY <1>9, <1>10, <2>1 DEF Serves, Busy, Alike, Ends, Link
<1>11. 8 \in ResultCode /\ 9 \in ResultCode
  BY DEF ResultCode
<1>12. ASSUME NEW r \in {8, 9}, v = Reject(w, t, r)
       PROVE  Good(v) /\ Link(w0, v) /\ v.task.trig = NoTrigger /\ ~v.task.announced
  <2>1. Good(v) /\ Busy(w, v)
    BY <1>1, <1>2, <1>11, <1>12, RejectGood
  <2> QED
    BY <1>2, <2>1 DEF Busy, Alike, Link, Good, Fit, Active
<1>13. Good(v) /\ Link(w0, v) /\ (v.task.trig = t \/ (v.task.trig = NoTrigger /\ ~v.task.announced))
  BY <1>3, <1>9, <1>10, <1>12, ExecuteActiveTaskServes
<1> QED
  BY <1>13 DEF v

--------------------------------------------------------------------------------
\* One command area read, in the terms of the handshake.

JobOf(w) == [trig |-> w.task.trig, answered |-> w.task.announced]
IdleJob == [trig |-> NoTrigger, answered |-> FALSE]
RestOf(w, b) == IF w.task.announced /\ w.task.trig \notin b.trig THEN IdleJob ELSE JobOf(w)
RaisedBy(w, b) == (w.latch \cap b.trig) \cup (b.trig \ w.last.trig)

Reads(w, b, v) ==
  /\ v.last = b /\ v.up = w.up /\ v.wired = w.wired /\ v.stopped = w.stopped
  /\ \/ JobOf(v) = RestOf(w, b) /\ v.latch \subseteq RaisedBy(w, b)
     \/ /\ RestOf(w, b) = IdleJob
        /\ \E t \in RaisedBy(w, b) : v.task.trig = t /\ v.latch \subseteq RaisedBy(w, b) \ {t}

LEMMA LastFacts ==
  ASSUME NEW w \in State
  PROVE  (w.last.empty => w.last.trig = {}) /\ w.last.trig \subseteq Trigger
<1>1. w.last \in CommandArea \cup {NoBlock}
  BY DEF State
<1>2. NoBlock.trig = {}
  BY DEF NoBlock
<1> QED
  BY <1>1, <1>2 DEF CommandArea, Block

\* The re-raised trigger that releaseOnRead provides for cannot be met.
LEMMA ReleaseOnReadIs ==
  ASSUME NEW w, Good(w), NEW b \in CommandArea, NEW x \in State,
         x.task = w.task, x.last = b
  PROVE  /\ ReleaseOnRead(x, b, w.last) \in State
         /\ Link(x, ReleaseOnRead(x, b, w.last))
         /\ IF w.task.announced /\ w.task.trig \notin b.trig
            THEN ReleaseOnRead(x, b, w.last).task = NoTask
            ELSE ReleaseOnRead(x, b, w.last) = x
         /\ ReleaseOnRead(x, b, w.last) = Finalize(x, b, FALSE)
<1> DEFINE read == Finalize(x, b, FALSE)
<1>1. /\ w \in State /\ ~b.empty
      /\ w.task.announced => Announced(w) /\ w.task.trig \in w.last.trig
  BY DEF Good, Fit, Announced, CommandArea
<1>2. /\ read \in State /\ Link(x, read)
      /\ IF Announced(x) /\ w.task.trig \notin b.trig THEN read.task = NoTask ELSE read = x
  BY <1>1, FinalizeEnds
<1>3. Announced(x) <=> w.task.announced
  BY <1>1 DEF Announced, Active
<1> HIDE DEF read
<1>4. Announced(read) => read.task.trig \in w.last.trig
  BY <1>1, <1>2, <1>3, NoTaskFields DEF Announced
<1>5. ReleaseOnRead(x, b, w.last) = read
  BY <1>4 DEF ReleaseOnRead, read
<1> QED
  BY <1>2, <1>3, <1>5 DEF read

Latched(s, b, prev, r) ==
  /\ r \in State /\ r.task = s.task /\ r.clock = s.clock /\ r.gen = s.gen
  /\ r.last = b /\ r.up = s.up /\ r.wired = s.wired /\ r.stopped = s.stopped
  /\ r.latch \subseteq (s.latch \cap b.trig) \cup (b.trig \ prev.trig)
  /\ r.block # NoTrigger => r.block \in b.trig

LEMMA LatchRisingEdgesIs ==
  ASSUME NEW s \in State, NEW b \in CommandArea, NEW prev, s.last = b,
         s.latch \subseteq prev.trig, prev.empty => prev.trig = {}
  PROVE  Latched(s, b, prev, Unblock(LatchRisingEdges(s, b, prev), b))
<1> DEFINE latch == IF prev.empty THEN s.latch ELSE (s.latch \cap b.trig) \cup (b.trig \ prev.trig)
           l == LatchRisingEdges(s, b, prev)
           block == IF l.block \in b.trig THEN l.block ELSE NoTrigger
           r == Unblock(l, b)
<1>1. b.trig \subseteq Trigger
  BY DEF CommandArea, Block
<1>2. latch \subseteq Trigger /\ latch \subseteq (s.latch \cap b.trig) \cup (b.trig \ prev.trig)
  BY <1>1 DEF State
<1>3. l = [s EXCEPT !.latch = latch]
  BY DEF LatchRisingEdges, State
<1> HIDE DEF latch, l
<1>4. l \in State
  BY <1>2, <1>3 DEF State
<1>5. /\ l.task = s.task /\ l.clock = s.clock /\ l.gen = s.gen /\ l.last = b
      /\ l.up = s.up /\ l.wired = s.wired /\ l.stopped = s.stopped /\ l.latch = latch
  BY <1>3 DEF State
<1>6. block \in Trigger \cup {NoTrigger} /\ (block # NoTrigger => block \in b.trig)
  BY <1>1
<1>7. r = [l EXCEPT !.block = block]
  BY DEF Unblock
<1> HIDE DEF block, r
<1>8. r \in State
  BY <1>4, <1>6, <1>7 DEF State
<1>9. /\ r.task = l.task /\ r.clock = l.clock /\ r.gen = l.gen /\ r.last = l.last
      /\ r.up = l.up /\ r.wired = l.wired /\ r.stopped = l.stopped /\ r.latch = l.latch
      /\ r.block = block
  BY <1>4, <1>7 DEF State
<1>10. /\ r.task = s.task /\ r.clock = s.clock /\ r.gen = s.gen /\ r.last = b
       /\ r.up = s.up /\ r.wired = s.wired /\ r.stopped = s.stopped
       /\ r.latch \subseteq (s.latch \cap b.trig) \cup (b.trig \ prev.trig)
  BY <1>2, <1>5, <1>9
<1>11. Latched(s, b, prev, r)
  BY <1>6, <1>8, <1>9, <1>10 DEF Latched
<1> QED
  BY <1>11 DEF r, l

Accepts(r, b, raised, v) ==
  /\ Good(v)
  /\ v.last = b /\ v.up = r.up /\ v.wired = r.wired /\ v.stopped = r.stopped
  /\ \/ JobOf(v) = IdleJob /\ v.latch \subseteq raised
     \/ \E t \in raised : v.task.trig = t /\ v.latch \subseteq raised \ {t}

LEMMA AcceptPendingReads ==
  ASSUME NEW r, Good(r), ~Active(r), r.up, r.wired, ~r.stopped,
         NEW b \in CommandArea, r.last = b, NEW prev, NEW raised,
         r.latch \subseteq raised, b.trig \ prev.trig \subseteq raised,
         NEW in \in FrameInput
  PROVE  Accepts(r, b, raised, AcceptPending(r, b, prev, in))
<1> DEFINE q == ApplyPlcScanPathId(r, b, TRUE, prev)
           pending == PendingTriggers(q, b, prev)
           t == SelectPendingTrigger(pending)
           latch == q.latch \ {t}
           u == [q EXCEPT !.latch = latch]
           p == ProcessTrigger(u, t, b, in)
           v == AcceptPending(r, b, prev, in)
<1>1. r \in State
  BY DEF Good, Fit
<1>2. Busy(r, q)
  BY <1>1, ApplyPlcScanPathIdBusy
<1> HIDE DEF q
<1>3. Good(q) /\ q \in State /\ ~Active(q) /\ Link(r, q)
  BY <1>2, BusyGood DEF Busy, Alike, Active
<1>4. v = IF pending = {} THEN q ELSE p
  BY DEF AcceptPending, q
<1>5. b.trig \subseteq Trigger
  BY DEF CommandArea, Block
<1>6. pending \subseteq b.trig /\ pending \subseteq raised /\ pending \subseteq Trigger
  BY <1>3, <1>5 DEF PendingTriggers, Link
<1> HIDE DEF v, pending
<1>7. CASE pending = {}
  <2>1. v = q /\ JobOf(q) = IdleJob
    <3>1. q.task.announced = FALSE /\ q.task.trig = NoTrigger
      BY <1>3 DEF Active, Good, Fit, State, Task
    <3> QED
      BY <1>4, <1>7, <3>1 DEF JobOf, IdleJob
  <2> QED
    BY <1>3, <2>1 DEF Accepts, Link, v
<1>8. CASE pending # {}
  <2>1. t \in pending
    BY <1>6, <1>8, RankMinimum
  <2> HIDE DEF t
  <2>2. t \in b.trig /\ t \in raised
    BY <1>6, <2>1
  <2>3. latch \in SUBSET Trigger /\ latch \subseteq q.latch
    BY <1>3 DEF State
  <2> HIDE DEF latch
  <2>4. u \in State
    BY <1>3, <2>3 DEF State
  <2>5. /\ u.task = q.task /\ u.clock = q.clock /\ u.gen = q.gen /\ u.last = q.last
        /\ u.up = q.up /\ u.wired = q.wired /\ u.stopped = q.stopped
        /\ u.latch = latch /\ u.block = q.block
    BY <1>3 DEF State
  <2> HIDE DEF u
  <2>6. Good(u) /\ ~Active(u)
    BY <1>3, <2>3, <2>4, <2>5 DEF Good, Fit, Active, Announced, Running
  <2>7. u.up /\ u.wired /\ ~u.stopped /\ u.last = b
    BY <1>3, <2>5 DEF Link
  <2>8. /\ Good(p) /\ Link(u, p)
        /\ p.task.trig = t \/ (p.task.trig = NoTrigger /\ ~p.task.announced)
    BY <2>2, <2>6, <2>7, ProcessTriggerGood
  <2> HIDE DEF p
  <2>9. v = p
    BY <1>4, <1>8
  <2>10. /\ v.last = b /\ v.up = r.up /\ v.wired = r.wired /\ v.stopped = r.stopped
         /\ v.latch = latch
    BY <1>3, <2>5, <2>8, <2>9 DEF Link
  <2>11. latch \subseteq raised \ {t}
    BY <1>3 DEF latch, Link
  <2>12. ASSUME p.task.trig = NoTrigger, ~p.task.announced PROVE JobOf(v) = IdleJob
    <3>1. p.task.announced = FALSE
      BY <2>8, <2>12 DEF Good, Fit, State, Task
    <3> QED
      BY <2>9, <2>12, <3>1 DEF JobOf, IdleJob
  <2> QED
    BY <2>2, <2>8, <2>9, <2>10, <2>11, <2>12 DEF Accepts, v
<1> QED
  BY <1>7, <1>8

LEMMA HandleRegistersReadGood ==
  ASSUME NEW w, Good(w), w.up, w.wired, NEW b \in CommandArea, NEW in \in FrameInput
  PROVE  LET v == HandleRegistersRead(w, b, in)
         IN Good(v) /\ IF w.stopped THEN v = w ELSE Reads(w, b, v)
<1> DEFINE x == [w EXCEPT !.last = b, !.fails = 0]
           s == ReleaseOnRead(x, b, w.last)
           r == Unblock(LatchRisingEdges(s, b, w.last), b)
           v == HandleRegistersRead(w, b, in)
           raised == RaisedBy(w, b)
<1>1. w \in State /\ w.task.announced \in BOOLEAN
  BY DEF Good, Fit, State, Task
<1>2. x \in State
  <2>1. [w EXCEPT !.last = b] \in State
    BY <1>1 DEF State
  <2>2. x = [[w EXCEPT !.last = b] EXCEPT !.fails = 0]
    BY <1>1 DEF State
  <2>3. ASSUME NEW y \in State PROVE [y EXCEPT !.fails = 0] \in State
    BY DEF State
  <2> QED
    BY <2>1, <2>2, <2>3
<1>3. /\ x.task = w.task /\ x.last = b /\ x.clock = w.clock /\ x.gen = w.gen
      /\ x.up = w.up /\ x.wired = w.wired /\ x.stopped = w.stopped
      /\ x.latch = w.latch /\ x.block = w.block
  BY <1>1 DEF State
<1>4. v = IF w.stopped THEN w ELSE IF Active(r) THEN r ELSE AcceptPending(r, b, w.last, in)
  BY DEF HandleRegistersRead
<1> HIDE DEF x, v
<1>5. /\ s \in State /\ Link(x, s)
      /\ IF w.task.announced /\ w.task.trig \notin b.trig THEN s.task = NoTask ELSE s = x
  BY <1>2, <1>3, ReleaseOnReadIs
<1> HIDE DEF s
<1>6. /\ w.latch \subseteq w.last.trig /\ (w.last.empty => w.last.trig = {})
  BY <1>1, LastFacts DEF Good
<1>7. s.last = b /\ s.latch = w.latch /\ s.up /\ s.wired /\ s.stopped = w.stopped
  BY <1>3, <1>5 DEF Link
<1>8. Latched(s, b, w.last, r)
  <2>1. s.latch \subseteq w.last.trig
    BY <1>6, <1>7
  <2> QED
    BY <1>5, <1>6, <1>7, <2>1, LatchRisingEdgesIs
<1> HIDE DEF r
<1>9. ~b.empty
  BY DEF CommandArea
<1>10. r.latch \subseteq b.trig /\ r.latch \subseteq raised /\ b.trig \ w.last.trig \subseteq raised
  BY <1>6, <1>7, <1>8 DEF RaisedBy, Latched
<1> HIDE DEF raised
<1>11. /\ ~Active(r) => ~r.task.announced
       /\ Announced(r) => r.task.trig \in b.trig
       /\ Running(r) => Running(w) /\ r.task = w.task /\ r.clock = w.clock /\ r.gen = w.gen
  BY <1>3, <1>5, <1>8, NoTaskFields DEF Latched, Good, Fit, Active, Announced, Running
<1>12. CASE w.stopped
  <2>1. v = w
    BY <1>4, <1>12
  <2> QED
    BY <1>12, <2>1 DEF v
<1>13. CASE ~w.stopped
  <2>1. Good(r)
    BY <1>7, <1>8, <1>9, <1>10, <1>11, <1>13 DEF Latched, Good, Fit
  <2>2. JobOf(r) = RestOf(w, b)
    <3>1. r.task = IF w.task.announced /\ w.task.trig \notin b.trig THEN NoTask ELSE w.task
      BY <1>3, <1>5, <1>8 DEF Latched
    <3>2. NoTask.trig = NoTrigger /\ NoTask.announced = FALSE
      BY DEF NoTask
    <3>3. CASE w.task.announced /\ w.task.trig \notin b.trig
      BY <3>1, <3>2, <3>3 DEF JobOf, RestOf, IdleJob
    <3>4. CASE ~(w.task.announced /\ w.task.trig \notin b.trig)
      BY <3>1, <3>4 DEF JobOf, RestOf
    <3> QED
      BY <3>3, <3>4
  <2>3. CASE Active(r)
    <3>1. v = r
      BY <1>4, <1>13, <2>3
    <3>2. Reads(w, b, r)
      BY <1>7, <1>8, <1>10, <2>2 DEF Latched, Reads, raised
    <3> QED
      BY <1>13, <2>1, <3>1, <3>2 DEF v
  <2>4. CASE ~Active(r)
    <3>1. v = AcceptPending(r, b, w.last, in)
      BY <1>4, <1>13, <2>4
    <3>2. Accepts(r, b, raised, v)
      <4>1. r.up /\ r.wired /\ ~r.stopped /\ r.last = b
        BY <1>7, <1>8, <1>13 DEF Latched
      <4> QED
        BY <1>10, <2>1, <2>4, <3>1, <4>1, AcceptPendingReads
    <3>3. r.task.announced = FALSE
      BY <1>8, <1>11, <2>4 DEF Latched, State, Task
    <3>4. RestOf(w, b) = IdleJob
      BY <2>2, <2>4, <3>3 DEF JobOf, IdleJob, Active
    <3>5. Reads(w, b, v)
      BY <1>7, <1>8, <1>13, <3>2, <3>4 DEF Accepts, Latched, Reads, raised
    <3> QED
      BY <1>13, <3>2, <3>5 DEF Accepts, v
  <2> QED
    BY <2>3, <2>4
<1> QED
  BY <1>12, <1>13

--------------------------------------------------------------------------------
\* The callbacks and timers: the task goes on, or has ended.

Settles(w, v) == Busy(w, v) \/ (Active(w) /\ Ends(w, v))

LEMMA SettlesGood ==
  ASSUME NEW w, Good(w), NEW v, Settles(w, v) PROVE Good(v)
BY EndsGood, BusyGood DEF Settles

LEMMA SettlesSelf ==
  ASSUME NEW w, Good(w) PROVE w \in State /\ Fit(w) /\ Settles(w, w)
BY DEF Good, Fit, Settles, Busy, Alike, Link

LEMMA BusySettles ==
  ASSUME NEW w, NEW v, NEW u, Busy(w, v), Settles(v, u) PROVE Settles(w, u)
BY AlikeTrans, BusyTrans DEF Settles, Busy, Alike, Active

\* What the callbacks complete a task with.
LEMMA CompletionsSettle ==
  ASSUME NEW w, Good(w), Active(w)
  PROVE  /\ Settles(w, CompleteActiveTask(w, 1, "completed"))
         /\ Settles(w, CompleteActiveTask(w, 6, "completed"))
         /\ Settles(w, CompleteActiveTask(w, 2, "failed"))
         /\ Settles(w, CompleteActiveTask(w, 6, "failed"))
         /\ Settles(w, CompleteScanSegment(w, 7, "failed"))
         /\ Settles(w, CompleteScanSegment(w, 6, "failed"))
         /\ Settles(w, CompleteScanSegment(w, 1, "completed"))
<1>1. 1 \in ResultCode /\ 2 \in ResultCode /\ 6 \in ResultCode /\ 7 \in ResultCode
  BY DEF ResultCode
<1>2. Fit(w)
  BY DEF Good
<1>3. /\ Ends(w, CompleteActiveTask(w, 1, "completed"))
      /\ Ends(w, CompleteActiveTask(w, 6, "completed"))
      /\ Ends(w, CompleteActiveTask(w, 2, "failed"))
      /\ Ends(w, CompleteActiveTask(w, 6, "failed"))
  BY <1>1, <1>2, CodeTypes, CompleteActiveTaskEnds
<1>4. /\ Ends(w, CompleteScanSegment(w, 7, "failed"))
      /\ Ends(w, CompleteScanSegment(w, 6, "failed"))
      /\ Ends(w, CompleteScanSegment(w, 1, "completed"))
  BY <1>1, <1>2, CodeTypes, CompleteScanSegmentEnds
<1> QED
  BY <1>3, <1>4 DEF Settles

LEMMA OnBundleCaptureFinishedSettles ==
  ASSUME NEW w, Good(w), NEW rid, NEW ok \in BOOLEAN
  PROVE  Settles(w, OnBundleCaptureFinished(w, rid, ok))
<1> DEFINE d == DeviceOf(w.task.trig)
           s == StoreSegment(w, d)
           c == CompleteScanSegment(s, 1, "completed")
           m == [c EXCEPT !.barrier = w.task.id]
           v == OnBundleCaptureFinished(w, rid, ok)
<1>1. w \in State /\ Settles(w, w)
  BY SettlesSelf
<1>2. CASE ~Running(w)
  BY <1>1, <1>2 DEF OnBundleCaptureFinished
<1>3. CASE Running(w)
  <2>1. v \in {w, CompleteActiveTask(w, 1, "completed"), CompleteActiveTask(w, 2, "failed"),
               CompleteScanSegment(w, 7, "failed"), c, m}
    BY DEF OnBundleCaptureFinished
  <2>2. s \in State /\ Busy(w, s)
    BY <1>1, DeviceOfType, StoreSegmentType, StoreSegmentBusy
  <2> HIDE DEF s, v
  <2>3. Good(s) /\ Active(s)
    BY <1>3, <2>2, BusyGood DEF Busy, Alike, Running, Active
  <2>4. Settles(s, c)
    BY <2>3, CompletionsSettle
  <2>5. c \in State /\ w.task.id \in Nat
    BY <1>1, <2>4 DEF Settles, Busy, Alike, Ends, State, Task
  <2> HIDE DEF c
  <2>6. m \in State /\ Core(m) = Core(c)
    BY <2>5 DEF Core, State
  <2>7. Busy(c, m)
    BY <2>5, <2>6, CoreBusy
  <2>8. Settles(s, m)
    <3>1. Alike(c, m)
      BY <2>7 DEF Busy
    <3>2. Busy(s, c) => Busy(s, m)
      BY <2>7, BusyTrans
    <3>3. Ends(s, c) => Ends(s, m)
      BY <3>1, EndsAlike
    <3> QED
      BY <2>4, <3>2, <3>3 DEF Settles
  <2>9. Settles(w, c) /\ Settles(w, m)
    BY <2>2, <2>4, <2>8, BusySettles
  <2>10. Settles(w, v)
    BY <1>1, <1>3, <2>1, <2>9, CompletionsSettle DEF Running
  <2> QED
    BY <2>10 DEF v
<1> QED
  BY <1>2, <1>3

LEMMA FatalErrorsSettle ==
  ASSUME NEW w, Good(w)
  PROVE  /\ Settles(w, OnMechEyeFatalError(w))
         /\ Settles(w, OnVisionPipelineFatalError(w))
BY SettlesSelf, CompletionsSettle
DEF OnMechEyeFatalError, OnVisionPipelineFatalError, Running

LEMMA FinishCodeReadSettles ==
  ASSUME NEW w, Good(w), NEW result \in {1, 2}, NEW text \in Nat
  PROVE  Settles(w, FinishCodeRead(w, result, text))
<1>1. Fit(w) /\ (Running(w) => w.task.gen = w.gen)
  BY DEF Good
<1> QED
  BY <1>1, FinishCodeReadEnds DEF Settles, Running

LEMMA OnHikOcrTextReceivedSettles ==
  ASSUME NEW w, Good(w), NEW answer \in Stamp, NEW text \in BOOLEAN
  PROVE  Settles(w, OnHikOcrTextReceived(w, answer, text))
<1> DEFINE late == [w EXCEPT !.read = "none", !.readGen = 0]
           coded == [late EXCEPT !.code = answer.gen]
<1>1. w \in State /\ Settles(w, w) /\ answer.gen \in Nat
  BY SettlesSelf DEF Stamp
<1>2. late \in State /\ coded \in State
  BY <1>1 DEF State
<1>3. Core(late) = Core(w) /\ Core(coded) = Core(w)
  BY <1>1 DEF Core, State
<1>4. Settles(w, late) /\ Settles(w, coded)
  BY <1>1, <1>2, <1>3, CoreBusy DEF Settles
<1>5. /\ Settles(w, FinishCodeRead(w, 2, 0))
      /\ Settles(w, FinishCodeRead(w, 1, answer.gen))
  BY <1>1, FinishCodeReadSettles
<1>6. w.read \in {"none", "wait", "soft"}
  BY <1>1 DEF State
<1>7. OnHikOcrTextReceived(w, answer, text) \in
        {w, late, coded, FinishCodeRead(w, 2, 0), FinishCodeRead(w, 1, answer.gen)}
  BY <1>6 DEF OnHikOcrTextReceived
<1> QED
  BY <1>1, <1>4, <1>5, <1>7

LEMMA FireAndForgetAckSettles ==
  ASSUME NEW w, Good(w), NEW timer PROVE Settles(w, FireAndForgetAck(w, timer))
BY SettlesSelf, FinishCodeReadSettles DEF FireAndForgetAck

\* The watchdog drops the answer, and locks the trigger it was for.
LEMMA CodeReadFinalizeWatchdogGood ==
  ASSUME NEW w, Good(w), NEW timer \in Watchdog
  PROVE  LET v == CodeReadFinalizeWatchdog(w, timer)
         IN /\ Good(v)
            /\ v.last = w.last /\ v.latch = w.latch /\ v.up = w.up
            /\ v.wired = w.wired /\ v.stopped = w.stopped
            /\ \/ JobOf(v) = JobOf(w)
               \/ Announced(w) /\ w.task.trig \in ScanStage /\ JobOf(v) = IdleJob
<1> DEFINE x == [w EXCEPT !.block = timer.trig]
           f == Finalize(x, w.last, TRUE)
           v == CodeReadFinalizeWatchdog(w, timer)
<1>1. w \in State /\ timer.trig \in Trigger \cap ScanStage
  BY DEF Good, Fit, Watchdog
<1>2. CASE timer.gen # w.gen \/ ~Announced(w) \/ w.task.trig # timer.trig
  <2>1. v = w
    BY <1>2 DEF CodeReadFinalizeWatchdog
  <2> QED
    BY <2>1
<1>3. CASE ~(timer.gen # w.gen \/ ~Announced(w) \/ w.task.trig # timer.trig)
  <2>1. v = f
    BY <1>3 DEF CodeReadFinalizeWatchdog
  <2>2. x \in State
    BY <1>1 DEF State
  <2>3. /\ x.task = w.task /\ x.last = w.last /\ x.latch = w.latch /\ x.up = w.up
        /\ x.wired = w.wired /\ x.stopped = w.stopped /\ x.block = timer.trig
    BY <1>1 DEF State
  <2> HIDE DEF x
  <2>4. f \in State /\ Link(x, f) /\ f.task = NoTask
    BY <1>3, <2>2, <2>3, FinalizeEnds DEF Announced, Active
  <2> HIDE DEF f, v
  <2>5. w.task.trig \in w.last.trig /\ w.latch \subseteq w.last.trig
    BY <1>3 DEF Good
  <2>6. Good(f)
    BY <1>3, <2>3, <2>4, <2>5, IdleGood, NoTaskFields DEF Link
  <2>7. JobOf(f) = IdleJob
    BY <2>4 DEF JobOf, IdleJob, NoTask
  <2>8. /\ f.last = w.last /\ f.latch = w.latch /\ f.up = w.up
        /\ f.wired = w.wired /\ f.stopped = w.stopped
    BY <2>3, <2>4 DEF Link
  <2>9. Announced(w) /\ w.task.trig \in ScanStage
    BY <1>1, <1>3
  <2> QED
    BY <2>1, <2>6, <2>7, <2>8, <2>9 DEF v
<1> QED
  BY <1>2, <1>3

LEMMA QuietType ==
  ASSUME NEW w \in State PROVE [w EXCEPT !.read = "none", !.advance = FALSE] \in State
<1>1. [w EXCEPT !.read = "none"] \in State
  BY DEF State
<1>2. ASSUME NEW v \in State PROVE [v EXCEPT !.advance = FALSE] \in State
  BY DEF State
<1>3. [w EXCEPT !.read = "none", !.advance = FALSE]
        = [[w EXCEPT !.read = "none"] EXCEPT !.advance = FALSE]
  BY DEF State
<1> QED
  BY <1>1, <1>2, <1>3

\* The timeout has stopped its own clock: w is Good but for that.
LEMMA OnProcessTimeoutSettles ==
  ASSUME NEW w, Good(w), NEW c \in State, c = [w EXCEPT !.clock = FALSE]
  PROVE  LET v == OnProcessTimeout(c)
         IN /\ Good(v) /\ Link(w, v)
            /\ \/ JobOf(v) = JobOf(w)
               \/ Active(w) /\ Ends(w, v)
<1> DEFINE task == [c.task EXCEPT !.rid = 0]
           x == [c EXCEPT !.task = task]
           s == [x EXCEPT !.read = "none", !.advance = FALSE]
           i == CompleteActiveTask(x, 6, "failed")
           v == OnProcessTimeout(c)
<1>1. w \in State /\ Fit(w)
  BY DEF Good, Fit
<1>2. Link(w, c) /\ c.task = w.task /\ c.gen = w.gen /\ c.stopped = w.stopped
  BY <1>1 DEF Link, State
<1>3. CASE c.stopped \/ ~Active(c)
  <2>1. v = c
    BY <1>3 DEF OnProcessTimeout
  <2>2. ~Active(w)
    BY <1>2, <1>3 DEF Good, Active
  <2>3. Good(c)
    BY <1>1, <1>2, <2>2 DEF Good, Fit, Active, Announced, Running, Link
  <2> QED
    BY <1>2, <2>1, <2>3 DEF JobOf, v
<1>4. CASE ~c.stopped /\ Active(c)
  <2>1. /\ task \in Task /\ task.trig = w.task.trig /\ task.announced = w.task.announced
        /\ task.gen = w.task.gen
    BY <1>2 DEF State, Task
  <2> HIDE DEF task
  <2>2. x \in State
    <3>1. ASSUME NEW y \in State, NEW k \in Task PROVE [y EXCEPT !.task = k] \in State
      BY DEF State
    <3> QED
      BY <2>1, <3>1
  <2>3. Link(c, x) /\ x.task = task /\ x.gen = c.gen
    BY DEF Link, State
  <2> HIDE DEF x
  <2>4. Alike(w, x) /\ x.gen = w.gen /\ x.task.gen = w.task.gen
    BY <1>2, <2>1, <2>2, <2>3 DEF Alike, Link
  <2>5. Fit(x) /\ Active(x) /\ Active(w)
    BY <1>1, <1>2, <1>4, <2>4, AlikeTrans DEF Alike, Active
  <2>6. s \in State
    BY <2>2, QuietType
  <2>7. Core(s) = Core(x)
    BY <2>2 DEF Core, State
  <2> HIDE DEF s
  <2>8. Alike(x, s)
    BY <2>2, <2>6, <2>7, CoreBusy DEF Busy
  <2>9. Alike(w, s) /\ Fit(s) /\ Active(s)
    BY <2>4, <2>5, <2>8, AlikeTrans DEF Alike, Active
  <2>10. 2 \in ResultCode /\ 6 \in ResultCode
    BY DEF ResultCode
  <2>11. /\ Ends(x, i) /\ Ends(x, CompleteActiveTask(x, 2, "failed"))
         /\ Ends(x, CompleteActiveTask(x, 6, "completed"))
    BY <2>5, <2>10, CodeTypes, CompleteActiveTaskEnds
  <2>12. Ends(s, CompleteScanSegment(s, 6, "failed"))
    BY <2>9, <2>10, CodeTypes, CompleteScanSegmentEnds
  <2> HIDE DEF i
  <2>13. Ends(x, ApplyInspectionTimeoutPolicy(i))
    BY <2>11, ApplyPolicyAlike, EndsAlike DEF Ends
  <2>14. IF Running(x) THEN Ends(x, FinishCodeRead(x, 2, 0))
                       ELSE Busy(x, FinishCodeRead(x, 2, 0))
    <3>1. Running(x) => x.task.gen = x.gen
      BY <2>4 DEF Good, Running, Alike, Active
    <3> QED
      BY <2>5, <3>1, FinishCodeReadEnds
  <2>15. v \in {CompleteScanSegment(s, 6, "failed"), CompleteActiveTask(x, 2, "failed"),
                FinishCodeRead(x, 2, 0), ApplyInspectionTimeoutPolicy(i),
                CompleteActiveTask(x, 6, "completed")}
    BY <1>4 DEF OnProcessTimeout, i, s, x, task
  <2> HIDE DEF v
  <2>16. ASSUME ~Ends(w, v)
         PROVE  ~Running(x) /\ Busy(x, v)
    BY <2>4, <2>9, <2>11, <2>12, <2>13, <2>14, <2>15, <2>16, AlikeTrans
  <2>17. CASE Ends(w, v)
    BY <2>5, <2>17, EndsGood DEF Ends, v
  <2>18. CASE ~Ends(w, v)
    <3>1. Alike(w, v)
      BY <2>4, <2>16, <2>18, AlikeTrans DEF Busy
    <3>2. ~Running(w) /\ ~Running(v)
      BY <2>4, <2>16, <2>18, <3>1 DEF Alike, Running, Active
    <3>3. Good(v)
      BY <3>1, <3>2 DEF Good, Fit, Alike, Link, Active, Announced, Running
    <3> QED
      BY <3>1, <3>3 DEF Alike, JobOf, v
  <2> QED
    BY <2>17, <2>18
<1> QED
  BY <1>3, <1>4

--------------------------------------------------------------------------------
\* The connection, the safety interlock and the HMI: the task is dropped.

\* No task, and no latch that is not held.
Dropped(v) ==
  /\ v \in State /\ JobOf(v) = IdleJob
  /\ v.latch \subseteq v.last.trig
  /\ v.block # NoTrigger => v.block \in v.last.trig

LEMMA DroppedGood == ASSUME NEW v, Dropped(v) PROVE Good(v) /\ ~Active(v)
BY IdleGood DEF Dropped, JobOf, IdleJob, Active

LEMMA IdleIsDropped ==
  ASSUME NEW w, Good(w), ~Active(w) PROVE Dropped(w)
<1>1. w \in State /\ w.task.trig = NoTrigger /\ w.task.announced = FALSE
  BY DEF Good, Fit, Active, State, Task
<1> QED
  BY <1>1 DEF Good, Dropped, JobOf, IdleJob

LEMMA BlankBlockType ==
  ASSUME NEW w \in State
  PROVE  LET v == [w EXCEPT !.last = NoBlock, !.block = NoTrigger, !.latch = {}]
         IN /\ v \in State /\ v.task = w.task
            /\ v.last = NoBlock /\ v.block = NoTrigger /\ v.latch = {}
<1> DEFINE v == [w EXCEPT !.last = NoBlock, !.block = NoTrigger, !.latch = {}]
<1>1. ASSUME NEW y \in State PROVE [y EXCEPT !.last = NoBlock] \in State
  BY DEF State
<1>2. ASSUME NEW y \in State PROVE [y EXCEPT !.block = NoTrigger] \in State
  BY DEF State
<1>3. ASSUME NEW y \in State PROVE [y EXCEPT !.latch = {}] \in State
  BY DEF State
<1>4. v = [[[w EXCEPT !.last = NoBlock] EXCEPT !.block = NoTrigger] EXCEPT !.latch = {}]
  BY DEF State
<1>5. v.task = w.task /\ v.last = NoBlock /\ v.block = NoTrigger /\ v.latch = {}
  BY DEF State
<1> HIDE DEF v
<1>6. v \in State
  BY <1>1, <1>2, <1>3, <1>4
<1> QED
  BY <1>5, <1>6 DEF v

LEMMA ReadyType ==
  ASSUME NEW w \in State
  PROVE  LET v == [w EXCEPT !.advance = FALSE, !.read = "none", !.fails = 0, !.mode = "ready"]
         IN v \in State /\ Link(w, v) /\ v.task = w.task
<1> DEFINE v == [w EXCEPT !.advance = FALSE, !.read = "none", !.fails = 0, !.mode = "ready"]
<1>1. ASSUME NEW y \in State PROVE [y EXCEPT !.advance = FALSE] \in State
  BY DEF State
<1>2. ASSUME NEW y \in State PROVE [y EXCEPT !.read = "none"] \in State
  BY DEF State
<1>3. ASSUME NEW y \in State PROVE [y EXCEPT !.fails = 0] \in State
  BY DEF State
<1>4. ASSUME NEW y \in State PROVE [y EXCEPT !.mode = "ready"] \in State
  BY DEF State
<1>5. v = [[[[w EXCEPT !.advance = FALSE] EXCEPT !.read = "none"]
              EXCEPT !.fails = 0] EXCEPT !.mode = "ready"]
  BY DEF State
<1>6. Link(w, v) /\ v.task = w.task
  BY DEF Link, State
<1> HIDE DEF v
<1>7. v \in State
  BY <1>1, <1>2, <1>3, <1>4, <1>5
<1> QED
  BY <1>6, <1>7 DEF v

LEMMA OnModbusConnectedDrops ==
  ASSUME NEW w \in State
  PROVE  LET v == OnModbusConnected(w)
         IN /\ Dropped(v) /\ v.last.trig = {} /\ v.latch = {} /\ v.up = w.up
            /\ v.wired = w.wired /\ v.stopped = w.stopped
<1> DEFINE c == ClearActiveTask(w)
           a == [c EXCEPT !.last = NoBlock, !.block = NoTrigger, !.latch = {}]
           v == OnModbusConnected(w)
<1>1. c \in State /\ Link(w, c) /\ c.task = NoTask
  BY ClearActiveTaskType, ClearActiveTaskLink
<1>2. v = [a EXCEPT !.advance = FALSE, !.read = "none", !.fails = 0, !.mode = "ready"]
  BY DEF OnModbusConnected
<1> HIDE DEF c
<1>3. a \in State /\ a.last = NoBlock /\ a.block = NoTrigger /\ a.latch = {} /\ a.task = NoTask
  BY <1>1, BlankBlockType
<1>4. a.up = c.up /\ a.wired = c.wired /\ a.stopped = c.stopped
  BY <1>1 DEF State
<1> HIDE DEF a
<1>5. v \in State /\ Link(a, v) /\ v.task = a.task
  BY <1>2, <1>3, ReadyType
<1> HIDE DEF v
<1>6. JobOf(v) = IdleJob /\ NoBlock.trig = {}
  BY <1>3, <1>5 DEF JobOf, IdleJob, NoTask, NoBlock
<1> QED
  BY <1>1, <1>3, <1>4, <1>5, <1>6 DEF Dropped, Link, v

\* enterFaultState(): the task is answered in its place, or dropped.
LEMMA EnterFaultStateGood ==
  ASSUME NEW w, Good(w), NEW notifyPlc \in BOOLEAN
  PROVE  LET v == EnterFaultState(w, notifyPlc)
         IN /\ Good(v) /\ Link(w, v)
            /\ notifyPlc /\ Active(w) => Ends(w, v)
            /\ ~(notifyPlc /\ Active(w)) => Dropped(v)
<1> DEFINE v == EnterFaultState(w, notifyPlc)
<1>1. Fit(w)
  BY DEF Good
<1>2. /\ v \in State /\ Link(w, v)
      /\ IF notifyPlc /\ Active(w) THEN Ends(w, v)
         ELSE v.task.trig = NoTrigger /\ ~v.task.announced
  BY <1>1, EnterFaultStateEnds
<1> HIDE DEF v
<1>3. CASE notifyPlc /\ Active(w)
  BY <1>2, <1>3, EndsGood DEF v
<1>4. CASE ~(notifyPlc /\ Active(w))
  <2>1. v.task.announced \in BOOLEAN
    BY <1>2 DEF State, Task
  <2>2. JobOf(v) = IdleJob
    BY <1>2, <1>4, <2>1 DEF JobOf, IdleJob
  <2>3. Dropped(v)
    BY <1>2, <2>2 DEF Dropped, Link, Good
  <2> QED
    BY <1>2, <1>4, <2>3, DroppedGood DEF v
<1> QED
  BY <1>3, <1>4

LEMMA VetoBusy ==
  ASSUME NEW w \in State, NEW b \in BOOLEAN
  PROVE  [w EXCEPT !.veto = b] \in State /\ Busy(w, [w EXCEPT !.veto = b])
<1>1. [w EXCEPT !.veto = b] \in State /\ Core([w EXCEPT !.veto = b]) = Core(w)
  BY DEF State, Core
<1> QED
  BY <1>1, CoreBusy

LEMMA PersonBusy ==
  ASSUME NEW w \in State, NEW b \in BOOLEAN
  PROVE  [w EXCEPT !.person = b] \in State /\ Busy(w, [w EXCEPT !.person = b])
<1>1. [w EXCEPT !.person = b] \in State /\ Core([w EXCEPT !.person = b]) = Core(w)
  BY DEF State, Core
<1> QED
  BY <1>1, CoreBusy

LEMMA FailsBusy ==
  ASSUME NEW w \in State, NEW n \in 0..3
  PROVE  [w EXCEPT !.fails = n] \in State /\ Busy(w, [w EXCEPT !.fails = n])
<1>1. [w EXCEPT !.fails = n] \in State /\ Core([w EXCEPT !.fails = n]) = Core(w)
  BY DEF State, Core
<1> QED
  BY <1>1, CoreBusy

LEMMA ModeBusy ==
  ASSUME NEW w \in State, NEW m \in {"off", "init", "ready", "busy", "fault"}
  PROVE  [w EXCEPT !.mode = m] \in State /\ Busy(w, [w EXCEPT !.mode = m])
<1>1. [w EXCEPT !.mode = m] \in State /\ Core([w EXCEPT !.mode = m]) = Core(w)
  BY DEF State, Core
<1> QED
  BY <1>1, CoreBusy

LEMMA ClockType ==
  ASSUME NEW w \in State, NEW b \in BOOLEAN
  PROVE  LET v == [w EXCEPT !.clock = b] IN v \in State /\ Link(w, v) /\ v.task = w.task
BY DEF State, Link

LEMMA OnModbusErrorSettles ==
  ASSUME NEW w, Good(w)
  PROVE  LET v == OnModbusError(w)
         IN Good(v) /\ Link(w, v) /\ (Settles(w, v) \/ (~Active(w) /\ Dropped(v)))
<1> DEFINE n == IF w.fails < 3 THEN w.fails + 1 ELSE 3
           x == [w EXCEPT !.fails = n]
           e == EnterFaultState(x, TRUE)
           v == OnModbusError(w)
<1>1. w \in State /\ n \in 0..3
  BY DEF Good, Fit, State
<1>2. v = e \/ v = x
  BY DEF OnModbusError
<1> HIDE DEF n
<1>3. x \in State /\ Busy(w, x)
  BY <1>1, FailsBusy
<1> HIDE DEF x
<1>4. Good(x) /\ Link(w, x) /\ (Active(x) <=> Active(w))
  BY <1>3, BusyGood DEF Busy, Alike, Active
<1>5. /\ Good(e) /\ Link(x, e)
      /\ Active(x) => Ends(x, e)
      /\ ~Active(x) => Dropped(e)
  BY <1>4, EnterFaultStateGood
<1> HIDE DEF e, v
<1>6. CASE v = x
  BY <1>3, <1>4, <1>6 DEF Settles, v
<1>7. CASE v = e
  <2>1. Active(x) => Settles(w, e)
    BY <1>3, <1>5, BusySettles DEF Settles
  <2> QED
    BY <1>4, <1>5, <1>7, <2>1 DEF Link, v
<1> QED
  BY <1>2, <1>6, <1>7

LEMMA ReportPersonZoneAlarmGood ==
  ASSUME NEW w, Good(w), NEW alarm \in BOOLEAN
  PROVE  LET v == ReportPersonZoneAlarm(w, alarm)
         IN Good(v) /\ Link(w, v) /\ (JobOf(v) = JobOf(w) \/ Dropped(v))
<1> DEFINE veto == IF w.up THEN alarm ELSE w.veto
           x == [w EXCEPT !.veto = veto]
           e == EnterFaultState(x, FALSE)
           p == [e EXCEPT !.person = TRUE]
           m == [x EXCEPT !.mode = "ready"]
           q == [m EXCEPT !.person = FALSE]
           v == ReportPersonZoneAlarm(w, alarm)
<1>1. w \in State /\ veto \in BOOLEAN
  BY DEF Good, Fit, State
<1>2. x \in State /\ Busy(w, x)
  BY <1>1, VetoBusy
<1>3. q = [x EXCEPT !.mode = "ready", !.person = FALSE]
  BY <1>2 DEF State
<1>4. v \in {p, q, x}
  BY <1>3 DEF ReportPersonZoneAlarm
<1> HIDE DEF x, v
<1>5. Good(x) /\ Link(w, x)
  BY <1>2, BusyGood DEF Busy, Alike
<1>6. Good(e) /\ Link(x, e) /\ Dropped(e) /\ e \in State
  BY <1>5, EnterFaultStateGood DEF Dropped
<1> HIDE DEF e
<1>7. p \in State /\ Busy(e, p)
  BY <1>6, PersonBusy
<1>8. m \in State /\ Busy(x, m)
  BY <1>2, ModeBusy
<1> HIDE DEF m
<1>9. q \in State /\ Busy(m, q)
  BY <1>8, PersonBusy
<1> HIDE DEF p, q
<1>10. Good(p) /\ Dropped(p) /\ Link(w, p)
  BY <1>5, <1>6, <1>7, BusyGood DEF Busy, Alike, Dropped, Link, JobOf
<1>11. Busy(w, q) /\ Busy(w, x)
  BY <1>2, <1>8, <1>9, BusyTrans
<1>12. /\ Good(q) /\ Link(w, q) /\ JobOf(q) = JobOf(w)
       /\ Good(x) /\ Link(w, x) /\ JobOf(x) = JobOf(w)
  BY <1>11, BusyGood DEF Busy, Alike, JobOf
<1> QED
  BY <1>4, <1>10, <1>12 DEF v

\* w is the state machine just before the link went down.
LEMMA OnModbusDisconnectedGood ==
  ASSUME NEW w, Good(w), NEW c \in State, c = [w EXCEPT !.up = FALSE]
  PROVE  LET v == IF c.wired THEN OnModbusDisconnected(c) ELSE c
         IN /\ Good(v) /\ v.last = w.last /\ v.latch = w.latch /\ ~v.up
            /\ v.wired = w.wired /\ v.stopped = w.stopped
            /\ JobOf(v) \in {JobOf(w), IdleJob}
<1> DEFINE x == [c EXCEPT !.clock = FALSE]
           e == EnterFaultState(x, FALSE)
           v == IF c.wired THEN OnModbusDisconnected(c) ELSE c
<1>1. w \in State /\ Fit(w)
  BY DEF Good, Fit
<1>2. /\ c.task = w.task /\ c.last = w.last /\ c.latch = w.latch /\ c.block = w.block
      /\ ~c.up /\ c.wired = w.wired /\ c.stopped = w.stopped /\ c.clock = w.clock
      /\ c.gen = w.gen
  BY <1>1 DEF State
<1>3. CASE ~c.wired \/ c.stopped
  <2>1. v = c
    BY <1>3 DEF OnModbusDisconnected
  <2>2. ~Active(c) /\ ~Active(w)
    BY <1>2, <1>3 DEF Good, Active
  <2>3. Good(c)
    BY <1>1, <1>2, <2>2 DEF Good, Fit, Active, Announced, Running
  <2> QED
    BY <1>2, <2>1, <2>3 DEF JobOf, v
<1>4. CASE c.wired /\ ~c.stopped
  <2>1. v = e
    BY <1>4 DEF OnModbusDisconnected
  <2>2. x \in State
    BY ClockType
  <2>3. Link(c, x) /\ x.task = c.task
    BY ClockType
  <2> HIDE DEF x
  <2>4. Fit(x)
    BY <1>1, <1>2, <2>2, <2>3 DEF Fit, Link, Active
  <2>5. /\ e \in State /\ Link(x, e)
        /\ e.task.trig = NoTrigger /\ ~e.task.announced
    BY <2>4, EnterFaultStateEnds
  <2> HIDE DEF e
  <2>6. e.latch \subseteq e.last.trig /\ (e.block # NoTrigger => e.block \in e.last.trig)
    BY <1>2, <2>3, <2>5 DEF Link, Good
  <2>7. Good(e)
    BY <2>5, <2>6, IdleGood
  <2>8. JobOf(e) = IdleJob
    <3>1. e.task.announced = FALSE
      BY <2>5 DEF State, Task
    <3> QED
      BY <2>5, <3>1 DEF JobOf, IdleJob
  <2> QED
    BY <1>2, <2>1, <2>3, <2>5, <2>7, <2>8 DEF Link, v
<1> QED
  BY <1>3, <1>4

LEMMA StartDrops ==
  ASSUME NEW w, Good(w)
  PROVE  LET v == Start(w)
         IN /\ Dropped(v) /\ v.up = w.up /\ v.wired = w.wired /\ ~v.stopped
            /\ \/ v.last = w.last /\ v.latch = w.latch
               \/ v.last.trig = {} /\ v.latch = {}
<1> DEFINE a == [w EXCEPT !.stopped = FALSE]
           c == ClearActiveTask(a)
           f == ForgetWorkpiece(c)
           m == [f EXCEPT !.mode = "init"]
           s == [m EXCEPT !.fails = 0]
           v == Start(w)
<1>1. w \in State /\ w.latch \subseteq w.last.trig /\ (w.block # NoTrigger => w.block \in w.last.trig)
  BY DEF Good, Fit
<1>2. a \in State
  BY <1>1 DEF State
<1>3. /\ a.last = w.last /\ a.latch = w.latch /\ a.block = w.block
      /\ a.up = w.up /\ a.wired = w.wired /\ ~a.stopped
  BY <1>1 DEF State
<1> HIDE DEF a
<1>4. c \in State /\ Link(a, c) /\ c.task = NoTask
  BY <1>2, ClearActiveTaskType, ClearActiveTaskLink
<1> HIDE DEF c
<1>5. f \in State /\ Link(c, f) /\ JobOf(f) = JobOf(c)
  BY <1>4, ForgetWorkpieceType, ForgetWorkpieceAlike DEF Alike, JobOf
<1>6. s = [f EXCEPT !.mode = "init", !.fails = 0]
  BY <1>5 DEF State
<1>7. v = IF s.up THEN OnModbusConnected(s) ELSE s
  BY <1>6 DEF Start, f, c, a
<1> HIDE DEF f, v
<1>8. m \in State /\ Busy(f, m)
  BY <1>5, ModeBusy
<1> HIDE DEF m
<1>9. s \in State /\ Busy(m, s)
  <2>1. 0 \in 0..3
    OBVIOUS
  <2> QED
    BY <1>8, <2>1, FailsBusy
<1> HIDE DEF s
<1>10. JobOf(c) = IdleJob
  BY <1>4 DEF JobOf, IdleJob, NoTask
<1>11. Link(c, s) /\ JobOf(s) = IdleJob
  BY <1>5, <1>8, <1>9, <1>10 DEF Busy, Alike, Link, JobOf
<1>12. Dropped(s) /\ s.up = w.up /\ s.wired = w.wired /\ ~s.stopped
       /\ s.last = w.last /\ s.latch = w.latch
  BY <1>1, <1>3, <1>4, <1>9, <1>11 DEF Link, Dropped
<1>13. CASE s.up
  BY <1>7, <1>9, <1>12, <1>13, OnModbusConnectedDrops DEF v
<1>14. CASE ~s.up
  BY <1>7, <1>12, <1>14 DEF v
<1> QED
  BY <1>13, <1>14

LEMMA StopDrops ==
  ASSUME NEW w, Good(w)
  PROVE  LET v == Stop(w)
         IN /\ Dropped(v) /\ v.up = w.up /\ v.last = w.last /\ v.latch = w.latch
            /\ v.stopped
<1> DEFINE c == ClearActiveTask(w)
           n == c.gen + 1
           v == Stop(w)
<1>1. w \in State /\ w.latch \subseteq w.last.trig /\ (w.block # NoTrigger => w.block \in w.last.trig)
  BY DEF Good, Fit
<1>2. CASE w.stopped
  <2>1. v = w /\ ~Active(w)
    BY <1>2 DEF Stop, Good
  <2> QED
    BY <1>2, <2>1, IdleIsDropped
<1>3. CASE ~w.stopped
  <2>1. v = [c EXCEPT !.stopped = TRUE, !.gen = n, !.clock = FALSE,
                      !.wired = FALSE, !.fails = 0, !.mode = "off"]
    BY <1>3 DEF Stop
  <2>2. c \in State /\ Link(w, c) /\ c.task = NoTask
    BY <1>1, ClearActiveTaskType, ClearActiveTaskLink
  <2> HIDE DEF c, v
  <2>3. n \in Nat
    BY <2>2 DEF State
  <2> HIDE DEF n
  <2>4. v \in State
    <3>1. [c EXCEPT !.stopped = TRUE, !.gen = n, !.clock = FALSE] \in State
      BY <2>2, <2>3 DEF State
    <3>2. ASSUME NEW y \in State PROVE [y EXCEPT !.wired = FALSE] \in State
      BY DEF State
    <3>3. v = [[[[c EXCEPT !.stopped = TRUE, !.gen = n, !.clock = FALSE]
                  EXCEPT !.wired = FALSE] EXCEPT !.fails = 0] EXCEPT !.mode = "off"]
      BY <2>1, <2>2 DEF State
    <3>4. 0 \in 0..3
      OBVIOUS
    <3> DEFINE p == [c EXCEPT !.stopped = TRUE, !.gen = n, !.clock = FALSE]
               q == [p EXCEPT !.wired = FALSE]
               r == [q EXCEPT !.fails = 0]
    <3> HIDE DEF p
    <3>5. q \in State
      BY <3>1, <3>2 DEF p
    <3> HIDE DEF q
    <3>6. r \in State
      BY <3>4, <3>5, FailsBusy
    <3> HIDE DEF r
    <3>7. [r EXCEPT !.mode = "off"] \in State
      BY <3>6, ModeBusy
    <3> QED
      BY <3>3, <3>7 DEF p, q, r
  <2>5. /\ v.task = c.task /\ v.last = c.last /\ v.latch = c.latch /\ v.block = c.block
        /\ v.up = c.up /\ v.stopped
    BY <2>1, <2>2 DEF State
  <2>6. JobOf(v) = IdleJob
    BY <2>2, <2>5 DEF JobOf, IdleJob, NoTask
  <2> QED
    BY <1>1, <2>2, <2>4, <2>5, <2>6 DEF Dropped, Link, v
<1> QED
  BY <1>2, <1>3

LEMMA ZeroRegistersBusy ==
  ASSUME NEW w \in State PROVE ZeroRegisters(w) \in State /\ Busy(w, ZeroRegisters(w))
<1> DEFINE ack == [t \in Trigger |-> "idle"]
           res == [t \in Trigger |-> 0]
           done == [d \in Device |-> 0]
           v == [w EXCEPT !.ack = ack, !.res = res, !.done = done, !.veto = FALSE, !.code = 0]
<1>1. /\ ack \in [Trigger -> AckState] /\ res \in [Trigger -> ResultCode]
      /\ done \in [Device -> Nat]
  BY CodeTypes
<1>2. ZeroRegisters(w) = v
  BY DEF ZeroRegisters
<1> HIDE DEF ack, res, done
<1>3. v \in State
  BY <1>1 DEF State
<1>4. Core(v) = Core(w)
  BY DEF Core, State
<1> HIDE DEF v
<1> QED
  BY <1>2, <1>3, <1>4, CoreBusy

--------------------------------------------------------------------------------
\* The steps of the handshake that the handlers take.

LEMMA LinkSteps ==
  ASSUME Good(sm), Link(sm, sm'), JobOf(sm') = JobOf(sm) PROVE UNCHANGED H!hvars
BY DEF Link, JobOf, H!hvars

LEMMA SettlesSteps ==
  ASSUME Good(sm), Settles(sm, sm') PROVE H!HNext \/ UNCHANGED H!hvars
<1>1. CASE Busy(sm, sm')
  <2>1. Link(sm, sm') /\ JobOf(sm') = JobOf(sm)
    BY <1>1 DEF Busy, Alike, JobOf
  <2> QED
    BY <2>1, LinkSteps
<1>2. CASE Active(sm) /\ Ends(sm, sm')
  <2>1. /\ sm'.task.announced \in BOOLEAN /\ sm.task.announced \in BOOLEAN
        /\ sm.task.trig # NoTrigger /\ Link(sm, sm') /\ sm.up
        /\ sm.task.announced => sm.task.trig \in sm.last.trig
    BY <1>2 DEF Ends, Good, Fit, Active, Announced, State, Task
  <2>2. JobOf(sm') = IF sm.task.trig \in sm.last.trig
                     THEN [trig |-> sm.task.trig, answered |-> TRUE] ELSE IdleJob
    BY <1>2, <2>1 DEF Ends, JobOf, IdleJob
  <2>3. CASE sm.task.announced
    <3>1. JobOf(sm') = JobOf(sm)
      BY <2>1, <2>2, <2>3 DEF JobOf
    <3> QED
      BY <2>1, <3>1, LinkSteps
  <2>4. CASE ~sm.task.announced
    <3>1. H!Answer
      BY <2>1, <2>2, <2>4 DEF H!Answer, H!Idle, JobOf, IdleJob, Link
    <3> QED
      BY <3>1 DEF H!HNext
  <2> QED
    BY <2>3, <2>4
<1> QED
  BY <1>1, <1>2 DEF Settles

LEMMA ReadSteps ==
  ASSUME Good(sm), sm.up, Good(sm'),
         NEW b \in CommandArea, Reads(sm, b, sm')
  PROVE  H!HNext
<1>1. b.trig \in SUBSET Trigger
  BY DEF CommandArea, Block
<1>2. H!Rest(b.trig) = RestOf(sm, b) /\ H!Raised(b.trig) = RaisedBy(sm, b)
  BY DEF H!Rest, H!Raised, H!Idle, RestOf, RaisedBy, IdleJob, JobOf
<1>3. sm'.up = sm.up /\ sm'.last.trig = b.trig
  BY DEF Reads
<1>4. CASE JobOf(sm') = RestOf(sm, b) /\ sm'.latch \subseteq RaisedBy(sm, b)
  <2>1. H!Frame(b.trig)
    BY <1>2, <1>3, <1>4 DEF H!Frame, JobOf
  <2> QED
    BY <1>1, <2>1 DEF H!HNext
<1>5. CASE /\ RestOf(sm, b) = IdleJob
           /\ \E t \in RaisedBy(sm, b) :
                sm'.task.trig = t /\ sm'.latch \subseteq RaisedBy(sm, b) \ {t}
  <2>1. PICK t \in RaisedBy(sm, b) :
          sm'.task.trig = t /\ sm'.latch \subseteq RaisedBy(sm, b) \ {t}
    BY <1>5
  <2>2. sm'.task.announced \in BOOLEAN
    BY DEF Good, Fit, State, Task
  <2>3. H!Frame(b.trig)
    BY <1>2, <1>3, <1>5, <2>1, <2>2 DEF H!Frame, H!Idle, IdleJob, JobOf
  <2> QED
    BY <1>1, <2>3 DEF H!HNext
<1> QED
  BY <1>4, <1>5 DEF Reads

LEMMA DropSteps ==
  ASSUME Good(sm), Disturbance # {}, Dropped(sm'), sm'.up = sm.up,
         \/ sm'.last = sm.last /\ sm'.latch = sm.latch
         \/ sm'.last.trig = {} /\ sm'.latch = {}
  PROVE  H!HNext
<1>1. H!Abort
  BY DEF H!Abort, H!Idle, Dropped, JobOf, IdleJob
<1> QED
  BY <1>1 DEF H!HNext

--------------------------------------------------------------------------------
\* The inductive invariant: with it each step keeps it and is one of the
\* handshake's.

Inv ==
  /\ cmd \in CommandArea
  /\ Good(sm)
  /\ sm.stopped \/ ~sm.wired => Disturbance # {}

\* A step of the handshake; and only a frame, or a new connection, puts another
\* command area in the place of the last one read.
Moves ==
  /\ H!HNext \/ UNCHANGED H!hvars
  /\ sm'.last = sm.last \/ (sm'.up /\ sm'.wired) \/ "reset" \in Disturbance

\* A callback consumes what it was called with, then settles the task.
LEMMA CallbackMoves ==
  ASSUME Inv, UNCHANGED cmd, NEW w, Busy(sm, w), Settles(w, sm')
  PROVE  Inv' /\ Moves
<1>1. Settles(sm, sm')
  BY BusySettles
<1>2. Good(sm')
  BY <1>1, SettlesGood DEF Inv
<1>3. sm'.stopped = sm.stopped /\ sm'.wired = sm.wired
  BY <1>1 DEF Settles, Busy, Alike, Ends, Link
<1>4. Moves
  BY <1>1, SettlesSteps DEF Moves, Inv, Settles, Busy, Alike, Ends, Link
<1> QED
  BY <1>2, <1>3, <1>4 DEF Inv

LEMMA DropMoves ==
  ASSUME Inv, Disturbance # {}, UNCHANGED cmd, Dropped(sm'), sm'.up = sm.up,
         \/ sm'.last = sm.last /\ sm'.latch = sm.latch
         \/ sm'.last.trig = {} /\ sm'.latch = {},
         sm'.last = sm.last \/ "reset" \in Disturbance
  PROVE  Inv' /\ Moves
BY DropSteps, DroppedGood DEF Inv, Moves

LEMMA ConsumedBusy ==
  ASSUME NEW w \in State, NEW x
  PROVE  /\ Busy(w, [w EXCEPT !.vp = 0])
         /\ Busy(w, [w EXCEPT !.fatals = w.fatals \ {x}])
         /\ Busy(w, [w EXCEPT !.ocr = w.ocr \ {x}])
         /\ Busy(w, [w EXCEPT !.fafs = w.fafs \ {x}])
         /\ Busy(w, [w EXCEPT !.dogs = w.dogs \ {x}])
<1> DEFINE a == w.fatals \ {x}
           b == w.ocr \ {x}
           c == w.fafs \ {x}
           d == w.dogs \ {x}
<1>0. a \in SUBSET Nat /\ b \in SUBSET Stamp /\ c \in SUBSET Stamp /\ d \in SUBSET Watchdog
  BY DEF State
<1> HIDE DEF a, b, c, d
<1>1. [w EXCEPT !.vp = 0] \in State /\ Core([w EXCEPT !.vp = 0]) = Core(w)
  BY DEF State, Core
<1>2. [w EXCEPT !.fatals = a] \in State /\ Core([w EXCEPT !.fatals = a]) = Core(w)
  BY <1>0 DEF State, Core
<1>3. [w EXCEPT !.ocr = b] \in State /\ Core([w EXCEPT !.ocr = b]) = Core(w)
  BY <1>0 DEF State, Core
<1>4. [w EXCEPT !.fafs = c] \in State /\ Core([w EXCEPT !.fafs = c]) = Core(w)
  BY <1>0 DEF State, Core
<1>5. [w EXCEPT !.dogs = d] \in State /\ Core([w EXCEPT !.dogs = d]) = Core(w)
  BY <1>0 DEF State, Core
<1>6. /\ Busy(w, [w EXCEPT !.vp = 0]) /\ Busy(w, [w EXCEPT !.fatals = a])
      /\ Busy(w, [w EXCEPT !.ocr = b]) /\ Busy(w, [w EXCEPT !.fafs = c])
      /\ Busy(w, [w EXCEPT !.dogs = d])
  BY <1>1, <1>2, <1>3, <1>4, <1>5, CoreBusy
<1> QED
  BY <1>6 DEF a, b, c, d

LEMMA PlcWriteMoves ==
  ASSUME Inv, NEW b \in CommandArea, PlcWrite(b) PROVE Inv' /\ Moves
<1>1. Good(sm) /\ sm.up /\ cmd' = b
  BY DEF Inv, PlcWrite
<1>2. CASE ~sm.wired \/ sm.stopped
  <2>1. sm' = sm
    <3>1. CASE ~sm.wired
      BY <3>1 DEF PlcWrite
    <3>2. CASE sm.stopped
      BY <3>2 DEF PlcWrite, HandleRegistersRead
    <3> QED
      BY <1>2, <3>1, <3>2
  <2>2. Moves
    BY <2>1 DEF Moves, H!hvars
  <2> QED
    BY <1>1, <2>1, <2>2 DEF Inv
<1>3. CASE sm.wired /\ ~sm.stopped
  <2>1. PICK in \in FrameInput : sm' = HandleRegistersRead(sm, b, in)
    BY <1>3 DEF PlcWrite
  <2>2. Good(sm') /\ Reads(sm, b, sm')
    BY <1>1, <1>3, <2>1, HandleRegistersReadGood
  <2>3. H!HNext
    BY <1>1, <2>2, ReadSteps
  <2>4. sm'.stopped = sm.stopped /\ sm'.wired = sm.wired
    BY <2>2 DEF Reads
  <2> QED
    BY <1>1, <1>3, <2>2, <2>3, <2>4 DEF Inv, Moves, Reads
<1> QED
  BY <1>2, <1>3

LEMMA CallbacksMove ==
  ASSUME Inv,
         \/ BundleCaptureFinished \/ VisionPipelineFatalError \/ MechEyeFatalError
         \/ HikOcrTextReceived \/ FireAndForgetTimer
  PROVE  Inv' /\ Moves
<1>1. Good(sm) /\ sm \in State
  BY DEF Inv, Good, Fit
<1>2. CASE BundleCaptureFinished
  <2> DEFINE w == [sm EXCEPT !.vp = 0]
  <2>1. PICK ok \in BOOLEAN : sm' = OnBundleCaptureFinished(w, sm.vp, ok)
    BY <1>2 DEF BundleCaptureFinished
  <2>2. Busy(sm, w) /\ UNCHANGED cmd
    BY <1>1, <1>2, ConsumedBusy DEF BundleCaptureFinished
  <2> HIDE DEF w
  <2> QED
    BY <1>1, <2>1, <2>2, BusyGood, OnBundleCaptureFinishedSettles, CallbackMoves
<1>3. CASE VisionPipelineFatalError
  <2>1. PICK owner \in sm.fatals :
          sm' = OnVisionPipelineFatalError([sm EXCEPT !.fatals = @ \ {owner}])
    BY <1>3 DEF VisionPipelineFatalError
  <2> DEFINE w == [sm EXCEPT !.fatals = sm.fatals \ {owner}]
  <2>2. Busy(sm, w) /\ UNCHANGED cmd /\ sm' = OnVisionPipelineFatalError(w)
    BY <1>1, <1>3, <2>1, ConsumedBusy DEF VisionPipelineFatalError
  <2> HIDE DEF w
  <2> QED
    BY <1>1, <2>2, BusyGood, FatalErrorsSettle, CallbackMoves
<1>4. CASE MechEyeFatalError
  <2>1. Settles(sm, sm') /\ UNCHANGED cmd
    BY <1>1, <1>4, FatalErrorsSettle DEF MechEyeFatalError
  <2>2. Busy(sm, sm)
    BY <1>1, CoreBusy
  <2> QED
    BY <2>1, <2>2, CallbackMoves
<1>5. CASE HikOcrTextReceived
  <2>1. PICK answer \in sm.ocr, text \in BOOLEAN :
          sm' = OnHikOcrTextReceived([sm EXCEPT !.ocr = @ \ {answer}], answer, text)
    BY <1>5 DEF HikOcrTextReceived
  <2> DEFINE w == [sm EXCEPT !.ocr = sm.ocr \ {answer}]
  <2>2. Busy(sm, w) /\ UNCHANGED cmd /\ sm' = OnHikOcrTextReceived(w, answer, text)
    BY <1>1, <1>5, <2>1, ConsumedBusy DEF HikOcrTextReceived
  <2>3. answer \in Stamp
    BY <1>1, <2>1 DEF State
  <2> HIDE DEF w
  <2> QED
    BY <1>1, <2>2, <2>3, BusyGood, OnHikOcrTextReceivedSettles, CallbackMoves
<1>6. CASE FireAndForgetTimer
  <2>1. PICK timer \in sm.fafs :
          sm' = FireAndForgetAck([sm EXCEPT !.fafs = @ \ {timer}], timer)
    BY <1>6 DEF FireAndForgetTimer
  <2> DEFINE w == [sm EXCEPT !.fafs = sm.fafs \ {timer}]
  <2>2. Busy(sm, w) /\ UNCHANGED cmd /\ sm' = FireAndForgetAck(w, timer)
    BY <1>1, <1>6, <2>1, ConsumedBusy DEF FireAndForgetTimer
  <2> HIDE DEF w
  <2> QED
    BY <1>1, <2>2, BusyGood, FireAndForgetAckSettles, CallbackMoves
<1> QED
  BY <1>2, <1>3, <1>4, <1>5, <1>6

LEMMA FinalizeWatchdogTimerMoves ==
  ASSUME Inv, FinalizeWatchdogTimer PROVE Inv' /\ Moves
<1>1. Good(sm) /\ sm \in State
  BY DEF Inv, Good, Fit
<1>2. PICK timer \in sm.dogs :
        sm' = CodeReadFinalizeWatchdog([sm EXCEPT !.dogs = @ \ {timer}], timer)
  BY DEF FinalizeWatchdogTimer
<1> DEFINE w == [sm EXCEPT !.dogs = sm.dogs \ {timer}]
<1>3. Busy(sm, w) /\ UNCHANGED cmd /\ sm' = CodeReadFinalizeWatchdog(w, timer)
  BY <1>1, <1>2, ConsumedBusy DEF FinalizeWatchdogTimer
<1>4. timer \in Watchdog
  BY <1>1, <1>2 DEF State
<1> HIDE DEF w
<1>5. Good(w) /\ JobOf(w) = JobOf(sm) /\ Link(sm, w)
  BY <1>1, <1>3, BusyGood DEF Busy, Alike, JobOf
<1>6. /\ Good(sm')
      /\ sm'.last = w.last /\ sm'.latch = w.latch /\ sm'.up = w.up
      /\ sm'.wired = w.wired /\ sm'.stopped = w.stopped
      /\ \/ JobOf(sm') = JobOf(w)
         \/ Announced(w) /\ w.task.trig \in ScanStage /\ JobOf(sm') = IdleJob
  BY <1>3, <1>4, <1>5, CodeReadFinalizeWatchdogGood
<1>7. Inv'
  BY <1>3, <1>5, <1>6 DEF Inv, Link
<1>8. CASE JobOf(sm') = JobOf(w)
  <2>1. UNCHANGED H!hvars
    BY <1>5, <1>6, <1>8 DEF H!hvars, JobOf, Link
  <2> QED
    BY <1>5, <1>6, <1>7, <2>1 DEF Moves, Link
<1>9. CASE Announced(w) /\ w.task.trig \in ScanStage /\ JobOf(sm') = IdleJob
  <2>1. sm.task.announced /\ sm.task.trig \in ScanStage
    BY <1>3, <1>9 DEF Busy, Alike, Announced
  <2>2. H!ForcedRelease
    BY <1>5, <1>6, <1>9, <2>1 DEF H!ForcedRelease, H!Idle, JobOf, IdleJob, Link
  <2> QED
    BY <1>5, <1>6, <1>7, <2>2 DEF Moves, H!HNext, Link
<1> QED
  BY <1>6, <1>8, <1>9

LEMMA ProcessTimeoutMoves ==
  ASSUME Inv, ProcessTimeout PROVE Inv' /\ Moves
<1> DEFINE c == [sm EXCEPT !.clock = FALSE]
<1>1. Good(sm) /\ sm \in State
  BY DEF Inv, Good, Fit
<1>2. c \in State
  BY <1>1, ClockType
<1>3. sm' = OnProcessTimeout(c) /\ UNCHANGED cmd
  BY DEF ProcessTimeout
<1>4. /\ Good(sm') /\ Link(sm, sm')
      /\ JobOf(sm') = JobOf(sm) \/ (Active(sm) /\ Ends(sm, sm'))
  BY <1>1, <1>2, <1>3, OnProcessTimeoutSettles
<1> HIDE DEF c
<1>5. Inv'
  BY <1>3, <1>4 DEF Inv, Link
<1>6. Moves
  BY <1>1, <1>4, LinkSteps, SettlesSteps DEF Moves, Settles, Link
<1> QED
  BY <1>5, <1>6

LEMMA PersonZoneAlarmMoves ==
  ASSUME Inv, PersonZoneAlarm PROVE Inv' /\ Moves
<1>1. Good(sm) /\ Disturbance # {} /\ UNCHANGED cmd
  BY DEF Inv, PersonZoneAlarm
<1>2. PICK alarm \in BOOLEAN : sm' = ReportPersonZoneAlarm(sm, alarm)
  BY DEF PersonZoneAlarm
<1>3. Good(sm') /\ Link(sm, sm') /\ (JobOf(sm') = JobOf(sm) \/ Dropped(sm'))
  BY <1>1, <1>2, ReportPersonZoneAlarmGood
<1>4. CASE JobOf(sm') = JobOf(sm)
  <2>1. Inv'
    BY <1>1, <1>3 DEF Inv, Link
  <2> QED
    BY <1>1, <1>3, <1>4, <2>1, LinkSteps DEF Moves, Link
<1>5. CASE Dropped(sm')
  <2>1. sm'.up = sm.up /\ sm'.last = sm.last /\ sm'.latch = sm.latch
    BY <1>3 DEF Link
  <2> QED
    BY <1>1, <1>5, <2>1, DropMoves
<1> QED
  BY <1>3, <1>4, <1>5

LEMMA ModbusErrorMoves ==
  ASSUME Inv, ModbusError PROVE Inv' /\ Moves
<1>1. Good(sm) /\ Disturbance # {} /\ UNCHANGED cmd /\ sm' = OnModbusError(sm)
  BY DEF Inv, ModbusError
<1>2. /\ Good(sm') /\ Link(sm, sm')
      /\ Settles(sm, sm') \/ (~Active(sm) /\ Dropped(sm'))
  BY <1>1, OnModbusErrorSettles
<1>3. CASE Settles(sm, sm')
  <2>1. sm \in State
    BY <1>1 DEF Good, Fit
  <2>2. Busy(sm, sm)
    BY <2>1, CoreBusy
  <2> QED
    BY <1>1, <1>3, <2>2, CallbackMoves
<1>4. CASE ~Active(sm) /\ Dropped(sm')
  <2>1. sm'.up = sm.up /\ sm'.last = sm.last /\ sm'.latch = sm.latch
    BY <1>2 DEF Link
  <2> QED
    BY <1>1, <1>4, <2>1, DropMoves
<1> QED
  BY <1>2, <1>3, <1>4

LEMMA ModbusDisconnectMoves ==
  ASSUME Inv, ModbusDisconnect PROVE Inv' /\ Moves
<1> DEFINE c == [sm EXCEPT !.up = FALSE]
<1>1. Good(sm) /\ sm \in State /\ Disturbance # {} /\ UNCHANGED cmd /\ sm.up
  BY DEF Inv, Good, Fit, ModbusDisconnect
<1>2. c \in State
  BY <1>1 DEF State
<1>3. sm' = IF c.wired THEN OnModbusDisconnected(c) ELSE c
  BY DEF ModbusDisconnect
<1>4. /\ Good(sm') /\ sm'.last = sm.last /\ sm'.latch = sm.latch /\ ~sm'.up
      /\ sm'.wired = sm.wired /\ sm'.stopped = sm.stopped
      /\ JobOf(sm') \in {JobOf(sm), IdleJob}
  BY <1>1, <1>2, <1>3, OnModbusDisconnectedGood
<1> HIDE DEF c
<1>5. sm'.up = FALSE
  BY <1>4 DEF Good, Fit, State
<1>6. H!Disconnect
  BY <1>1, <1>4, <1>5 DEF H!Disconnect, H!Idle, JobOf, IdleJob
<1>7. Inv'
  BY <1>1, <1>4 DEF Inv
<1> QED
  BY <1>4, <1>6, <1>7 DEF Moves, H!HNext

LEMMA ModbusListenMoves ==
  ASSUME Inv, ModbusListen PROVE Inv' /\ Moves
<1> DEFINE a == [sm EXCEPT !.up = TRUE]
           w == ZeroRegisters(a)
<1>1. Good(sm) /\ sm \in State /\ ~sm.up /\ cmd' \in CommandArea
  BY BlockTypes DEF Inv, Good, Fit, ModbusListen
<1>2. a \in State
  BY <1>1 DEF State
<1>3. /\ a.last = sm.last /\ a.latch = sm.latch /\ a.block = sm.block
      /\ a.up = TRUE /\ a.wired = sm.wired /\ a.stopped = sm.stopped /\ a.task = sm.task
  BY <1>1 DEF State
<1>4. sm' = IF w.wired /\ ~w.stopped THEN OnModbusConnected(w) ELSE w
  BY DEF ModbusListen
<1> HIDE DEF a
<1>5. w \in State /\ Busy(a, w)
  BY <1>2, ZeroRegistersBusy
<1> HIDE DEF w
<1>6. /\ w.last = sm.last /\ w.latch = sm.latch /\ w.block = sm.block
      /\ w.up = TRUE /\ w.wired = sm.wired /\ w.stopped = sm.stopped
      /\ JobOf(w) = JobOf(sm)
  BY <1>3, <1>5 DEF Busy, Alike, Link, JobOf
<1>7. sm.up = FALSE
  BY <1>1 DEF State
<1>8. CASE w.wired /\ ~w.stopped
  <2>1. /\ Dropped(sm') /\ sm'.last.trig = {} /\ sm'.latch = {} /\ sm'.up = TRUE
        /\ sm'.wired = sm.wired /\ sm'.stopped = sm.stopped
    BY <1>4, <1>5, <1>6, <1>8, OnModbusConnectedDrops
  <2>2. H!Connect
    BY <1>7, <2>1 DEF H!Connect, H!Idle, Dropped, JobOf, IdleJob
  <2>3. Inv'
    BY <1>1, <2>1, DroppedGood DEF Inv
  <2> QED
    BY <1>6, <1>8, <2>1, <2>2, <2>3 DEF Moves, H!HNext
<1>9. CASE ~(w.wired /\ ~w.stopped)
  <2>1. sm' = w /\ Disturbance # {} /\ ~Active(sm)
    BY <1>1, <1>4, <1>6, <1>9 DEF Inv, Good
  <2>2. Dropped(sm)
    BY <1>1, <2>1, IdleIsDropped
  <2>3. Dropped(w)
    BY <1>5, <1>6, <2>2 DEF Dropped
  <2>4. Inv'
    BY <1>1, <1>6, <2>1, <2>3, DroppedGood DEF Inv
  <2>5. H!Connect
    BY <1>6, <1>7, <2>1 DEF H!Connect, JobOf
  <2> QED
    BY <1>6, <2>1, <2>4, <2>5 DEF Moves, H!HNext
<1> QED
  BY <1>8, <1>9

LEMMA HmiMoves ==
  ASSUME Inv, HmiReset \/ HmiStop \/ HmiCaptureBundle PROVE Inv' /\ Moves
<1>1. Good(sm) /\ sm \in State /\ UNCHANGED cmd /\ Disturbance # {}
  BY DEF Inv, Good, Fit, HmiReset, HmiStop, HmiCaptureBundle
<1>2. CASE HmiReset
  <2>1. sm' = Start(sm) /\ "reset" \in Disturbance
    BY <1>2 DEF HmiReset
  <2>2. /\ Dropped(sm') /\ sm'.up = sm.up
        /\ \/ sm'.last = sm.last /\ sm'.latch = sm.latch
           \/ sm'.last.trig = {} /\ sm'.latch = {}
    BY <1>1, <2>1, StartDrops
  <2> QED
    BY <1>1, <2>1, <2>2, DropMoves
<1>3. CASE HmiStop
  <2>1. sm' = Stop(sm)
    BY <1>3 DEF HmiStop
  <2>2. Dropped(sm') /\ sm'.up = sm.up /\ sm'.last = sm.last /\ sm'.latch = sm.latch
    BY <1>1, <2>1, StopDrops
  <2> QED
    BY <1>1, <2>2, DropMoves
<1>4. CASE HmiCaptureBundle
  <2>1. PICK dev \in DeviceOutcome : sm' = RequestCaptureBundle(sm, dev, 0)
    BY <1>4 DEF HmiCaptureBundle
  <2>2. Busy(sm, sm')
    BY <1>1, <2>1, RequestCaptureBundleBusy
  <2>3. Busy(sm, sm)
    BY <1>1, CoreBusy
  <2> QED
    BY <1>1, <2>2, <2>3, CallbackMoves DEF Settles
<1> QED
  BY <1>2, <1>3, <1>4

LEMMA InitInv == Init => Inv
<1> SUFFICES ASSUME Init PROVE Inv
  OBVIOUS
<1>1. /\ EmptyCache \in [Device -> SUBSET Entry]
      /\ [t \in Trigger |-> "idle"] \in [Trigger -> AckState]
      /\ [t \in Trigger |-> 0] \in [Trigger -> ResultCode]
      /\ [d \in Device |-> 0] \in [Device -> Nat]
  BY CodeTypes DEF EmptyCache
<1>2. sm \in State
  BY <1>1, NoTaskType, FirstEnabledPathType DEF Init, State
<1>3. sm.task = NoTask /\ sm.latch = {} /\ sm.block = NoTrigger /\ sm.wired /\ ~sm.stopped
  BY DEF Init
<1>4. Good(sm)
  BY <1>2, <1>3, NoTaskFields, IdleGood
<1> QED
  BY <1>3, <1>4, BlockTypes DEF Init, Inv

LEMMA NextMoves ==
  ASSUME Inv, [Next]_vars PROVE Inv' /\ Moves
<1>1. CASE UNCHANGED vars
  BY <1>1 DEF vars, Inv, Moves, H!hvars
<1>2. ASSUME NEW b \in PlcBlock, PlcWrite(b) PROVE Inv' /\ Moves
  BY <1>2, EnvironmentAssumption, PlcWriteMoves
<1>3. CASE PlcHeartbeat
  BY <1>3, PlcWriteMoves DEF PlcHeartbeat, Inv
<1> QED
  BY <1>1, <1>2, <1>3, CallbacksMove, FinalizeWatchdogTimerMoves, ProcessTimeoutMoves,
     PersonZoneAlarmMoves, ModbusListenMoves, ModbusDisconnectMoves, ModbusErrorMoves,
     HmiMoves
  DEF Next

--------------------------------------------------------------------------------
\* The theorems.

\* The invariant holds in every reachable state, whatever the configuration of
\* the station, the command areas the PLC writes and the disturbances.
THEOREM Invariance == Spec => []Inv
<1>1. Inv /\ [Next]_vars => Inv'
  BY NextMoves
<1> QED
  BY InitInv, <1>1, PTL DEF Spec

\* No handler of state_machine.cpp leaves a member out of its range: in
\* particular every answer it writes is one of the protocol's.
THEOREM TypeCorrect == Spec => []TypeOK
<1>1. Inv => TypeOK
  BY DEF Inv, Good, Fit, TypeOK
<1> QED
  BY Invariance, <1>1, PTL

\* An answer waits only for a release the PLC has yet to make, since
\* completeActiveTask() looks at the last command area itself.
THEOREM AnswersAreHeld == Spec => []AnnouncedHeld
<1>1. Inv => AnnouncedHeld
  BY DEF Inv, Good, Fit, Announced, AnnouncedHeld
<1> QED
  BY Invariance, <1>1, PTL

\* No task is ever without its timeout: every handler that ends, replaces or
\* keeps a task treats the timer with it.
THEOREM TasksHaveDeadlines == Spec => []TaskHasDeadline
<1>1. Inv => TaskHasDeadline
  BY DEF Inv, Good, TaskHasDeadline
<1> QED
  BY Invariance, <1>1, PTL

\* A running task is of the current workpiece generation and its PLC can hear the
\* answer, so finishInspection() never discards the result of a live task.
THEOREM LiveTasksAreCurrent == Spec => []LiveTaskIsCurrent
<1>1. Inv => LiveTaskIsCurrent
  BY DEF Inv, Good, Running, LiveTaskIsCurrent
<1> QED
  BY Invariance, <1>1, PTL

\* What latchRisingEdges() remembers, and what the watchdog locked, are triggers
\* the PLC still holds.
THEOREM LatchesAreSound == Spec => []LatchSound
<1>1. Inv => LatchSound
  BY DEF Inv, Good, LatchSound
<1> QED
  BY Invariance, <1>1, PTL

\* The state machine implements the handshake the PLC relies on.
THEOREM Implementation == Spec => ImplementsHandshake
<1>1. Init => H!HInit
  <2> SUFFICES ASSUME Init PROVE H!HInit
    OBVIOUS
  <2>1. sm.up = FALSE /\ sm.last = NoBlock /\ sm.latch = {} /\ sm.task = NoTask
    BY DEF Init
  <2>2. NoBlock.trig = {} /\ NoTask.trig = NoTrigger /\ NoTask.announced = FALSE
    BY DEF NoBlock, NoTask
  <2> QED
    BY <2>1, <2>2 DEF H!HInit, H!Idle
<1>2. Inv /\ [Next]_vars => [H!HNext]_(H!hvars)
  BY NextMoves DEF Moves
<1> QED
  BY Invariance, <1>1, <1>2, PTL DEF Spec, ImplementsHandshake, H!HSpec

--------------------------------------------------------------------------------
\* The captures, the cache and the acknowledgements: members the handshake does
\* not look at.  A transformer keeps them (Keeps), or at least those that outlive
\* a task (Spares).

Still(w, v) == v.vp = w.vp /\ v.nextReq = w.nextReq

\* What is cached is of the path and the run the cache is judged for.
CacheFit(w) ==
  \A d \in Device : \A e \in w.cache[d] : e.path = w.path /\ e.tid \in {0, w.runTask}

\* An answer, or the mark of a task in progress, has its task.
Owned(w) ==
  w.up => \A t \in Trigger : w.ack[t] \in {"running", "completed"} => w.task.trig = t

\* Any mark at all has its task.
Clear(w) == w.up => \A t \in Trigger : w.ack[t] # "idle" => w.task.trig = t

\* The deadline of a finished task is off.
Quiet(w) == w.task.announced => ~w.clock

\* A running task does not stand in front of an answer.
Fresh(w) == Running(w) => w.ack[w.task.trig] # "completed"

\* No acknowledgement is touched but that of the task there is, and not even that
\* if it runs on.
Local(w, v) ==
  /\ v.task.trig \in {w.task.trig, NoTrigger}
  /\ \A t \in Trigger : t # w.task.trig => v.ack[t] = w.ack[t]
  /\ Running(v) => Running(w) /\ v.ack = w.ack
  /\ Quiet(w) => Quiet(v)

Spares(w, v) == Still(w, v) /\ (CacheFit(w) => CacheFit(v))
Cuts(w, v) == Spares(w, v) /\ Local(w, v) /\ (Owned(w) => Owned(v))
Keeps(w, v) == Cuts(w, v) /\ (Clear(w) => Clear(v))

Shelf(w) == <<w.vp, w.nextReq, w.cache, w.path, w.runTask>>
Panel(w) == <<w.ack, w.task.trig, w.task.announced, w.clock, w.up>>

LEMMA LocalTrans ==
  ASSUME NEW w, NEW v, NEW u, Local(w, v), Local(v, u) PROVE Local(w, u)
BY NoTriggerNotOne DEF Local

LEMMA KeepsTrans ==
  ASSUME NEW w, NEW v, NEW u
  PROVE  /\ Keeps(w, v) /\ Keeps(v, u) => Keeps(w, u)
         /\ Cuts(w, v) /\ Cuts(v, u) => Cuts(w, u)
         /\ Spares(w, v) /\ Spares(v, u) => Spares(w, u)
<1>1. Spares(w, v) /\ Spares(v, u) => Spares(w, u)
  BY DEF Spares, Still
<1> QED
  BY <1>1, LocalTrans DEF Keeps, Cuts

LEMMA ShelfSpares ==
  ASSUME NEW w, NEW v, Shelf(v) = Shelf(w) PROVE Spares(w, v)
BY DEF Shelf, Spares, Still, CacheFit

LEMMA PanelOwned ==
  ASSUME NEW w, NEW v, Panel(v) = Panel(w)
  PROVE  /\ Local(w, v) /\ Quiet(v) = Quiet(w)
         /\ Owned(w) => Owned(v)
         /\ Clear(w) => Clear(v)
BY DEF Panel, Owned, Clear, Local, Quiet, Running, Active

LEMMA SameKeeps ==
  ASSUME NEW w, NEW v, Shelf(v) = Shelf(w), Panel(v) = Panel(w) PROVE Keeps(w, v)
BY ShelfSpares, PanelOwned DEF Keeps, Cuts

\* An empty cache is of any path.
LEMMA EmptyKeeps ==
  ASSUME NEW w, NEW v, Still(w, v), v.cache = EmptyCache, Panel(v) = Panel(w)
  PROVE  Keeps(w, v) /\ CacheFit(v)
<1>1. CacheFit(v)
  BY DEF CacheFit, EmptyCache
<1> QED
  BY <1>1, PanelOwned DEF Keeps, Cuts, Spares

LEMMA ClearDoneRegistersKeeps ==
  ASSUME NEW w \in State PROVE Keeps(w, ClearDoneRegisters(w))
<1>1. Shelf(ClearDoneRegisters(w)) = Shelf(w) /\ Panel(ClearDoneRegisters(w)) = Panel(w)
  BY DEF ClearDoneRegisters, Shelf, Panel, State
<1> QED
  BY <1>1, SameKeeps

\* What the switches of the path leave.
LEMMA ClearedCacheIs ==
  ASSUME NEW w \in State
  PROVE  LET v == ClearDoneRegisters(ClearCacheForPathSwitch(w))
         IN v \in State /\ Still(w, v) /\ v.cache = EmptyCache /\ Panel(v) = Panel(w)
<1> DEFINE u == ClearCacheForPathSwitch(w)
           v == ClearDoneRegisters(u)
<1>1. u \in State /\ v \in State
  BY ClearCacheType, ClearDoneRegistersType
<1>2. Still(w, u) /\ u.cache = EmptyCache /\ Panel(u) = Panel(w)
  BY DEF ClearCacheForPathSwitch, Still, Panel, State
<1> HIDE DEF u
<1>3. Still(u, v) /\ v.cache = u.cache /\ Panel(v) = Panel(u)
  BY <1>1 DEF ClearDoneRegisters, Still, Panel, State
<1> QED
  BY <1>1, <1>2, <1>3 DEF Still, u

LEMMA PrepareNextScanPathKeeps ==
  ASSUME NEW w \in State
  PROVE  LET v == PrepareNextScanPath(w)
         IN Keeps(w, v) /\ CacheFit(v) /\ Panel(v) = Panel(w)
<1> DEFINE v == ClearDoneRegisters(ClearCacheForPathSwitch(w))
           x == [v EXCEPT !.path = NextEnabledPath(w.path)]
<1>1. v \in State /\ Still(w, v) /\ v.cache = EmptyCache /\ Panel(v) = Panel(w)
  BY ClearedCacheIs
<1>2. PrepareNextScanPath(w) = x
  BY DEF PrepareNextScanPath
<1> HIDE DEF v
<1>3. Still(w, x) /\ x.cache = EmptyCache /\ Panel(x) = Panel(w)
  BY <1>1 DEF Still, Panel, State
<1> HIDE DEF x
<1> QED
  BY <1>2, <1>3, EmptyKeeps

LEMMA ApplyPlcScanPathIdKeeps ==
  ASSUME NEW w \in State, NEW b, NEW c, NEW d
  PROVE  Keeps(w, ApplyPlcScanPathId(w, b, c, d))
<1> DEFINE v == ClearDoneRegisters(ClearCacheForPathSwitch(w))
           x == [v EXCEPT !.path = b.path]
<1>1. v \in State /\ Still(w, v) /\ v.cache = EmptyCache /\ Panel(v) = Panel(w)
  BY ClearedCacheIs
<1>2. ApplyPlcScanPathId(w, b, c, d) \in {w, x}
  BY DEF ApplyPlcScanPathId
<1> HIDE DEF v
<1>3. Still(w, x) /\ x.cache = EmptyCache /\ Panel(x) = Panel(w)
  BY <1>1 DEF Still, Panel, State
<1> HIDE DEF x
<1> QED
  BY <1>2, <1>3, EmptyKeeps, SameKeeps

LEMMA ForgetWorkpieceKeeps ==
  ASSUME NEW w \in State PROVE Keeps(w, ForgetWorkpiece(w))
<1> DEFINE v == ForgetWorkpiece(w)
<1>1. Still(w, v) /\ v.cache = EmptyCache /\ Panel(v) = Panel(w)
  BY DEF ForgetWorkpiece, ResetScanSegmentCache, ClearTransientWorkpieceState,
         Still, Panel, State
<1> QED
  BY <1>1, EmptyKeeps

\* The policies empty the cache, or drop segments from it.
LEMMA ApplyPolicyKeeps ==
  ASSUME NEW w \in State
  PROVE  Keeps(w, ApplyScanFailurePolicy(w)) /\ Keeps(w, ApplyInspectionTimeoutPolicy(w))
<1> DEFINE d == DeviceOf(w.task.trig)
           left == {e \in w.cache[d] : e.seg # w.task.seg}
           cache == [w.cache EXCEPT ![d] = left]
           c == [w EXCEPT !.cache = cache]
           k == ClearCacheForPathSwitch(w)
           n == [w EXCEPT !.gen = w.gen + 1]
           m == ClearCacheForPathSwitch(n)
<1>1. /\ ApplyScanFailurePolicy(w) \in {ForgetWorkpiece(w), k, c}
      /\ ApplyInspectionTimeoutPolicy(w) \in {ForgetWorkpiece(w), m, n}
  BY DEF ApplyScanFailurePolicy, ApplyInspectionTimeoutPolicy
<1>2. Keeps(w, c)
  <2>1. d \in Device /\ w.cache \in [Device -> SUBSET Entry]
    BY DeviceOfType DEF State
  <2>2. \A x \in Device : cache[x] \subseteq w.cache[x]
    BY <2>1
  <2> HIDE DEF cache
  <2>3. Still(w, c) /\ c.path = w.path /\ c.runTask = w.runTask /\ c.cache = cache
        /\ Panel(c) = Panel(w)
    BY DEF Still, Panel, State
  <2> HIDE DEF c, d
  <2>4. CacheFit(w) => CacheFit(c)
    BY <2>2, <2>3 DEF CacheFit
  <2> QED
    BY <2>3, <2>4, PanelOwned DEF Keeps, Cuts, Spares
<1>3. Keeps(w, k)
  <2>1. Still(w, k) /\ k.cache = EmptyCache /\ Panel(k) = Panel(w)
    BY DEF ClearCacheForPathSwitch, Still, Panel, State
  <2> QED
    BY <2>1, EmptyKeeps
<1>4. n \in State /\ Shelf(n) = Shelf(w) /\ Panel(n) = Panel(w)
  BY DEF Shelf, Panel, State
<1>5. Keeps(w, m)
  <2>1. Still(w, m) /\ m.cache = EmptyCache /\ Panel(m) = Panel(w)
    BY DEF ClearCacheForPathSwitch, Still, Panel, State
  <2> QED
    BY <2>1, EmptyKeeps
<1> HIDE DEF c, k, n, m
<1> QED
  BY <1>1, <1>2, <1>3, <1>4, <1>5, ForgetWorkpieceKeeps, SameKeeps

\* storeSegmentCaptureResult(): the cache stays of one path because the task's
\* path is the current one, and of one run because another task number empties it.
LEMMA StoreSegmentKeeps ==
  ASSUME NEW w \in State, NEW d \in Device, w.task.path = w.path
  PROVE  Keeps(w, StoreSegment(w, d))
<1> DEFINE newRun == w.task.tid # 0 /\ w.runTask # 0 /\ w.task.tid # w.runTask
           kept == IF newRun THEN EmptyCache ELSE w.cache
           entry == [seg |-> w.task.seg, path |-> w.task.path, tid |-> w.task.tid]
           own == {e \in kept[d] : e.seg # w.task.seg} \cup {entry}
           cache == [kept EXCEPT ![d] = own]
           run == IF w.task.tid # 0 THEN w.task.tid ELSE w.runTask
           v == [w EXCEPT !.cache = cache, !.runTask = run]
<1>1. StoreSegment(w, d) = v
  BY DEF StoreSegment
<1>2. kept \in [Device -> SUBSET Entry]
  BY DEF State, EmptyCache
<1>3. \A x \in Device : cache[x] \subseteq kept[x] \cup {entry}
  BY <1>2
<1>4. entry.path = w.path /\ entry.tid \in {0, run}
  OBVIOUS
<1>5. CacheFit(w) => \A x \in Device : \A e \in kept[x] : e.path = w.path /\ e.tid \in {0, run}
  <2>1. CASE newRun
    BY <2>1 DEF EmptyCache
  <2>2. CASE ~newRun
    <3>1. run = w.runTask \/ w.runTask = 0
      BY <2>2
    <3> QED
      BY <2>2, <3>1 DEF CacheFit
  <2> QED
    BY <2>1, <2>2
<1> HIDE DEF cache, kept, entry, run
<1>6. Still(w, v) /\ v.path = w.path /\ v.runTask = run /\ v.cache = cache /\ Panel(v) = Panel(w)
  BY DEF Still, Panel, State
<1> HIDE DEF v
<1>7. CacheFit(w) => CacheFit(v)
  BY <1>3, <1>4, <1>5, <1>6 DEF CacheFit
<1> QED
  BY <1>1, <1>6, <1>7, PanelOwned DEF Keeps, Cuts, Spares

LEMMA WriteScanResultKeeps ==
  ASSUME NEW w \in State PROVE Keeps(w, WriteScanResult(w))
<1>1. Shelf(WriteScanResult(w)) = Shelf(w) /\ Panel(WriteScanResult(w)) = Panel(w)
  BY DEF WriteScanResult, Shelf, Panel, State
<1> QED
  BY <1>1, SameKeeps

LEMMA ClearActiveTaskSpares ==
  ASSUME NEW w \in State PROVE Spares(w, ClearActiveTask(w))
<1>1. Shelf(ClearActiveTask(w)) = Shelf(w)
  BY DEF ClearActiveTask, Shelf, State
<1> QED
  BY <1>1, ShelfSpares

LEMMA ClearActiveTaskLocal ==
  ASSUME NEW w \in State PROVE Local(w, ClearActiveTask(w))
<1>1. ClearActiveTask(w).ack = w.ack /\ ClearActiveTask(w).task = NoTask
  BY DEF ClearActiveTask, State
<1> QED
  BY <1>1, NoTaskFields DEF Local, Quiet, Running, Active

LEMMA ClockOffKeeps ==
  ASSUME NEW w \in State PROVE Keeps(w, [w EXCEPT !.clock = FALSE])
<1> DEFINE v == [w EXCEPT !.clock = FALSE]
<1>1. Shelf(v) = Shelf(w) /\ v.ack = w.ack /\ v.task = w.task /\ v.up = w.up /\ ~v.clock
  BY DEF Shelf, State
<1> HIDE DEF v
<1>2. Local(w, v)
  BY <1>1 DEF Local, Quiet, Running, Active
<1> QED
  BY <1>1, <1>2, ShelfSpares DEF Keeps, Cuts, Owned, Clear, v

\* Without an answer of its own a task can be dropped.
LEMMA ClearActiveTaskOwned ==
  ASSUME NEW w \in State, Owned(w),
         w.up /\ Active(w) => w.ack[w.task.trig] \notin {"running", "completed"}
  PROVE  Owned(ClearActiveTask(w))
<1>1. ClearActiveTask(w).ack = w.ack /\ ClearActiveTask(w).up = w.up
  BY DEF ClearActiveTask, State
<1>2. w.task.trig # NoTrigger => Active(w)
  BY DEF Active
<1> QED
  BY <1>1, <1>2, NoTriggerNotOne DEF Owned

LEMMA ReleaseKeeps ==
  ASSUME NEW w \in State, Active(w) PROVE Keeps(w, Release(w))
<1> DEFINE c == ClearActiveTask(w)
           t == w.task.trig
           ack == [c.ack EXCEPT ![t] = "idle"]
<1>0. Shelf(c) = Shelf(w) /\ c.ack = w.ack
  BY DEF ClearActiveTask, Shelf, State
<1>1. c \in State /\ Shelf(c) = Shelf(w) /\ c.ack = w.ack /\ c.up = w.up /\ c.task = NoTask
  BY <1>0, ClearActiveTaskType, ClearActiveTaskLink DEF Link
<1>2. \E r, d : Release(w) = [c EXCEPT !.ack = ack, !.res = r, !.mode = "ready", !.done = d]
  BY DEF Release
<1> HIDE DEF c
<1>3. /\ Shelf(Release(w)) = Shelf(c) /\ Release(w).ack = ack /\ Release(w).up = c.up
      /\ Release(w).task = NoTask
  BY <1>1, <1>2 DEF Shelf, State
<1>4. w.ack \in [Trigger -> AckState]
  BY DEF State
<1>5. \A x \in Trigger : ack[x] = IF x = t THEN "idle" ELSE w.ack[x]
  BY <1>1, <1>4
<1> HIDE DEF ack
<1>6. /\ Owned(w) => Owned(Release(w))
      /\ Clear(w) => Clear(Release(w))
  BY <1>1, <1>3, <1>5 DEF Owned, Clear
<1>8. Local(w, Release(w))
  BY <1>3, <1>5, NoTaskFields DEF Local, Quiet, Running, Active
<1>7. Shelf(Release(w)) = Shelf(w)
  BY <1>1, <1>3
<1> QED
  BY <1>6, <1>7, <1>8, ShelfSpares DEF Keeps, Cuts

LEMMA FinalizeKeeps ==
  ASSUME NEW w \in State, NEW b, NEW force PROVE Keeps(w, Finalize(w, b, force))
<1> DEFINE r == Release(w)
           v == [r EXCEPT !.advance = FALSE]
<1>1. Finalize(w, b, force) \in {w} \/ (Active(w) /\ Finalize(w, b, force) \in {r, PrepareNextScanPath(v)})
  BY DEF Finalize, Announced
<1>2. Keeps(w, w)
  BY SameKeeps
<1>3. ASSUME Active(w) PROVE Keeps(w, r) /\ Keeps(w, PrepareNextScanPath(v))
  <2>1. r \in State /\ Keeps(w, r)
    BY <1>3, ReleaseType, ReleaseKeeps
  <2> HIDE DEF r
  <2>2. v \in State /\ Shelf(v) = Shelf(r) /\ Panel(v) = Panel(r)
    <3>1. ASSUME NEW y \in State PROVE [y EXCEPT !.advance = FALSE] \in State
      BY DEF State
    <3>2. Shelf(v) = Shelf(r) /\ Panel(v) = Panel(r)
      BY <2>1 DEF Shelf, Panel, State
    <3> QED
      BY <2>1, <3>1, <3>2
  <2> HIDE DEF v
  <2>3. Keeps(r, v) /\ Keeps(v, PrepareNextScanPath(v))
    BY <2>2, SameKeeps, PrepareNextScanPathKeeps
  <2> QED
    BY <2>1, <2>3, KeepsTrans
<1> QED
  BY <1>1, <1>2, <1>3

\* A finished task that is released leaves its register idle.
LEMMA FinalizedIdle ==
  ASSUME NEW w \in State, Announced(w), NEW b, NEW force \in BOOLEAN,
         force \/ (~b.empty /\ w.task.trig \notin b.trig)
  PROVE  Finalize(w, b, force).ack[w.task.trig] = "idle"
<1> DEFINE t == w.task.trig
           ack == [w.ack EXCEPT ![t] = "idle"]
           r == Release(w)
           y == [r EXCEPT !.advance = FALSE]
<1>1. t \in Trigger /\ w.ack \in [Trigger -> AckState]
  BY DEF Announced, Active, State, Task
<1>2. ack[t] = "idle"
  BY <1>1
<1>3. r \in State
  BY ReleaseType DEF Announced
<1>4. ClearActiveTask(w).ack = w.ack
  BY DEF ClearActiveTask, State
<1>5. r.ack = ack
  BY <1>4 DEF Release, ClearActiveTask, State
<1> HIDE DEF ack, r
<1>6. y \in State /\ y.ack = ack
  <2>1. ASSUME NEW v \in State PROVE [v EXCEPT !.advance = FALSE] \in State
    BY DEF State
  <2> QED
    <3>1. y \in State
      BY <1>3, <2>1
    <3>2. y.ack = r.ack
      BY <1>3 DEF State
    <3> QED
      BY <1>5, <3>1, <3>2
<1> HIDE DEF y
<1>7. PrepareNextScanPath(y).ack = ack
  BY <1>6, PrepareNextScanPathKeeps DEF Panel
<1>8. Finalize(w, b, force) \in {PrepareNextScanPath(y), r}
  BY DEF Finalize, y, r
<1> QED
  BY <1>2, <1>5, <1>7, <1>8

LEMMA AnnounceKeeps ==
  ASSUME NEW w \in State, Active(w), NEW result, NEW ackState
  PROVE  /\ Keeps(w, Announce(w, result, ackState))
         /\ Announce(w, result, ackState).ack[w.task.trig] = ackState
         /\ Announce(w, result, ackState).task.trig = w.task.trig
         /\ Announce(w, result, ackState).up = w.up
<1> DEFINE v == Announce(w, result, ackState)
           t == w.task.trig
<1>1. /\ Shelf(v) = Shelf(w) /\ v.up = w.up /\ v.task.trig = t
      /\ v.task.announced /\ ~v.clock
  BY DEF Announce, Shelf, State, Task
<1>2. t \in Trigger /\ w.ack \in [Trigger -> AckState]
  BY DEF Active, State, Task
<1>3. v.ack = [w.ack EXCEPT ![t] = ackState]
  BY DEF Announce, State
<1>4. v.ack[t] = ackState /\ \A x \in Trigger : x # t => v.ack[x] = w.ack[x]
  BY <1>2, <1>3
<1> HIDE DEF v
<1>5. /\ Owned(w) => Owned(v)
      /\ Clear(w) => Clear(v)
  BY <1>1, <1>4 DEF Owned, Clear
<1>6. Local(w, v)
  BY <1>1, <1>4 DEF Local, Quiet, Running
<1> QED
  BY <1>1, <1>4, <1>5, <1>6, ShelfSpares DEF Keeps, Cuts, v

LEMMA CompleteActiveTaskKeeps ==
  ASSUME NEW w \in State, NEW result \in ResultCode, NEW ackState \in AckState
  PROVE  Keeps(w, CompleteActiveTask(w, result, ackState))
<1> DEFINE a == Announce(w, result, ackState)
           f == [w EXCEPT !.mode = "fault", !.clock = FALSE]
           v == CompleteActiveTask(w, result, ackState)
<1>1. CASE ~Active(w)
  <2>1. v = w
    BY <1>1 DEF CompleteActiveTask
  <2> QED
    BY <2>1, SameKeeps
<1>2. CASE Active(w) /\ w.up
  <2>1. v = Finalize(a, w.last, FALSE)
    BY <1>2 DEF CompleteActiveTask
  <2>2. a \in State /\ Keeps(w, a)
    BY <1>2, AnnounceType, AnnounceKeeps
  <2> HIDE DEF a, v
  <2> QED
    BY <2>1, <2>2, FinalizeKeeps, KeepsTrans DEF v
<1>3. CASE Active(w) /\ ~w.up
  <2>1. v = ClearActiveTask(f)
    BY <1>3 DEF CompleteActiveTask, CompletionWriteFault
  <2>2. /\ f \in State /\ Shelf(f) = Shelf(w) /\ ~f.up
        /\ f.task = w.task /\ f.ack = w.ack /\ ~f.clock
    BY <1>3 DEF State, Shelf
  <2>5. Local(w, f)
    BY <2>2 DEF Local, Quiet, Running, Active
  <2> HIDE DEF f, v
  <2>3. Spares(w, v)
    BY <2>1, <2>2, ShelfSpares, ClearActiveTaskSpares, KeepsTrans
  <2>4. ~v.up
    BY <2>1, <2>2, ClearActiveTaskLink DEF Link
  <2>6. Local(w, v)
    BY <2>1, <2>2, <2>5, ClearActiveTaskLocal, LocalTrans
  <2> QED
    BY <2>3, <2>4, <2>6 DEF Keeps, Cuts, Owned, Clear, v
<1> QED
  BY <1>1, <1>2, <1>3

\* An answer of failure leaves nothing that would need its task.
LEMMA FailedAnswerOwned ==
  ASSUME NEW w \in State, Active(w), w.up, NEW result \in ResultCode, Owned(w)
  PROVE  LET v == CompleteActiveTask(w, result, "failed")
         IN v.up /\ Active(v) => v.ack[v.task.trig] \notin {"running", "completed"}
<1> DEFINE a == Announce(w, result, "failed")
           v == CompleteActiveTask(w, result, "failed")
<1>1. "failed" \in AckState
  BY CodeTypes
<1>2. a \in State /\ a.ack[a.task.trig] = "failed"
  BY <1>1, AnnounceType, AnnounceKeeps
<1>3. v = Finalize(a, w.last, FALSE)
  BY DEF CompleteActiveTask
<1> HIDE DEF a, v
<1>4. v = a \/ v.task = NoTask
  BY <1>2, <1>3, FinalizeEnds
<1>5. v.task = NoTask => ~Active(v)
  BY NoTaskFields DEF Active
<1> QED
  BY <1>2, <1>4, <1>5 DEF v

LEMMA CompleteScanSegmentKeeps ==
  ASSUME NEW w \in State, NEW result \in ResultCode, NEW ackState \in AckState
  PROVE  Keeps(w, CompleteScanSegment(w, result, ackState))
<1> DEFINE u == IF result >= 5 THEN ApplyScanFailurePolicy(w) ELSE w
           v == WriteScanResult(u)
<1>1. u \in State /\ Keeps(w, u)
  BY ApplyPolicyType, ApplyPolicyKeeps, SameKeeps
<1> HIDE DEF u
<1>2. v \in State /\ Keeps(u, v)
  BY <1>1, WriteScanResultType, WriteScanResultKeeps
<1> HIDE DEF v
<1>3. Keeps(v, CompleteActiveTask(v, result, ackState))
  BY <1>2, CompleteActiveTaskKeeps
<1>4. Keeps(w, CompleteActiveTask(v, result, ackState))
  BY <1>1, <1>2, <1>3, KeepsTrans
<1> QED
  BY <1>4 DEF CompleteScanSegment, u, v

LEMMA ReadKeeps ==
  ASSUME NEW w \in State, NEW r, NEW c
  PROVE  /\ Keeps(w, [w EXCEPT !.read = r])
         /\ Keeps(w, [w EXCEPT !.read = r, !.code = c])
         /\ Keeps(w, [w EXCEPT !.read = r, !.readGen = c])
<1>1. /\ Shelf([w EXCEPT !.read = r]) = Shelf(w) /\ Panel([w EXCEPT !.read = r]) = Panel(w)
      /\ Shelf([w EXCEPT !.read = r, !.code = c]) = Shelf(w)
      /\ Panel([w EXCEPT !.read = r, !.code = c]) = Panel(w)
      /\ Shelf([w EXCEPT !.read = r, !.readGen = c]) = Shelf(w)
      /\ Panel([w EXCEPT !.read = r, !.readGen = c]) = Panel(w)
  BY DEF Shelf, Panel, State
<1> QED
  BY <1>1, SameKeeps

LEMMA FinishInspectionKeeps ==
  ASSUME NEW w \in State, NEW result \in ResultCode
  PROVE  Keeps(w, FinishInspection(w, result))
<1> DEFINE r == IF w.read = "wait" THEN "none" ELSE w.read
           v == [w EXCEPT !.read = r]
           a == IF result <= 2 THEN "completed" ELSE "failed"
           c == CompleteActiveTask(v, result, a)
<1>1. r \in {"none", "wait", "soft"} /\ a \in AckState
  BY CodeTypes DEF State
<1>2. FinishInspection(w, result) \in {v, c, PrepareNextScanPath(c)}
  BY DEF FinishInspection
<1> HIDE DEF r, a
<1>3. v \in State /\ Keeps(w, v)
  BY <1>1, ReadBusy, ReadKeeps DEF Busy, Alike
<1> HIDE DEF v
<1>4. c \in State /\ Keeps(v, c)
  BY <1>1, <1>3, CompleteActiveTaskType, CompleteActiveTaskKeeps
<1> HIDE DEF c
<1>5. Keeps(w, c) /\ Keeps(w, PrepareNextScanPath(c))
  BY <1>3, <1>4, PrepareNextScanPathKeeps, KeepsTrans
<1> QED
  BY <1>2, <1>3, <1>5

LEMMA AbortActiveTaskForFaultKeeps ==
  ASSUME NEW w, Fit(w)
  PROVE  /\ Keeps(w, AbortActiveTaskForFault(w))
         /\ Owned(w) => Owned(ClearActiveTask(AbortActiveTaskForFault(w)))
<1> DEFINE u == IF w.task.announced THEN w ELSE ApplyScanFailurePolicy(w)
           v == IF w.task.trig \in ScanStage THEN WriteScanResult(u) ELSE w
           x == [v EXCEPT !.clock = FALSE]
           n == [w EXCEPT !.clock = FALSE]
           a == AbortActiveTaskForFault(w)
<1>1. w \in State
  BY DEF Fit
<1>2. a = IF ~Active(w) THEN n
          ELSE IF v.up THEN CompleteActiveTask(v, 7, "failed") ELSE ClearActiveTask(x)
  BY DEF AbortActiveTaskForFault
<1>3. u \in State /\ Keeps(w, u) /\ Alike(w, u)
  BY <1>1, ApplyPolicyType, ApplyPolicyKeeps, ApplyPolicyAlike, SameKeeps DEF Alike, Link
<1> HIDE DEF u
<1>4. WriteScanResult(u) \in State /\ Keeps(u, WriteScanResult(u)) /\ Alike(u, WriteScanResult(u))
  BY <1>3, WriteScanResultType, WriteScanResultKeeps, WriteScanResultBusy DEF Busy
<1>5. v \in State /\ Keeps(w, v) /\ (Active(v) <=> Active(w))
  BY <1>1, <1>3, <1>4, KeepsTrans, SameKeeps, AlikeTrans DEF Alike, Active
<1>6. 7 \in ResultCode /\ "failed" \in AckState
  BY DEF ResultCode, AckState
<1> HIDE DEF v, a
<1>7. CASE ~Active(w)
  <2>1. n \in State /\ Keeps(w, n) /\ n.task = w.task
    BY <1>1, ClockOffKeeps DEF State
  <2>2. a = n
    BY <1>2, <1>7
  <2> HIDE DEF n
  <2>3. Keeps(w, a) /\ a \in State /\ ~Active(a)
    BY <1>7, <2>1, <2>2 DEF Active
  <2> QED
    BY <2>3, ClearActiveTaskOwned DEF Keeps, Cuts, a
<1>8. CASE Active(w) /\ v.up
  <2>1. a = CompleteActiveTask(v, 7, "failed")
    BY <1>2, <1>8
  <2>2. a \in State /\ Keeps(v, a)
    BY <1>5, <1>6, <2>1, CompleteActiveTaskType, CompleteActiveTaskKeeps
  <2>3. Owned(v) /\ a.up /\ Active(a) => a.ack[a.task.trig] \notin {"running", "completed"}
    BY <1>5, <1>6, <1>8, <2>1, FailedAnswerOwned
  <2>4. Keeps(w, a)
    BY <1>5, <2>2, KeepsTrans
  <2>5. Owned(w) => Owned(v) /\ Owned(a)
    BY <1>5, <2>4 DEF Keeps, Cuts
  <2> QED
    BY <2>2, <2>3, <2>4, <2>5, ClearActiveTaskOwned DEF a
<1>9. CASE Active(w) /\ ~v.up
  <2>1. a = ClearActiveTask(x)
    BY <1>2, <1>9
  <2>2. x \in State /\ Shelf(x) = Shelf(v) /\ ~x.up /\ Keeps(v, x)
    BY <1>5, <1>9, ClockOffKeeps DEF State, Shelf
  <2> HIDE DEF x
  <2>3. Spares(v, a) /\ a \in State /\ ~a.up /\ ~ClearActiveTask(a).up
    BY <2>1, <2>2, ShelfSpares, ClearActiveTaskSpares, ClearActiveTaskType, ClearActiveTaskLink,
       KeepsTrans DEF Link
  <2>4. Spares(w, a)
    BY <1>5, <2>3, KeepsTrans DEF Keeps, Cuts
  <2>5. Local(w, a)
    BY <1>5, <2>1, <2>2, ClearActiveTaskLocal, LocalTrans DEF Keeps, Cuts
  <2> QED
    BY <2>3, <2>4, <2>5 DEF Keeps, Cuts, Owned, Clear, a
<1> QED
  BY <1>7, <1>8, <1>9

LEMMA EnterFaultStateKeeps ==
  ASSUME NEW w, Fit(w), NEW notifyPlc \in BOOLEAN
  PROVE  /\ Cuts(w, EnterFaultState(w, notifyPlc))
         /\ notifyPlc \/ ~w.up => Keeps(w, EnterFaultState(w, notifyPlc))
<1> DEFINE f == [w EXCEPT !.mode = "fault"]
           a == AbortActiveTaskForFault(f)
           c == ClearActiveTask(a)
<1>1. w \in State
  BY DEF Fit
<1>2. f \in State /\ Alike(w, f) /\ Shelf(f) = Shelf(w) /\ Panel(f) = Panel(w)
  BY <1>1 DEF State, Alike, Link, Shelf, Panel
<1>3. EnterFaultState(w, notifyPlc) = IF notifyPlc THEN a ELSE c
  BY DEF EnterFaultState
<1> HIDE DEF f
<1>4. Fit(f) /\ Keeps(w, f)
  BY <1>2, AlikeTrans, SameKeeps
<1>5. a \in State /\ a.up = w.up
  BY <1>2, <1>4, AbortActiveTaskForFaultEnds, ClockType DEF Ends, Alike, Link
<1>6. Keeps(f, a) /\ (Owned(f) => Owned(c))
  BY <1>4, AbortActiveTaskForFaultKeeps
<1> HIDE DEF a
<1>7. Spares(a, c) /\ Local(a, c) /\ c.up = a.up
  BY <1>5, ClearActiveTaskSpares, ClearActiveTaskLocal, ClearActiveTaskLink DEF Link
<1> HIDE DEF c
<1>8. Cuts(f, c)
  BY <1>6, <1>7, KeepsTrans, LocalTrans DEF Keeps, Cuts
<1>9. Cuts(w, c)
  BY <1>4, <1>8, KeepsTrans DEF Keeps
<1>10. ~w.up => Keeps(w, c)
  BY <1>5, <1>7, <1>9 DEF Keeps, Clear
<1>11. Keeps(w, a)
  BY <1>4, <1>6, KeepsTrans
<1> QED
  BY <1>3, <1>9, <1>10, <1>11 DEF Keeps

--------------------------------------------------------------------------------
\* A handler makes one request for a capture at the most.

Asks(w, v) ==
  \/ Still(w, v)
  \/ w.vp = 0 /\ v.nextReq = w.nextReq + 1 /\ v.vp \in {0, w.nextReq}

AtMostAsks(w, v) ==
  Asks(w, v) /\ (CacheFit(w) => CacheFit(v)) /\ (Owned(w) => Owned(v))

Handles(w, v) == AtMostAsks(w, v) /\ Local(w, v) /\ (Clear(w) => Clear(v))

\* What a running task caches is of the path the cache is judged for.
OwnPath(w) == Running(w) => w.task.path = w.path

LEMMA AskingTrans ==
  ASSUME NEW w, NEW v, NEW u
  PROVE  /\ Cuts(w, v) => AtMostAsks(w, v)
         /\ Cuts(w, v) /\ AtMostAsks(v, u) => AtMostAsks(w, u)
         /\ Keeps(w, v) => Handles(w, v) /\ Cuts(w, v)
         /\ Keeps(w, v) /\ Handles(v, u) => Handles(w, u)
         /\ Handles(w, v) /\ Keeps(v, u) => Handles(w, u)
<1>1. /\ Cuts(w, v) => AtMostAsks(w, v)
      /\ Cuts(w, v) /\ AtMostAsks(v, u) => AtMostAsks(w, u)
      /\ AtMostAsks(w, v) /\ Cuts(v, u) => AtMostAsks(w, u)
  BY DEF AtMostAsks, Asks, Cuts, Spares, Still
<1> QED
  BY <1>1, LocalTrans DEF Handles, Keeps, Cuts

LEMMA EndsIdle ==
  ASSUME NEW w, NEW v, Ends(w, v) PROVE ~Running(v) /\ OwnPath(v)
BY DEF Ends, Running, Active, OwnPath

LEMMA RequestCaptureBundleAsks ==
  ASSUME NEW w \in State, NEW dev, NEW owner
  PROVE  LET v == RequestCaptureBundle(w, dev, owner)
         IN Handles(w, v) /\ v.path = w.path /\ v.task = w.task /\ Panel(v) = Panel(w)
<1> DEFINE v == RequestCaptureBundle(w, dev, owner)
           vp == IF dev = "sync" THEN 0 ELSE w.nextReq
           n == w.nextReq + 1
           fatals == w.fatals \cup {owner}
<1>1. CASE Granted(w, dev)
  <2>1. v = [w EXCEPT !.vp = vp, !.nextReq = n]
    BY <1>1 DEF RequestCaptureBundle
  <2>2. w.vp = 0 /\ vp \in {0, w.nextReq}
    BY <1>1 DEF Granted
  <2> HIDE DEF vp, n
  <2>3. v.vp = vp /\ v.nextReq = n
    BY <2>1 DEF State
  <2>4. /\ v.cache = w.cache /\ v.path = w.path /\ v.runTask = w.runTask
        /\ Panel(v) = Panel(w) /\ v.task = w.task
    BY <2>1 DEF State, Panel
  <2> HIDE DEF v
  <2>5. Asks(w, v)
    BY <2>2, <2>3 DEF Asks, n
  <2>6. CacheFit(w) => CacheFit(v)
    BY <2>4 DEF CacheFit
  <2> QED
    BY <2>4, <2>5, <2>6, PanelOwned DEF Handles, AtMostAsks, v
<1>2. CASE ~Granted(w, dev)
  <2>1. v = [w EXCEPT !.fatals = fatals]
    BY <1>2 DEF RequestCaptureBundle
  <2> HIDE DEF fatals
  <2>2. Shelf(v) = Shelf(w) /\ Panel(v) = Panel(w) /\ v.path = w.path /\ v.task = w.task
    BY <2>1 DEF State, Shelf, Panel
  <2> HIDE DEF v
  <2> QED
    BY <2>2, SameKeeps, AskingTrans DEF v
<1> QED
  BY <1>1, <1>2

LEMMA FinishCodeScanKeeps ==
  ASSUME NEW w, Fit(w), Active(w), w.task.trig \in ScanStage, NEW ok \in BOOLEAN,
         ok => w.task.path = w.path
  PROVE  Keeps(w, FinishCodeScan(w, ok))
<1> DEFINE d == DeviceOf(w.task.trig)
           stored == StoreSegment(w, d)
           adv == stored.advance \/ QuotaMet(stored)
           marked == [stored EXCEPT !.advance = adv]
           s == CompleteScanSegment(marked, 1, "completed")
           b == CompleteScanSegment(w, 7, "failed")
           c == IF ok THEN s ELSE b
           dog == [gen |-> c.gen, trig |-> w.task.trig, id |-> w.task.id]
           dogs == c.dogs \cup {dog}
           watched == [c EXCEPT !.dogs = dogs]
<1>1. w \in State /\ 1 \in ResultCode /\ 7 \in ResultCode /\ d \in Device
  BY DeviceOfType DEF Fit, ResultCode
<1>2. FinishCodeScan(w, ok) \in {watched, c}
  BY DEF FinishCodeScan
<1>3. b \in State /\ Keeps(w, b)
  BY <1>1, CodeTypes, CompleteScanSegmentEnds, CompleteScanSegmentKeeps DEF Ends
<1>4. ASSUME ok PROVE s \in State /\ Keeps(w, s)
  <2>1. stored \in State /\ Keeps(w, stored) /\ Alike(w, stored)
    BY <1>1, <1>4, StoreSegmentType, StoreSegmentKeeps, StoreSegmentBusy DEF Busy
  <2>2. adv \in BOOLEAN
    BY DEF adv
  <2> HIDE DEF stored, adv
  <2>3. /\ marked \in State /\ Alike(stored, marked)
        /\ Shelf(marked) = Shelf(stored) /\ Panel(marked) = Panel(stored)
    BY <2>1, <2>2 DEF State, Alike, Link, Shelf, Panel
  <2> HIDE DEF marked
  <2>4. Fit(marked) /\ Active(marked) /\ Keeps(w, marked)
    BY <2>1, <2>3, AlikeTrans, SameKeeps, KeepsTrans DEF Alike, Active
  <2>5. s \in State /\ Keeps(marked, s)
    BY <1>1, <2>3, <2>4, CodeTypes, CompleteScanSegmentEnds, CompleteScanSegmentKeeps DEF Ends
  <2> QED
    BY <2>4, <2>5, KeepsTrans
<1> HIDE DEF s, b
<1>5. c \in State /\ Keeps(w, c)
  BY <1>3, <1>4
<1> HIDE DEF c, dogs
<1>6. Shelf(watched) = Shelf(c) /\ Panel(watched) = Panel(c)
  BY <1>5 DEF State, Shelf, Panel
<1> HIDE DEF watched
<1> QED
  BY <1>2, <1>5, <1>6, SameKeeps, KeepsTrans

LEMMA FinishCodeReadKeeps ==
  ASSUME NEW w, Fit(w), NEW result \in {1, 2}, NEW text \in Nat,
         Running(w) /\ result = 1 => w.task.path = w.path
  PROVE  Keeps(w, FinishCodeRead(w, result, text))
<1> DEFINE r == IF result = 1 /\ w.read = "soft" THEN "soft" ELSE "none"
           code == IF w.up /\ text # 0 THEN text ELSE w.code
           v == [w EXCEPT !.read = r, !.code = code]
           a == IF result = 1 THEN "completed" ELSE "failed"
           c == CompleteActiveTask(v, result, a)
           q == IF w.read = "wait" THEN "none" ELSE w.read
           n == [w EXCEPT !.read = q]
<1>1. /\ w \in State /\ result \in ResultCode /\ a \in AckState /\ code \in Nat
      /\ r \in {"none", "wait", "soft"}
  BY DEF Fit, State, ResultCode, AckState
<1>2. FinishCodeRead(w, result, text) =
        IF ~Running(w) THEN n
        ELSE IF w.task.trig \in ScanStage THEN FinishCodeScan(v, result = 1)
        ELSE IF w.task.trig # "CodeRead" THEN FinishInspection(v, result)
        ELSE IF result = 1 THEN PrepareNextScanPath(c) ELSE c
  BY DEF FinishCodeRead
<1> HIDE DEF r, code, a, q
<1>3. Busy(w, v) /\ Keeps(w, v) /\ Keeps(w, n)
  BY <1>1, ReadCodeBusy, ReadKeeps
<1>4. v.task = w.task /\ v.path = w.path
  BY <1>1 DEF State
<1> HIDE DEF v, n
<1>5. v \in State /\ Fit(v) /\ (Active(v) <=> Active(w))
  BY <1>3, AlikeTrans DEF Busy, Alike, Active
<1>6. Keeps(v, c) /\ c \in State
  BY <1>1, <1>5, CompleteActiveTaskKeeps, CompleteActiveTaskType
<1> HIDE DEF c
<1>7. Keeps(v, PrepareNextScanPath(c)) /\ Keeps(v, FinishInspection(v, result))
  BY <1>1, <1>5, <1>6, PrepareNextScanPathKeeps, FinishInspectionKeeps, KeepsTrans
<1>8. Running(w) /\ w.task.trig \in ScanStage => Keeps(v, FinishCodeScan(v, result = 1))
  BY <1>4, <1>5, FinishCodeScanKeeps DEF Running
<1> QED
  BY <1>2, <1>3, <1>6, <1>7, <1>8, KeepsTrans

LEMMA FinishCodeReadOwnPath ==
  ASSUME NEW w, Fit(w), Running(w) => w.task.gen = w.gen, OwnPath(w),
         NEW result \in {1, 2}, NEW text \in Nat
  PROVE  /\ Keeps(w, FinishCodeRead(w, result, text))
         /\ OwnPath(FinishCodeRead(w, result, text))
<1>1. Keeps(w, FinishCodeRead(w, result, text))
  BY FinishCodeReadKeeps DEF OwnPath
<1>2. IF Running(w) THEN Ends(w, FinishCodeRead(w, result, text))
                    ELSE Busy(w, FinishCodeRead(w, result, text))
  BY FinishCodeReadEnds
<1>3. ASSUME NEW v, Busy(w, v), ~Running(w) PROVE OwnPath(v)
  BY <1>3 DEF Busy, Alike, Running, Active, OwnPath
<1> QED
  BY <1>1, <1>2, <1>3, EndsIdle

LEMMA StartCodeReadCaptureKeeps ==
  ASSUME NEW w, Live(w), NEW dev
  PROVE  Keeps(w, StartCodeReadCapture(w, dev)) /\ OwnPath(StartCodeReadCapture(w, dev))
<1> DEFINE scan == w.task.trig \in ScanStage \/ w.path \in CodePath
           mine == [gen |-> w.gen, id |-> w.task.id]
           r == IF scan THEN "soft" ELSE "wait"
           task == [w.task EXCEPT !.path = w.path]
           ocr == w.ocr \cup {mine}
           fafs == w.fafs \cup {mine}
           v == [w EXCEPT !.read = r, !.readGen = w.gen, !.ocr = ocr, !.task = task]
           f == [v EXCEPT !.fafs = fafs]
           u == [w EXCEPT !.read = "none", !.readGen = 0]
<1>1. w \in State /\ Fit(w) /\ Running(w) /\ w.task.gen = w.gen
  BY LiveFacts DEF Live
<1>2. /\ task.path = w.path /\ task.trig = w.task.trig
      /\ task.announced = w.task.announced
  BY <1>1 DEF State, Task
<1>3. StartCodeReadCapture(w, dev) \in
        {FinishCodeRead(w, 2, 0), FinishCodeRead(u, 2, 0), f, v}
  <2>1. v.fafs = w.fafs
    BY <1>1 DEF State
  <2> QED
    BY <2>1 DEF StartCodeReadCapture
<1> HIDE DEF mine, r, task, scan, ocr, fafs
<1>4. Shelf(v) = Shelf(w) /\ Panel(v) = Panel(w) /\ v.task.path = v.path
  BY <1>1, <1>2 DEF State, Shelf, Panel
<1>5. Shelf(f) = Shelf(w) /\ Panel(f) = Panel(w) /\ f.task.path = f.path
  BY <1>1, <1>2 DEF State, Shelf, Panel
<1> HIDE DEF v, f
<1>6. Busy(w, u) /\ Keeps(w, u)
  BY <1>1, ReadCodeBusy, ReadKeeps
<1> HIDE DEF u
<1>7. Fit(u) /\ Running(u) /\ u.task.gen = u.gen
  BY <1>1, <1>6, ServesTrans DEF Live
<1>8. /\ Ends(w, FinishCodeRead(w, 2, 0)) /\ Keeps(w, FinishCodeRead(w, 2, 0))
      /\ Ends(u, FinishCodeRead(u, 2, 0)) /\ Keeps(u, FinishCodeRead(u, 2, 0))
  BY <1>1, <1>7, FinishCodeReadEnds, FinishCodeReadKeeps
<1> QED
  BY <1>3, <1>4, <1>5, <1>6, <1>8, EndsIdle, SameKeeps, KeepsTrans DEF OwnPath

LEMMA ScanCaptureAsks ==
  ASSUME NEW w, Live(w), NEW dev
  PROVE  Handles(w, ScanCapture(w, dev)) /\ OwnPath(ScanCapture(w, dev))
<1> DEFINE v == MaybeAdvancePathOnNewCycleStart(w)
           a == RequestCaptureBundle(v, dev, w.task.id)
           task == [[a.task EXCEPT !.rid = v.nextReq] EXCEPT !.path = v.path]
           g == [a EXCEPT !.task = task]
           s(x, n) == CompleteScanSegment(x, n, "failed")
<1>1. w \in State /\ w.task.id \in Nat /\ Live(w)
  BY LiveFacts
<1>2. Busy(w, v) /\ v \in State
  BY <1>1, MaybeAdvanceBusy DEF Busy, Alike
<1>3. Keeps(w, v)
  BY <1>1, PrepareNextScanPathKeeps, SameKeeps DEF MaybeAdvancePathOnNewCycleStart
<1>4. ScanCapture(w, dev) \in {s(v, 5), StartCodeReadCapture(v, dev), s(v, 7), g, s(a, 7)}
  BY <1>1, <1>2 DEF ScanCapture
<1> HIDE DEF v
<1>5. /\ Handles(v, a) /\ a.path = v.path /\ Busy(v, a) /\ a \in State
  BY <1>1, <1>2, RequestCaptureBundleAsks, RequestCaptureBundleBusy DEF Busy, Alike
<1> HIDE DEF a
<1>6. /\ task.path = v.path /\ task.trig = a.task.trig
      /\ task.announced = a.task.announced
  BY <1>5 DEF State, Task
<1> HIDE DEF task
<1>7. Shelf(g) = Shelf(a) /\ Panel(g) = Panel(a) /\ g.task.path = g.path
  BY <1>5, <1>6 DEF State, Shelf, Panel
<1> HIDE DEF g
<1>8. Live(v) /\ Live(a)
  BY <1>1, <1>2, <1>5, ServesTrans
<1>9. 5 \in ResultCode /\ 7 \in ResultCode
  BY DEF ResultCode
<1>10. /\ Ends(v, s(v, 5)) /\ Ends(v, s(v, 7)) /\ Ends(a, s(a, 7))
       /\ Keeps(v, s(v, 5)) /\ Keeps(v, s(v, 7)) /\ Keeps(a, s(a, 7))
  BY <1>2, <1>5, <1>8, <1>9, LiveFacts, CodeTypes, CompleteScanSegmentEnds,
     CompleteScanSegmentKeeps
<1>11. /\ Keeps(v, StartCodeReadCapture(v, dev))
       /\ OwnPath(StartCodeReadCapture(v, dev))
  BY <1>8, StartCodeReadCaptureKeeps
<1> HIDE DEF s
<1>12. Handles(w, a) /\ OwnPath(g)
  BY <1>3, <1>5, <1>7, AskingTrans DEF OwnPath
<1>13. Handles(w, g) /\ Handles(w, s(a, 7))
  BY <1>7, <1>10, <1>12, SameKeeps, AskingTrans
<1>14. Handles(w, s(v, 5)) /\ Handles(w, s(v, 7))
       /\ Handles(w, StartCodeReadCapture(v, dev))
  BY <1>3, <1>10, <1>11, KeepsTrans, AskingTrans
<1> QED
  BY <1>4, <1>10, <1>11, <1>12, <1>13, <1>14, EndsIdle

LEMMA SelfCheckCaptureAsks ==
  ASSUME NEW w, Live(w), OwnPath(w), NEW dev
  PROVE  Handles(w, SelfCheckCapture(w, dev)) /\ OwnPath(SelfCheckCapture(w, dev))
<1> DEFINE a == RequestCaptureBundle(w, dev, w.task.id)
           task == [a.task EXCEPT !.rid = w.nextReq]
           g == [a EXCEPT !.task = task]
           c(x) == CompleteActiveTask(x, 2, "failed")
<1>1. w \in State /\ w.task.id \in Nat /\ w.task.path = w.path
  BY LiveFacts DEF Live, OwnPath
<1>2. SelfCheckCapture(w, dev) \in {c(w), g, c(a)}
  BY DEF SelfCheckCapture
<1>3. /\ Handles(w, a) /\ a.path = w.path /\ a.task = w.task
      /\ Busy(w, a) /\ a \in State
  BY <1>1, RequestCaptureBundleAsks, RequestCaptureBundleBusy DEF Busy, Alike
<1> HIDE DEF a
<1>4. /\ task.path = w.path /\ task.trig = a.task.trig
      /\ task.announced = a.task.announced
  BY <1>1, <1>3 DEF State, Task
<1> HIDE DEF task
<1>5. Shelf(g) = Shelf(a) /\ Panel(g) = Panel(a) /\ g.task.path = g.path
  BY <1>3, <1>4 DEF State, Shelf, Panel
<1> HIDE DEF g
<1>6. Live(a) /\ 2 \in ResultCode
  BY <1>3, ServesTrans DEF ResultCode
<1>7. Ends(w, c(w)) /\ Ends(a, c(a)) /\ Keeps(w, c(w)) /\ Keeps(a, c(a))
  BY <1>1, <1>3, <1>6, LiveFacts, CodeTypes, CompleteActiveTaskEnds, CompleteActiveTaskKeeps
<1> HIDE DEF c
<1>8. Handles(w, g) /\ Handles(w, c(a)) /\ Handles(w, c(w)) /\ OwnPath(g)
  BY <1>3, <1>5, <1>7, SameKeeps, AskingTrans DEF OwnPath
<1> QED
  BY <1>2, <1>7, <1>8, EndsIdle

LEMMA ReleaseInspectionKeeps ==
  ASSUME NEW w \in State, NEW verdict \in {1, 2} PROVE Keeps(w, ReleaseInspection(w, verdict))
<1> DEFINE c == CompleteActiveTask(w, 1, "completed")
<1>1. \A n \in {1, 2, 3} : n \in ResultCode
  BY DEF ResultCode
<1>2. c \in State /\ Keeps(w, c)
  BY <1>1, CodeTypes, CompleteActiveTaskType, CompleteActiveTaskKeeps
<1>3. ReleaseInspection(w, verdict) \in
        {PrepareNextScanPath(c), FinishInspection(w, 3), FinishInspection(w, verdict)}
  BY DEF ReleaseInspection
<1> HIDE DEF c
<1>4. Keeps(w, FinishInspection(w, 3)) /\ Keeps(w, FinishInspection(w, verdict))
  BY <1>1, FinishInspectionKeeps
<1> QED
  BY <1>2, <1>3, <1>4, PrepareNextScanPathKeeps, KeepsTrans

LEMMA ExecuteResultResetKeeps ==
  ASSUME NEW w \in State PROVE Keeps(w, ExecuteResultReset(w))
<1> DEFINE u == [w EXCEPT !.person = FALSE]
           y == ForgetWorkpiece(u)
           v == ClearDoneRegisters(y)
           veto == IF w.up THEN FALSE ELSE v.veto
           x == [v EXCEPT !.veto = veto]
<1>1. u \in State /\ Keeps(w, u)
  <2>1. u \in State /\ Shelf(u) = Shelf(w) /\ Panel(u) = Panel(w)
    BY DEF State, Shelf, Panel
  <2> QED
    BY <2>1, SameKeeps
<1> HIDE DEF u
<1>2. y \in State /\ Keeps(u, y)
  BY <1>1, ForgetWorkpieceType, ForgetWorkpieceKeeps
<1> HIDE DEF y
<1>3. v \in State /\ Keeps(y, v)
  BY <1>2, ClearDoneRegistersType, ClearDoneRegistersKeeps
<1> HIDE DEF v
<1>4. veto \in BOOLEAN
  BY <1>3 DEF State
<1> HIDE DEF veto
<1>5. x \in State /\ Shelf(x) = Shelf(v) /\ Panel(x) = Panel(v)
  BY <1>3, <1>4 DEF State, Shelf, Panel
<1> HIDE DEF x
<1>6. Keeps(w, x)
  BY <1>1, <1>2, <1>3, <1>5, SameKeeps, KeepsTrans
<1>7. 1 \in ResultCode
  BY DEF ResultCode
<1>8. Keeps(x, CompleteActiveTask(x, 1, "completed"))
  BY <1>5, <1>7, CodeTypes, CompleteActiveTaskKeeps
<1>9. Keeps(w, CompleteActiveTask(x, 1, "completed"))
  BY <1>6, <1>8, KeepsTrans
<1> QED
  BY <1>9 DEF ExecuteResultReset, x, veto, v, y, u

LEMMA ExecuteActiveTaskAsks ==
  ASSUME NEW w, Live(w), OwnPath(w), NEW in \in FrameInput
  PROVE  Handles(w, ExecuteActiveTask(w, in)) /\ OwnPath(ExecuteActiveTask(w, in))
<1> DEFINE v == ExecuteActiveTask(w, in)
           c1 == CompleteActiveTask(w, 1, "completed")
           c5 == CompleteActiveTask(w, 5, "failed")
           c7 == CompleteActiveTask(w, 7, "failed")
<1>1. w \in State /\ in.verdict \in {1, 2}
  BY LiveFacts DEF FrameInput
<1>2. v \in {ScanCapture(w, in.dev), StartCodeReadCapture(w, in.dev),
             ReleaseInspection(w, in.verdict), SelfCheckCapture(w, in.dev),
             ExecuteResultReset(w), c1, c5, c7}
  BY DEF ExecuteActiveTask
<1>3. \A n \in {1, 5, 7} : n \in ResultCode
  BY DEF ResultCode
<1>4. Keeps(w, c1) /\ Keeps(w, c5) /\ Keeps(w, c7)
  BY <1>1, <1>3, CodeTypes, CompleteActiveTaskKeeps
<1>5. Ends(w, c1) /\ Ends(w, c5) /\ Ends(w, c7)
  BY <1>3, LiveFacts, CodeTypes, CompleteActiveTaskEnds
<1> HIDE DEF c1, c5, c7, v
<1>6. v \in {c1, c5, c7, ReleaseInspection(w, in.verdict), ExecuteResultReset(w)}
        => Keeps(w, v) /\ Ends(w, v)
  BY <1>1, <1>4, <1>5, ReleaseInspectionKeeps, ReleaseInspectionEnds,
     ExecuteResultResetKeeps, ExecuteResultResetEnds
<1>7. Handles(w, v) /\ OwnPath(v)
  BY <1>2, <1>6, EndsIdle, AskingTrans, ScanCaptureAsks, SelfCheckCaptureAsks,
     StartCodeReadCaptureKeeps
<1> QED
  BY <1>7 DEF v

\* A command area whose triggers are not refused while the cameras are complete.
Unrefused(b) ==
  /\ b.trig \subseteq EnabledTrigger
  /\ b.flow \/ b.trig \subseteq {"UnloadCalc", "ResultReset"}

\* The acknowledgements but those of the triggers in T stand as they are.
Marks(w, v, T) ==
  /\ \A t \in Trigger \ T : v.ack[t] = w.ack[t]
  /\ Quiet(w) => Quiet(v)
  /\ Owned(w) => Fresh(v)

\* A refusal is no answer that has to stand.
LEMMA RejectMarks ==
  ASSUME NEW w \in State, ~Active(w), NEW t \in Trigger, NEW result
  PROVE  AtMostAsks(w, Reject(w, t, result)) /\ Marks(w, Reject(w, t, result), {t})
<1> DEFINE v == Reject(w, t, result)
<1>1. /\ Shelf(v) = Shelf(w) /\ v.task = w.task /\ v.up = w.up /\ v.clock = w.clock
      /\ v.ack = [w.ack EXCEPT ![t] = "failed"]
  BY DEF Reject, Shelf, State
<1>2. w.ack \in [Trigger -> AckState]
  BY DEF State
<1> HIDE DEF v
<1>3. \A x \in Trigger : v.ack[x] = IF x = t THEN "failed" ELSE w.ack[x]
  BY <1>1, <1>2
<1>4. Owned(w) => Owned(v)
  BY <1>1, <1>3 DEF Owned
<1>5. Marks(w, v, {t})
  BY <1>1, <1>3 DEF Marks, Quiet, Fresh, Running, Active
<1> QED
  BY <1>1, <1>4, <1>5, ShelfSpares DEF AtMostAsks, Asks, Spares, v

\* A trigger that is accepted puts its mark on no other trigger's register.
LEMMA ProcessTriggerAsks ==
  ASSUME NEW w0, Good(w0), ~Active(w0), w0.up, w0.wired, ~w0.stopped,
         NEW b \in CommandArea, w0.last = b, NEW t \in b.trig, NEW in \in FrameInput
  PROVE  LET v == ProcessTrigger(w0, t, b, in)
         IN /\ AtMostAsks(w0, v) /\ OwnPath(v) /\ Marks(w0, v, {t})
            /\ Unrefused(b) /\ in.cams => (Clear(w0) => Clear(v))
<1> DEFINE w == ApplyPlcScanPathId(w0, b, FALSE, b)
           task == [trig |-> t, seg |-> b.seg[DeviceOf(t)], tid |-> b.tid, path |-> w.path,
                    rid |-> 0, gen |-> w.gen, id |-> w.served + 1, announced |-> FALSE]
           ack == [w.ack EXCEPT ![t] = IF t \in ScanStage THEN w.ack[t] ELSE "running"]
           a == [w EXCEPT !.task = task, !.mode = "busy", !.clock = TRUE,
                          !.served = w.served + 1, !.ack = ack]
           v == ProcessTrigger(w0, t, b, in)
<1>1. w0 \in State /\ t \in Trigger /\ ~b.empty
  BY DEF Good, Fit, CommandArea, Block
<1>2. w \in State /\ Busy(w0, w) /\ Good(w) /\ ~Active(w) /\ Keeps(w0, w)
  <2>1. Busy(w0, w) /\ Keeps(w0, w)
    BY <1>1, ApplyPlcScanPathIdBusy, ApplyPlcScanPathIdKeeps
  <2> HIDE DEF w
  <2>2. Good(w)
    BY <2>1, BusyGood
  <2> QED
    BY <2>1, <2>2 DEF Busy, Alike, Active
<1>3. v \in {Reject(w, t, 8), Reject(w, t, 9), ExecuteActiveTask(a, in)}
  BY DEF ProcessTrigger
<1> HIDE DEF w
<1>4. task \in Task
  <2>1. b.seg[DeviceOf(t)] \in Nat /\ b.tid \in Nat
    BY DeviceOfType DEF CommandArea, Block
  <2>2. w.path \in Nat /\ w.gen \in Nat /\ w.served + 1 \in Nat
    BY <1>2, CounterTypes
  <2> QED
    BY <1>1, <2>1, <2>2 DEF Task
<1>5. ack \in [Trigger -> AckState] /\ w.served + 1 \in Nat
  BY <1>1, <1>2, CodeTypes DEF State
<1>6. task.trig = t /\ ~task.announced /\ task.gen = w.gen /\ task.path = w.path
  OBVIOUS
<1>7. \A x \in Trigger : x # t => ack[x] = w.ack[x]
  BY <1>2 DEF State
<1> HIDE DEF task, ack
<1>8. a \in State
  BY <1>2, <1>4, <1>5 DEF State
<1>9. /\ a.task = task /\ a.gen = w.gen /\ a.last = w.last /\ a.path = w.path
      /\ a.ack = ack /\ a.up = w.up /\ Shelf(a) = Shelf(w)
  BY <1>2 DEF State, Shelf
<1> HIDE DEF a, v
<1>10. Live(a) /\ OwnPath(a)
  <2>1. t # NoTrigger /\ w.last = b
    BY <1>1, <1>2, NoTriggerNotOne DEF Busy, Alike, Link
  <2> QED
    BY <1>1, <1>6, <1>8, <1>9, <2>1 DEF Live, Fit, Active, Running, OwnPath
<1>11. /\ w.up /\ w.task.trig = NoTrigger /\ a.up = w.up /\ a.task.trig = t
       /\ w0.task.trig = NoTrigger
  BY <1>2, <1>6, <1>9 DEF State, Busy, Alike, Link, Active
<1>12. /\ Spares(w, a) /\ Quiet(a)
       /\ Owned(w) => Owned(a) /\ a.ack[t] # "completed"
       /\ Clear(w) => Clear(a)
  <2>1. Owned(w) => \A x \in Trigger : w.ack[x] \notin {"running", "completed"}
    BY <1>11, NoTriggerNotOne DEF Owned
  <2>2. Clear(w) => \A x \in Trigger : w.ack[x] = "idle"
    BY <1>11, NoTriggerNotOne DEF Clear
  <2>3. a.ack[t] \in {w.ack[t], "running"}
    BY <1>1, <1>2, <1>9 DEF State, ack
  <2> QED
    BY <1>1, <1>6, <1>7, <1>9, <1>11, <2>1, <2>2, <2>3, ShelfSpares
    DEF Owned, Clear, Quiet
<1>13. \A x \in Trigger \ {t} : a.ack[x] = w0.ack[x]
  BY <1>2, <1>7, <1>9, <1>11, NoTriggerNotOne DEF Keeps, Cuts, Local
<1> DEFINE e == ExecuteActiveTask(a, in)
<1>14. Handles(a, e) /\ OwnPath(e)
  BY <1>10, ExecuteActiveTaskAsks
<1> HIDE DEF e
<1>15. /\ AtMostAsks(w0, e)
       /\ Clear(w0) => Clear(e)
  BY <1>2, <1>12, <1>14 DEF Handles, AtMostAsks, Asks, Keeps, Cuts, Spares, Still
<1>16. Marks(w0, e, {t})
  <2>1. /\ Local(a, e)
        /\ Owned(w0) => a.ack[t] # "completed"
    BY <1>2, <1>12, <1>14 DEF Handles, Keeps, Cuts
  <2>2. Quiet(e) /\ \A x \in Trigger \ {t} : e.ack[x] = w0.ack[x]
    BY <1>11, <1>12, <1>13, <2>1 DEF Local
  <2>3. Running(e) => e.task.trig = t /\ e.ack = a.ack
    BY <1>11, <2>1 DEF Local, Running, Active
  <2> QED
    BY <2>1, <2>2, <2>3 DEF Marks, Fresh
<1>17. ASSUME NEW r \in {8, 9}
       PROVE  LET x == Reject(w, t, r)
              IN AtMostAsks(w0, x) /\ OwnPath(x) /\ Marks(w0, x, {t})
  <2> DEFINE x == Reject(w, t, r)
  <2>1. r \in ResultCode
    BY DEF ResultCode
  <2>2. Busy(w, x) /\ AtMostAsks(w, x) /\ Marks(w, x, {t})
    BY <1>1, <1>2, <2>1, RejectMarks, RejectGood
  <2> HIDE DEF x
  <2>3. ~Running(x)
    BY <1>2, <2>2 DEF Busy, Alike, Active, Running
  <2>4. Marks(w0, x, {t})
    BY <1>2, <1>11, <2>2, NoTriggerNotOne DEF Marks, Keeps, Cuts, Local
  <2> QED
    BY <1>2, <2>2, <2>3, <2>4, AskingTrans DEF OwnPath, x
<1>18. Unrefused(b) /\ in.cams => v = e
  BY <1>11 DEF v, e, ProcessTrigger, Unrefused, a, w, task, ack
<1>19. /\ AtMostAsks(w0, v) /\ OwnPath(v) /\ Marks(w0, v, {t})
       /\ Unrefused(b) /\ in.cams => (Clear(w0) => Clear(v))
  BY <1>3, <1>14, <1>15, <1>16, <1>17, <1>18 DEF e
<1> QED
  BY <1>19 DEF v

LEMMA KeepsMarks ==
  ASSUME NEW w, NEW v, Keeps(w, v), ~Active(w), NEW T
  PROVE  /\ Marks(w, v, T)
         /\ \A u : Marks(v, u, T) => Marks(w, u, T)
<1>1. /\ \A x \in Trigger : v.ack[x] = w.ack[x]
      /\ ~Running(v)
  BY NoTriggerNotOne DEF Keeps, Cuts, Local, Active, Running
<1> QED
  BY <1>1 DEF Marks, Keeps, Cuts, Local, Fresh

LEMMA AcceptPendingAsks ==
  ASSUME NEW r, Good(r), ~Active(r), r.up, r.wired, ~r.stopped,
         NEW b \in CommandArea, r.last = b, NEW prev, NEW in \in FrameInput
  PROVE  LET v == AcceptPending(r, b, prev, in)
         IN /\ AtMostAsks(r, v) /\ OwnPath(v) /\ Marks(r, v, b.trig)
            /\ Unrefused(b) /\ in.cams => (Clear(r) => Clear(v))
<1> DEFINE q == ApplyPlcScanPathId(r, b, TRUE, prev)
           pending == PendingTriggers(q, b, prev)
           t == SelectPendingTrigger(pending)
           latch == q.latch \ {t}
           u == [q EXCEPT !.latch = latch]
           p == ProcessTrigger(u, t, b, in)
           v == AcceptPending(r, b, prev, in)
<1>1. r \in State
  BY DEF Good, Fit
<1>2. Busy(r, q) /\ Keeps(r, q)
  BY <1>1, ApplyPlcScanPathIdBusy, ApplyPlcScanPathIdKeeps
<1>3. v = IF pending = {} THEN q ELSE p
  BY DEF AcceptPending
<1> HIDE DEF q
<1>4. Good(q) /\ q \in State /\ ~Active(q) /\ Link(r, q)
  BY <1>2, BusyGood DEF Busy, Alike, Active
<1>5. pending \subseteq b.trig /\ pending \subseteq Trigger
  BY DEF PendingTriggers, CommandArea, Block
<1> HIDE DEF v, pending
<1>6. CASE pending = {}
  <2>1. OwnPath(q)
    BY <1>4 DEF OwnPath, Running
  <2> QED
    BY <1>2, <1>3, <1>6, <2>1, AskingTrans, KeepsMarks DEF v, Keeps
<1>7. CASE pending # {}
  <2>1. t \in b.trig
    BY <1>5, <1>7, RankMinimum
  <2> HIDE DEF t
  <2>2. latch \in SUBSET Trigger /\ latch \subseteq q.latch
    BY <1>4 DEF State
  <2> HIDE DEF latch
  <2>3. u \in State
    BY <1>4, <2>2 DEF State
  <2>4. /\ u.task = q.task /\ u.clock = q.clock /\ u.gen = q.gen /\ u.last = q.last
        /\ u.up = q.up /\ u.wired = q.wired /\ u.stopped = q.stopped
        /\ u.latch = latch /\ u.block = q.block
    BY <1>4 DEF State
  <2>5. Shelf(u) = Shelf(q) /\ Panel(u) = Panel(q)
    BY <1>4 DEF State, Shelf, Panel
  <2> HIDE DEF u
  <2>6. Good(u) /\ ~Active(u)
    BY <1>4, <2>2, <2>3, <2>4 DEF Good, Fit, Active, Announced, Running
  <2>7. u.up /\ u.wired /\ ~u.stopped /\ u.last = b
    BY <1>4, <2>4 DEF Link
  <2>8. /\ AtMostAsks(u, p) /\ OwnPath(p) /\ Marks(u, p, {t})
        /\ Unrefused(b) /\ in.cams => (Clear(u) => Clear(p))
    BY <2>1, <2>6, <2>7, ProcessTriggerAsks
  <2> HIDE DEF p
  <2>9. Keeps(r, u)
    BY <1>2, <2>5, SameKeeps, KeepsTrans
  <2>10. Marks(r, p, {t})
    BY <2>8, <2>9, KeepsMarks
  <2>11. Marks(r, p, b.trig)
    BY <2>1, <2>10 DEF Marks
  <2> QED
    BY <1>3, <1>7, <2>8, <2>9, <2>11, AskingTrans DEF v, Keeps
<1> QED
  BY <1>6, <1>7

LEMMA LatchKeeps ==
  ASSUME NEW s \in State, NEW b, NEW prev
  PROVE  LET r == Unblock(LatchRisingEdges(s, b, prev), b)
         IN Keeps(s, r) /\ r.path = s.path /\ r.ack = s.ack
<1> DEFINE l == LatchRisingEdges(s, b, prev)
           latch == IF prev.empty THEN s.latch ELSE (s.latch \cap b.trig) \cup (b.trig \ prev.trig)
           block == IF l.block \in b.trig THEN l.block ELSE NoTrigger
           r == Unblock(l, b)
<1>1. l = [s EXCEPT !.latch = latch]
  BY DEF LatchRisingEdges, State
<1>2. r = [l EXCEPT !.block = block]
  BY DEF Unblock
<1> HIDE DEF latch, block, r, l
<1>3. r = [s EXCEPT !.latch = latch, !.block = block]
  BY <1>1, <1>2 DEF State
<1>4. Shelf(r) = Shelf(s) /\ Panel(r) = Panel(s) /\ r.path = s.path
  BY <1>3 DEF State, Shelf, Panel
<1> QED
  BY <1>4, SameKeeps DEF r, l, Panel

\* Every answer has its task, a finished one, whose deadline is off.
Settled(w) == Owned(w) /\ Fresh(w) /\ Quiet(w)

\* An answer that says "completed" stands until it is withdrawn.
Stands(w, v) ==
  \A t \in Trigger : w.ack[t] = "completed" => v.ack[t] \in {"completed", "idle"}

\* Only the task there is has an answer, and only once it is finished.
LEMMA SettledAnswers ==
  ASSUME NEW w, Good(w), Settled(w), w.up,
         NEW t \in Trigger, w.ack[t] = "completed"
  PROVE  w.task.trig = t /\ Announced(w) /\ ~w.clock
<1>1. w.task.trig = t /\ Active(w)
  BY NoTriggerNotOne DEF Settled, Owned, Active
<1> QED
  BY <1>1 DEF Settled, Fresh, Quiet, Running, Announced

LEMMA CutsSettled ==
  ASSUME NEW w, Good(w), Settled(w), NEW v, Cuts(w, v), ~Running(w) => Stands(w, v)
  PROVE  Settled(v) /\ Stands(w, v)
<1>1. Running(w) => w.up
  BY DEF Good, Running
<1>2. Running(w) => Stands(w, v)
  BY <1>1, SettledAnswers DEF Stands, Running, Announced
<1>3. Settled(v)
  <2>1. Running(v) => Running(w) /\ v.task.trig = w.task.trig /\ v.ack = w.ack
    BY DEF Cuts, Local, Running, Active
  <2> QED
    BY <2>1 DEF Settled, Cuts, Local, Fresh
<1> QED
  BY <1>2, <1>3

LEMMA HandleRegistersReadAsks ==
  ASSUME NEW w, Good(w), w.up, w.wired, OwnPath(w),
         NEW b \in CommandArea, NEW in \in FrameInput
  PROVE  LET v == HandleRegistersRead(w, b, in)
         IN /\ AtMostAsks(w, v) /\ OwnPath(v)
            /\ Settled(w) => Settled(v) /\ Stands(w, v)
            /\ Unrefused(b) /\ in.cams => (Clear(w) => Clear(v))
<1> DEFINE x == [w EXCEPT !.last = b, !.fails = 0]
           s == ReleaseOnRead(x, b, w.last)
           r == Unblock(LatchRisingEdges(s, b, w.last), b)
           v == HandleRegistersRead(w, b, in)
<1>1. w \in State /\ w.task.announced \in BOOLEAN
  BY DEF Good, Fit, State, Task
<1>2. x \in State
  <2>1. [w EXCEPT !.last = b] \in State
    BY <1>1 DEF State
  <2>2. x = [[w EXCEPT !.last = b] EXCEPT !.fails = 0]
    BY <1>1 DEF State
  <2>3. ASSUME NEW y \in State PROVE [y EXCEPT !.fails = 0] \in State
    BY DEF State
  <2> QED
    BY <2>1, <2>2, <2>3
<1>3. /\ x.task = w.task /\ x.last = b /\ x.clock = w.clock /\ x.gen = w.gen
      /\ x.up = w.up /\ x.wired = w.wired /\ x.stopped = w.stopped
      /\ x.latch = w.latch /\ x.block = w.block /\ x.path = w.path
  BY <1>1 DEF State
<1>4. Shelf(x) = Shelf(w) /\ Panel(x) = Panel(w)
  BY <1>1 DEF State, Shelf, Panel
<1>5. v = IF w.stopped THEN w ELSE IF Active(r) THEN r ELSE AcceptPending(r, b, w.last, in)
  BY DEF HandleRegistersRead
<1> HIDE DEF x, v
<1>6. /\ s \in State /\ Link(x, s)
      /\ IF w.task.announced /\ w.task.trig \notin b.trig THEN s.task = NoTask ELSE s = x
  BY <1>2, <1>3, ReleaseOnReadIs
<1>7. Keeps(x, s)
  <2> DEFINE read == Finalize(x, b, FALSE)
             again == Finalize(read, b, TRUE)
  <2>1. read \in State /\ Keeps(x, read)
    BY <1>2, FinalizeEnds, FinalizeKeeps
  <2>2. s \in {read, again}
    BY DEF ReleaseOnRead
  <2> HIDE DEF read
  <2>3. Keeps(read, again)
    BY <2>1, FinalizeKeeps
  <2> HIDE DEF again, s
  <2> QED
    BY <2>1, <2>2, <2>3, KeepsTrans
<1> HIDE DEF s
<1>8. /\ w.latch \subseteq w.last.trig /\ (w.last.empty => w.last.trig = {})
  BY <1>1, LastFacts DEF Good
<1>9. s.last = b /\ s.latch = w.latch /\ s.up /\ s.wired /\ s.stopped = w.stopped
  BY <1>3, <1>6 DEF Link
<1>10. Latched(s, b, w.last, r)
  <2>1. s.latch \subseteq w.last.trig
    BY <1>8, <1>9
  <2> QED
    BY <1>6, <1>8, <1>9, <2>1, LatchRisingEdgesIs
<1>11. Keeps(s, r) /\ r.path = s.path
  BY <1>6, LatchKeeps
<1> HIDE DEF r
<1>12. Keeps(w, r)
  BY <1>4, <1>7, <1>11, SameKeeps, KeepsTrans
<1>13. Running(r) => Running(w) /\ r.task = w.task /\ r.path = w.path
  BY <1>3, <1>6, <1>10, <1>11, NoTaskFields DEF Latched, Good, Fit, Active, Announced, Running
<1>14. OwnPath(r)
  BY <1>13 DEF OwnPath
\* The answer of the task stays, or goes with its trigger.
<1>18. ASSUME Settled(w), NEW t \in Trigger, w.ack[t] = "completed"
       PROVE  r.ack[t] = "completed" \/ (r.ack[t] = "idle" /\ t \notin b.trig)
  <2>1. w.task.trig = t /\ Announced(w)
    BY <1>18, SettledAnswers
  <2>2. r.ack = s.ack
    BY <1>6, LatchKeeps DEF r
  <2>3. CASE t \in b.trig
    BY <1>4, <1>6, <1>18, <2>1, <2>2, <2>3 DEF Panel
  <2>4. CASE t \notin b.trig
    <3>1. Announced(x) /\ x.task.trig = t /\ ~b.empty
      BY <1>3, <2>1 DEF Announced, Active, CommandArea
    <3>2. Finalize(x, b, FALSE).ack[t] = "idle"
      BY <1>2, <2>4, <3>1, FinalizedIdle
    <3>3. s = Finalize(x, b, FALSE)
      BY <1>1, <1>2, <1>3, ReleaseOnReadIs DEF s
    <3> QED
      BY <2>2, <2>4, <3>2, <3>3
  <2> QED
    BY <2>3, <2>4
<1>19. Settled(w) => Settled(r) /\ Stands(w, r)
  BY <1>12, <1>18, CutsSettled DEF Keeps, Stands
<1>15. CASE w.stopped
  BY <1>5, <1>15, SameKeeps, AskingTrans DEF v, Stands
<1>16. CASE ~w.stopped /\ Active(r)
  BY <1>5, <1>12, <1>14, <1>16, <1>19, AskingTrans DEF v, Keeps
<1>17. CASE ~w.stopped /\ ~Active(r)
  <2>1. ~b.empty /\ r.latch \subseteq b.trig
    BY <1>8, <1>9, <1>10 DEF CommandArea, Latched
  <2>2. Good(r)
    <3>1. ~r.task.announced
      BY <1>3, <1>6, <1>10, <1>17, NoTaskFields DEF Latched, Good, Fit, Active
    <3> QED
      BY <1>10, <1>17, <2>1, <3>1 DEF Latched, Good, Fit, Active, Announced, Running
  <2>3. r.up /\ r.wired /\ ~r.stopped /\ r.last = b
    BY <1>9, <1>10, <1>17 DEF Latched
  <2> DEFINE a == AcceptPending(r, b, w.last, in)
  <2>4. /\ AtMostAsks(r, a) /\ OwnPath(a) /\ Marks(r, a, b.trig)
        /\ Unrefused(b) /\ in.cams => (Clear(r) => Clear(a))
    BY <1>17, <2>2, <2>3, AcceptPendingAsks
  <2> HIDE DEF a
  <2>5. AtMostAsks(w, a)
    BY <1>12, <2>4, AskingTrans
  <2>6. ASSUME Settled(w) PROVE Settled(a) /\ Stands(w, a)
    <3>1. \A t \in Trigger : r.ack[t] # "completed"
      BY <1>17, <1>19, <2>2, <2>3, <2>6, SettledAnswers DEF Announced
    <3>2. Stands(w, a)
      BY <1>18, <2>4, <2>6, <3>1 DEF Stands, Marks
    <3> QED
      BY <1>19, <2>4, <2>6, <3>2 DEF Settled, Marks, AtMostAsks
  <2> QED
    BY <1>5, <1>12, <1>17, <2>4, <2>5, <2>6 DEF v, a, Keeps
<1> QED
  BY <1>15, <1>16, <1>17

--------------------------------------------------------------------------------
\* The callbacks and timers cache for the task they were asked by.

LEMMA CompletionsKeep ==
  ASSUME NEW w, Good(w), Active(w)
  PROVE  \A v \in {CompleteActiveTask(w, 1, "completed"), CompleteActiveTask(w, 6, "completed"),
                   CompleteActiveTask(w, 2, "failed"), CompleteActiveTask(w, 6, "failed"),
                   CompleteScanSegment(w, 7, "failed"), CompleteScanSegment(w, 6, "failed"),
                   CompleteScanSegment(w, 1, "completed")} :
           v \in State /\ Keeps(w, v) /\ ~Running(v) /\ OwnPath(v)
<1>1. 1 \in ResultCode /\ 2 \in ResultCode /\ 6 \in ResultCode /\ 7 \in ResultCode
  BY DEF ResultCode
<1>2. Fit(w) /\ w \in State
  BY DEF Good, Fit
<1>3. ASSUME NEW n \in ResultCode, NEW a \in AckState
      PROVE  LET v == CompleteActiveTask(w, n, a)
                 s == CompleteScanSegment(w, n, a)
             IN /\ v \in State /\ Keeps(w, v) /\ ~Running(v) /\ OwnPath(v)
                /\ s \in State /\ Keeps(w, s) /\ ~Running(s) /\ OwnPath(s)
  <2>1. Keeps(w, CompleteActiveTask(w, n, a)) /\ Keeps(w, CompleteScanSegment(w, n, a))
    BY <1>2, CompleteActiveTaskKeeps, CompleteScanSegmentKeeps
  <2>2. Ends(w, CompleteActiveTask(w, n, a)) /\ Ends(w, CompleteScanSegment(w, n, a))
    BY <1>2, CompleteActiveTaskEnds, CompleteScanSegmentEnds
  <2>3. ASSUME NEW v, Ends(w, v) PROVE v \in State /\ ~Running(v) /\ OwnPath(v)
    BY <2>3, EndsIdle DEF Ends
  <2> QED
    BY <2>1, <2>2, <2>3
<1> QED
  BY <1>1, <1>3, CodeTypes

LEMMA OnBundleCaptureFinishedKeeps ==
  ASSUME NEW w, Good(w), OwnPath(w), NEW rid, NEW ok \in BOOLEAN
  PROVE  LET v == OnBundleCaptureFinished(w, rid, ok) IN Keeps(w, v) /\ OwnPath(v)
<1> DEFINE d == DeviceOf(w.task.trig)
           s == StoreSegment(w, d)
           c == CompleteScanSegment(s, 1, "completed")
           m == [c EXCEPT !.barrier = w.task.id]
           v == OnBundleCaptureFinished(w, rid, ok)
<1>1. w \in State
  BY DEF Good, Fit
<1>2. CASE ~Running(w)
  BY <1>2, SameKeeps DEF OnBundleCaptureFinished
<1>3. CASE Running(w)
  <2>1. v \in {w, CompleteActiveTask(w, 1, "completed"), CompleteActiveTask(w, 2, "failed"),
               CompleteScanSegment(w, 7, "failed"), c, m}
    BY DEF OnBundleCaptureFinished
  <2>2. s \in State /\ Busy(w, s) /\ Keeps(w, s)
    BY <1>1, <1>3, DeviceOfType, StoreSegmentType, StoreSegmentBusy, StoreSegmentKeeps DEF OwnPath
  <2> HIDE DEF s, v
  <2>3. Good(s) /\ Active(s)
    BY <1>3, <2>2, BusyGood DEF Busy, Alike, Running, Active
  <2>4. c \in State /\ Keeps(s, c) /\ ~Running(c)
    BY <2>3, CompletionsKeep
  <2> HIDE DEF c
  <2>5. Shelf(m) = Shelf(c) /\ Panel(m) = Panel(c) /\ m.task = c.task
    BY <2>4 DEF State, Shelf, Panel
  <2> HIDE DEF m
  <2>6. Keeps(w, c) /\ Keeps(w, m) /\ OwnPath(c) /\ OwnPath(m)
    BY <2>2, <2>4, <2>5, SameKeeps, KeepsTrans DEF OwnPath, Running, Active
  <2>7. Keeps(w, v) /\ OwnPath(v)
    BY <1>3, <2>1, <2>6, SameKeeps, CompletionsKeep DEF Running
  <2> QED
    BY <2>7 DEF v
<1> QED
  BY <1>2, <1>3

LEMMA FatalErrorsKeep ==
  ASSUME NEW w, Good(w), OwnPath(w)
  PROVE  /\ Keeps(w, OnMechEyeFatalError(w)) /\ OwnPath(OnMechEyeFatalError(w))
         /\ Keeps(w, OnVisionPipelineFatalError(w)) /\ OwnPath(OnVisionPipelineFatalError(w))
BY CompletionsKeep, SameKeeps
DEF OnMechEyeFatalError, OnVisionPipelineFatalError, Running

LEMMA TextsAndTimersKeep ==
  ASSUME NEW w, Good(w), OwnPath(w), NEW answer \in Stamp, NEW text \in BOOLEAN
  PROVE  /\ Keeps(w, OnHikOcrTextReceived(w, answer, text))
         /\ OwnPath(OnHikOcrTextReceived(w, answer, text))
         /\ Keeps(w, FireAndForgetAck(w, answer))
         /\ OwnPath(FireAndForgetAck(w, answer))
<1> DEFINE late == [w EXCEPT !.read = "none", !.readGen = 0]
           coded == [late EXCEPT !.code = answer.gen]
           f == FinishCodeRead(w, 2, 0)
           g == FinishCodeRead(w, 1, answer.gen)
           h == FinishCodeRead(w, 1, 0)
<1>1. w \in State /\ Fit(w) /\ answer.gen \in Nat /\ (Running(w) => w.task.gen = w.gen)
  BY DEF Good, Fit, Stamp
<1>2. w.read \in {"none", "wait", "soft"}
  BY <1>1 DEF State
<1>3. OnHikOcrTextReceived(w, answer, text) \in {w, late, coded, f, g}
  BY <1>2 DEF OnHikOcrTextReceived
<1>4. FireAndForgetAck(w, answer) \in {w, h}
  BY DEF FireAndForgetAck
<1>5. /\ Shelf(late) = Shelf(w) /\ Panel(late) = Panel(w) /\ late.task = w.task
      /\ Shelf(coded) = Shelf(w) /\ Panel(coded) = Panel(w) /\ coded.task = w.task
  BY <1>1 DEF State, Shelf, Panel
<1> HIDE DEF late, coded
<1>6. ASSUME NEW v, Shelf(v) = Shelf(w), Panel(v) = Panel(w), v.task = w.task
      PROVE  Keeps(w, v) /\ OwnPath(v)
  BY <1>6, SameKeeps DEF Shelf, OwnPath, Running, Active
<1>7. /\ Keeps(w, f) /\ OwnPath(f) /\ Keeps(w, g) /\ OwnPath(g)
      /\ Keeps(w, h) /\ OwnPath(h)
  BY <1>1, FinishCodeReadOwnPath
<1> HIDE DEF f, g, h
<1> QED
  BY <1>3, <1>4, <1>5, <1>6, <1>7, SameKeeps

LEMMA CodeReadFinalizeWatchdogKeeps ==
  ASSUME NEW w, Good(w), OwnPath(w), NEW timer \in Watchdog
  PROVE  LET v == CodeReadFinalizeWatchdog(w, timer) IN Keeps(w, v) /\ OwnPath(v)
<1> DEFINE x == [w EXCEPT !.block = timer.trig]
           f == Finalize(x, w.last, TRUE)
           v == CodeReadFinalizeWatchdog(w, timer)
<1>1. w \in State /\ timer.trig \in Trigger
  BY DEF Good, Fit, Watchdog
<1>2. v \in {w, f}
  BY DEF CodeReadFinalizeWatchdog
<1>3. x \in State /\ Shelf(x) = Shelf(w) /\ Panel(x) = Panel(w) /\ x.task = w.task
  BY <1>1 DEF State, Shelf, Panel
<1> HIDE DEF x, v
<1>4. Keeps(x, f) /\ (f.task = NoTask \/ f = x)
  BY <1>3, FinalizeKeeps, FinalizeEnds
<1> HIDE DEF f
<1>5. OwnPath(f)
  BY <1>3, <1>4, NoTaskFields DEF Shelf, OwnPath, Running, Active
<1>6. Keeps(w, f)
  BY <1>3, <1>4, SameKeeps, KeepsTrans
<1>7. Keeps(w, v) /\ OwnPath(v)
  BY <1>2, <1>5, <1>6, SameKeeps
<1> QED
  BY <1>7 DEF v

LEMMA WatchdogReleases ==
  ASSUME NEW w, Good(w), NEW timer \in Watchdog
  PROVE  LET v == CodeReadFinalizeWatchdog(w, timer)
         IN v.ack = w.ack \/ v.ack[w.task.trig] = "idle"
<1> DEFINE x == [w EXCEPT !.block = timer.trig]
           f == Finalize(x, w.last, TRUE)
<1>1. w \in State /\ timer.trig \in Trigger
  BY DEF Good, Fit, Watchdog
<1>2. x \in State /\ x.task = w.task
  BY <1>1 DEF State
<1> HIDE DEF x
<1>3. Announced(w) => f.ack[w.task.trig] = "idle"
  BY <1>2, FinalizedIdle DEF Announced, Active
<1> HIDE DEF f
<1> QED
  BY <1>3 DEF CodeReadFinalizeWatchdog, f, x

LEMMA OnProcessTimeoutKeeps ==
  ASSUME NEW w, Good(w), OwnPath(w), NEW c \in State, c = [w EXCEPT !.clock = FALSE]
  PROVE  LET v == OnProcessTimeout(c) IN Keeps(w, v) /\ OwnPath(v)
<1> DEFINE task == [c.task EXCEPT !.rid = 0]
           x == [c EXCEPT !.task = task]
           s == [x EXCEPT !.read = "none", !.advance = FALSE]
           i == CompleteActiveTask(x, 6, "failed")
           p == ApplyInspectionTimeoutPolicy(i)
           e == CompleteScanSegment(s, 6, "failed")
           f == CompleteActiveTask(x, 2, "failed")
           g == CompleteActiveTask(x, 6, "completed")
           h == FinishCodeRead(x, 2, 0)
           v == OnProcessTimeout(c)
<1>1. w \in State /\ Fit(w)
  BY DEF Good, Fit
<1>2. /\ Link(w, c) /\ c.task = w.task /\ c.gen = w.gen /\ c.stopped = w.stopped
      /\ Shelf(c) = Shelf(w) /\ c.path = w.path
  BY <1>1 DEF Link, State, Shelf
<1>3. Keeps(w, c)
  BY <1>1, ClockOffKeeps
<1>4. CASE c.stopped \/ ~Active(c)
  <2>1. v = c
    BY <1>4 DEF OnProcessTimeout
  <2>2. OwnPath(c)
    BY <1>2 DEF OwnPath, Running, Active
  <2> QED
    BY <1>3, <2>1, <2>2
<1>5. CASE ~c.stopped /\ Active(c)
  <2>1. /\ task \in Task /\ task.trig = w.task.trig /\ task.announced = w.task.announced
        /\ task.gen = w.task.gen /\ task.path = w.task.path
    BY <1>2 DEF State, Task
  <2>2. v \in {e, f, h, p, g}
    BY <1>5 DEF OnProcessTimeout
  <2> HIDE DEF task, v
  <2>3. x \in State
    <3>1. ASSUME NEW y \in State, NEW k \in Task PROVE [y EXCEPT !.task = k] \in State
      BY DEF State
    <3> QED
      BY <2>1, <3>1
  <2>4. /\ Link(c, x) /\ x.task = task /\ x.gen = c.gen
        /\ Shelf(x) = Shelf(c) /\ Panel(x) = Panel(c) /\ x.path = c.path
    BY <1>2, <2>1 DEF Link, State, Shelf, Panel
  <2> HIDE DEF x
  <2>5. Alike(w, x) /\ x.gen = w.gen /\ x.task.gen = w.task.gen /\ OwnPath(x) /\ Keeps(w, x)
    BY <1>2, <1>3, <2>1, <2>3, <2>4, SameKeeps, KeepsTrans
    DEF Alike, Link, OwnPath, Running, Active
  <2>6. Fit(x) /\ Active(x) /\ (Running(x) => x.task.gen = x.gen)
    BY <1>1, <1>2, <1>5, <2>5, AlikeTrans DEF Alike, Active, Good, Running
  <2>7. s \in State
    BY <2>3, QuietType
  <2>8. Core(s) = Core(x) /\ Shelf(s) = Shelf(x) /\ Panel(s) = Panel(x)
    BY <2>3 DEF Core, Shelf, Panel, State
  <2> HIDE DEF s
  <2>9. Fit(s) /\ Active(s) /\ Keeps(w, s)
    BY <2>5, <2>6, <2>7, <2>8, CoreBusy, AlikeTrans, SameKeeps, KeepsTrans DEF Busy, Alike, Active
  <2>10. 2 \in ResultCode /\ 6 \in ResultCode
    BY DEF ResultCode
  <2>11. /\ Ends(s, e) /\ Keeps(s, e) /\ Ends(x, f) /\ Keeps(x, f)
         /\ Ends(x, g) /\ Keeps(x, g) /\ Ends(x, i) /\ Keeps(x, i)
    BY <2>3, <2>6, <2>7, <2>9, <2>10, CodeTypes, CompleteActiveTaskEnds, CompleteActiveTaskKeeps,
       CompleteScanSegmentEnds, CompleteScanSegmentKeeps
  <2> HIDE DEF i
  <2>12. Ends(x, p) /\ Keeps(i, p)
    BY <2>11, ApplyPolicyAlike, ApplyPolicyKeeps, EndsAlike DEF Ends
  <2>13. Keeps(x, h) /\ OwnPath(h)
    BY <2>5, <2>6, FinishCodeReadOwnPath
  <2> HIDE DEF e, f, g, h, p
  <2>14. Keeps(w, e) /\ Keeps(w, f) /\ Keeps(w, g) /\ Keeps(w, h) /\ Keeps(w, p)
    BY <2>5, <2>9, <2>11, <2>12, <2>13, KeepsTrans
  <2>15. OwnPath(e) /\ OwnPath(f) /\ OwnPath(g) /\ OwnPath(p)
    BY <2>11, <2>12, EndsIdle
  <2> QED
    BY <2>2, <2>13, <2>14, <2>15 DEF v
<1> QED
  BY <1>4, <1>5

LEMMA OnModbusErrorKeeps ==
  ASSUME NEW w, Good(w), OwnPath(w)
  PROVE  Keeps(w, OnModbusError(w)) /\ OwnPath(OnModbusError(w))
<1> DEFINE n == IF w.fails < 3 THEN w.fails + 1 ELSE 3
           x == [w EXCEPT !.fails = n]
           e == EnterFaultState(x, TRUE)
           v == OnModbusError(w)
<1>1. w \in State /\ n \in 0..3
  BY DEF Good, Fit, State
<1>2. v \in {e, x}
  BY DEF OnModbusError
<1> HIDE DEF n
<1>3. x \in State /\ Busy(w, x)
  BY <1>1, FailsBusy
<1>4. Shelf(x) = Shelf(w) /\ Panel(x) = Panel(w) /\ x.task = w.task
  BY <1>1 DEF State, Shelf, Panel
<1> HIDE DEF x
<1>5. Good(x) /\ Fit(x) /\ Keeps(w, x) /\ OwnPath(x)
  BY <1>3, <1>4, BusyGood, SameKeeps DEF Good, Shelf, OwnPath, Running, Active
<1>6. Keeps(x, e)
  BY <1>5, EnterFaultStateKeeps
<1>7. OwnPath(e)
  <2>1. /\ Active(x) => Ends(x, e)
        /\ ~Active(x) => Dropped(e)
    BY <1>5, EnterFaultStateGood
  <2> QED
    BY <2>1, EndsIdle, DroppedGood DEF OwnPath, Running
<1> HIDE DEF e, v
<1>8. Keeps(w, v) /\ OwnPath(v)
  BY <1>2, <1>5, <1>6, <1>7, KeepsTrans
<1> QED
  BY <1>8 DEF v

\* The alarm drops the task and leaves its failed answer in the register.
LEMMA ReportPersonZoneAlarmCuts ==
  ASSUME NEW w, Good(w), OwnPath(w), NEW alarm \in BOOLEAN
  PROVE  Cuts(w, ReportPersonZoneAlarm(w, alarm)) /\ OwnPath(ReportPersonZoneAlarm(w, alarm))
<1> DEFINE veto == IF w.up THEN alarm ELSE w.veto
           x == [w EXCEPT !.veto = veto]
           e == EnterFaultState(x, FALSE)
           p == [e EXCEPT !.person = TRUE]
           q == [x EXCEPT !.mode = "ready", !.person = FALSE]
           v == ReportPersonZoneAlarm(w, alarm)
<1>1. w \in State /\ veto \in BOOLEAN
  BY DEF Good, Fit, State
<1>2. x \in State /\ Busy(w, x)
  BY <1>1, VetoBusy
<1>3. v \in {p, q, x}
  BY DEF ReportPersonZoneAlarm
<1>4. Shelf(x) = Shelf(w) /\ Panel(x) = Panel(w) /\ x.task = w.task
  BY <1>1 DEF State, Shelf, Panel
<1> HIDE DEF x, v
<1>5. Good(x) /\ Fit(x) /\ Keeps(w, x) /\ OwnPath(x)
  BY <1>2, <1>4, BusyGood, SameKeeps DEF Good, Shelf, OwnPath, Running, Active
<1>6. Shelf(q) = Shelf(x) /\ Panel(q) = Panel(x) /\ q.task = x.task
  BY <1>2 DEF State, Shelf, Panel
<1> HIDE DEF q
<1>7. Cuts(w, x) /\ Cuts(w, q) /\ OwnPath(q)
  BY <1>5, <1>6, SameKeeps, KeepsTrans DEF Keeps, Shelf, OwnPath, Running, Active
<1>8. Cuts(x, e) /\ e \in State /\ ~Active(e)
  BY <1>5, EnterFaultStateKeeps, EnterFaultStateGood, DroppedGood DEF Dropped
<1> HIDE DEF e
<1>9. Shelf(p) = Shelf(e) /\ Panel(p) = Panel(e) /\ p.task = e.task
  BY <1>8 DEF State, Shelf, Panel
<1> HIDE DEF p
<1>10. Cuts(w, p) /\ OwnPath(p)
  BY <1>7, <1>8, <1>9, SameKeeps, KeepsTrans DEF Keeps, OwnPath, Running, Active
<1>11. Cuts(w, v) /\ OwnPath(v)
  BY <1>3, <1>5, <1>7, <1>10
<1> QED
  BY <1>11 DEF v

LEMMA DroppedAck ==
  ASSUME NEW w \in State, ~w.up, ~Running(w)
  PROVE  EnterFaultState(w, FALSE).ack = w.ack
<1> DEFINE f == [w EXCEPT !.mode = "fault"]
           v == IF f.task.trig \in ScanStage THEN WriteScanResult(f) ELSE f
           a == AbortActiveTaskForFault(f)
<1>1. f \in State /\ f.ack = w.ack /\ f.task = w.task /\ ~f.up
  BY ModeBusy DEF State
<1> HIDE DEF f
<1>2. v \in State /\ v.ack = f.ack /\ ~v.up
  <2>1. WriteScanResult(f) \in State
    BY <1>1, WriteScanResultType
  <2> QED
    BY <1>1, <2>1 DEF WriteScanResult, State
<1> HIDE DEF v
<1>3. a \in {[f EXCEPT !.clock = FALSE], ClearActiveTask([v EXCEPT !.clock = FALSE])}
  <2>1. Active(f) => f.task.announced
    BY <1>1 DEF Active, Running
  <2> QED
    BY <1>2, <2>1 DEF AbortActiveTaskForFault, v
<1>4. a \in State /\ a.ack = w.ack
  <2> DEFINE x == [f EXCEPT !.clock = FALSE]
             y == [v EXCEPT !.clock = FALSE]
  <2>1. x \in State /\ y \in State
    BY <1>1, <1>2, ClockType
  <2>2. x.ack = f.ack /\ y.ack = v.ack
    BY <1>1, <1>2 DEF State
  <2> HIDE DEF x, y
  <2>3. ClearActiveTask(y) \in State /\ ClearActiveTask(y).ack = y.ack
    <3>1. ClearActiveTask(y) \in State
      BY <2>1, ClearActiveTaskType
    <3>2. ClearActiveTask(y).ack = y.ack
      BY <2>1 DEF ClearActiveTask, State
    <3> QED
      BY <3>1, <3>2
  <2> QED
    BY <1>1, <1>2, <1>3, <2>1, <2>2, <2>3 DEF x, y
<1> HIDE DEF a
<1>5. ClearActiveTask(a).ack = a.ack
  BY <1>4 DEF ClearActiveTask, State
<1> QED
  BY <1>4, <1>5 DEF EnterFaultState, a, f

LEMMA OnModbusDisconnectedKeeps ==
  ASSUME NEW w, Good(w), OwnPath(w), NEW c \in State, c = [w EXCEPT !.up = FALSE]
  PROVE  LET v == IF c.wired THEN OnModbusDisconnected(c) ELSE c
         IN Keeps(w, v) /\ OwnPath(v) /\ (~Running(w) => v.ack = w.ack)
<1> DEFINE x == [c EXCEPT !.clock = FALSE]
           e == EnterFaultState(x, FALSE)
           v == IF c.wired THEN OnModbusDisconnected(c) ELSE c
<1>1. w \in State /\ Fit(w)
  BY DEF Good, Fit
<1>2. /\ Shelf(c) = Shelf(w) /\ ~c.up /\ c.task = w.task /\ c.last = w.last
      /\ c.ack = w.ack /\ c.clock = w.clock
  BY <1>1 DEF State, Shelf
<1>3. Keeps(w, c) /\ OwnPath(c)
  <2>1. Local(w, c)
    BY <1>2 DEF Local, Quiet, Running, Active
  <2> QED
    BY <1>2, <2>1, ShelfSpares DEF Keeps, Cuts, Owned, Clear, Shelf, OwnPath, Running, Active
<1>4. v \in {c, e}
  BY DEF OnModbusDisconnected
<1>5. x \in State /\ Keeps(c, x)
  BY ClockType, ClockOffKeeps
<1>6. x.task = c.task /\ x.last = c.last /\ ~x.up /\ x.ack = c.ack
  BY <1>2 DEF State
<1> HIDE DEF x
<1>7. Fit(x)
  BY <1>1, <1>2, <1>5, <1>6 DEF Fit, Active
<1>8. Keeps(x, e) /\ ~Active(e)
  BY <1>6, <1>7, EnterFaultStateKeeps, EnterFaultStateEnds DEF Active
<1>12. ~Running(w) => e.ack = w.ack
  BY <1>2, <1>5, <1>6, DroppedAck DEF Running, Active
<1> HIDE DEF e, v
<1>9. Keeps(w, e)
  BY <1>3, <1>5, <1>8, KeepsTrans
<1>10. OwnPath(e)
  BY <1>8 DEF OwnPath, Running
<1>11. Keeps(w, v) /\ OwnPath(v) /\ (~Running(w) => v.ack = w.ack)
  BY <1>2, <1>3, <1>4, <1>9, <1>10, <1>12
<1> QED
  BY <1>11 DEF v

LEMMA OnModbusConnectedSpares ==
  ASSUME NEW w \in State
  PROVE  LET v == OnModbusConnected(w)
         IN Spares(w, v) /\ v.ack = w.ack /\ OwnPath(v)
<1> DEFINE c == ClearActiveTask(w)
           a == [c EXCEPT !.last = NoBlock, !.block = NoTrigger, !.latch = {}]
           v == OnModbusConnected(w)
<1>1. c \in State /\ Spares(w, c) /\ c.ack = w.ack
  BY ClearActiveTaskType, ClearActiveTaskSpares DEF ClearActiveTask, State
<1>2. v = [a EXCEPT !.advance = FALSE, !.read = "none", !.fails = 0, !.mode = "ready"]
  BY DEF OnModbusConnected
<1> HIDE DEF c
<1>3. a \in State /\ Shelf(a) = Shelf(c) /\ a.ack = c.ack
  BY <1>1, BlankBlockType DEF State, Shelf
<1> HIDE DEF a
<1>4. Shelf(v) = Shelf(a) /\ v.ack = a.ack
  BY <1>2, <1>3 DEF State, Shelf
<1>5. OwnPath(v)
  BY OnModbusConnectedDrops, DroppedGood DEF OwnPath, Running
<1> HIDE DEF v
<1>6. Spares(w, v) /\ v.ack = w.ack
  BY <1>1, <1>3, <1>4, ShelfSpares, KeepsTrans
<1> QED
  BY <1>5, <1>6 DEF v

\* start() and stop() drop the task and leave its registers: they spare the rest.
LEMMA StartSpares ==
  ASSUME NEW w, Good(w) PROVE Spares(w, Start(w)) /\ OwnPath(Start(w))
<1> DEFINE a == [w EXCEPT !.stopped = FALSE]
           c == ClearActiveTask(a)
           f == ForgetWorkpiece(c)
           s == [f EXCEPT !.mode = "init", !.fails = 0]
           v == Start(w)
<1>1. w \in State
  BY DEF Good, Fit
<1>2. a \in State /\ Shelf(a) = Shelf(w)
  BY <1>1 DEF State, Shelf
<1> HIDE DEF a
<1>3. c \in State /\ Spares(a, c)
  BY <1>2, ClearActiveTaskType, ClearActiveTaskSpares
<1> HIDE DEF c
<1>4. f \in State /\ Spares(c, f)
  BY <1>3, ForgetWorkpieceType, ForgetWorkpieceKeeps DEF Keeps, Cuts
<1>5. v \in {s, OnModbusConnected(s)}
  BY DEF Start, f, c, a
<1> HIDE DEF f
<1>6. s \in State /\ Shelf(s) = Shelf(f)
  <2> DEFINE m == [f EXCEPT !.mode = "init"]
  <2>1. s = [m EXCEPT !.fails = 0] /\ Shelf(s) = Shelf(f)
    BY <1>4 DEF State, Shelf
  <2>2. m \in State
    BY <1>4, ModeBusy
  <2> HIDE DEF m
  <2>3. 0 \in 0..3
    OBVIOUS
  <2> QED
    BY <2>1, <2>2, <2>3, FailsBusy
<1> HIDE DEF s, v
<1>7. Spares(s, OnModbusConnected(s))
  BY <1>6, OnModbusConnectedSpares
<1>8. Spares(w, v)
  BY <1>2, <1>3, <1>4, <1>5, <1>6, <1>7, ShelfSpares, KeepsTrans
<1>9. OwnPath(v)
  BY StartDrops, DroppedGood DEF OwnPath, Running, v
<1> QED
  BY <1>8, <1>9 DEF v

LEMMA StopSpares ==
  ASSUME NEW w, Good(w) PROVE Spares(w, Stop(w)) /\ OwnPath(Stop(w))
<1> DEFINE c == ClearActiveTask(w)
           v == Stop(w)
<1>1. w \in State
  BY DEF Good, Fit
<1>2. c \in State /\ Spares(w, c)
  BY <1>1, ClearActiveTaskType, ClearActiveTaskSpares
<1>3. v = w \/ v = [c EXCEPT !.stopped = TRUE, !.gen = c.gen + 1, !.clock = FALSE,
                             !.wired = FALSE, !.fails = 0, !.mode = "off"]
  BY DEF Stop
<1> HIDE DEF c
<1>4. Shelf(v) = Shelf(w) \/ Shelf(v) = Shelf(c)
  BY <1>2, <1>3 DEF State, Shelf
<1>5. OwnPath(v)
  BY StopDrops, DroppedGood DEF OwnPath, Running
<1> HIDE DEF v
<1>6. Spares(w, v)
  BY <1>2, <1>4, ShelfSpares, KeepsTrans
<1> QED
  BY <1>5, <1>6 DEF v

--------------------------------------------------------------------------------
\* Every step keeps the cache of one path and one run, and asks at most once.

Shelved == CacheFit(sm) /\ OwnPath(sm)

\* Disturbances under which the PLC is promised less: start() and stop() drop a
\* task without its registers; the person alarm leaves a failed answer behind, the
\* loss of the link seen by its errors turns a finished one into it; a camera that
\* is missing, or a trigger that is refused, leaves an answer of no task. A machine
\* that was stopped is deaf: its registers stand as they are.
Restarts == Disturbance \cap {"reset", "stop"} # {}
Overrules == Disturbance \cap {"error", "person", "reset"} # {}
Refuses ==
  \/ Disturbance \cap {"cameras", "person", "reset"} # {}
  \/ \E b \in PlcBlock : ~Unrefused(b)

Continues ==
  /\ Shelved'
  /\ V!CNext \/ UNCHANGED V!cvars
  /\ ~Restarts => (Owned(sm) => Owned(sm'))
  /\ ~Overrules /\ Settled(sm) => (sm'.wired => Settled(sm')) /\ Stands(sm, sm')
  /\ ~Refuses /\ Unrefused(cmd) /\ Clear(sm) => (sm'.wired => Clear(sm'))

LEMMA AsksContinues ==
  ASSUME Shelved, AtMostAsks(sm, sm'), OwnPath(sm'),
         ~Overrules /\ Settled(sm) => Settled(sm') /\ Stands(sm, sm'),
         ~Refuses /\ Unrefused(cmd) /\ Clear(sm) => Clear(sm')
  PROVE  Continues
<1>1. CASE Still(sm, sm')
  BY <1>1 DEF Continues, Shelved, AtMostAsks, Still, V!cvars
<1>2. CASE /\ sm.vp = 0 /\ sm'.nextReq = sm.nextReq + 1 /\ sm'.vp \in {0, sm.nextReq}
  BY <1>2 DEF Continues, Shelved, AtMostAsks, V!CNext, V!Begin, V!Skip
<1> QED
  BY <1>1, <1>2 DEF AtMostAsks, Asks

LEMMA KeepsContinues ==
  ASSUME Inv, Shelved, Keeps(sm, sm'), OwnPath(sm'),
         ~Overrules /\ Settled(sm) /\ ~Running(sm) => Stands(sm, sm')
  PROVE  Continues
<1>1. ~Overrules /\ Settled(sm) => Settled(sm') /\ Stands(sm, sm')
  BY CutsSettled DEF Inv, Keeps
<1> QED
  BY <1>1, AsksContinues, AskingTrans DEF Keeps

\* What does not run is not answered again.
LEMMA SameAckStands ==
  ASSUME NEW w, NEW v, v.ack = w.ack PROVE Stands(w, v)
BY DEF Stands

LEMMA SparesContinues ==
  ASSUME Shelved, Spares(sm, sm'), OwnPath(sm'), Restarts,
         ~Overrules => ~sm'.wired /\ Stands(sm, sm'), ~Refuses => ~sm'.wired
  PROVE  Continues
BY DEF Continues, Shelved, Spares, Still, V!cvars

\* What a callback consumes before its handler runs.
LEMMA ConsumedKeeps ==
  ASSUME NEW w \in State, OwnPath(w), NEW x
  PROVE  LET Fine(v) == Keeps(w, v) /\ OwnPath(v) /\ v.ack = w.ack /\ v.task = w.task
         IN /\ Fine([w EXCEPT !.fatals = w.fatals \ {x}])
            /\ Fine([w EXCEPT !.ocr = w.ocr \ {x}])
            /\ Fine([w EXCEPT !.fafs = w.fafs \ {x}])
            /\ Fine([w EXCEPT !.dogs = w.dogs \ {x}])
<1> DEFINE Alikes(v) == Shelf(v) = Shelf(w) /\ Panel(v) = Panel(w) /\ v.task = w.task
           a == w.fatals \ {x}
           b == w.ocr \ {x}
           c == w.fafs \ {x}
           d == w.dogs \ {x}
<1> HIDE DEF a, b, c, d
<1>1. /\ Alikes([w EXCEPT !.fatals = a]) /\ Alikes([w EXCEPT !.ocr = b])
      /\ Alikes([w EXCEPT !.fafs = c]) /\ Alikes([w EXCEPT !.dogs = d])
  BY DEF State, Shelf, Panel
<1>2. ASSUME NEW v, Alikes(v) PROVE Keeps(w, v) /\ OwnPath(v)
  BY <1>2, SameKeeps DEF Shelf, OwnPath, Running, Active
<1> HIDE DEF Alikes
<1> QED
  BY <1>1, <1>2 DEF a, b, c, d

\* No answer is given or withdrawn, and the machine hears what it heard.
Mute(w, v) == v.ack = w.ack /\ v.last = w.last /\ v.wired = w.wired

\* A callback that finds no running task answers nothing.
LEMMA CallbacksAnswerNothing ==
  ASSUME NEW w \in State, ~Running(w), NEW answer, NEW text, NEW rid, NEW ok
  PROVE  /\ Mute(w, OnBundleCaptureFinished(w, rid, ok))
         /\ Mute(w, OnVisionPipelineFatalError(w))
         /\ Mute(w, OnMechEyeFatalError(w))
         /\ Mute(w, OnHikOcrTextReceived(w, answer, text))
         /\ Mute(w, FireAndForgetAck(w, answer))
<1> DEFINE r == IF w.read = "wait" THEN "none" ELSE w.read
           f == [w EXCEPT !.read = r]
           late == [w EXCEPT !.read = "none", !.readGen = 0]
           coded == [late EXCEPT !.code = answer.gen]
<1>1. ASSUME NEW n, NEW c PROVE FinishCodeRead(w, n, c) = f
  BY DEF FinishCodeRead
<1>2. Mute(w, f) /\ Mute(w, late) /\ Mute(w, coded) /\ Mute(w, w)
  BY DEF State, Mute
<1>3. w.read \in {"none", "wait", "soft"}
  BY DEF State
<1> HIDE DEF f, r
<1>4. OnHikOcrTextReceived(w, answer, text) \in {w, late, coded, f}
  BY <1>1, <1>3 DEF OnHikOcrTextReceived
<1> HIDE DEF late, coded
<1> QED
  BY <1>2, <1>4 DEF OnBundleCaptureFinished, OnVisionPipelineFatalError,
     OnMechEyeFatalError, FireAndForgetAck

LEMMA CallbacksContinue ==
  ASSUME Inv, Shelved,
         \/ BundleCaptureFinished \/ VisionPipelineFatalError \/ MechEyeFatalError
         \/ HikOcrTextReceived \/ FireAndForgetTimer \/ FinalizeWatchdogTimer
         \/ ProcessTimeout
  PROVE  Continues
<1>1. Good(sm) /\ sm \in State /\ OwnPath(sm)
  BY DEF Inv, Good, Fit, Shelved
<1>2. CASE BundleCaptureFinished
  <2> DEFINE w == [sm EXCEPT !.vp = 0]
  <2>1. PICK ok \in BOOLEAN : sm' = OnBundleCaptureFinished(w, sm.vp, ok)
    BY <1>2 DEF BundleCaptureFinished
  <2>2. sm.vp # 0 /\ Busy(sm, w)
    BY <1>1, <1>2, ConsumedBusy DEF BundleCaptureFinished
  <2>3. /\ w.vp = 0 /\ w.nextReq = sm.nextReq /\ w.cache = sm.cache /\ w.path = sm.path
        /\ w.runTask = sm.runTask /\ Panel(w) = Panel(sm) /\ w.task = sm.task
    BY <1>1 DEF State, Panel
  <2> HIDE DEF w
  <2>4. Good(w) /\ OwnPath(w) /\ (CacheFit(sm) => CacheFit(w)) /\ (Owned(sm) => Owned(w))
    BY <1>1, <2>2, <2>3, BusyGood, PanelOwned DEF OwnPath, Running, Active, CacheFit
  <2>5. Keeps(w, sm') /\ OwnPath(sm') /\ (~Running(w) => Stands(w, sm'))
    BY <2>1, <2>4, OnBundleCaptureFinishedKeeps, CallbacksAnswerNothing, SameAckStands
    DEF Good, Fit, Mute
  <2>7. Settled(sm) => Settled(sm') /\ Stands(sm, sm')
    <3>1. Settled(sm) => Settled(w)
      BY <2>3, PanelOwned DEF Settled, Fresh, Running, Active, Panel
    <3>2. Settled(w) => Settled(sm') /\ Stands(w, sm')
      BY <2>4, <2>5, CutsSettled DEF Keeps
    <3> QED
      BY <2>3, <3>1, <3>2 DEF Stands, Panel
  <2>8. Clear(sm) => Clear(sm')
    BY <2>3, <2>5, PanelOwned DEF Keeps
  <2>6. V!Finish
    BY <2>2, <2>3, <2>5 DEF Keeps, Cuts, Spares, Still, V!Finish
  <2> QED
    BY <2>4, <2>5, <2>6, <2>7, <2>8 DEF Continues, Shelved, Keeps, Cuts, Spares, V!CNext
<1>3. CASE VisionPipelineFatalError
  <2>1. PICK owner \in sm.fatals :
          sm' = OnVisionPipelineFatalError([sm EXCEPT !.fatals = @ \ {owner}])
    BY <1>3 DEF VisionPipelineFatalError
  <2> DEFINE w == [sm EXCEPT !.fatals = sm.fatals \ {owner}]
  <2>2. /\ Busy(sm, w) /\ Keeps(sm, w) /\ OwnPath(w) /\ w.ack = sm.ack
        /\ sm' = OnVisionPipelineFatalError(w)
    BY <1>1, <2>1, ConsumedBusy, ConsumedKeeps
  <2> HIDE DEF w
  <2>3. Keeps(w, sm') /\ OwnPath(sm')
    BY <1>1, <2>2, BusyGood, FatalErrorsKeep
  <2>4. ~Running(sm) => Stands(sm, sm')
    BY <2>2, CallbacksAnswerNothing, SameAckStands DEF Busy, Alike, Running, Active, Mute
  <2> QED
    BY <2>2, <2>3, <2>4, KeepsTrans, KeepsContinues
<1>4. CASE MechEyeFatalError
  <2>1. ~Running(sm) => Stands(sm, sm')
    BY <1>1, <1>4, CallbacksAnswerNothing, SameAckStands DEF MechEyeFatalError, Mute
  <2> QED
    BY <1>1, <1>4, <2>1, FatalErrorsKeep, KeepsContinues DEF MechEyeFatalError
<1>5. CASE HikOcrTextReceived
  <2>1. PICK answer \in sm.ocr, text \in BOOLEAN :
          sm' = OnHikOcrTextReceived([sm EXCEPT !.ocr = @ \ {answer}], answer, text)
    BY <1>5 DEF HikOcrTextReceived
  <2> DEFINE w == [sm EXCEPT !.ocr = sm.ocr \ {answer}]
  <2>2. /\ Busy(sm, w) /\ Keeps(sm, w) /\ OwnPath(w) /\ w.ack = sm.ack
        /\ answer \in Stamp
        /\ sm' = OnHikOcrTextReceived(w, answer, text)
    BY <1>1, <2>1, ConsumedBusy, ConsumedKeeps DEF State
  <2> HIDE DEF w
  <2>3. Keeps(w, sm') /\ OwnPath(sm')
    BY <1>1, <2>2, BusyGood, TextsAndTimersKeep
  <2>4. ~Running(sm) => Stands(sm, sm')
    BY <2>2, CallbacksAnswerNothing, SameAckStands DEF Busy, Alike, Running, Active, Mute
  <2> QED
    BY <2>2, <2>3, <2>4, KeepsTrans, KeepsContinues
<1>6. CASE FireAndForgetTimer
  <2>1. PICK timer \in sm.fafs :
          sm' = FireAndForgetAck([sm EXCEPT !.fafs = @ \ {timer}], timer)
    BY <1>6 DEF FireAndForgetTimer
  <2> DEFINE w == [sm EXCEPT !.fafs = sm.fafs \ {timer}]
  <2>2. /\ Busy(sm, w) /\ Keeps(sm, w) /\ OwnPath(w) /\ w.ack = sm.ack
        /\ timer \in Stamp
        /\ sm' = FireAndForgetAck(w, timer)
    BY <1>1, <2>1, ConsumedBusy, ConsumedKeeps DEF State
  <2> HIDE DEF w
  <2>3. Keeps(w, sm') /\ OwnPath(sm')
    BY <1>1, <2>2, BusyGood, TextsAndTimersKeep
  <2>4. ~Running(sm) => Stands(sm, sm')
    BY <2>2, CallbacksAnswerNothing, SameAckStands DEF Busy, Alike, Running, Active, Mute
  <2> QED
    BY <2>2, <2>3, <2>4, KeepsTrans, KeepsContinues
<1>7. CASE FinalizeWatchdogTimer
  <2>1. PICK timer \in sm.dogs :
          sm' = CodeReadFinalizeWatchdog([sm EXCEPT !.dogs = @ \ {timer}], timer)
    BY <1>7 DEF FinalizeWatchdogTimer
  <2> DEFINE w == [sm EXCEPT !.dogs = sm.dogs \ {timer}]
  <2>2. /\ Busy(sm, w) /\ Keeps(sm, w) /\ OwnPath(w) /\ w.ack = sm.ack
        /\ w.task = sm.task /\ timer \in Watchdog
        /\ sm' = CodeReadFinalizeWatchdog(w, timer)
    BY <1>1, <2>1, ConsumedBusy, ConsumedKeeps DEF State
  <2> HIDE DEF w
  <2>3. Keeps(w, sm') /\ OwnPath(sm')
    BY <1>1, <2>2, BusyGood, CodeReadFinalizeWatchdogKeeps
  <2>4. Settled(sm) => Stands(sm, sm')
    <3>1. \A t \in Trigger : sm.up /\ Settled(sm) /\ sm.ack[t] = "completed" => sm.task.trig = t
      BY <1>1, SettledAnswers
    <3>2. sm'.ack = w.ack \/ sm'.ack[w.task.trig] = "idle"
      BY <1>1, <2>2, BusyGood, WatchdogReleases
    <3>3. ~sm.up => sm'.ack = w.ack
      BY <1>1, <2>2 DEF Good, CodeReadFinalizeWatchdog, Announced, Active
    <3> QED
      BY <2>2, <3>1, <3>2, <3>3 DEF Stands
  <2> QED
    BY <2>2, <2>3, <2>4, KeepsTrans, KeepsContinues
<1>8. CASE ProcessTimeout
  <2> DEFINE c == [sm EXCEPT !.clock = FALSE]
  <2>1. c \in State
    BY <1>1, ClockType
  <2>2. sm' = OnProcessTimeout(c)
    BY <1>8 DEF ProcessTimeout
  <2>3. Keeps(sm, sm') /\ OwnPath(sm')
    BY <1>1, <2>1, <2>2, OnProcessTimeoutKeeps
  <2>4. Settled(sm) /\ ~Running(sm) => ~Active(sm)
    BY <1>8 DEF ProcessTimeout, Settled, Quiet, Running
  <2>5. ~Active(sm) => sm'.ack = sm.ack
    BY <1>1, <2>2 DEF OnProcessTimeout, Active, State
  <2> QED
    BY <2>3, <2>4, <2>5, SameAckStands, KeepsContinues
<1> QED
  BY <1>2, <1>3, <1>4, <1>5, <1>6, <1>7, <1>8

LEMMA PlcWriteContinues ==
  ASSUME Inv, Shelved, NEW b \in CommandArea, PlcWrite(b),
         ~Refuses /\ Unrefused(cmd) => Unrefused(b)
  PROVE  Continues
<1>1. Good(sm) /\ sm.up /\ OwnPath(sm)
  BY DEF Inv, Shelved, PlcWrite
<1>2. CASE ~sm.wired
  <2>1. sm' = sm
    BY <1>2 DEF PlcWrite
  <2> QED
    BY <1>1, <2>1, SameKeeps, SameAckStands, KeepsContinues
<1>3. CASE sm.wired
  <2>1. PICK in \in FrameInput :
          /\ in.cams \/ "cameras" \in Disturbance
          /\ sm' = HandleRegistersRead(sm, b, in)
    BY <1>3 DEF PlcWrite
  <2>2. /\ AtMostAsks(sm, sm') /\ OwnPath(sm')
        /\ Settled(sm) => Settled(sm') /\ Stands(sm, sm')
        /\ Unrefused(b) /\ in.cams => (Clear(sm) => Clear(sm'))
    BY <1>1, <1>3, <2>1, HandleRegistersReadAsks
  <2>3. ~Refuses => in.cams
    BY <2>1 DEF Refuses
  <2> QED
    BY <2>2, <2>3, AsksContinues
<1> QED
  BY <1>2, <1>3

LEMMA ModbusListenContinues ==
  ASSUME Inv, Shelved, ModbusListen PROVE Continues
<1> DEFINE a == [sm EXCEPT !.up = TRUE]
           w == ZeroRegisters(a)
<1>1. Good(sm) /\ sm \in State /\ OwnPath(sm)
  BY DEF Inv, Good, Fit, Shelved
<1>2. a \in State /\ Shelf(a) = Shelf(sm) /\ a.task = sm.task
  BY <1>1 DEF State, Shelf
<1>3. sm' \in {OnModbusConnected(w), w}
  BY DEF ModbusListen
<1> HIDE DEF a
<1>4. w \in State /\ Shelf(w) = Shelf(a) /\ w.task = a.task
      /\ w.ack = [t \in Trigger |-> "idle"]
  BY <1>2, ZeroRegistersBusy DEF ZeroRegisters, State, Shelf
<1> HIDE DEF w
<1>5. Spares(sm, w) /\ OwnPath(w)
  BY <1>1, <1>2, <1>4, ShelfSpares DEF Shelf, OwnPath, Running, Active
<1>6. /\ Spares(w, OnModbusConnected(w)) /\ OwnPath(OnModbusConnected(w))
      /\ OnModbusConnected(w).ack = w.ack
  BY <1>4, OnModbusConnectedSpares
<1>7. Spares(sm, sm') /\ OwnPath(sm') /\ sm'.ack = [t \in Trigger |-> "idle"]
  BY <1>3, <1>4, <1>5, <1>6, KeepsTrans
<1>11. sm'.task \in {sm.task, NoTask}
  <2>1. ClearActiveTask(w) \in State /\ ClearActiveTask(w).task = NoTask
    BY <1>4, ClearActiveTaskType DEF ClearActiveTask, State
  <2>2. OnModbusConnected(w).task = NoTask
    BY <2>1 DEF OnModbusConnected, State
  <2> QED
    BY <1>2, <1>3, <1>4, <2>2
<1>8. Owned(sm') /\ Fresh(sm') /\ Clear(sm') /\ Stands(sm, sm')
  <2>1. Running(sm') => sm'.task.trig \in Trigger
    BY <1>1, <1>11, NoTaskFields DEF State, Task, Running, Active
  <2> QED
    BY <1>7, <2>1 DEF Owned, Fresh, Clear, Stands
<1>9. Quiet(sm) => Quiet(sm')
  <2>1. ~Active(sm)
    BY <1>1 DEF ModbusListen, Good
  <2>2. ~sm.task.announced
    BY <1>1, <2>1 DEF Good, Fit
  <2>3. ~sm'.task.announced
    BY <1>11, <2>2, NoTaskFields
  <2> QED
    BY <2>3 DEF Quiet
<1>10. Still(sm, sm')
  BY <1>7 DEF Spares
<1> QED
  BY <1>7, <1>8, <1>9, <1>10, AsksContinues DEF Settled, AtMostAsks, Asks, Spares

LEMMA DisturbancesContinue ==
  ASSUME Inv, Shelved, PersonZoneAlarm \/ ModbusError \/ ModbusDisconnect PROVE Continues
<1>1. Good(sm) /\ sm \in State /\ OwnPath(sm)
  BY DEF Inv, Good, Fit, Shelved
<1>2. CASE PersonZoneAlarm
  <2>1. PICK alarm \in BOOLEAN : sm' = ReportPersonZoneAlarm(sm, alarm)
    BY <1>2 DEF PersonZoneAlarm
  <2>2. Overrules /\ Refuses
    BY <1>2 DEF PersonZoneAlarm, Overrules, Refuses
  <2> QED
    BY <1>1, <2>1, <2>2, ReportPersonZoneAlarmCuts, AskingTrans, AsksContinues
<1>3. CASE ModbusError
  <2>1. Overrules
    BY <1>3 DEF ModbusError, Overrules
  <2> QED
    BY <1>1, <1>3, <2>1, OnModbusErrorKeeps, KeepsContinues DEF ModbusError
<1>4. CASE ModbusDisconnect
  <2> DEFINE c == [sm EXCEPT !.up = FALSE]
  <2>1. c \in State
    BY <1>1 DEF State
  <2>2. sm' = IF c.wired THEN OnModbusDisconnected(c) ELSE c
    BY <1>4 DEF ModbusDisconnect
  <2>3. Keeps(sm, sm') /\ OwnPath(sm') /\ (~Running(sm) => Stands(sm, sm'))
    BY <1>1, <2>1, <2>2, OnModbusDisconnectedKeeps, SameAckStands
  <2> QED
    BY <2>3, KeepsContinues
<1> QED
  BY <1>2, <1>3, <1>4

\* stop() leaves the registers, and the last command area, as they are.
LEMMA StopDeafens ==
  ASSUME NEW w \in State
  PROVE  Stop(w) = w \/ (Stop(w).wired = FALSE /\ Stop(w).ack = w.ack /\ Stop(w).last = w.last)
<1> DEFINE c == ClearActiveTask(w)
<1>1. c \in State
  BY ClearActiveTaskType
<1>3. c.ack = w.ack /\ c.last = w.last
  BY DEF ClearActiveTask, State
<1> HIDE DEF c
<1>2. Stop(w) = w \/ Stop(w) = [c EXCEPT !.stopped = TRUE, !.gen = @ + 1, !.clock = FALSE,
                                       !.wired = FALSE, !.fails = 0, !.mode = "off"]
  BY DEF Stop, c
<1> QED
  BY <1>1, <1>2, <1>3 DEF State

LEMMA HmiContinues ==
  ASSUME Inv, Shelved, HmiReset \/ HmiStop \/ HmiCaptureBundle PROVE Continues
<1>1. Good(sm) /\ sm \in State /\ OwnPath(sm)
  BY DEF Inv, Good, Fit, Shelved
<1>2. CASE HmiReset
  <2>1. sm' = Start(sm) /\ Restarts /\ Overrules /\ Refuses
    BY <1>2 DEF HmiReset, Restarts, Overrules, Refuses
  <2> QED
    BY <1>1, <2>1, StartSpares, SparesContinues
<1>3. CASE HmiStop
  <2>1. sm' = Stop(sm) /\ Restarts
    BY <1>3 DEF HmiStop, Restarts
  <2>2. CASE sm' = sm
    <3>1. Keeps(sm, sm') /\ OwnPath(sm') /\ Stands(sm, sm')
      BY <1>1, <2>2, SameKeeps, SameAckStands
    <3> QED
      BY <3>1, KeepsContinues
  <2>3. CASE sm' # sm
    <3>1. ~sm'.wired /\ sm'.ack = sm.ack
      BY <1>1, <2>1, <2>3, StopDeafens
    <3> QED
      BY <1>1, <2>1, <3>1, StopSpares, SameAckStands, SparesContinues
  <2> QED
    BY <2>2, <2>3
<1>4. CASE HmiCaptureBundle
  <2>1. PICK dev \in DeviceOutcome : sm' = RequestCaptureBundle(sm, dev, 0)
    BY <1>4 DEF HmiCaptureBundle
  <2>2. /\ Handles(sm, sm') /\ sm'.path = sm.path /\ sm'.task = sm.task
        /\ Panel(sm') = Panel(sm)
    BY <1>1, <2>1, RequestCaptureBundleAsks
  <2>3. OwnPath(sm')
    BY <1>1, <2>2 DEF OwnPath, Running, Active
  <2>4. Settled(sm) => Settled(sm') /\ Stands(sm, sm')
    BY <2>2, PanelOwned, SameAckStands DEF Settled, Fresh, Running, Active, Panel
  <2> QED
    BY <2>2, <2>3, <2>4, AsksContinues DEF Handles
<1> QED
  BY <1>2, <1>3, <1>4

LEMMA NextContinues ==
  ASSUME Inv, Shelved, [Next]_vars PROVE Continues
<1>1. CASE UNCHANGED vars
  <2>1. sm' = sm
    BY <1>1 DEF vars
  <2>2. OwnPath(sm')
    BY <2>1 DEF Shelved
  <2> QED
    BY <2>1, <2>2, SameKeeps, SameAckStands, KeepsContinues
<1>2. ASSUME NEW b \in PlcBlock, PlcWrite(b) PROVE Continues
  BY <1>2, EnvironmentAssumption, PlcWriteContinues DEF Refuses
<1>3. CASE PlcHeartbeat
  BY <1>3, PlcWriteContinues DEF PlcHeartbeat, Inv
<1> QED
  BY <1>1, <1>2, <1>3, CallbacksContinue, ModbusListenContinues, DisturbancesContinue,
     HmiContinues
  DEF Next

\* A stopped machine stays deaf until it is made anew, and changes no answer; a new
\* connection begins without any.
LEMMA DeafStays ==
  ASSUME Inv, ~sm.wired, Disturbance \cap {"person", "reset"} = {}, [Next]_vars
  PROVE  /\ ~sm'.wired /\ sm'.last = sm.last
         /\ \A t \in Trigger : sm'.ack[t] \in {sm.ack[t], "idle"}
<1>1. Good(sm) /\ sm \in State /\ ~Active(sm) /\ ~Running(sm) /\ ~Announced(sm)
  BY DEF Inv, Good, Fit, Running, Announced
<1> SUFFICES \/ Mute(sm, sm')
             \/ sm'.wired = sm.wired /\ sm'.last = sm.last /\ sm'.ack = [t \in Trigger |-> "idle"]
  BY DEF Mute
<1>2. ASSUME NEW w \in State, w.task = sm.task, Mute(sm, w), NEW v, Mute(w, v)
      PROVE  Mute(sm, v)
  BY <1>2 DEF Mute
<1>3. ASSUME NEW w \in State, w.task = sm.task PROVE ~Active(w) /\ ~Running(w) /\ ~Announced(w)
  BY <1>1, <1>3 DEF Active, Running, Announced
<1>4. CASE UNCHANGED vars \/ PlcHeartbeat \/ \E b \in PlcBlock : PlcWrite(b)
  BY <1>4 DEF vars, PlcHeartbeat, PlcWrite, Mute
<1>5. CASE BundleCaptureFinished
  <2> DEFINE w == [sm EXCEPT !.vp = 0]
  <2>1. w \in State /\ w.task = sm.task /\ Mute(sm, w)
    BY <1>1 DEF State, Mute
  <2>2. PICK ok \in BOOLEAN : sm' = OnBundleCaptureFinished(w, sm.vp, ok)
    BY <1>5 DEF BundleCaptureFinished
  <2> HIDE DEF w
  <2> QED
    BY <1>2, <1>3, <2>1, <2>2, CallbacksAnswerNothing
<1>6. CASE VisionPipelineFatalError
  <2>1. PICK owner \in sm.fatals :
          sm' = OnVisionPipelineFatalError([sm EXCEPT !.fatals = @ \ {owner}])
    BY <1>6 DEF VisionPipelineFatalError
  <2> DEFINE w == [sm EXCEPT !.fatals = sm.fatals \ {owner}]
  <2>2. w \in State /\ w.task = sm.task /\ Mute(sm, w) /\ sm' = OnVisionPipelineFatalError(w)
    BY <1>1, <2>1 DEF State, Mute
  <2> HIDE DEF w
  <2> QED
    BY <1>2, <1>3, <2>2, CallbacksAnswerNothing
<1>7. CASE MechEyeFatalError
  BY <1>1, <1>7, CallbacksAnswerNothing DEF MechEyeFatalError
<1>8. CASE HikOcrTextReceived
  <2>1. PICK answer \in sm.ocr, text \in BOOLEAN :
          sm' = OnHikOcrTextReceived([sm EXCEPT !.ocr = @ \ {answer}], answer, text)
    BY <1>8 DEF HikOcrTextReceived
  <2> DEFINE w == [sm EXCEPT !.ocr = sm.ocr \ {answer}]
  <2>2. /\ w \in State /\ w.task = sm.task /\ Mute(sm, w)
        /\ sm' = OnHikOcrTextReceived(w, answer, text)
    BY <1>1, <2>1 DEF State, Mute
  <2> HIDE DEF w
  <2> QED
    BY <1>2, <1>3, <2>2, CallbacksAnswerNothing
<1>9. CASE FireAndForgetTimer
  <2>1. PICK timer \in sm.fafs : sm' = FireAndForgetAck([sm EXCEPT !.fafs = @ \ {timer}], timer)
    BY <1>9 DEF FireAndForgetTimer
  <2> DEFINE w == [sm EXCEPT !.fafs = sm.fafs \ {timer}]
  <2>2. w \in State /\ w.task = sm.task /\ Mute(sm, w) /\ sm' = FireAndForgetAck(w, timer)
    BY <1>1, <2>1 DEF State, Mute
  <2> HIDE DEF w
  <2> QED
    BY <1>2, <1>3, <2>2, CallbacksAnswerNothing
<1>10. CASE FinalizeWatchdogTimer
  <2>1. PICK timer \in sm.dogs :
          sm' = CodeReadFinalizeWatchdog([sm EXCEPT !.dogs = @ \ {timer}], timer)
    BY <1>10 DEF FinalizeWatchdogTimer
  <2> DEFINE w == [sm EXCEPT !.dogs = sm.dogs \ {timer}]
  <2>2. w \in State /\ w.task = sm.task /\ Mute(sm, w)
    BY <1>1 DEF State, Mute
  <2>3. sm' = w
    BY <1>3, <2>1, <2>2 DEF CodeReadFinalizeWatchdog
  <2> QED
    BY <2>2, <2>3
<1>11. CASE ProcessTimeout
  <2> DEFINE w == [sm EXCEPT !.clock = FALSE]
  <2>1. w \in State /\ w.task = sm.task /\ Mute(sm, w)
    BY <1>1 DEF State, Mute
  <2>2. sm' = OnProcessTimeout(w)
    BY <1>11 DEF ProcessTimeout
  <2> HIDE DEF w
  <2>3. sm' = w
    BY <1>3, <2>1, <2>2 DEF OnProcessTimeout
  <2> QED
    BY <2>1, <2>3
<1>12. CASE ModbusListen
  <2> DEFINE w == ZeroRegisters([sm EXCEPT !.up = TRUE])
  <2>1. w.wired = sm.wired /\ w.last = sm.last /\ w.ack = [t \in Trigger |-> "idle"]
    BY <1>1 DEF ZeroRegisters, State
  <2>2. sm' = w
    BY <1>12, <2>1 DEF ModbusListen
  <2> QED
    BY <2>1, <2>2
<1>13. CASE ModbusDisconnect
  <2> DEFINE w == [sm EXCEPT !.up = FALSE]
  <2>1. Mute(sm, w)
    BY <1>1 DEF State, Mute
  <2>2. sm' = w
    BY <1>13, <2>1 DEF ModbusDisconnect, Mute
  <2> QED
    BY <2>1, <2>2
<1>14. CASE HmiStop
  <2>1. sm' = Stop(sm)
    BY <1>14 DEF HmiStop
  <2> QED
    <3>1. sm.wired = FALSE
      BY <1>1 DEF State
    <3> QED
      BY <1>1, <2>1, <3>1, StopDeafens DEF Mute
<1>15. CASE HmiCaptureBundle
  <2>1. PICK dev \in DeviceOutcome : sm' = RequestCaptureBundle(sm, dev, 0)
    BY <1>15 DEF HmiCaptureBundle
  <2> QED
    BY <1>1, <2>1 DEF RequestCaptureBundle, Mute, State
<1>16. ~PersonZoneAlarm /\ ~ModbusError /\ ~HmiReset
  BY DEF PersonZoneAlarm, ModbusError, HmiReset
<1> QED
  BY <1>4, <1>5, <1>6, <1>7, <1>8, <1>9, <1>10, <1>11, <1>12, <1>13, <1>14, <1>15, <1>16 DEF Next

LEMMA InitShelved ==
  Init => Shelved /\ V!CInit /\ Settled(sm) /\ Clear(sm) /\ Unrefused(cmd)
<1> SUFFICES ASSUME Init PROVE Shelved /\ V!CInit /\ Settled(sm) /\ Clear(sm) /\ Unrefused(cmd)
  OBVIOUS
<1>1. /\ sm.vp = 0 /\ sm.nextReq = 1 /\ sm.cache = EmptyCache /\ sm.task = NoTask
      /\ sm.up = FALSE
  BY DEF Init
<1>2. CacheFit(sm)
  BY <1>1 DEF CacheFit, EmptyCache
<1>3. OwnPath(sm)
  BY <1>1, NoTaskFields DEF OwnPath, Running, Active
<1>4. Settled(sm) /\ Clear(sm)
  BY <1>1, NoTaskFields DEF Settled, Owned, Fresh, Quiet, Clear, Running, Active
<1>5. Unrefused(cmd)
  BY DEF Init, ZeroBlock, NoBlock, Unrefused
<1> QED
  BY <1>1, <1>2, <1>3, <1>4, <1>5 DEF Shelved, V!CInit

\* The command area is one of those the PLC may write, or zeroed.
LEMMA CommandUnrefused ==
  ASSUME Unrefused(cmd), \A b \in PlcBlock : Unrefused(b), [Next]_vars
  PROVE  Unrefused(cmd')
<1>1. Unrefused(ZeroBlock)
  BY DEF ZeroBlock, NoBlock, Unrefused
<1>2. cmd' \in PlcBlock \cup {cmd, ZeroBlock}
  BY DEF Next, PlcWrite, PlcHeartbeat, BundleCaptureFinished, VisionPipelineFatalError,
     MechEyeFatalError, HikOcrTextReceived, FireAndForgetTimer, FinalizeWatchdogTimer,
     ProcessTimeout, PersonZoneAlarm, ModbusListen, ModbusDisconnect, ModbusError, HmiReset,
     HmiStop, HmiCaptureBundle, vars
<1> QED
  BY <1>1, <1>2

--------------------------------------------------------------------------------
\* The theorems about them.

\* The cache is fit for the path and the run it is judged for, and a running
\* task caches for the current path.
THEOREM ShelfInvariance == Spec => []Shelved
<1>1. Inv /\ Shelved /\ [Next]_vars => Shelved'
  BY NextContinues DEF Continues
<1> QED
  BY Invariance, InitShelved, <1>1, PTL DEF Spec

\* Whatever ends a task, switches the path or forgets the workpiece in
\* state_machine.cpp, a capture that is stored late or for another path never joins
\* the segments of the current one.
THEOREM CacheIsOfOnePath == Spec => []SegmentsOfOnePath
<1>1. Shelved => SegmentsOfOnePath
  BY DEF Shelved, CacheFit, SegmentsOfOnePath
<1> QED
  BY ShelfInvariance, <1>1, PTL

\* storeSegmentCaptureResult() never mixes two task numbers, although
\* clearScanSegmentCacheForPathSwitch() keeps the number of the run.
THEOREM CacheIsOfOneRun == Spec => []OneRunPerCache
<1>1. Shelved => OneRunPerCache
  BY DEF Shelved, CacheFit, OneRunPerCache
<1> QED
  BY ShelfInvariance, <1>1, PTL

\* The state machine uses the capture pipeline as CaptureService allows, and as
\* VisionPipeline implements: no handler asks twice, or while a bundle is under way.
THEOREM CapturesKeepThePromise == Spec => CapturesAsPromised
<1>1. Inv /\ Shelved /\ [Next]_vars => [V!CNext]_(V!cvars)
  BY NextContinues DEF Continues
<1>2. Init => V!CInit
  BY InitShelved
<1> QED
  BY Invariance, ShelfInvariance, <1>1, <1>2, PTL DEF Spec, CapturesAsPromised, V!CSpec

\* As long as the HMI neither restarts nor stops the state machine (start() and
\* stop() drop the task and leave its registers), every acknowledgement that says
\* running or completed is of the task there is: no fault, reconnection, timeout,
\* policy or forced release leaves the PLC waiting for nobody.
THEOREM AnswersHaveTheirTask ==
  ASSUME Disturbance \cap {"reset", "stop"} = {}
  PROVE  Spec => []AnswersHaveTask
<1>1. Inv /\ Shelved /\ Owned(sm) /\ [Next]_vars => Owned(sm)'
  BY NextContinues DEF Continues, Restarts
<1>2. Init => Owned(sm)
  BY InitShelved DEF Settled
<1>3. Owned(sm) => AnswersHaveTask
  BY DEF Owned, AnswersHaveTask
<1> QED
  BY Invariance, ShelfInvariance, <1>1, <1>2, <1>3, PTL DEF Spec

\* Unless a person alarm, the errors of the link or a restart overrules it, an answer
\* that says "completed" is never turned into another one: not by a late capture,
\* text or timer, a device's error, a timeout, a next trigger, a reconnection or stop().
THEOREM AnswersStandFirm ==
  ASSUME Disturbance \cap {"error", "person", "reset"} = {}
  PROVE  Spec => AnswersStand
<1> DEFINE Hears == sm.wired => Settled(sm)
<1>1. Inv /\ Shelved /\ Hears /\ [Next]_vars => Hears' /\ Stands(sm, sm')
  <2> SUFFICES ASSUME Inv, Shelved, Hears, [Next]_vars PROVE Hears' /\ Stands(sm, sm')
    OBVIOUS
  <2>1. CASE sm.wired
    BY <2>1, NextContinues DEF Continues, Overrules
  <2>2. CASE ~sm.wired
    BY <2>2, DeafStays DEF Stands
  <2> QED
    BY <2>1, <2>2
<1>2. Init => Hears
  BY InitShelved
<1>3. Stands(sm, sm')
        => \A t \in Trigger : sm.ack[t] = "completed" => sm'.ack[t] \in {"completed", "idle"}
  BY DEF Stands
<1>4. Inv /\ Shelved /\ Hears /\ [Next]_vars
        => [\A t \in Trigger : sm.ack[t] = "completed"
                              => sm'.ack[t] \in {"completed", "idle"}]_vars
  BY <1>1, <1>3
<1> HIDE DEF Hears
<1> QED
  BY Invariance, ShelfInvariance, <1>1, <1>2, <1>4, PTL DEF Spec, AnswersStand

\* If no trigger is refused and no alarm or restart interferes, the handshake always
\* closes: with its trigger goes the acknowledgement, whatever faults, timeouts and
\* reconnections there were, until stop() ends it all.
THEOREM AcksClear ==
  ASSUME Disturbance \cap {"cameras", "person", "reset"} = {},
         \A b \in PlcBlock : Unrefused(b)
  PROVE  Spec => AckClearsOnRelease
<1> DEFINE Cleared == (sm.wired => Clear(sm)) /\ Unrefused(cmd)
<1>1. ASSUME Inv, Shelved, Cleared, [Next]_vars
      PROVE  Cleared' /\ (~sm'.wired => sm'.last = sm.last)
  <2>1. ~Refuses
    BY DEF Refuses
  <2>2. Unrefused(cmd')
    BY <1>1, CommandUnrefused
  <2>3. CASE sm.wired
    <3>1. sm'.wired => Clear(sm')
      BY <1>1, <2>1, <2>3, NextContinues DEF Continues
    <3> QED
      BY <1>1, <2>2, <2>3, <3>1, NextMoves DEF Moves
  <2>4. CASE ~sm.wired
    BY <1>1, <2>2, <2>4, DeafStays
  <2> QED
    BY <2>3, <2>4
<1>2. Init => Cleared
  BY InitShelved
<1>3. ASSUME Inv', Cleared', ~sm'.wired => sm'.last = sm.last, Inv, [Next]_vars,
             NEW t \in Trigger, t \in sm.last.trig, t \notin sm'.last.trig, ~sm'.last.empty
      PROVE  sm'.ack[t] = "idle" \/ (Running(sm') /\ sm'.task.trig = t)
  <2>1. sm'.up /\ Clear(sm')
    BY <1>3, NextMoves DEF Moves
  <2>2. CASE sm'.ack[t] # "idle"
    <3>1. sm'.task.trig = t
      BY <1>3, <2>1, <2>2 DEF Clear
    <3>2. ~Announced(sm') /\ Active(sm')
      BY <1>3, <3>1, NoTriggerNotOne DEF Inv, Good, Active
    <3> QED
      BY <3>1, <3>2 DEF Running, Announced
  <2> QED
    BY <2>2
<1>4. Inv /\ Shelved /\ Inv' /\ Cleared /\ [Next]_vars
        => [\A t \in Trigger :
              t \in sm.last.trig /\ t \notin sm'.last.trig /\ ~sm'.last.empty
                => sm'.ack[t] = "idle" \/ (Running(sm') /\ sm'.task.trig = t)]_vars
  BY <1>1, <1>3
<1>5. Inv /\ Shelved /\ Cleared /\ [Next]_vars => Cleared'
  BY <1>1
<1> HIDE DEF Cleared
<1> QED
  BY Invariance, ShelfInvariance, <1>2, <1>4, <1>5, PTL DEF Spec, AckClearsOnRelease

--------------------------------------------------------------------------------
\* The fire-and-forget timers.  Handlers leave them alone and never go back to an
\* earlier workpiece (Ages), except that of a code read, which starts its own (Starts).

Ages(w, v) == v \in State /\ v.fafs = w.fafs /\ v.gen >= w.gen

Mine(w) == [gen |-> w.gen, id |-> w.task.id]

Starts(w, v) ==
  /\ v \in State /\ v.gen >= w.gen
  /\ v.fafs = w.fafs \cup {Mine(v)}
  /\ Running(v) /\ v.task.rid = 0 /\ v.read # "wait"

Times(w, v) == Ages(w, v) \/ Starts(w, v)

LEMMA AgesTrans ==
  ASSUME NEW w \in State, NEW v, NEW u, Ages(w, v)
  PROVE  /\ Ages(v, u) => Ages(w, u)
         /\ Starts(v, u) => Starts(w, u)
         /\ Times(v, u) => Times(w, u)
<1>1. w.gen \in Nat /\ v.gen \in Nat /\ v.gen >= w.gen /\ v.fafs = w.fafs
  BY DEF Ages, State
<1>2. ASSUME u \in State, u.gen >= v.gen PROVE u.gen >= w.gen
  <2>1. u.gen \in Nat
    BY <1>2 DEF State
  <2> QED
    BY <1>1, <1>2, <2>1
<1>3. Ages(v, u) => Ages(w, u)
  BY <1>1, <1>2 DEF Ages
<1>4. Starts(v, u) => Starts(w, u)
  BY <1>1, <1>2 DEF Starts
<1> QED
  BY <1>3, <1>4 DEF Times

LEMMA AgesSelf == ASSUME NEW w \in State PROVE Ages(w, w)
BY DEF Ages, State

\* A transformer that touches neither.
LEMMA SameAges ==
  ASSUME NEW w \in State, NEW v \in State, v.fafs = w.fafs, v.gen = w.gen PROVE Ages(w, v)
BY DEF Ages, State

LEMMA ClearDoneRegistersAges ==
  ASSUME NEW w \in State
  PROVE  Ages(w, ClearDoneRegisters(w)) /\ ClearDoneRegisters(w).task = w.task
<1>1. /\ ClearDoneRegisters(w).fafs = w.fafs /\ ClearDoneRegisters(w).gen = w.gen
      /\ ClearDoneRegisters(w).task = w.task
  BY DEF ClearDoneRegisters, State
<1> QED
  BY <1>1, ClearDoneRegistersType, SameAges

LEMMA ClearCacheAges ==
  ASSUME NEW w \in State
  PROVE  /\ Ages(w, ClearCacheForPathSwitch(w)) /\ Ages(w, ResetScanSegmentCache(w))
         /\ ClearCacheForPathSwitch(w).task = w.task
<1>1. /\ ClearCacheForPathSwitch(w).fafs = w.fafs /\ ClearCacheForPathSwitch(w).gen = w.gen
      /\ ClearCacheForPathSwitch(w).task = w.task
  BY DEF ClearCacheForPathSwitch, State
<1>2. ResetScanSegmentCache(w).fafs = w.fafs /\ ResetScanSegmentCache(w).gen = w.gen
  BY DEF ResetScanSegmentCache, State
<1> QED
  BY <1>1, <1>2, ClearCacheType, SameAges

LEMMA PathAges ==
  ASSUME NEW w \in State, NEW p
  PROVE  LET v == [ClearDoneRegisters(ClearCacheForPathSwitch(w)) EXCEPT !.path = p]
         IN v \in State => Ages(w, v) /\ v.task = w.task
<1> DEFINE c == ClearDoneRegisters(ClearCacheForPathSwitch(w))
           v == [c EXCEPT !.path = p]
<1>1. Ages(w, c) /\ c \in State /\ c.task = w.task
  BY ClearCacheAges, ClearDoneRegistersAges, AgesTrans DEF Ages
<1> HIDE DEF c
<1>2. v.fafs = c.fafs /\ v.gen = c.gen /\ v.task = c.task
  BY <1>1 DEF State
<1>3. v \in State => Ages(c, v)
  BY <1>1, <1>2, SameAges
<1>4. v \in State => Ages(w, v) /\ v.task = w.task
  BY <1>1, <1>2, <1>3, AgesTrans
<1> QED
  BY <1>4 DEF c

LEMMA PrepareNextScanPathAges ==
  ASSUME NEW w \in State
  PROVE  Ages(w, PrepareNextScanPath(w)) /\ PrepareNextScanPath(w).task = w.task
BY PrepareNextScanPathType, PathAges DEF PrepareNextScanPath

LEMMA ApplyPlcScanPathIdAges ==
  ASSUME NEW w \in State, NEW b, NEW c, NEW d
  PROVE  Ages(w, ApplyPlcScanPathId(w, b, c, d)) /\ ApplyPlcScanPathId(w, b, c, d).task = w.task
<1> DEFINE v == [ClearDoneRegisters(ClearCacheForPathSwitch(w)) EXCEPT !.path = b.path]
<1>1. ApplyPlcScanPathId(w, b, c, d) \in {w, v}
  BY DEF ApplyPlcScanPathId
<1>2. v \in State => Ages(w, v) /\ v.task = w.task
  BY PathAges
<1> HIDE DEF v
<1> QED
  BY <1>1, <1>2, ApplyPlcScanPathIdType, AgesSelf

LEMMA NextGenAges ==
  ASSUME NEW w \in State
  PROVE  LET v == [w EXCEPT !.gen = @ + 1] IN Ages(w, v) /\ v.gen > w.gen
BY DEF Ages, State

LEMMA ForgetWorkpieceAges ==
  ASSUME NEW w \in State
  PROVE  Ages(w, ForgetWorkpiece(w)) /\ ForgetWorkpiece(w).gen > w.gen
<1> DEFINE g == [w EXCEPT !.gen = @ + 1]
           c == ClearTransientWorkpieceState(g)
           r == ResetScanSegmentCache(c)
           f == ForgetWorkpiece(w)
<1>1. g \in State /\ Ages(w, g) /\ g.gen > w.gen
  BY NextGenAges DEF Ages
<1>2. f = [r EXCEPT !.path = FirstEnabledPath]
  BY DEF ForgetWorkpiece
<1> HIDE DEF g
<1>3. c \in State /\ c.fafs = g.fafs /\ c.gen = g.gen
  <2>1. c \in State
    BY <1>1 DEF ClearTransientWorkpieceState, State
  <2>2. c.fafs = g.fafs /\ c.gen = g.gen
    BY <1>1 DEF ClearTransientWorkpieceState, State
  <2> QED
    BY <2>1, <2>2
<1> HIDE DEF c
<1>4. r \in State /\ r.fafs = c.fafs /\ r.gen = c.gen
  BY <1>3, ClearCacheType DEF ResetScanSegmentCache, State
<1> HIDE DEF r
<1>5. f \in State /\ f.fafs = g.fafs /\ f.gen = g.gen
  BY <1>2, <1>3, <1>4, FirstEnabledPathType DEF State
<1> HIDE DEF f
<1>6. Ages(w, f) /\ f.gen > w.gen
  BY <1>1, <1>5, SameAges, AgesTrans
<1> QED
  BY <1>6 DEF f

LEMMA ApplyPolicyAges ==
  ASSUME NEW w \in State
  PROVE  Ages(w, ApplyScanFailurePolicy(w)) /\ Ages(w, ApplyInspectionTimeoutPolicy(w))
<1> DEFINE d == DeviceOf(w.task.trig)
           e == [w EXCEPT !.cache[d] = {x \in @ : x.seg # w.task.seg}]
           g == [w EXCEPT !.gen = @ + 1]
<1>1. e.fafs = w.fafs /\ e.gen = w.gen
  BY DEF State
<1>2. Ages(w, g) /\ g \in State
  BY NextGenAges DEF Ages
<1>3. Ages(w, ForgetWorkpiece(w)) /\ Ages(w, ClearCacheForPathSwitch(w))
  BY ForgetWorkpieceAges, ClearCacheAges
<1>4. ApplyScanFailurePolicy(w) \in {ForgetWorkpiece(w), ClearCacheForPathSwitch(w), e}
  BY DEF ApplyScanFailurePolicy
<1>5. ApplyInspectionTimeoutPolicy(w) \in {ForgetWorkpiece(w), ClearCacheForPathSwitch(g), g}
  BY DEF ApplyInspectionTimeoutPolicy
<1> HIDE DEF g, e
<1>6. Ages(w, ClearCacheForPathSwitch(g))
  BY <1>2, ClearCacheAges, AgesTrans
<1> QED
  BY <1>1, <1>2, <1>3, <1>4, <1>5, <1>6, ApplyPolicyType, SameAges
LEMMA StoreSegmentAges ==
  ASSUME NEW w \in State, NEW d \in Device PROVE Ages(w, StoreSegment(w, d))
<1>1. StoreSegment(w, d).fafs = w.fafs /\ StoreSegment(w, d).gen = w.gen
  BY DEF StoreSegment, State
<1> QED
  BY <1>1, StoreSegmentType, SameAges

LEMMA WriteScanResultAges ==
  ASSUME NEW w \in State PROVE Ages(w, WriteScanResult(w))
<1>1. WriteScanResult(w).fafs = w.fafs /\ WriteScanResult(w).gen = w.gen
  BY DEF WriteScanResult, State
<1> QED
  BY <1>1, WriteScanResultType, SameAges

LEMMA ReadAges ==
  ASSUME NEW w \in State, NEW r \in {"none", "wait", "soft"}
  PROVE  /\ Ages(w, [w EXCEPT !.read = r])
         /\ \A c \in Nat : Ages(w, [w EXCEPT !.read = r, !.code = c])
         /\ \A c \in Nat : Ages(w, [w EXCEPT !.read = r, !.readGen = c])
<1>1. /\ [w EXCEPT !.read = r].fafs = w.fafs /\ [w EXCEPT !.read = r].gen = w.gen
      /\ \A c : /\ [w EXCEPT !.read = r, !.code = c].fafs = w.fafs
                /\ [w EXCEPT !.read = r, !.code = c].gen = w.gen
                /\ [w EXCEPT !.read = r, !.readGen = c].fafs = w.fafs
                /\ [w EXCEPT !.read = r, !.readGen = c].gen = w.gen
  BY DEF State
<1>2. [w EXCEPT !.read = r] \in State
  BY ReadBusy DEF Busy, Alike
<1>3. ASSUME NEW c \in Nat
      PROVE  /\ [w EXCEPT !.read = r, !.code = c] \in State
             /\ [w EXCEPT !.read = r, !.readGen = c] \in State
  BY ReadCodeBusy DEF Busy, Alike
<1> QED
  BY <1>1, <1>2, <1>3, SameAges

LEMMA ClearActiveTaskAges ==
  ASSUME NEW w \in State PROVE Ages(w, ClearActiveTask(w))
<1>1. ClearActiveTask(w).fafs = w.fafs /\ ClearActiveTask(w).gen = w.gen
  BY DEF ClearActiveTask, State
<1> QED
  BY <1>1, ClearActiveTaskType, SameAges

LEMMA ReleaseAges ==
  ASSUME NEW w \in State, Active(w) PROVE Ages(w, Release(w))
<1> DEFINE c == ClearActiveTask(w)
<1>1. c \in State /\ Ages(w, c)
  BY ClearActiveTaskAges DEF Ages
<1> HIDE DEF c
<1>2. Release(w).fafs = c.fafs /\ Release(w).gen = c.gen
  BY <1>1 DEF Release, State, c
<1>3. Ages(c, Release(w))
  BY <1>1, <1>2, ReleaseType, SameAges
<1> QED
  BY <1>1, <1>3, AgesTrans

LEMMA FinalizeAges ==
  ASSUME NEW w \in State, NEW b, NEW force PROVE Ages(w, Finalize(w, b, force))
<1> DEFINE r == Release(w)
           a == [r EXCEPT !.advance = FALSE]
<1>1. \/ Finalize(w, b, force) = w
      \/ Active(w) /\ Finalize(w, b, force) \in {r, PrepareNextScanPath(a)}
  BY DEF Finalize, Announced
<1>2. CASE Finalize(w, b, force) = w
  BY <1>2, AgesSelf
<1>3. CASE Active(w)
  <2>1. r \in State /\ Ages(w, r)
    BY <1>3, ReleaseAges DEF Ages
  <2> HIDE DEF r
  <2>2. Ages(r, a) /\ a \in State
    <3>1. a \in State
      BY <2>1 DEF State
    <3>2. a.fafs = r.fafs /\ a.gen = r.gen
      BY <2>1 DEF State
    <3> QED
      BY <2>1, <3>1, <3>2, SameAges
  <2> HIDE DEF a
  <2>3. Ages(w, PrepareNextScanPath(a))
    BY <2>1, <2>2, PrepareNextScanPathAges, AgesTrans
  <2> QED
    BY <1>1, <1>2, <2>1, <2>3
<1> QED
  BY <1>1, <1>2, <1>3

LEMMA CompleteActiveTaskAges ==
  ASSUME NEW w \in State, NEW result \in ResultCode, NEW ackState \in AckState
  PROVE  Ages(w, CompleteActiveTask(w, result, ackState))
<1> DEFINE f == [w EXCEPT !.mode = "fault", !.clock = FALSE]
           a == Announce(w, result, ackState)
<1>1. f \in State /\ Ages(w, f)
  <2>1. f \in State
    BY DEF State
  <2>2. f.fafs = w.fafs /\ f.gen = w.gen
    BY DEF State
  <2> QED
    BY <2>1, <2>2, SameAges
<1>2. CompletionWriteFault(w) = ClearActiveTask(f)
  BY DEF CompletionWriteFault
<1> HIDE DEF f
<1>3. Ages(w, CompletionWriteFault(w))
  BY <1>1, <1>2, ClearActiveTaskAges, AgesTrans
<1>4. ASSUME Active(w) PROVE Ages(w, Finalize(a, w.last, FALSE))
  <2>1. a \in State
    BY <1>4, AnnounceType
  <2>2. a.fafs = w.fafs /\ a.gen = w.gen
    BY DEF Announce, State
  <2> HIDE DEF a
  <2> QED
    BY <2>1, <2>2, SameAges, FinalizeAges, AgesTrans
<1> QED
  BY <1>3, <1>4, AgesSelf DEF CompleteActiveTask

LEMMA CompleteScanSegmentAges ==
  ASSUME NEW w \in State, NEW result \in ResultCode, NEW ackState \in AckState
  PROVE  Ages(w, CompleteScanSegment(w, result, ackState))
<1> DEFINE u == IF result >= 5 THEN ApplyScanFailurePolicy(w) ELSE w
           v == WriteScanResult(u)
<1>1. u \in State /\ Ages(w, u)
  BY ApplyPolicyAges, AgesSelf DEF Ages
<1>2. CompleteScanSegment(w, result, ackState) = CompleteActiveTask(v, result, ackState)
  BY DEF CompleteScanSegment
<1> HIDE DEF u
<1>3. v \in State /\ Ages(w, v)
  BY <1>1, WriteScanResultAges, AgesTrans DEF Ages
<1> HIDE DEF v
<1> QED
  BY <1>2, <1>3, CompleteActiveTaskAges, AgesTrans

LEMMA FinishInspectionAges ==
  ASSUME NEW w \in State, NEW result \in ResultCode PROVE Ages(w, FinishInspection(w, result))
<1> DEFINE r == IF w.read = "wait" THEN "none" ELSE w.read
           v == [w EXCEPT !.read = r]
           a == IF result <= 2 THEN "completed" ELSE "failed"
           c == CompleteActiveTask(v, result, a)
<1>1. r \in {"none", "wait", "soft"} /\ a \in AckState
  BY CodeTypes DEF State
<1>2. FinishInspection(w, result) \in {v, c, PrepareNextScanPath(c)}
  BY DEF FinishInspection
<1> HIDE DEF r, a
<1>3. Ages(w, v) /\ v \in State
  BY <1>1, ReadAges DEF Ages
<1> HIDE DEF v
<1>4. Ages(w, c) /\ c \in State
  BY <1>1, <1>3, CompleteActiveTaskAges, AgesTrans DEF Ages
<1> HIDE DEF c
<1> QED
  BY <1>2, <1>3, <1>4, PrepareNextScanPathAges, AgesTrans

LEMMA FinishCodeScanAges ==
  ASSUME NEW w \in State, w.task.trig \in ScanStage, Active(w), NEW ok \in BOOLEAN
  PROVE  Ages(w, FinishCodeScan(w, ok))
<1> DEFINE stored == StoreSegment(w, DeviceOf(w.task.trig))
           advance == stored.advance \/ QuotaMet(stored)
           marked == [stored EXCEPT !.advance = advance]
           c == IF ok THEN CompleteScanSegment(marked, 1, "completed")
                      ELSE CompleteScanSegment(w, 7, "failed")
           dog == [gen |-> c.gen, trig |-> w.task.trig, id |-> w.task.id]
           watched == [c EXCEPT !.dogs = @ \cup {dog}]
<1>1. w.task.trig \in Trigger
  BY DEF Active, State, Task
<1>2. FinishCodeScan(w, ok) \in {watched, c}
  BY DEF FinishCodeScan
<1>3. advance \in BOOLEAN
  OBVIOUS
<1> HIDE DEF advance
<1>4. stored \in State /\ Ages(w, stored)
  BY DeviceOfType, StoreSegmentAges DEF Ages
<1> HIDE DEF stored
<1>5. marked \in State /\ Ages(stored, marked)
  BY <1>3, <1>4 DEF Ages, State
<1> HIDE DEF marked
<1>6. Ages(w, marked)
  BY <1>4, <1>5, AgesTrans
<1>7. 1 \in ResultCode /\ 7 \in ResultCode
  BY DEF ResultCode
<1>8. c \in State /\ Ages(w, c)
  <2>1. Ages(w, CompleteScanSegment(marked, 1, "completed"))
    BY <1>5, <1>6, <1>7, CodeTypes, CompleteScanSegmentAges, AgesTrans
  <2>2. Ages(w, CompleteScanSegment(w, 7, "failed"))
    BY <1>7, CodeTypes, CompleteScanSegmentAges
  <2>3. Ages(w, c)
    BY <2>1, <2>2
  <2> QED
    BY <2>3 DEF Ages
<1> HIDE DEF c
<1>9. dog \in Watchdog
  BY <1>1, <1>8 DEF Watchdog, State, Task
<1> HIDE DEF dog
<1>10. watched \in State /\ watched.fafs = c.fafs /\ watched.gen = c.gen
  BY <1>8, <1>9 DEF State
<1> HIDE DEF watched
<1> QED
  BY <1>2, <1>8, <1>10, SameAges, AgesTrans

LEMMA FinishCodeReadAges ==
  ASSUME NEW w \in State, NEW result \in {1, 2}, NEW text \in Nat
  PROVE  Ages(w, FinishCodeRead(w, result, text))
<1> DEFINE r == IF result = 1 /\ w.read = "soft" THEN "soft" ELSE "none"
           code == IF w.up /\ text # 0 THEN text ELSE w.code
           v == [w EXCEPT !.read = r, !.code = code]
           a == IF result = 1 THEN "completed" ELSE "failed"
           c == CompleteActiveTask(v, result, a)
           q == IF w.read = "wait" THEN "none" ELSE w.read
           n == [w EXCEPT !.read = q]
<1>1. /\ result \in ResultCode /\ a \in AckState /\ code \in Nat
      /\ r \in {"none", "wait", "soft"} /\ q \in {"none", "wait", "soft"}
  BY DEF State, ResultCode, AckState
<1>2. FinishCodeRead(w, result, text) =
        IF ~Running(w) THEN n
        ELSE IF w.task.trig \in ScanStage THEN FinishCodeScan(v, result = 1)
        ELSE IF w.task.trig # "CodeRead" THEN FinishInspection(v, result)
        ELSE IF result = 1 THEN PrepareNextScanPath(c) ELSE c
  BY DEF FinishCodeRead
<1>3. v.task = w.task
  BY DEF State
<1> HIDE DEF r, code, a, q
<1>4. Ages(w, v) /\ v \in State /\ Ages(w, n)
  <2>1. Ages(w, v) /\ Ages(w, n)
    BY <1>1, ReadAges
  <2> QED
    BY <2>1 DEF Ages
<1> HIDE DEF v, n
<1>5. Ages(w, c) /\ c \in State
  BY <1>1, <1>4, CompleteActiveTaskAges, AgesTrans DEF Ages
<1> HIDE DEF c
<1>6. Ages(w, PrepareNextScanPath(c)) /\ Ages(w, FinishInspection(v, result))
  BY <1>1, <1>4, <1>5, PrepareNextScanPathAges, FinishInspectionAges, AgesTrans
<1>7. ASSUME Running(w), w.task.trig \in ScanStage
      PROVE  Ages(w, FinishCodeScan(v, result = 1))
  <2>1. Active(v) /\ v.task.trig \in ScanStage
    BY <1>3, <1>7 DEF Active, Running
  <2>2. Ages(v, FinishCodeScan(v, result = 1))
    BY <1>4, <2>1, FinishCodeScanAges
  <2> QED
    BY <1>4, <2>2, AgesTrans
<1> QED
  BY <1>2, <1>4, <1>5, <1>6, <1>7

LEMMA RequestCaptureBundleAges ==
  ASSUME NEW w \in State, NEW dev, NEW owner \in Nat
  PROVE  Ages(w, RequestCaptureBundle(w, dev, owner))
<1>1. /\ RequestCaptureBundle(w, dev, owner).fafs = w.fafs
      /\ RequestCaptureBundle(w, dev, owner).gen = w.gen
  BY DEF RequestCaptureBundle, State
<1> QED
  BY <1>1, RequestCaptureBundleType, SameAges

\* A running task that waits for no capture; what a handler is called with.
Unasked(w) == w \in State /\ Running(w) /\ w.task.rid = 0

LEMMA StartCodeReadCaptureTimes ==
  ASSUME NEW w, Unasked(w), NEW dev PROVE Times(w, StartCodeReadCapture(w, dev))
<1> DEFINE scan == w.task.trig \in ScanStage \/ w.path \in CodePath
           mine == [gen |-> w.gen, id |-> w.task.id]
           task == [w.task EXCEPT !.path = w.path]
           waits == [w EXCEPT !.read = "wait", !.readGen = w.gen, !.ocr = w.ocr \cup {mine},
                              !.task = task]
           soft == [w EXCEPT !.read = "soft", !.readGen = w.gen, !.ocr = w.ocr \cup {mine},
                             !.task = task]
           f == [soft EXCEPT !.fafs = soft.fafs \cup {mine}]
           u == [w EXCEPT !.read = "none", !.readGen = 0]
<1>1. w \in State /\ w.task \in Task /\ Running(w) /\ w.task.rid = 0 /\ w.gen \in Nat
  BY DEF Unasked, State
<1>2. mine \in Stamp
  BY <1>1 DEF Stamp, Task
<1>3. /\ task \in Task /\ task.trig = w.task.trig /\ task.announced = w.task.announced
      /\ task.rid = 0 /\ task.id = w.task.id
  <2>1. w.path \in Nat
    BY <1>1, CounterTypes
  <2>2. task \in Task
    BY <1>1, <2>1 DEF Task
  <2> QED
    BY <1>1, <2>2 DEF Task
<1>4. \/ ~scan /\ StartCodeReadCapture(w, dev) = waits
      \/ scan /\ StartCodeReadCapture(w, dev) = f
      \/ StartCodeReadCapture(w, dev) \in {FinishCodeRead(w, 2, 0), FinishCodeRead(u, 2, 0)}
  BY DEF StartCodeReadCapture
<1> HIDE DEF task, scan
<1>5. waits \in State /\ waits.fafs = w.fafs /\ waits.gen = w.gen
  BY <1>1, <1>2, <1>3 DEF State
<1>6. /\ soft \in State /\ soft.fafs = w.fafs /\ soft.gen = w.gen /\ soft.task = task
      /\ soft.read = "soft"
  BY <1>1, <1>2, <1>3 DEF State
<1>7. mine.gen = w.gen /\ mine.id = w.task.id
  OBVIOUS
<1>8. mine = [gen |-> soft.gen, id |-> soft.task.id]
  BY <1>3, <1>6
<1> HIDE DEF waits, soft, mine
<1>9. /\ f \in State /\ f.gen = soft.gen /\ f.fafs = soft.fafs \cup {mine} /\ f.task = soft.task
      /\ f.read = soft.read
  BY <1>2, <1>6 DEF State
<1> HIDE DEF f
<1>10. Starts(w, f)
  <2>1. f.fafs = w.fafs \cup {Mine(f)}
    BY <1>6, <1>8, <1>9 DEF Mine
  <2>2. Running(f) /\ f.task.rid = 0 /\ f.read # "wait"
    BY <1>1, <1>3, <1>6, <1>9 DEF Running, Active
  <2>3. f.gen >= w.gen
    BY <1>1, <1>6, <1>9
  <2> QED
    BY <1>9, <2>1, <2>2, <2>3 DEF Starts
<1>11. Ages(w, waits)
  BY <1>1, <1>5, SameAges
<1>12. u \in State /\ Ages(w, u)
  <2>1. Ages(w, u)
    BY <1>1, ReadAges
  <2> QED
    BY <2>1 DEF Ages
<1> HIDE DEF u
<1>13. Ages(w, FinishCodeRead(w, 2, 0)) /\ Ages(w, FinishCodeRead(u, 2, 0))
  BY <1>1, <1>12, FinishCodeReadAges, AgesTrans
<1> QED
  BY <1>4, <1>10, <1>11, <1>13 DEF Times

LEMMA ScanCaptureTimes ==
  ASSUME NEW w, Unasked(w), NEW dev PROVE Times(w, ScanCapture(w, dev))
<1> DEFINE v == MaybeAdvancePathOnNewCycleStart(w)
           a == RequestCaptureBundle(v, dev, w.task.id)
           task == [[a.task EXCEPT !.rid = v.nextReq] EXCEPT !.path = v.path]
           g == [a EXCEPT !.task = task]
<1>1. w \in State /\ w.task.id \in Nat
  BY DEF Unasked, State, Task
<1>2. Ages(w, v) /\ v.task = w.task /\ v \in State
  <2>1. v \in {w, PrepareNextScanPath(w)}
    BY DEF MaybeAdvancePathOnNewCycleStart
  <2> QED
    BY <1>1, <2>1, AgesSelf, PrepareNextScanPathAges DEF Ages
<1>3. ScanCapture(w, dev) \in
        {CompleteScanSegment(v, 5, "failed"), StartCodeReadCapture(v, dev),
         CompleteScanSegment(v, 7, "failed"), g, CompleteScanSegment(a, 7, "failed")}
  BY <1>1, <1>2 DEF ScanCapture
<1> HIDE DEF v
<1>4. Unasked(v)
  BY <1>2 DEF Unasked, Running, Active
<1>5. Ages(w, a) /\ a \in State
  BY <1>1, <1>2, RequestCaptureBundleAges, AgesTrans DEF Ages
<1> HIDE DEF a
<1>6. task \in Task
  BY <1>2, <1>5, PathAssumption DEF State, Task
<1> HIDE DEF task
<1>7. g \in State /\ g.fafs = a.fafs /\ g.gen = a.gen
  BY <1>5, <1>6 DEF State
<1> HIDE DEF g
<1>8. Ages(w, g)
  BY <1>1, <1>5, <1>7, SameAges, AgesTrans
<1>9. 5 \in ResultCode /\ 7 \in ResultCode
  BY DEF ResultCode
<1>10. /\ Ages(w, CompleteScanSegment(v, 5, "failed"))
       /\ Ages(w, CompleteScanSegment(v, 7, "failed"))
       /\ Ages(w, CompleteScanSegment(a, 7, "failed"))
  BY <1>1, <1>2, <1>5, <1>9, CodeTypes, CompleteScanSegmentAges, AgesTrans
<1>11. Times(w, StartCodeReadCapture(v, dev))
  BY <1>1, <1>2, <1>4, StartCodeReadCaptureTimes, AgesTrans
<1> QED
  BY <1>3, <1>8, <1>10, <1>11 DEF Times

LEMMA SelfCheckCaptureAges ==
  ASSUME NEW w \in State, NEW dev PROVE Ages(w, SelfCheckCapture(w, dev))
<1> DEFINE a == RequestCaptureBundle(w, dev, w.task.id)
           task == [a.task EXCEPT !.rid = w.nextReq]
           g == [a EXCEPT !.task = task]
<1>1. w.task.id \in Nat
  BY DEF State, Task
<1>2. SelfCheckCapture(w, dev) \in
        {CompleteActiveTask(w, 2, "failed"), g, CompleteActiveTask(a, 2, "failed")}
  BY DEF SelfCheckCapture
<1>3. Ages(w, a) /\ a \in State
  BY <1>1, RequestCaptureBundleAges DEF Ages
<1> HIDE DEF a
<1>4. task \in Task
  BY <1>3 DEF State, Task
<1> HIDE DEF task
<1>5. g \in State /\ g.fafs = a.fafs /\ g.gen = a.gen
  BY <1>3, <1>4 DEF State
<1> HIDE DEF g
<1>6. Ages(w, g)
  BY <1>3, <1>5, SameAges, AgesTrans
<1>7. 2 \in ResultCode
  BY DEF ResultCode
<1>8. Ages(w, CompleteActiveTask(w, 2, "failed")) /\ Ages(w, CompleteActiveTask(a, 2, "failed"))
  BY <1>3, <1>7, CodeTypes, CompleteActiveTaskAges, AgesTrans
<1> QED
  BY <1>2, <1>6, <1>8

LEMMA ReleaseInspectionAges ==
  ASSUME NEW w \in State, NEW verdict \in {1, 2} PROVE Ages(w, ReleaseInspection(w, verdict))
<1> DEFINE c == CompleteActiveTask(w, 1, "completed")
<1>1. \A n \in {1, 2, 3} : n \in ResultCode
  BY DEF ResultCode
<1>2. Ages(w, c) /\ c \in State
  BY <1>1, CodeTypes, CompleteActiveTaskAges DEF Ages
<1>3. ReleaseInspection(w, verdict) \in
        {PrepareNextScanPath(c), FinishInspection(w, 3), FinishInspection(w, verdict)}
  BY DEF ReleaseInspection
<1> HIDE DEF c
<1> QED
  BY <1>1, <1>2, <1>3, PrepareNextScanPathAges, FinishInspectionAges, AgesTrans

LEMMA ExecuteResultResetAges ==
  ASSUME NEW w \in State PROVE Ages(w, ExecuteResultReset(w))
<1> DEFINE u == [w EXCEPT !.person = FALSE]
           v == ClearDoneRegisters(ForgetWorkpiece(u))
           veto == IF w.up THEN FALSE ELSE v.veto
           x == [v EXCEPT !.veto = veto]
<1>1. u \in State /\ u.fafs = w.fafs /\ u.gen = w.gen
  BY DEF State
<1>2. ExecuteResultReset(w) = CompleteActiveTask(x, 1, "completed")
  BY DEF ExecuteResultReset
<1> HIDE DEF u
<1>3. Ages(w, v) /\ v \in State
  <2>1. Ages(w, u)
    BY <1>1, SameAges
  <2>2. Ages(w, ForgetWorkpiece(u)) /\ ForgetWorkpiece(u) \in State
    BY <1>1, <2>1, ForgetWorkpieceAges, AgesTrans DEF Ages
  <2> QED
    BY <2>2, ClearDoneRegistersAges, AgesTrans DEF Ages
<1> HIDE DEF v
<1>4. veto \in BOOLEAN
  BY <1>3 DEF State
<1> HIDE DEF veto
<1>5. x \in State /\ x.fafs = v.fafs /\ x.gen = v.gen
  BY <1>3, <1>4 DEF State
<1> HIDE DEF x
<1>6. Ages(w, x)
  BY <1>3, <1>5, SameAges, AgesTrans
<1>7. 1 \in ResultCode
  BY DEF ResultCode
<1> QED
  BY <1>2, <1>5, <1>6, <1>7, CodeTypes, CompleteActiveTaskAges, AgesTrans

LEMMA ExecuteActiveTaskTimes ==
  ASSUME NEW w, Unasked(w), NEW in \in FrameInput PROVE Times(w, ExecuteActiveTask(w, in))
<1>1. \A n \in {1, 5, 7} : n \in ResultCode
  BY DEF ResultCode
<1>2. w \in State
  BY DEF Unasked
<1>3. /\ Ages(w, CompleteActiveTask(w, 1, "completed"))
      /\ Ages(w, CompleteActiveTask(w, 5, "failed"))
      /\ Ages(w, CompleteActiveTask(w, 7, "failed"))
  BY <1>1, <1>2, CodeTypes, CompleteActiveTaskAges
<1>4. in.verdict \in {1, 2}
  BY DEF FrameInput
<1>5. ExecuteActiveTask(w, in) \in
        {ScanCapture(w, in.dev), StartCodeReadCapture(w, in.dev),
         ReleaseInspection(w, in.verdict), SelfCheckCapture(w, in.dev),
         ExecuteResultReset(w), CompleteActiveTask(w, 1, "completed"),
         CompleteActiveTask(w, 5, "failed"), CompleteActiveTask(w, 7, "failed")}
  BY DEF ExecuteActiveTask
<1> QED
  BY <1>2, <1>3, <1>4, <1>5, ScanCaptureTimes, StartCodeReadCaptureTimes,
     ReleaseInspectionAges, SelfCheckCaptureAges, ExecuteResultResetAges DEF Times

LEMMA ProcessTriggerTimes ==
  ASSUME NEW w0 \in State, NEW b \in CommandArea, NEW t \in b.trig, NEW in \in FrameInput
  PROVE  Times(w0, ProcessTrigger(w0, t, b, in))
<1> DEFINE w == ApplyPlcScanPathId(w0, b, FALSE, b)
           task == [trig |-> t, seg |-> b.seg[DeviceOf(t)], tid |-> b.tid, path |-> w.path,
                    rid |-> 0, gen |-> w.gen, id |-> w.served + 1, announced |-> FALSE]
           ack == [w.ack EXCEPT ![t] = IF t \in ScanStage THEN w.ack[t] ELSE "running"]
           a == [w EXCEPT !.task = task, !.mode = "busy", !.clock = TRUE,
                          !.served = w.served + 1, !.ack = ack]
           v == ProcessTrigger(w0, t, b, in)
<1>1. t \in Trigger /\ t # NoTrigger
  BY NoTriggerNotOne DEF CommandArea, Block
<1>2. w \in State /\ Ages(w0, w)
  <2>1. Ages(w0, w)
    BY ApplyPlcScanPathIdAges
  <2> QED
    BY <2>1 DEF Ages
<1>3. v \in {w0, Reject(w, t, 8), Reject(w, t, 9), ExecuteActiveTask(a, in)}
  BY DEF ProcessTrigger
<1> HIDE DEF w
<1>4. task \in Task
  <2>1. b.seg[DeviceOf(t)] \in Nat /\ b.tid \in Nat
    BY DeviceOfType DEF CommandArea, Block
  <2>2. w.path \in Nat /\ w.gen \in Nat /\ w.served + 1 \in Nat
    BY <1>2, CounterTypes
  <2> QED
    BY <1>1, <2>1, <2>2 DEF Task
<1>5. ack \in [Trigger -> AckState] /\ w.served + 1 \in Nat
  BY <1>1, <1>2, CodeTypes DEF State
<1>6. task.trig = t /\ ~task.announced /\ task.rid = 0
  OBVIOUS
<1> HIDE DEF task, ack
<1>7. a \in State
  BY <1>2, <1>4, <1>5 DEF State
<1>8. a.task = task /\ a.fafs = w.fafs /\ a.gen = w.gen
  BY <1>2 DEF State
<1> HIDE DEF a, v
<1>9. Ages(w0, a) /\ Unasked(a)
  <2>1. Ages(w0, a)
    BY <1>2, <1>7, <1>8, SameAges, AgesTrans
  <2> QED
    BY <1>1, <1>6, <1>7, <1>8, <2>1 DEF Unasked, Running, Active
<1>10. Times(w0, ExecuteActiveTask(a, in))
  BY <1>7, <1>9, ExecuteActiveTaskTimes, AgesTrans
<1>11. ASSUME NEW r \in {8, 9} PROVE Ages(w0, Reject(w, t, r))
  <2>1. r \in ResultCode
    BY DEF ResultCode
  <2>2. /\ [w.res EXCEPT ![t] = r] \in [Trigger -> ResultCode]
        /\ [w.ack EXCEPT ![t] = "failed"] \in [Trigger -> AckState]
    BY <1>2, <2>1, CodeTypes DEF State
  <2>3. Reject(w, t, r) \in State
    BY <1>2, <2>2 DEF Reject, State
  <2>4. Reject(w, t, r).fafs = w.fafs /\ Reject(w, t, r).gen = w.gen
    BY <1>2 DEF Reject, State
  <2> QED
    BY <1>2, <2>3, <2>4, SameAges, AgesTrans
<1>12. Times(w0, v)
  BY <1>3, <1>10, <1>11, AgesSelf DEF Times
<1> QED
  BY <1>12 DEF v

LEMMA AcceptPendingTimes ==
  ASSUME NEW r \in State, NEW b \in CommandArea, NEW prev, NEW in \in FrameInput
  PROVE  Times(r, AcceptPending(r, b, prev, in))
<1> DEFINE q == ApplyPlcScanPathId(r, b, TRUE, prev)
           pending == PendingTriggers(q, b, prev)
           t == SelectPendingTrigger(pending)
           latch == q.latch \ {t}
           u == [q EXCEPT !.latch = latch]
<1>1. AcceptPending(r, b, prev, in) = IF pending = {} THEN q ELSE ProcessTrigger(u, t, b, in)
  BY DEF AcceptPending
<1>2. Ages(r, q) /\ q \in State
  <2>1. Ages(r, q)
    BY ApplyPlcScanPathIdAges
  <2> QED
    BY <2>1 DEF Ages
<1> HIDE DEF q
<1>3. pending \subseteq b.trig /\ pending \subseteq Trigger
  BY DEF PendingTriggers, CommandArea, Block
<1> HIDE DEF pending
<1>4. ASSUME pending # {} PROVE Times(r, ProcessTrigger(u, t, b, in))
  <2>1. t \in b.trig
    <3>1. t \in pending
      BY <1>3, <1>4, RankMinimum
    <3> QED
      BY <1>3, <3>1
  <2> HIDE DEF t
  <2>2. latch \in SUBSET Trigger
    BY <1>2 DEF State
  <2> HIDE DEF latch
  <2>3. u \in State /\ u.fafs = q.fafs /\ u.gen = q.gen
    BY <1>2, <2>2 DEF State
  <2> HIDE DEF u
  <2>4. Ages(r, u)
    BY <1>2, <2>3, SameAges, AgesTrans
  <2> QED
    BY <2>1, <2>3, <2>4, ProcessTriggerTimes, AgesTrans
<1> QED
  BY <1>1, <1>2, <1>4 DEF Times

\* A step that leaves the running task, the wait for its code and the timers alone.
Unmoved(w, v) == v.fafs = w.fafs /\ v.gen = w.gen /\ v.task = w.task /\ v.read = w.read

LEMMA EdgesUnmoved ==
  ASSUME NEW s \in State, NEW b, NEW prev
  PROVE  Unmoved(s, Unblock(LatchRisingEdges(s, b, prev), b))
<1> DEFINE l == LatchRisingEdges(s, b, prev)
           latch == (s.latch \cap b.trig) \cup (b.trig \ prev.trig)
<1>1. l = s \/ l = [s EXCEPT !.latch = latch]
  BY DEF LatchRisingEdges
<1>2. Unblock(l, b) = [l EXCEPT !.block = IF @ \in b.trig THEN @ ELSE NoTrigger]
  BY DEF Unblock
<1> HIDE DEF l, latch
<1>3. Unmoved(s, l)
  BY <1>1 DEF Unmoved, State
<1>4. /\ Unblock(l, b).fafs = l.fafs /\ Unblock(l, b).gen = l.gen
      /\ Unblock(l, b).task = l.task /\ Unblock(l, b).read = l.read
  BY <1>1, <1>2 DEF State
<1> QED
  BY <1>3, <1>4 DEF Unmoved, l

LEMMA HandleRegistersReadTimes ==
  ASSUME NEW w, Good(w), w.up, w.wired, NEW b \in CommandArea, NEW in \in FrameInput
  PROVE  LET v == HandleRegistersRead(w, b, in)
         IN IF Running(w) THEN Unmoved(w, v) ELSE Times(w, v)
<1> DEFINE x == [w EXCEPT !.last = b, !.fails = 0]
           s == ReleaseOnRead(x, b, w.last)
           r == Unblock(LatchRisingEdges(s, b, w.last), b)
           v == HandleRegistersRead(w, b, in)
<1>1. w \in State /\ w.task.announced \in BOOLEAN
  BY DEF Good, Fit, State, Task
<1>2. x \in State
  <2>1. [w EXCEPT !.last = b] \in State
    BY <1>1 DEF State
  <2>2. x = [[w EXCEPT !.last = b] EXCEPT !.fails = 0]
    BY <1>1 DEF State
  <2>3. ASSUME NEW y \in State PROVE [y EXCEPT !.fails = 0] \in State
    BY DEF State
  <2> QED
    BY <2>1, <2>2, <2>3
<1>3. x.task = w.task /\ x.last = b /\ x.latch = w.latch /\ Unmoved(w, x)
  BY <1>1 DEF State, Unmoved
<1>4. v = IF w.stopped THEN w ELSE IF Active(r) THEN r ELSE AcceptPending(r, b, w.last, in)
  BY DEF HandleRegistersRead
<1> HIDE DEF x, v
<1>5. /\ s \in State /\ Link(x, s) /\ s = Finalize(x, b, FALSE)
      /\ ~w.task.announced => s = x
  BY <1>1, <1>2, <1>3, ReleaseOnReadIs
<1> HIDE DEF s
<1>6. w.latch \subseteq w.last.trig /\ (w.last.empty => w.last.trig = {})
  BY <1>1, LastFacts DEF Good
<1>7. r \in State /\ Unmoved(s, r)
  <2>1. s.last = b /\ s.latch = w.latch
    BY <1>3, <1>5 DEF Link
  <2>2. Latched(s, b, w.last, r)
    BY <1>5, <1>6, <2>1, LatchRisingEdgesIs
  <2> QED
    BY <1>5, <2>2, EdgesUnmoved DEF Latched
<1> HIDE DEF r
<1>8. ASSUME Running(w) PROVE Unmoved(w, v)
  <2>1. Unmoved(w, r)
    BY <1>3, <1>5, <1>7, <1>8 DEF Unmoved, Running
  <2>2. Active(r)
    BY <1>8, <2>1 DEF Unmoved, Running, Active
  <2> QED
    BY <1>4, <2>1, <2>2 DEF Unmoved
<1>9. ASSUME ~Running(w) PROVE Times(w, v)
  <2>1. Ages(w, x)
    BY <1>1, <1>2, <1>3, SameAges DEF Unmoved
  <2>2. Ages(w, s)
    BY <1>1, <1>2, <1>5, <2>1, FinalizeAges, AgesTrans
  <2>3. Ages(w, r)
    BY <1>1, <1>5, <1>7, <2>2, SameAges, AgesTrans DEF Unmoved
  <2>4. Times(w, AcceptPending(r, b, w.last, in))
    BY <1>1, <1>7, <2>3, AcceptPendingTimes, AgesTrans
  <2> QED
    BY <1>1, <1>4, <2>3, <2>4, AgesSelf DEF Times
<1> QED
  BY <1>8, <1>9 DEF v

\* The completions a callback ends with.
LEMMA CompletionsAge ==
  ASSUME NEW w \in State
  PROVE  /\ \A n \in 0..9 : \A a \in {"completed", "failed"} :
              Ages(w, CompleteActiveTask(w, n, a)) /\ Ages(w, CompleteScanSegment(w, n, a))
         /\ Ages(w, OnMechEyeFatalError(w)) /\ Ages(w, OnVisionPipelineFatalError(w))
<1>1. \A n \in 0..9 : \A a \in {"completed", "failed"} :
        Ages(w, CompleteActiveTask(w, n, a)) /\ Ages(w, CompleteScanSegment(w, n, a))
  BY CodeTypes, CompleteActiveTaskAges, CompleteScanSegmentAges
<1>2. 2 \in 0..9 /\ 7 \in 0..9
  OBVIOUS
<1>3. Ages(w, OnMechEyeFatalError(w))
  BY <1>1, <1>2, AgesSelf DEF OnMechEyeFatalError
<1>4. Ages(w, OnVisionPipelineFatalError(w))
  BY <1>1, <1>2, <1>3 DEF OnVisionPipelineFatalError
<1> QED
  BY <1>1, <1>3, <1>4

LEMMA OnBundleCaptureFinishedAges ==
  ASSUME NEW w \in State, NEW rid, NEW ok \in BOOLEAN
  PROVE  LET v == OnBundleCaptureFinished(w, rid, ok)
         IN Ages(w, v) /\ (w.task.rid # rid => v = w)
<1> DEFINE d == DeviceOf(w.task.trig)
           c == CompleteScanSegment(StoreSegment(w, d), 1, "completed")
           k == [c EXCEPT !.barrier = w.task.id]
           v == OnBundleCaptureFinished(w, rid, ok)
<1>1. v \in {w, CompleteActiveTask(w, 1, "completed"), CompleteActiveTask(w, 2, "failed"),
             CompleteScanSegment(w, 7, "failed"), c, k}
  BY DEF OnBundleCaptureFinished
<1>2. w.task.rid # rid => v = w
  BY DEF OnBundleCaptureFinished
<1>3. 1 \in 0..9 /\ 2 \in 0..9 /\ 7 \in 0..9
  OBVIOUS
<1> HIDE DEF v
<1>4. Ages(w, c) /\ c \in State
  <2>1. Ages(w, StoreSegment(w, d)) /\ StoreSegment(w, d) \in State
    BY DeviceOfType, StoreSegmentAges DEF Ages
  <2>2. Ages(w, c)
    BY <1>3, <2>1, CompletionsAge, AgesTrans
  <2> QED
    BY <2>2 DEF Ages
<1> HIDE DEF c
<1>5. w.task.id \in Nat
  BY DEF State, Task
<1>6. k \in State /\ k.fafs = c.fafs /\ k.gen = c.gen
  BY <1>4, <1>5 DEF State
<1> HIDE DEF k
<1>7. Ages(w, k)
  BY <1>4, <1>6, SameAges, AgesTrans
<1>8. Ages(w, v)
  BY <1>1, <1>3, <1>4, <1>7, CompletionsAge, AgesSelf
<1> QED
  BY <1>2, <1>8 DEF v

LEMMA OnHikOcrTextReceivedAges ==
  ASSUME NEW w \in State, NEW answer \in Stamp, NEW text \in BOOLEAN
  PROVE  LET v == OnHikOcrTextReceived(w, answer, text)
         IN /\ Ages(w, v)
            /\ w.read # "wait" => v.gen = w.gen /\ v.task = w.task /\ v.read # "wait"
<1> DEFINE late == [w EXCEPT !.read = "none", !.readGen = 0]
           known == [late EXCEPT !.code = answer.gen]
           v == OnHikOcrTextReceived(w, answer, text)
<1>1. answer.gen \in Nat
  BY DEF Stamp
<1>2. /\ v \in {w, late, known, FinishCodeRead(w, 2, 0), FinishCodeRead(w, 1, answer.gen)}
      /\ w.read # "wait" => v \in {w, late, known}
  BY DEF OnHikOcrTextReceived
<1> HIDE DEF v
<1>3. /\ late \in State /\ late.fafs = w.fafs /\ late.gen = w.gen /\ late.task = w.task
      /\ late.read = "none"
  BY DEF State
<1> HIDE DEF late
<1>4. /\ known \in State /\ known.fafs = late.fafs /\ known.gen = late.gen
      /\ known.task = late.task /\ known.read = late.read
  BY <1>1, <1>3 DEF State
<1> HIDE DEF known
<1>5. Ages(w, late) /\ Ages(w, known)
  BY <1>3, <1>4, SameAges
<1>6. Ages(w, FinishCodeRead(w, 2, 0)) /\ Ages(w, FinishCodeRead(w, 1, answer.gen))
  BY <1>1, FinishCodeReadAges
<1>7. Ages(w, v)
  BY <1>2, <1>5, <1>6, AgesSelf
<1>8. w.read # "wait" => v.gen = w.gen /\ v.task = w.task /\ v.read # "wait"
  BY <1>2, <1>3, <1>4
<1> QED
  BY <1>7, <1>8 DEF v

LEMMA CodeReadFinalizeWatchdogAges ==
  ASSUME NEW w \in State, NEW timer \in Watchdog
  PROVE  LET v == CodeReadFinalizeWatchdog(w, timer)
         IN Ages(w, v) /\ (Running(w) => v = w)
<1> DEFINE c == [w EXCEPT !.block = timer.trig]
           v == CodeReadFinalizeWatchdog(w, timer)
<1>1. v \in {w, Finalize(c, w.last, TRUE)} /\ (Running(w) => v = w)
  <2>1. Running(w) => ~Announced(w)
    BY DEF Running, Announced
  <2> QED
    BY <2>1 DEF CodeReadFinalizeWatchdog
<1> HIDE DEF v
<1>2. timer.trig \in Trigger
  BY DEF Watchdog
<1>3. c \in State /\ c.fafs = w.fafs /\ c.gen = w.gen
  BY <1>2 DEF State
<1> HIDE DEF c
<1>4. Ages(w, Finalize(c, w.last, TRUE))
  BY <1>3, SameAges, FinalizeAges, AgesTrans
<1>5. Ages(w, v)
  BY <1>1, <1>4, AgesSelf
<1> QED
  BY <1>1, <1>5 DEF v

LEMMA OnProcessTimeoutAges ==
  ASSUME NEW w \in State PROVE Ages(w, OnProcessTimeout(w))
<1> DEFINE task == [w.task EXCEPT !.rid = 0]
           v == [w EXCEPT !.task = task]
           q == [v EXCEPT !.read = "none", !.advance = FALSE]
           c == CompleteActiveTask(v, 6, "failed")
<1>1. task \in Task
  BY DEF State, Task
<1>2. OnProcessTimeout(w) \in
        {w, CompleteScanSegment(q, 6, "failed"), CompleteActiveTask(v, 2, "failed"),
         FinishCodeRead(v, 2, 0), ApplyInspectionTimeoutPolicy(c),
         CompleteActiveTask(v, 6, "completed")}
  BY DEF OnProcessTimeout
<1> HIDE DEF task
<1>3. v \in State /\ v.fafs = w.fafs /\ v.gen = w.gen
  BY <1>1 DEF State
<1> HIDE DEF v
<1>4. q \in State /\ q.fafs = v.fafs /\ q.gen = v.gen
  <2>1. q \in State
    BY <1>3, QuietType
  <2>2. q.fafs = v.fafs /\ q.gen = v.gen
    BY <1>3 DEF State
  <2> QED
    BY <2>1, <2>2
<1> HIDE DEF q
<1>5. Ages(w, v) /\ Ages(w, q)
  BY <1>3, <1>4, SameAges
<1>6. 2 \in 0..9 /\ 6 \in 0..9
  OBVIOUS
<1>7. Ages(w, c) /\ c \in State
  <2>1. Ages(w, c)
    BY <1>3, <1>5, <1>6, CompletionsAge, AgesTrans
  <2> QED
    BY <2>1 DEF Ages
<1> HIDE DEF c
<1>8. /\ Ages(w, CompleteScanSegment(q, 6, "failed"))
      /\ Ages(w, CompleteActiveTask(v, 2, "failed"))
      /\ Ages(w, CompleteActiveTask(v, 6, "completed"))
  BY <1>3, <1>4, <1>5, <1>6, CompletionsAge, AgesTrans
<1>9. Ages(w, FinishCodeRead(v, 2, 0)) /\ Ages(w, ApplyInspectionTimeoutPolicy(c))
  BY <1>3, <1>5, <1>7, FinishCodeReadAges, ApplyPolicyAges, AgesTrans
<1> QED
  BY <1>2, <1>8, <1>9, AgesSelf

LEMMA AbortActiveTaskForFaultAges ==
  ASSUME NEW w \in State PROVE Ages(w, AbortActiveTaskForFault(w))
<1> DEFINE p == IF w.task.announced THEN w ELSE ApplyScanFailurePolicy(w)
           v == IF w.task.trig \in ScanStage THEN WriteScanResult(p) ELSE w
           c == [v EXCEPT !.clock = FALSE]
<1>1. AbortActiveTaskForFault(w) \in
        {[w EXCEPT !.clock = FALSE], CompleteActiveTask(v, 7, "failed"), ClearActiveTask(c)}
  BY DEF AbortActiveTaskForFault
<1>2. Ages(w, p) /\ p \in State
  BY ApplyPolicyAges, AgesSelf DEF Ages
<1> HIDE DEF p
<1>3. Ages(w, WriteScanResult(p)) /\ WriteScanResult(p) \in State
  <2>1. Ages(w, WriteScanResult(p))
    BY <1>2, WriteScanResultAges, AgesTrans
  <2> QED
    BY <2>1 DEF Ages
<1>4. Ages(w, v) /\ v \in State
  BY <1>3, AgesSelf
<1> HIDE DEF v
<1>5. /\ \A x \in State : [x EXCEPT !.clock = FALSE].fafs = x.fafs
      /\ \A x \in State : [x EXCEPT !.clock = FALSE].gen = x.gen
  BY DEF State
<1>6. \A x \in State : [x EXCEPT !.clock = FALSE] \in State
  BY ClockType
<1>7. Ages(w, [w EXCEPT !.clock = FALSE])
  BY <1>5, <1>6, SameAges
<1>8. Ages(w, c) /\ c \in State
  BY <1>4, <1>5, <1>6, SameAges, AgesTrans
<1> HIDE DEF c
<1>9. 7 \in 0..9
  OBVIOUS
<1>10. Ages(w, CompleteActiveTask(v, 7, "failed"))
  BY <1>4, <1>9, CompletionsAge, AgesTrans
<1>11. Ages(w, ClearActiveTask(c))
  BY <1>8, ClearActiveTaskAges, AgesTrans
<1> QED
  BY <1>1, <1>7, <1>10, <1>11

LEMMA EnterFaultStateAges ==
  ASSUME NEW w \in State, NEW notifyPlc \in BOOLEAN
  PROVE  Ages(w, EnterFaultState(w, notifyPlc))
<1> DEFINE f == [w EXCEPT !.mode = "fault"]
           a == AbortActiveTaskForFault(f)
<1>1. f \in State /\ f.fafs = w.fafs /\ f.gen = w.gen
  BY DEF State
<1>2. EnterFaultState(w, notifyPlc) \in {a, ClearActiveTask(a)}
  BY DEF EnterFaultState
<1> HIDE DEF f
<1>3. Ages(w, a) /\ a \in State
  <2>1. Ages(w, a)
    BY <1>1, SameAges, AbortActiveTaskForFaultAges, AgesTrans
  <2> QED
    BY <2>1 DEF Ages
<1> HIDE DEF a
<1> QED
  BY <1>2, <1>3, ClearActiveTaskAges, AgesTrans

LEMMA OnModbusErrorAges ==
  ASSUME NEW w \in State PROVE Ages(w, OnModbusError(w))
<1> DEFINE n == IF w.fails < 3 THEN w.fails + 1 ELSE 3
           v == [w EXCEPT !.fails = n]
<1>1. n \in 0..3
  BY DEF State
<1>2. OnModbusError(w) \in {v, EnterFaultState(v, TRUE)}
  BY DEF OnModbusError
<1> HIDE DEF n
<1>3. v \in State /\ v.fafs = w.fafs /\ v.gen = w.gen
  <2>1. v \in State
    BY <1>1, FailsBusy
  <2>2. v.fafs = w.fafs /\ v.gen = w.gen
    BY DEF State
  <2> QED
    BY <2>1, <2>2
<1> HIDE DEF v
<1> QED
  BY <1>2, <1>3, SameAges, EnterFaultStateAges, AgesTrans

LEMMA ReportPersonZoneAlarmAges ==
  ASSUME NEW w \in State, NEW alarm \in BOOLEAN
  PROVE  Ages(w, ReportPersonZoneAlarm(w, alarm))
<1> DEFINE veto == IF w.up THEN alarm ELSE w.veto
           v == [w EXCEPT !.veto = veto]
           f == EnterFaultState(v, FALSE)
           p == [f EXCEPT !.person = TRUE]
           c == [v EXCEPT !.mode = "ready", !.person = FALSE]
<1>1. ReportPersonZoneAlarm(w, alarm) \in {p, c, v}
  BY DEF ReportPersonZoneAlarm
<1>2. veto \in BOOLEAN
  BY DEF State
<1> HIDE DEF veto
<1>3. v \in State /\ v.fafs = w.fafs /\ v.gen = w.gen
  BY <1>2 DEF State
<1> HIDE DEF v
<1>4. Ages(w, v)
  BY <1>3, SameAges
<1>5. c \in State /\ c.fafs = v.fafs /\ c.gen = v.gen
  <2>1. c \in State
    BY <1>3 DEF State
  <2>2. c.fafs = v.fafs /\ c.gen = v.gen
    BY <1>3 DEF State
  <2> QED
    BY <2>1, <2>2
<1> HIDE DEF c
<1>6. Ages(w, f) /\ f \in State
  <2>1. Ages(w, f)
    BY <1>3, <1>4, EnterFaultStateAges, AgesTrans
  <2> QED
    BY <2>1 DEF Ages
<1> HIDE DEF f
<1>7. p \in State /\ p.fafs = f.fafs /\ p.gen = f.gen
  BY <1>6 DEF State
<1> HIDE DEF p
<1> QED
  BY <1>1, <1>3, <1>4, <1>5, <1>6, <1>7, SameAges, AgesTrans

LEMMA OnModbusConnectedAges ==
  ASSUME NEW w \in State PROVE Ages(w, OnModbusConnected(w))
<1> DEFINE c == ClearActiveTask(w)
           v == OnModbusConnected(w)
<1>1. v \in State
  BY OnModbusConnectedDrops DEF Dropped
<1>2. v = [c EXCEPT !.last = NoBlock, !.block = NoTrigger, !.latch = {},
             !.advance = FALSE, !.read = "none", !.fails = 0, !.mode = "ready"]
  BY DEF OnModbusConnected
<1>3. c \in State /\ Ages(w, c)
  <2>1. Ages(w, c)
    BY ClearActiveTaskAges
  <2> QED
    BY <2>1 DEF Ages
<1> HIDE DEF c, v
<1>4. v.fafs = c.fafs /\ v.gen = c.gen
  BY <1>2, <1>3 DEF State
<1>5. Ages(w, v)
  BY <1>1, <1>3, <1>4, SameAges, AgesTrans
<1> QED
  BY <1>5 DEF v

\* start() and stop() begin another workpiece.
Renews(w, v) == Ages(w, v) /\ v.gen > w.gen

LEMMA RenewsTrans ==
  ASSUME NEW w \in State, NEW v \in State, NEW u, Ages(w, v), Ages(v, u),
         v.gen > w.gen \/ u.gen > v.gen
  PROVE  Renews(w, u)
<1>1. Ages(w, u)
  BY AgesTrans
<1>2. w.gen \in Nat /\ v.gen \in Nat /\ u.gen \in Nat /\ v.gen >= w.gen /\ u.gen >= v.gen
  BY DEF Ages, State
<1> QED
  BY <1>1, <1>2 DEF Renews

LEMMA StartRenews == ASSUME NEW w, Good(w) PROVE Renews(w, Start(w))
<1> DEFINE a == [w EXCEPT !.stopped = FALSE]
           c == ClearActiveTask(a)
           f == ForgetWorkpiece(c)
           m == [f EXCEPT !.mode = "init"]
           s == [m EXCEPT !.fails = 0]
<1>1. w \in State
  BY DEF Good, Fit
<1>2. a \in State /\ a.fafs = w.fafs /\ a.gen = w.gen
  BY <1>1 DEF State
<1>3. Start(w) = IF s.up THEN OnModbusConnected(s) ELSE s
  <2>1. f \in State
    BY <1>2, ClearActiveTaskType, ForgetWorkpieceType
  <2>2. s = [f EXCEPT !.mode = "init", !.fails = 0]
    BY <2>1 DEF State
  <2> QED
    BY <2>2 DEF Start
<1> HIDE DEF a
<1>4. Ages(w, c) /\ c \in State
  <2>1. Ages(w, c)
    BY <1>1, <1>2, SameAges, ClearActiveTaskAges, AgesTrans
  <2> QED
    BY <2>1 DEF Ages
<1> HIDE DEF c
<1>5. Renews(w, f) /\ f \in State
  <2>1. Ages(c, f) /\ f.gen > c.gen
    BY <1>4, ForgetWorkpieceAges
  <2> QED
    BY <1>1, <1>4, <2>1, RenewsTrans DEF Ages
<1> HIDE DEF f
<1>6. m \in State /\ m.fafs = f.fafs /\ m.gen = f.gen
  <2>1. m \in State
    BY <1>5, ModeBusy
  <2>2. m.fafs = f.fafs /\ m.gen = f.gen
    BY <1>5 DEF State
  <2> QED
    BY <2>1, <2>2
<1> HIDE DEF m
<1>7. s \in State /\ s.fafs = m.fafs /\ s.gen = m.gen
  <2>0. 0 \in 0..3
    OBVIOUS
  <2>1. s \in State
    BY <1>6, <2>0, FailsBusy
  <2>2. s.fafs = m.fafs /\ s.gen = m.gen
    BY <1>6 DEF State
  <2> QED
    BY <2>1, <2>2
<1> HIDE DEF s
<1>8. Ages(f, s) /\ Ages(f, OnModbusConnected(s))
  BY <1>5, <1>6, <1>7, SameAges, OnModbusConnectedAges, AgesTrans
<1> QED
  BY <1>1, <1>3, <1>5, <1>8, RenewsTrans DEF Renews

LEMMA StopRenews == ASSUME NEW w, Good(w) PROVE Stop(w) = w \/ Renews(w, Stop(w))
<1> DEFINE c == ClearActiveTask(w)
           n == c.gen + 1
           v == Stop(w)
<1>1. w \in State /\ v \in State
  BY StopDrops DEF Good, Fit, Dropped
<1>2. v = w \/ v = [c EXCEPT !.stopped = TRUE, !.gen = n, !.clock = FALSE,
                             !.wired = FALSE, !.fails = 0, !.mode = "off"]
  BY DEF Stop
<1> HIDE DEF v
<1>3. Ages(w, c) /\ c \in State
  <2>1. Ages(w, c)
    BY <1>1, ClearActiveTaskAges
  <2> QED
    BY <2>1 DEF Ages
<1> HIDE DEF c
<1>4. n \in Nat /\ n > c.gen /\ c.gen \in Nat
  BY <1>3 DEF State
<1> HIDE DEF n
<1>5. v = w \/ (v.fafs = c.fafs /\ v.gen = n)
  BY <1>2, <1>3 DEF State
<1>6. ASSUME v # w PROVE Renews(w, v)
  <2>1. Ages(c, v) /\ v.gen > c.gen
    BY <1>1, <1>4, <1>5, <1>6 DEF Ages
  <2> QED
    BY <1>1, <1>3, <2>1, RenewsTrans
<1> QED
  BY <1>6 DEF v

\* Every timer is of an earlier workpiece, or is the one the running task started
\* when it began; only such a task waits for neither a capture nor a code.
Timed(w) ==
  \A timer \in w.fafs :
    \/ timer.gen < w.gen
    \/ timer = Mine(w) /\ Running(w) /\ w.task.rid = 0 /\ w.read # "wait"

Past(w) == \A timer \in w.fafs : timer.gen < w.gen

\* The timer that is gone was the running task's own, if the task is done with it.
Owns(w, v) ==
  v.fafs # w.fafs /\ Running(w) /\ ~Running(v)
    => \E timer \in w.fafs \ v.fafs : timer.id = w.task.id

\* The events that fail a running task from outside.
Strikes ==
  VisionPipelineFatalError \/ MechEyeFatalError \/ PersonZoneAlarm \/ ModbusDisconnect
    \/ ModbusError

LEMMA PastOrOwn ==
  ASSUME NEW w, Timed(w)
  PROVE  Past(w) \/ (Running(w) /\ w.task.rid = 0 /\ w.read # "wait")
BY DEF Timed, Past

LEMMA TimesTimed ==
  ASSUME NEW w \in State, Past(w), NEW v, Times(w, v) PROVE Timed(v)
<1>1. v \in State /\ v.gen >= w.gen
  BY DEF Times, Ages, Starts
<1>2. ASSUME NEW timer \in w.fafs PROVE timer.gen < v.gen
  <2>1. timer \in Stamp
    BY DEF State
  <2>2. timer.gen \in Nat /\ w.gen \in Nat /\ v.gen \in Nat /\ timer.gen < w.gen
    BY <1>1, <2>1 DEF State, Stamp, Past
  <2> QED
    BY <1>1, <2>2
<1>3. CASE Ages(w, v)
  BY <1>2, <1>3 DEF Ages, Timed
<1>4. CASE Starts(w, v)
  BY <1>2, <1>4 DEF Starts, Timed
<1> QED
  BY <1>3, <1>4 DEF Times

LEMMA AgesTimed ==
  ASSUME NEW w \in State, Past(w), NEW v, Ages(w, v) PROVE Timed(v) /\ Owns(w, v)
BY TimesTimed DEF Times, Owns, Ages

LEMMA RenewsTimed ==
  ASSUME NEW w \in State, Timed(w), NEW v, Renews(w, v) PROVE Timed(v) /\ Owns(w, v)
<1>1. v.fafs = w.fafs /\ v.gen \in Nat /\ w.gen \in Nat /\ v.gen > w.gen
  BY DEF Renews, Ages, State
<1>2. ASSUME NEW timer \in w.fafs PROVE timer.gen < v.gen
  <2>1. timer.gen \in Nat
    BY DEF State, Stamp
  <2>2. timer.gen <= w.gen
    <3>1. CASE timer.gen < w.gen
      BY <1>1, <2>1, <3>1
    <3>2. CASE timer = Mine(w)
      BY <1>1, <3>2 DEF Mine
    <3> QED
      BY <3>1, <3>2 DEF Timed
  <2> QED
    BY <1>1, <2>1, <2>2
<1> QED
  BY <1>1, <1>2 DEF Timed, Owns

\* The running task keeps what it waits for, and perhaps a timer goes.
LEMMA KeptTimed ==
  ASSUME NEW w, Timed(w), NEW v, v.fafs \subseteq w.fafs, v.gen = w.gen, v.task = w.task,
         v.read = "wait" => w.read = "wait"
  PROVE  Timed(v) /\ Owns(w, v)
BY DEF Timed, Mine, Running, Active, Owns

LEMMA UnmovedTimed ==
  ASSUME NEW w, Timed(w), NEW v, Unmoved(w, v) PROVE Timed(v) /\ Owns(w, v)
BY KeptTimed DEF Unmoved

\* What a callback is called with, after its request, text or timer is consumed.
LEMMA ConsumedUnmoved ==
  ASSUME NEW w \in State, NEW x
  PROVE  /\ Unmoved(w, [w EXCEPT !.vp = 0])
         /\ Unmoved(w, [w EXCEPT !.fatals = w.fatals \ {x}])
         /\ Unmoved(w, [w EXCEPT !.ocr = w.ocr \ {x}])
         /\ Unmoved(w, [w EXCEPT !.dogs = w.dogs \ {x}])
         /\ Unmoved(w, [w EXCEPT !.clock = FALSE])
         /\ Unmoved(w, [w EXCEPT !.up = FALSE])
BY DEF State, Unmoved

LEMMA UnmovedAges ==
  ASSUME NEW w \in State, NEW v \in State, Unmoved(w, v) PROVE Ages(w, v)
BY SameAges DEF Unmoved

\* A callback that only ages the state it is called with; or leaves it alone
\* when a running task waits for its timer only.
LEMMA CallbackTimed ==
  ASSUME NEW s \in State, Timed(s), NEW w \in State, Unmoved(s, w), NEW v, Ages(w, v),
         Running(s) /\ s.task.rid = 0 /\ s.read # "wait"
           => v.gen = w.gen /\ v.task = w.task /\ (v.read = "wait" => w.read = "wait")
  PROVE  Timed(v) /\ Owns(s, v)
<1>1. Ages(s, v)
  BY UnmovedAges, AgesTrans
<1>2. CASE Past(s)
  BY <1>1, <1>2, AgesTimed
<1>3. CASE ~Past(s)
  <2>1. v.fafs = s.fafs
    BY <1>1 DEF Ages
  <2>2. v.gen = s.gen /\ v.task = s.task /\ (v.read = "wait" => s.read = "wait")
    BY <1>3, PastOrOwn DEF Unmoved
  <2> QED
    BY <2>1, <2>2, KeptTimed
<1> QED
  BY <1>2, <1>3

LEMMA PlcWriteTimed ==
  ASSUME Inv, Timed(sm), NEW b \in CommandArea, PlcWrite(b)
  PROVE  Timed(sm') /\ Owns(sm, sm')
<1>1. Good(sm) /\ sm \in State /\ sm.up
  BY DEF Inv, Good, Fit, PlcWrite
<1>2. CASE ~sm.wired
  BY <1>2, UnmovedTimed DEF PlcWrite, Unmoved
<1>3. CASE sm.wired
  <2>1. PICK in \in FrameInput : sm' = HandleRegistersRead(sm, b, in)
    BY <1>3 DEF PlcWrite
  <2>2. IF Running(sm) THEN Unmoved(sm, sm') ELSE Times(sm, sm')
    BY <1>1, <1>3, <2>1, HandleRegistersReadTimes
  <2>3. CASE Running(sm)
    BY <2>2, <2>3, UnmovedTimed
  <2>4. CASE ~Running(sm)
    BY <1>1, <2>2, <2>4, PastOrOwn, TimesTimed DEF Owns
  <2> QED
    BY <2>3, <2>4
<1> QED
  BY <1>2, <1>3

\* The timer of the running task finishes it; one of an earlier workpiece expires in
\* vain.
LEMMA FireAndForgetTimerTimed ==
  ASSUME Inv, Timed(sm), FireAndForgetTimer PROVE Timed(sm') /\ Owns(sm, sm')
<1>1. sm \in State
  BY DEF Inv, Good, Fit
<1>2. PICK timer \in sm.fafs : sm' = FireAndForgetAck([sm EXCEPT !.fafs = @ \ {timer}], timer)
  BY DEF FireAndForgetTimer
<1> DEFINE w == [sm EXCEPT !.fafs = sm.fafs \ {timer}]
<1>3. sm' = FireAndForgetAck(w, timer)
  BY <1>1, <1>2
<1>4. /\ w \in State /\ w.fafs = sm.fafs \ {timer} /\ w.gen = sm.gen /\ w.task = sm.task
      /\ w.read = sm.read
  <2>1. w \in State
    BY <1>1, ConsumedBusy DEF Busy, Alike
  <2>2. /\ w.fafs = sm.fafs \ {timer} /\ w.gen = sm.gen /\ w.task = sm.task
        /\ w.read = sm.read
    BY <1>1 DEF State
  <2> QED
    BY <2>1, <2>2
<1> HIDE DEF w
<1>5. CASE timer.gen < sm.gen
  <2>1. timer.gen # w.gen
    <3>1. timer.gen \in Nat /\ sm.gen \in Nat
      BY <1>1 DEF State, Stamp
    <3> QED
      BY <1>4, <1>5, <3>1
  <2>2. sm' = w
    BY <1>3, <2>1 DEF FireAndForgetAck
  <2>3. Timed(w)
    BY <1>4, KeptTimed
  <2>4. Running(sm') <=> Running(sm)
    BY <1>4, <2>2 DEF Running, Active
  <2> QED
    BY <2>2, <2>3, <2>4 DEF Owns
<1>6. CASE timer = Mine(sm)
  <2>1. Past(w)
    BY <1>4, <1>6 DEF Timed, Past
  <2>2. sm' \in {w, FinishCodeRead(w, 1, 0)}
    BY <1>3 DEF FireAndForgetAck
  <2>3. Ages(w, sm')
    BY <1>4, <2>2, FinishCodeReadAges, AgesSelf
  <2>4. Timed(sm')
    BY <1>4, <2>1, <2>3, AgesTimed
  <2>5. sm'.fafs = sm.fafs \ {timer}
    BY <1>4, <2>3 DEF Ages
  <2>6. timer \in sm.fafs \ sm'.fafs /\ timer.id = sm.task.id
    BY <1>2, <1>6, <2>5 DEF Mine
  <2> QED
    BY <2>4, <2>6 DEF Owns
<1> QED
  BY <1>2, <1>5, <1>6 DEF Timed

LEMMA CallbacksTimed ==
  ASSUME Inv, Timed(sm),
         BundleCaptureFinished \/ HikOcrTextReceived \/ FinalizeWatchdogTimer \/ ProcessTimeout
  PROVE  Timed(sm') /\ Owns(sm, sm')
<1>1. sm \in State
  BY DEF Inv, Good, Fit
<1>2. CASE BundleCaptureFinished
  <2> DEFINE w == [sm EXCEPT !.vp = 0]
  <2>1. PICK ok \in BOOLEAN : sm' = OnBundleCaptureFinished(w, sm.vp, ok)
    BY <1>2 DEF BundleCaptureFinished
  <2>2. w \in State /\ Unmoved(sm, w)
    BY <1>1, ConsumedBusy, ConsumedUnmoved DEF Busy, Alike
  <2>3. sm.vp # 0
    BY <1>2 DEF BundleCaptureFinished
  <2> HIDE DEF w
  <2>4. Ages(w, sm') /\ (w.task.rid # sm.vp => sm' = w)
    BY <2>1, <2>2, OnBundleCaptureFinishedAges
  <2>5. sm.task.rid = 0 => sm' = w
    BY <2>2, <2>3, <2>4 DEF Unmoved
  <2> QED
    BY <1>1, <2>2, <2>4, <2>5, CallbackTimed
<1>3. CASE HikOcrTextReceived
  <2>1. PICK answer \in sm.ocr, text \in BOOLEAN :
          sm' = OnHikOcrTextReceived([sm EXCEPT !.ocr = @ \ {answer}], answer, text)
    BY <1>3 DEF HikOcrTextReceived
  <2> DEFINE w == [sm EXCEPT !.ocr = sm.ocr \ {answer}]
  <2>2. w \in State /\ Unmoved(sm, w)
    BY <1>1, ConsumedBusy, ConsumedUnmoved DEF Busy, Alike
  <2>3. sm' = OnHikOcrTextReceived(w, answer, text) /\ answer \in Stamp
    BY <1>1, <2>1 DEF State
  <2> HIDE DEF w
  <2>4. /\ Ages(w, sm')
        /\ w.read # "wait" => sm'.gen = w.gen /\ sm'.task = w.task /\ sm'.read # "wait"
    BY <2>2, <2>3, OnHikOcrTextReceivedAges
  <2>5. sm.read # "wait" => sm'.gen = w.gen /\ sm'.task = w.task /\ sm'.read # "wait"
    BY <2>2, <2>4 DEF Unmoved
  <2> QED
    BY <1>1, <2>2, <2>4, <2>5, CallbackTimed
<1>4. CASE FinalizeWatchdogTimer
  <2>1. PICK timer \in sm.dogs :
          sm' = CodeReadFinalizeWatchdog([sm EXCEPT !.dogs = @ \ {timer}], timer)
    BY <1>4 DEF FinalizeWatchdogTimer
  <2> DEFINE w == [sm EXCEPT !.dogs = sm.dogs \ {timer}]
  <2>2. w \in State /\ Unmoved(sm, w)
    BY <1>1, ConsumedBusy, ConsumedUnmoved DEF Busy, Alike
  <2>3. sm' = CodeReadFinalizeWatchdog(w, timer) /\ timer \in Watchdog
    BY <1>1, <2>1 DEF State
  <2> HIDE DEF w
  <2>4. Ages(w, sm') /\ (Running(w) => sm' = w)
    BY <2>2, <2>3, CodeReadFinalizeWatchdogAges
  <2>5. Running(sm) => sm' = w
    BY <2>2, <2>4 DEF Unmoved, Running, Active
  <2> QED
    BY <1>1, <2>2, <2>4, <2>5, CallbackTimed
<1>5. CASE ProcessTimeout
  <2> DEFINE w == [sm EXCEPT !.clock = FALSE]
  <2>1. sm' = OnProcessTimeout(w) /\ sm.fafs = {}
    BY <1>5 DEF ProcessTimeout
  <2>2. w \in State /\ Unmoved(sm, w)
    BY <1>1, ClockType, ConsumedUnmoved
  <2> HIDE DEF w
  <2>3. Ages(sm, sm')
    BY <1>1, <2>1, <2>2, UnmovedAges, OnProcessTimeoutAges, AgesTrans
  <2>4. Past(sm)
    BY <2>1 DEF Past
  <2> QED
    BY <1>1, <2>3, <2>4, AgesTimed
<1> QED
  BY <1>2, <1>3, <1>4, <1>5

\* A fault may do anything to the task as long as no timer of its workpiece runs.
LEMMA StrikesTimed ==
  ASSUME Inv, Past(sm), Strikes PROVE Timed(sm') /\ Owns(sm, sm')
<1>1. sm \in State
  BY DEF Inv, Good, Fit
<1> SUFFICES Ages(sm, sm')
  BY <1>1, AgesTimed
<1>2. CASE VisionPipelineFatalError
  <2>1. PICK owner \in sm.fatals :
          sm' = OnVisionPipelineFatalError([sm EXCEPT !.fatals = @ \ {owner}])
    BY <1>2 DEF VisionPipelineFatalError
  <2> DEFINE w == [sm EXCEPT !.fatals = sm.fatals \ {owner}]
  <2>2. w \in State /\ Unmoved(sm, w)
    BY <1>1, ConsumedBusy, ConsumedUnmoved DEF Busy, Alike
  <2>3. sm' = OnVisionPipelineFatalError(w)
    BY <1>1, <2>1
  <2> HIDE DEF w
  <2> QED
    BY <1>1, <2>2, <2>3, UnmovedAges, CompletionsAge, AgesTrans
<1>3. CASE MechEyeFatalError
  BY <1>1, <1>3, CompletionsAge DEF MechEyeFatalError
<1>4. CASE PersonZoneAlarm
  BY <1>1, <1>4, ReportPersonZoneAlarmAges DEF PersonZoneAlarm
<1>5. CASE ModbusError
  BY <1>1, <1>5, OnModbusErrorAges DEF ModbusError
<1>6. CASE ModbusDisconnect
  <2> DEFINE w == [sm EXCEPT !.up = FALSE]
             c == [w EXCEPT !.clock = FALSE]
  <2>1. w \in State /\ Unmoved(sm, w)
    <3>1. w \in State
      BY <1>1 DEF State
    <3> QED
      BY <1>1, <3>1, ConsumedUnmoved
  <2>2. sm' \in {w, EnterFaultState(c, FALSE)}
    BY <1>6 DEF ModbusDisconnect, OnModbusDisconnected
  <2> HIDE DEF w
  <2>3. c \in State /\ Unmoved(w, c)
    BY <2>1, ClockType, ConsumedUnmoved
  <2> HIDE DEF c
  <2>4. Ages(sm, w) /\ Ages(w, EnterFaultState(c, FALSE))
    BY <1>1, <2>1, <2>3, UnmovedAges, EnterFaultStateAges, AgesTrans
  <2> QED
    BY <1>1, <2>2, <2>4, AgesTrans
<1> QED
  BY <1>2, <1>3, <1>4, <1>5, <1>6 DEF Strikes

LEMMA CommandsTimed ==
  ASSUME Inv, Timed(sm), ModbusListen \/ HmiReset \/ HmiStop \/ HmiCaptureBundle
  PROVE  Timed(sm') /\ Owns(sm, sm')
<1>1. Good(sm) /\ sm \in State
  BY DEF Inv, Good, Fit
<1>2. CASE ModbusListen
  <2> DEFINE a == [sm EXCEPT !.up = TRUE]
             z == ZeroRegisters(a)
  <2>1. sm' \in {OnModbusConnected(z), z} /\ ~sm.up
    BY <1>2 DEF ModbusListen
  <2>2. a \in State /\ a.fafs = sm.fafs /\ a.gen = sm.gen
    BY <1>1 DEF State
  <2> HIDE DEF a
  <2>3. z \in State /\ z.fafs = a.fafs /\ z.gen = a.gen
    <3>1. z.fafs = a.fafs /\ z.gen = a.gen
      BY <2>2 DEF ZeroRegisters, State
    <3> QED
      BY <2>2, <3>1, ZeroRegistersBusy
  <2> HIDE DEF z
  <2>4. Ages(sm, sm')
    BY <1>1, <2>1, <2>2, <2>3, SameAges, OnModbusConnectedAges, AgesTrans
  <2>5. Past(sm)
    BY <1>1, <2>1, PastOrOwn DEF Good, Running
  <2> QED
    BY <1>1, <2>4, <2>5, AgesTimed
<1>3. CASE HmiReset
  BY <1>1, <1>3, StartRenews, RenewsTimed DEF HmiReset
<1>4. CASE HmiStop
  <2>1. sm' = sm \/ Renews(sm, sm')
    BY <1>1, <1>4, StopRenews DEF HmiStop
  <2>2. CASE sm' = sm
    BY <2>2, UnmovedTimed DEF Unmoved
  <2> QED
    BY <1>1, <2>1, <2>2, RenewsTimed
<1>5. CASE HmiCaptureBundle
  <2>1. PICK dev \in DeviceOutcome : sm' = RequestCaptureBundle(sm, dev, 0)
    BY <1>5 DEF HmiCaptureBundle
  <2>2. Unmoved(sm, sm')
    BY <1>1, <2>1 DEF RequestCaptureBundle, State, Unmoved
  <2> QED
    BY <2>2, UnmovedTimed
<1> QED
  BY <1>2, <1>3, <1>4, <1>5

LEMMA NextTimed ==
  ASSUME Inv, Timed(sm), [Next]_vars, Strikes => Past(sm)
  PROVE  Timed(sm') /\ Owns(sm, sm')
<1>1. CASE UNCHANGED vars
  BY <1>1, UnmovedTimed DEF vars, Unmoved
<1>2. ASSUME NEW b \in PlcBlock, PlcWrite(b) PROVE Timed(sm') /\ Owns(sm, sm')
  BY <1>2, EnvironmentAssumption, PlcWriteTimed
<1>3. CASE PlcHeartbeat
  BY <1>3, PlcWriteTimed DEF PlcHeartbeat, Inv
<1>4. CASE Strikes
  BY <1>4, StrikesTimed
<1> QED
  BY <1>1, <1>2, <1>3, <1>4, FireAndForgetTimerTimed, CallbacksTimed, CommandsTimed
  DEF Next, Strikes

\* The 150 ms timer of startCodeReadCapture() names no task, only the generation of
\* the workpiece, which two tasks may share.  Still, as long as no fault strikes while
\* a timer of the current workpiece runs (a device's error, also one that an earlier
\* refused capture left behind, the person alarm, an error or the loss of the link),
\* the timer that finishes a code-read scan is the one this scan started: neither a
\* restart, a stop, a refusal, a late text, a next trigger nor a change of workpiece
\* hands a task the timer of another.
THEOREM TimersAreOwn ==
  Spec /\ [][Strikes => Past(sm)]_vars => TimersFinishTheirOwn
<1>1. Init => Timed(sm)
  BY DEF Init, Timed
<1>2. Inv /\ Timed(sm) /\ [Next]_vars /\ [Strikes => Past(sm)]_vars => Timed(sm)'
  <2>1. CASE UNCHANGED vars
    BY <2>1 DEF vars
  <2>2. CASE Strikes => Past(sm)
    BY <2>2, NextTimed
  <2> QED
    BY <2>1, <2>2
<1>3. Inv /\ Timed(sm) /\ [Next]_vars /\ [Strikes => Past(sm)]_vars
        => [sm.task.trig \in ScanStage /\ Running(sm) /\ ~Running(sm') /\ sm.read = "soft"
              /\ sm'.fafs # sm.fafs /\ sm'.read = "soft"
              => \E timer \in sm.fafs \ sm'.fafs : timer.id = sm.task.id]_vars
  BY NextTimed DEF Owns
<1> QED
  BY Invariance, <1>1, <1>2, <1>3, PTL DEF Spec, TimersFinishTheirOwn
================================================================================
