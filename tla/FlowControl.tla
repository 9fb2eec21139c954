------------------------------ MODULE FlowControl ------------------------------
(* The flow-control state machine of the IPC: it answers the triggers a PLC     *)
(* writes into the Modbus command area, one active task at a time.              *)
(*                                                                              *)
(* All slots of StateMachine run on the main Qt thread, and so does the Modbus  *)
(* server: a handler is one atomic step, and the PLC sees the registers only    *)
(* between two handlers.  A handler that calls others is a function from states *)
(* to states (HandleRegistersRead calls Finalize, ProcessTrigger, ...), so that *)
(* every call it makes is part of the same step; an action applies one handler  *)
(* to sm.                                                                       *)
EXTENDS PlcProtocol, FiniteSets

CONSTANTS
  Trigger,           \* the triggers of this instance
  EnabledTrigger,    \* those the station profile enables
  Path,              \* ids of the configured scan paths
  EnabledPath,       \* those with enabled = true
  CodePath,          \* those whose algorithm is code_read
  Quota,             \* Quota[p][d]: points device d scans on path p
  Policy,            \* scanFailurePolicy: "segment", "path" or "workpiece"
  AlgorithmEnabled,  \* flowControlConfig().algorithmEnabled
  PlcBlock,          \* the command areas the PLC may write
  DeviceOutcome,     \* how the devices may respond to a capture request
  Disturbance,       \* the disturbances this instance lets happen
  MaxServed,         \* bound: tasks accepted before the PLC stops raising triggers
  MaxGen,            \* bound: workpiece generations
  MaxRequest         \* bound: capture requests of the HMI

VARIABLES
  cmd,  \* the command area of the register file, as the PLC last wrote it
  sm    \* the StateMachine object, the result registers, and what it has in flight

vars == <<cmd, sm>>

NoTask == [trig |-> NoTrigger, seg |-> 0, tid |-> 0, path |-> 0, rid |-> 0,
           gen |-> 0, id |-> 0, announced |-> FALSE]
NoBlock == [trig |-> {}, flow |-> FALSE, path |-> 0, tid |-> 0,
            seg |-> [d \in Device |-> 0], empty |-> TRUE]
ZeroBlock == [NoBlock EXCEPT !.empty = FALSE]
EmptyCache == [d \in Device |-> {}]

--------------------------------------------------------------------------------
\* The types of the command area and of the state machine's members.

Block == [trig : SUBSET Trigger, flow : BOOLEAN, path : Nat, tid : Nat,
          seg : [Device -> Nat], empty : BOOLEAN]

CommandArea == {b \in Block : ~b.empty}

Task == [trig : Trigger \cup {NoTrigger}, seg : Nat, tid : Nat, path : Nat, rid : Nat,
         gen : Nat, id : Nat, announced : BOOLEAN]

Entry == [seg : Nat, path : Nat, tid : Nat]

Stamp == [gen : Nat, id : Nat]
Watchdog == [gen : Nat, trig : Trigger \cap ScanStage, id : Nat]

State == [task : Task, mode : {"off", "init", "ready", "busy", "fault"},
          person : BOOLEAN, clock : BOOLEAN,
          last : CommandArea \cup {NoBlock}, latch : SUBSET Trigger, block : Trigger \cup {NoTrigger},
          fails : 0..3,
          read : {"none", "wait", "soft"}, readGen : Nat, advance : BOOLEAN, gen : Nat,
          path : Path, cache : [Device -> SUBSET Entry], runTask : Nat, barrier : Nat,
          ack : [Trigger -> AckState], res : [Trigger -> ResultCode],
          done : [Device -> Nat], veto : BOOLEAN, code : Nat,
          vp : Nat, nextReq : Nat \ {0}, fatals : SUBSET Nat, ocr : SUBSET Stamp,
          fafs : SUBSET Stamp, dogs : SUBSET Watchdog,
          up : BOOLEAN, wired : BOOLEAN, stopped : BOOLEAN, served : Nat]

\* triggerDefinitions() and the station profile.
ASSUME TriggerAssumption ==
  /\ Trigger \subseteq AllTriggers
  /\ EnabledTrigger \subseteq Trigger

\* The configuration lists paths with positive ids, one of them enabled.  The
\* enabled ones are listed, and walked through, in ascending order of their ids:
\* any set of them has a first.
ASSUME PathAssumption ==
  /\ Path \subseteq Nat \ {0}
  /\ EnabledPath \subseteq Path /\ EnabledPath # {}
  /\ CodePath \subseteq Path
  /\ \A P \in SUBSET EnabledPath : P # {} => \E p \in P : \A q \in P : p <= q
  /\ Quota \in [Path -> [Device -> Nat]]

ASSUME OptionAssumption ==
  /\ Policy \in {"segment", "path", "workpiece"}
  /\ AlgorithmEnabled \in BOOLEAN
  /\ DeviceOutcome \subseteq {"async", "sync", "down", "refused"}

ASSUME EnvironmentAssumption ==
  /\ PlcBlock \subseteq CommandArea
  /\ MaxServed \in Nat /\ MaxGen \in Nat /\ MaxRequest \in Nat

Active(w) == w.task.trig # NoTrigger
Running(w) == Active(w) /\ ~w.task.announced
Announced(w) == Active(w) /\ w.task.announced

--------------------------------------------------------------------------------
\* Scan paths and the segment cache.

FirstEnabledPath == CHOOSE p \in EnabledPath : \A q \in EnabledPath : p <= q

\* advanceToNextEnabledPath(): the next enabled path, wrapping around; a path
\* that is not enabled is followed by the first one.
NextEnabledPath(p) ==
  LET later == {q \in EnabledPath : q > p}
  IN IF p \in EnabledPath /\ later # {}
     THEN CHOOSE q \in later : \A r \in later : q <= r
     ELSE FirstEnabledPath

QuotaMet(w) ==
  /\ \A d \in Device : Cardinality(w.cache[d]) >= Quota[w.path][d]
  /\ \E d \in Device : w.cache[d] # {}

\* Mutant: a new task number does not start a new run.
StoreInAnyRun(w, d) ==
  LET entry == [seg |-> w.task.seg, path |-> w.task.path, tid |-> w.task.tid]
  IN [w EXCEPT !.cache[d] = {e \in @ : e.seg # w.task.seg} \cup {entry},
               !.runTask = IF w.task.tid # 0 THEN w.task.tid ELSE @]

\* A task number other than that of the running workpiece starts a new run.
\* An entry remembers, for the properties, the path and the task number it was
\* captured for.
StoreSegment(w, d) ==
  LET newRun == w.task.tid # 0 /\ w.runTask # 0 /\ w.task.tid # w.runTask
      kept == IF newRun THEN EmptyCache ELSE w.cache
      entry == [seg |-> w.task.seg, path |-> w.task.path, tid |-> w.task.tid]
  IN [w EXCEPT !.cache = [kept EXCEPT ![d] = {e \in @ : e.seg # w.task.seg} \cup {entry}],
               !.runTask = IF w.task.tid # 0 THEN w.task.tid ELSE @]

ClearDoneRegisters(w) == [w EXCEPT !.done = IF w.up THEN [d \in Device |-> 0] ELSE @]

ClearCacheForPathSwitch(w) == [w EXCEPT !.cache = EmptyCache, !.barrier = 0]

ResetScanSegmentCache(w) ==
  [w EXCEPT !.cache = EmptyCache, !.barrier = 0, !.runTask = 0]

PrepareNextScanPath(w) ==
  [ClearDoneRegisters(ClearCacheForPathSwitch(w)) EXCEPT !.path = NextEnabledPath(w.path)]

\* Mutant: the switch keeps the cache.
SwitchKeepsCache(w, b, onlyOnChange, prev) ==
  IF b.path \in Path THEN [w EXCEPT !.path = b.path] ELSE w

\* ScanPathId = 0 keeps the active path; an unknown id is refused.
ApplyPlcScanPathId(w, b, onlyOnChange, prev) ==
  IF \/ b.path \notin Path
     \/ onlyOnChange /\ ~prev.empty /\ prev.path = b.path
     \/ w.path = b.path
  THEN w
  ELSE [ClearDoneRegisters(ClearCacheForPathSwitch(w)) EXCEPT !.path = b.path]

--------------------------------------------------------------------------------
\* Workpiece generation and failure policies.

ClearTransientWorkpieceState(w) ==
  [w EXCEPT !.read = "none", !.readGen = 0, !.advance = FALSE]

ForgetWorkpiece(w) ==
  [ResetScanSegmentCache(ClearTransientWorkpieceState([w EXCEPT !.gen = @ + 1]))
     EXCEPT !.path = FirstEnabledPath]

ApplyScanFailurePolicy(w) ==
  LET d == DeviceOf(w.task.trig)
  IN CASE Policy = "workpiece" -> ForgetWorkpiece(w)
       [] Policy = "path"      -> ClearCacheForPathSwitch(w)
       [] OTHER -> [w EXCEPT !.cache[d] = {e \in @ : e.seg # w.task.seg}]

\* Only a timed-out inspection; with the policy "segment" the cache is kept.
ApplyInspectionTimeoutPolicy(w) ==
  CASE Policy = "workpiece" -> ForgetWorkpiece(w)
    [] Policy = "path"      -> ClearCacheForPathSwitch([w EXCEPT !.gen = @ + 1])
    [] OTHER                -> [w EXCEPT !.gen = @ + 1]

--------------------------------------------------------------------------------
\* Completing a task and releasing its trigger.

\* clearActiveTask() ends a wait for OCR, and leaves a soft one pending.
ClearActiveTask(w) ==
  [w EXCEPT !.task = NoTask, !.read = IF @ = "wait" THEN "none" ELSE @]

\* Mutant: Ack and the points done are kept as they were written.
ReleaseKeepsAck(w) ==
  [ClearActiveTask(w) EXCEPT !.res[w.task.trig] = 0, !.mode = "ready",
                             !.done = [d \in Device |-> 0]]

Release(w) ==
  LET t == w.task.trig
  IN [ClearActiveTask(w) EXCEPT
        !.ack[t] = "idle", !.res[t] = 0, !.mode = "ready",
        !.done = IF t \in ScanStage THEN [@ EXCEPT ![DeviceOf(t)] = 0] ELSE @]

Finalize(w, b, force) ==
  IF ~Announced(w) \/ (~force /\ (b.empty \/ w.task.trig \in b.trig)) THEN w
  ELSE IF w.advance THEN PrepareNextScanPath([Release(w) EXCEPT !.advance = FALSE])
  ELSE Release(w)

\* enterFaultState(902) when the answer cannot be written.
CompletionWriteFault(w) ==
  ClearActiveTask([w EXCEPT !.mode = "fault", !.clock = FALSE])

\* Mutant: the timeout keeps running.
AnnounceKeepsTimer(w, result, ackState) ==
  [w EXCEPT !.ack[w.task.trig] = ackState, !.res[w.task.trig] = result,
            !.task.announced = TRUE, !.task.rid = 0]

Announce(w, result, ackState) ==
  [w EXCEPT !.ack[w.task.trig] = ackState, !.res[w.task.trig] = result,
            !.clock = FALSE, !.task.announced = TRUE, !.task.rid = 0]

\* Mutant: the next frame is trusted to release the trigger.
CompleteWithoutRelease(w, result, ackState) ==
  IF Active(w) THEN Announce(w, result, ackState) ELSE w

\* The trigger may have been lowered during the task: no later frame will tell.
CompleteActiveTask(w, result, ackState) ==
  IF ~Active(w) THEN w
  ELSE IF ~w.up THEN CompletionWriteFault(w)
  ELSE Finalize(Announce(w, result, ackState), w.last, FALSE)

WriteScanResult(w) ==
  [w EXCEPT !.done = IF w.up THEN [@ EXCEPT ![DeviceOf(w.task.trig)] = w.task.seg] ELSE @]

CompleteScanSegment(w, result, ackState) ==
  CompleteActiveTask(
    WriteScanResult(IF result >= 5 THEN ApplyScanFailurePolicy(w) ELSE w),
    result, ackState)

FinishInspection(w, result) ==
  LET v == [w EXCEPT !.read = IF @ = "wait" THEN "none" ELSE @]
      c == CompleteActiveTask(v, result, IF result <= 2 THEN "completed" ELSE "failed")
  IN IF w.task.gen # w.gen THEN v
     ELSE IF result = 1 THEN PrepareNextScanPath(c) ELSE c

--------------------------------------------------------------------------------
\* Faults.

AbortActiveTaskForFault(w) ==
  LET policy == IF w.task.announced THEN w ELSE ApplyScanFailurePolicy(w)
      v == IF w.task.trig \in ScanStage THEN WriteScanResult(policy) ELSE w
  IN IF ~Active(w) THEN [w EXCEPT !.clock = FALSE]
     ELSE IF v.up THEN CompleteActiveTask(v, 7, "failed")
     ELSE ClearActiveTask([v EXCEPT !.clock = FALSE])

\* Mutant: as the fault that does not abort (902).
FaultWithoutAbort(w, notifyPlc) == [w EXCEPT !.mode = "fault", !.clock = FALSE]

\* Aborting faults: the only ones besides CompletionWriteFault the code raises.
EnterFaultState(w, notifyPlc) ==
  LET a == AbortActiveTaskForFault([w EXCEPT !.mode = "fault"])
  IN IF notifyPlc THEN a ELSE ClearActiveTask(a)

--------------------------------------------------------------------------------
\* Captures.  A request is granted when the pipeline is idle and the cameras
\* take it; otherwise it queues a fatalError (owner: the asking task, 0 the HMI).
\* "sync": no channel of the bundle is asynchronous, so the bundle is delivered
\* before requestCaptureBundle() returns the number the task waits for, and
\* onBundleCaptureFinished() ignores it.

\* Mutant: the pipeline does not check that it is idle.
GrantedWhileBusy(w, dev) == dev \in {"async", "sync"}

Granted(w, dev) == w.vp = 0 /\ dev \in {"async", "sync"}

RequestCaptureBundle(w, dev, owner) ==
  IF Granted(w, dev)
  THEN [w EXCEPT !.vp = IF dev = "sync" THEN 0 ELSE w.nextReq, !.nextReq = @ + 1]
  ELSE [w EXCEPT !.fatals = @ \cup {owner}]

FinishCodeScan(w, ok) ==
  LET stored == StoreSegment(w, DeviceOf(w.task.trig))
      marked == [stored EXCEPT !.advance = @ \/ QuotaMet(stored)]
      c == IF ok THEN CompleteScanSegment(marked, 1, "completed")
                 ELSE CompleteScanSegment(w, 7, "failed")
      dog == [gen |-> c.gen, trig |-> w.task.trig, id |-> w.task.id]
  IN IF Announced(c) THEN [c EXCEPT !.dogs = @ \cup {dog}] ELSE c

\* text: the generation of the workpiece whose marking was read, 0 for none.
FinishCodeRead(w, result, text) ==
  LET v == [w EXCEPT !.read = IF result = 1 /\ @ = "soft" THEN "soft" ELSE "none",
                     !.code = IF w.up /\ text # 0 THEN text ELSE @]
      c == CompleteActiveTask(v, result, IF result = 1 THEN "completed" ELSE "failed")
  IN IF ~Running(w) THEN [w EXCEPT !.read = IF @ = "wait" THEN "none" ELSE @]
     ELSE IF w.task.trig \in ScanStage THEN FinishCodeScan(v, result = 1)
     ELSE IF w.task.trig # "CodeRead" THEN FinishInspection(v, result)
     ELSE IF result = 1 THEN PrepareNextScanPath(c) ELSE c

\* Fire and forget: a scan or an inspection on a code_read path is finished by a
\* timer 150 ms after the camera took the command, without waiting for the text.
StartCodeReadCapture(w, dev) ==
  LET fireAndForget == w.task.trig \in ScanStage \/ w.path \in CodePath
      mine == [gen |-> w.gen, id |-> w.task.id]
      v == [w EXCEPT !.read = IF fireAndForget THEN "soft" ELSE "wait",
                     !.readGen = w.gen, !.ocr = @ \cup {mine},
                     !.task.path = w.path]
  IN CASE dev = "down"    -> FinishCodeRead(w, 2, 0)
       [] dev = "refused" -> FinishCodeRead([w EXCEPT !.read = "none", !.readGen = 0], 2, 0)
       [] OTHER -> IF fireAndForget THEN [v EXCEPT !.fafs = @ \cup {mine}] ELSE v

\* Segment number 1 on a path already complete counts as the start of the next one.
MaybeAdvancePathOnNewCycleStart(w) ==
  IF w.task.seg = 1 /\ QuotaMet(w) THEN PrepareNextScanPath(w) ELSE w

\* A segment number outside the path's points is refused with 5 (and so is, in the
\* code, a point at which the configuration switches every camera off).
ScanCapture(w, dev) ==
  LET v == MaybeAdvancePathOnNewCycleStart(w)
      asked == RequestCaptureBundle(v, dev, w.task.id)
  IN IF w.task.seg \notin 1..Quota[v.path][DeviceOf(w.task.trig)]
     THEN CompleteScanSegment(v, 5, "failed")
     ELSE IF v.path \in CodePath THEN StartCodeReadCapture(v, dev)
     ELSE IF dev = "down" THEN CompleteScanSegment(v, 7, "failed")
     ELSE IF Granted(v, dev)
          THEN [asked EXCEPT !.task.rid = v.nextReq, !.task.path = v.path]
          ELSE CompleteScanSegment(asked, 7, "failed")

SelfCheckCapture(w, dev) ==
  LET asked == RequestCaptureBundle(w, dev, w.task.id)
  IN IF dev = "down" THEN CompleteActiveTask(w, 2, "failed")
     ELSE IF Granted(w, dev) THEN [asked EXCEPT !.task.rid = w.nextReq]
     ELSE CompleteActiveTask(asked, 2, "failed")

\* evaluateCachedInspection(): 3 when the cache is of another task or short of
\* the quota; otherwise the verdict on the data, 1 or 2.
ReleaseInspection(w, verdict) ==
  LET unfit == \/ w.task.tid # 0 /\ w.runTask # 0 /\ w.task.tid # w.runTask
               \/ ~QuotaMet(w)
  IN IF ~AlgorithmEnabled
     THEN PrepareNextScanPath(CompleteActiveTask(w, 1, "completed"))
     ELSE FinishInspection(w, IF unfit THEN 3 ELSE verdict)

ExecuteResultReset(w) ==
  LET v == ClearDoneRegisters(ForgetWorkpiece([w EXCEPT !.person = FALSE]))
  IN CompleteActiveTask([v EXCEPT !.veto = IF w.up THEN FALSE ELSE @], 1, "completed")

\* The handler of the trigger.  The remaining ones answer at once from a pose
\* source, an algorithm call or the presence of a camera.
ExecuteActiveTask(w, in) ==
  LET t == w.task.trig
  IN CASE t \in ScanStage -> ScanCapture(w, in.dev)
       [] t = "CodeRead" -> StartCodeReadCapture(w, in.dev)
       [] t = "Inspection" -> IF w.path \in CodePath
                              THEN StartCodeReadCapture(w, in.dev)
                              ELSE ReleaseInspection(w, in.verdict)
       [] t = "SelfCheck" -> SelfCheckCapture(w, in.dev)
       [] t = "ResultReset" -> ExecuteResultReset(w)
       [] OTHER -> IF in.dev = "async" THEN CompleteActiveTask(w, 1, "completed")
                   ELSE CompleteActiveTask(
                          w, IF t = "StationMaterialCheck" THEN 5 ELSE 7, "failed")

--------------------------------------------------------------------------------
\* Triggers.

Reject(w, t, result) == [w EXCEPT !.res[t] = result, !.ack[t] = "failed"]

ProcessTrigger(w0, t, b, in) ==
  LET w == ApplyPlcScanPathId(w0, b, FALSE, b)
      task == [trig |-> t, seg |-> b.seg[DeviceOf(t)], tid |-> b.tid, path |-> w.path,
               rid |-> 0, gen |-> w.gen, id |-> w.served + 1, announced |-> FALSE]
      accepted == [w EXCEPT !.task = task, !.mode = "busy", !.clock = TRUE,
                            !.served = @ + 1,
                            !.ack[t] = IF t \in ScanStage THEN @ ELSE "running"]
  IN IF ~w0.up THEN w0
     ELSE IF t \notin EnabledTrigger THEN Reject(w, t, 8)
     ELSE IF ~in.cams /\ t # "ResultReset" THEN Reject(w, t, 9)
     ELSE IF ~b.flow /\ t \notin {"UnloadCalc", "ResultReset"} THEN Reject(w, t, 9)
     ELSE ExecuteActiveTask(accepted, in)

\* Mutant: a latch outlives its trigger.
LatchForever(w, b, prev) ==
  IF prev.empty THEN w ELSE [w EXCEPT !.latch = @ \cup (b.trig \ prev.trig)]

\* Rising edges are latched while a task runs; a latch falls with its trigger.
LatchRisingEdges(w, b, prev) ==
  IF prev.empty THEN w
  ELSE [w EXCEPT !.latch = (@ \cap b.trig) \cup (b.trig \ prev.trig)]

Unblock(w, b) ==
  [w EXCEPT !.block = IF @ \in b.trig THEN @ ELSE NoTrigger]

\* Mutant: what rose while a task ran is not looked at.
RisingOnly(w, b, prev) == {t \in b.trig \ prev.trig : t # w.block}

PendingTriggers(w, b, prev) ==
  {t \in b.trig : t # w.block /\ (t \notin prev.trig \/ t \in w.latch)}

SelectPendingTrigger(pending) ==
  CHOOSE t \in pending : \A u \in pending : Rank[t] <= Rank[u]

\* Mutant: a latch is served and kept.
AcceptKeepsLatch(w, b, prev, in) ==
  LET v == ApplyPlcScanPathId(w, b, TRUE, prev)
      pending == PendingTriggers(v, b, prev)
  IN IF pending = {} THEN v
     ELSE ProcessTrigger(v, SelectPendingTrigger(pending), b, in)

\* The first frame after a (re)connection is compared with an all-zero one.
AcceptPending(w, b, prev, in) ==
  LET v == ApplyPlcScanPathId(w, b, TRUE, prev)
      pending == PendingTriggers(v, b, prev)
      t == SelectPendingTrigger(pending)
  IN IF pending = {} THEN v
     ELSE ProcessTrigger([v EXCEPT !.latch = @ \ {t}], t, b, in)

\* A released trigger frees its finished task; so would one that rose again unseen.
ReleaseOnRead(w, b, prev) ==
  LET read == Finalize(w, b, FALSE)
      rose == Announced(read) /\ ~prev.empty /\ read.task.trig \in b.trig \ prev.trig
  IN IF rose THEN Finalize(read, b, TRUE) ELSE read

HandleRegistersRead(w, b, in) ==
  LET prev == w.last
      settled == ReleaseOnRead([w EXCEPT !.last = b, !.fails = 0], b, prev)
      ready == Unblock(LatchRisingEdges(settled, b, prev), b)
  IN IF w.stopped THEN w
     ELSE IF Active(ready) THEN ready
     ELSE AcceptPending(ready, b, prev, in)

--------------------------------------------------------------------------------
\* Callbacks and timers.

OnBundleCaptureFinished(w, rid, ok) ==
  LET t == w.task.trig
      d == DeviceOf(t)
      c == CompleteScanSegment(StoreSegment(w, d), 1, "completed")
      cached == \E e \in c.cache[d] : e.seg = w.task.seg
  IN IF ~Running(w) \/ rid # w.task.rid THEN w
     ELSE IF t = "SelfCheck"
     THEN IF ok THEN CompleteActiveTask(w, 1, "completed")
                ELSE CompleteActiveTask(w, 2, "failed")
     ELSE IF t \notin ScanStage \/ w.task.gen # w.gen THEN w
     ELSE IF ~ok THEN CompleteScanSegment(w, 7, "failed")
     ELSE IF cached THEN [c EXCEPT !.barrier = w.task.id] ELSE c

OnMechEyeFatalError(w) ==
  IF Running(w) /\ w.task.trig \in ScanStage
  THEN CompleteScanSegment(w, 7, "failed")
  ELSE w

OnVisionPipelineFatalError(w) ==
  IF Running(w) /\ w.task.trig = "SelfCheck" THEN CompleteActiveTask(w, 2, "failed")
  ELSE OnMechEyeFatalError(w)

\* Mutant: a late text finishes the task there is.
LateTextFinishesTask(w, answer, text) ==
  IF text /\ w.read # "none" THEN FinishCodeRead(w, 1, answer.gen) ELSE w

OnHikOcrTextReceived(w, answer, text) ==
  LET late == [w EXCEPT !.read = "none", !.readGen = 0]
  IN IF ~text THEN IF w.read = "wait" THEN FinishCodeRead(w, 2, 0) ELSE w
     ELSE CASE w.read = "wait" -> IF w.readGen # w.gen THEN w
                                  ELSE FinishCodeRead(w, 1, answer.gen)
            [] w.read = "soft" -> IF w.readGen # w.gen \/ ~w.up THEN late
                                  ELSE [late EXCEPT !.code = answer.gen]
            [] OTHER -> w

FireAndForgetAck(w, timer) ==
  IF timer.gen # w.gen \/ ~Running(w) THEN w ELSE FinishCodeRead(w, 1, 0)

\* Mutant: the watchdog waits for the trigger too.
WatchdogWaits(w, timer) == Finalize(w, w.last, FALSE)

CodeReadFinalizeWatchdog(w, timer) ==
  IF timer.gen # w.gen \/ ~Announced(w) \/ w.task.trig # timer.trig THEN w
  ELSE Finalize([w EXCEPT !.block = timer.trig], w.last, TRUE)

TimeoutLeavesRead(w) ==
  IF w.read = "wait" THEN w ELSE CompleteActiveTask([w EXCEPT !.task.rid = 0], 6, "failed")

OnProcessTimeout(w) ==
  LET v == [w EXCEPT !.task.rid = 0]
      t == w.task.trig
  IN IF w.stopped \/ ~Active(w) THEN w
     ELSE IF t \in ScanStage
     THEN CompleteScanSegment([v EXCEPT !.read = "none", !.advance = FALSE], 6, "failed")
     ELSE IF t = "SelfCheck" THEN CompleteActiveTask(v, 2, "failed")
     ELSE IF w.read = "wait" \/ t = "CodeRead" THEN FinishCodeRead(v, 2, 0)
     ELSE IF t = "Inspection"
     THEN ApplyInspectionTimeoutPolicy(CompleteActiveTask(v, 6, "failed"))
     ELSE CompleteActiveTask(v, 6, "completed")

--------------------------------------------------------------------------------
\* Connection, safety interlock and the HMI's commands.

OnModbusConnected(w) ==
  [ClearActiveTask(w) EXCEPT !.last = NoBlock, !.block = NoTrigger, !.latch = {},
     !.advance = FALSE, !.read = "none", !.fails = 0, !.mode = "ready"]

OnModbusDisconnected(w) ==
  IF w.stopped THEN w ELSE EnterFaultState([w EXCEPT !.clock = FALSE], FALSE)

OnModbusError(w) ==
  LET v == [w EXCEPT !.fails = IF @ < 3 THEN @ + 1 ELSE 3]
  IN IF v.fails = 3 THEN EnterFaultState(v, TRUE) ELSE v

ReportPersonZoneAlarm(w, alarm) ==
  LET v == [w EXCEPT !.veto = IF w.up THEN alarm ELSE @]
  IN IF alarm THEN [EnterFaultState(v, FALSE) EXCEPT !.person = TRUE]
     ELSE IF w.person THEN [v EXCEPT !.mode = "ready", !.person = FALSE] ELSE v

\* Mutant: start() does not touch the task.
StartKeepsTask(w) == ForgetWorkpiece([w EXCEPT !.stopped = FALSE, !.mode = "init"])

\* start() and, since cmd.reset calls it too, the HMI's reset.
Start(w) ==
  LET v == ForgetWorkpiece(ClearActiveTask([w EXCEPT !.stopped = FALSE]))
      s == [v EXCEPT !.mode = "init", !.fails = 0]
  IN IF s.up THEN OnModbusConnected(s) ELSE s

\* stop() drops the connections to the Modbus service's signals (wired).
Stop(w) ==
  IF w.stopped THEN w
  ELSE [ClearActiveTask(w) EXCEPT !.stopped = TRUE, !.gen = @ + 1, !.clock = FALSE,
          !.wired = FALSE, !.fails = 0, !.mode = "off"]

\* connectDevice() zeroes the whole register file before it listens.
ZeroRegisters(w) ==
  [w EXCEPT !.ack = [t \in Trigger |-> "idle"], !.res = [t \in Trigger |-> 0],
            !.done = [d \in Device |-> 0], !.veto = FALSE, !.code = 0]

--------------------------------------------------------------------------------
\* The state after start() on a new object, before the Modbus server listens.
Init ==
  /\ cmd = ZeroBlock
  /\ sm = [task |-> NoTask, mode |-> "init", person |-> FALSE, clock |-> FALSE,
           last |-> NoBlock, latch |-> {}, block |-> NoTrigger, fails |-> 0,
           read |-> "none", readGen |-> 0, advance |-> FALSE, gen |-> 1,
           path |-> FirstEnabledPath, cache |-> EmptyCache, runTask |-> 0, barrier |-> 0,
           ack |-> [t \in Trigger |-> "idle"], res |-> [t \in Trigger |-> 0],
           done |-> [d \in Device |-> 0], veto |-> FALSE, code |-> 0,
           vp |-> 0, nextReq |-> 1, fatals |-> {}, ocr |-> {}, fafs |-> {}, dogs |-> {},
           up |-> FALSE, wired |-> TRUE, stopped |-> FALSE, served |-> 0]

\* How the environment responds during one frame: cameras complete or not, the
\* capture devices, and the verdict of an inspection over complete data.
FrameInput == [cams : BOOLEAN, dev : DeviceOutcome, verdict : {1, 2}]

\* Every write of the PLC delivers the whole command area; a write that changes
\* nothing else is the PLC's heartbeat.
PlcWrite(b) ==
  /\ sm.up
  /\ b.trig \subseteq cmd.trig \/ sm.served < MaxServed
  /\ cmd' = b
  /\ IF sm.wired
     THEN \E in \in FrameInput :
            /\ in.cams \/ "cameras" \in Disturbance
            /\ sm' = HandleRegistersRead(sm, b, in)
     ELSE UNCHANGED sm

PlcHeartbeat == PlcWrite(cmd)

BundleCaptureFinished ==
  /\ sm.vp # 0
  /\ \E ok \in BOOLEAN :
       sm' = OnBundleCaptureFinished([sm EXCEPT !.vp = 0], sm.vp, ok)
  /\ UNCHANGED cmd

VisionPipelineFatalError ==
  /\ \E owner \in sm.fatals :
       sm' = OnVisionPipelineFatalError([sm EXCEPT !.fatals = @ \ {owner}])
  /\ UNCHANGED cmd

MechEyeFatalError ==
  /\ "mech" \in Disturbance
  /\ sm' = OnMechEyeFatalError(sm)
  /\ UNCHANGED cmd

\* The camera's text answers name no request; they may also never come.
HikOcrTextReceived ==
  /\ \E answer \in sm.ocr, text \in BOOLEAN :
       sm' = OnHikOcrTextReceived([sm EXCEPT !.ocr = @ \ {answer}], answer, text)
  /\ UNCHANGED cmd

FireAndForgetTimer ==
  /\ \E timer \in sm.fafs : sm' = FireAndForgetAck([sm EXCEPT !.fafs = @ \ {timer}], timer)
  /\ UNCHANGED cmd

FinalizeWatchdogTimer ==
  /\ \E timer \in sm.dogs :
       sm' = CodeReadFinalizeWatchdog([sm EXCEPT !.dogs = @ \ {timer}], timer)
  /\ UNCHANGED cmd

\* The task timeout is a whole number of seconds: the 150 ms and 500 ms timers
\* that are running when a task starts, or that it starts, expire before it.
ProcessTimeout ==
  /\ sm.clock /\ sm.fafs = {} /\ sm.dogs = {}
  /\ sm' = OnProcessTimeout([sm EXCEPT !.clock = FALSE])
  /\ UNCHANGED cmd

PersonZoneAlarm ==
  /\ "person" \in Disturbance
  /\ \E alarm \in BOOLEAN : sm' = ReportPersonZoneAlarm(sm, alarm)
  /\ UNCHANGED cmd

\* The heartbeat timer opens the link once the cameras are complete, the HMI at
\* any time.
ModbusListen ==
  /\ ~sm.up
  /\ cmd' = ZeroBlock
  /\ LET w == ZeroRegisters([sm EXCEPT !.up = TRUE])
     IN sm' = IF w.wired /\ ~w.stopped THEN OnModbusConnected(w) ELSE w

ModbusDisconnect ==
  /\ "link" \in Disturbance
  /\ sm.up
  /\ LET w == [sm EXCEPT !.up = FALSE]
     IN sm' = IF w.wired THEN OnModbusDisconnected(w) ELSE w
  /\ UNCHANGED cmd

ModbusError ==
  /\ "error" \in Disturbance
  /\ sm.wired
  /\ sm' = OnModbusError(sm)
  /\ UNCHANGED cmd

HmiReset ==
  /\ "reset" \in Disturbance
  /\ sm.gen < MaxGen
  /\ sm' = Start(sm)
  /\ UNCHANGED cmd

HmiStop ==
  /\ "stop" \in Disturbance
  /\ sm.gen < MaxGen
  /\ sm' = Stop(sm)
  /\ UNCHANGED cmd

HmiCaptureBundle ==
  /\ "hmi" \in Disturbance
  /\ sm.nextReq <= MaxRequest
  /\ \E dev \in DeviceOutcome : sm' = RequestCaptureBundle(sm, dev, 0)
  /\ UNCHANGED cmd

Next ==
  \/ \E b \in PlcBlock : PlcWrite(b)
  \/ PlcHeartbeat
  \/ BundleCaptureFinished
  \/ VisionPipelineFatalError
  \/ MechEyeFatalError
  \/ HikOcrTextReceived
  \/ FireAndForgetTimer
  \/ FinalizeWatchdogTimer
  \/ ProcessTimeout
  \/ PersonZoneAlarm
  \/ ModbusListen
  \/ ModbusDisconnect
  \/ ModbusError
  \/ HmiReset
  \/ HmiStop
  \/ HmiCaptureBundle

Spec == Init /\ [][Next]_vars

\* The PLC keeps writing its heartbeat, and the timers the code starts expire.
FairSpec ==
  /\ Spec
  /\ WF_vars(PlcHeartbeat)
  /\ WF_vars(ProcessTimeout)
  /\ WF_vars(FireAndForgetTimer)
  /\ WF_vars(FinalizeWatchdogTimer)

--------------------------------------------------------------------------------
\* Invariants.

\* The command area and every member of the state machine have their types.
TypeOK == cmd \in CommandArea /\ sm \in State

\* A finished task keeps its answer only while the PLC holds the trigger in the
\* last command area read: a trigger lowered during the capture is noticed when
\* the task completes, so no answer can wait for an edge that has already passed
\* (and handleRegistersRead() never meets the re-raised trigger it provides for).
AnnouncedHeld ==
  Announced(sm) => ~sm.last.empty /\ sm.task.trig \in sm.last.trig

\* While a task runs its timeout timer does: no path through faults, path
\* switches, resets or reconnections leaves a task nothing will ever end.
TaskHasDeadline == Running(sm) => sm.clock

\* A running task belongs to the current workpiece generation and has a PLC to
\* answer: neither alarm 902 nor the discarded result of finishInspection() can
\* leave it hanging.
LiveTaskIsCurrent ==
  Running(sm) => /\ sm.task.gen = sm.gen
                 /\ sm.up /\ sm.wired /\ ~sm.stopped

\* Conversely the PLC never reads "running" or "completed" for a trigger the IPC
\* has no task for, unless start() or stop() dropped the task.
AnswersHaveTask ==
  sm.up => \A t \in Trigger :
             sm.ack[t] \in {"running", "completed"} => sm.task.trig = t

\* A latched edge, and the lock after a forced release, concern triggers the PLC
\* still holds: an edge the PLC has withdrawn is not served later.
LatchSound ==
  /\ sm.latch \subseteq sm.last.trig
  /\ sm.block # NoTrigger => sm.block \in sm.last.trig

\* Every cached segment was captured on the path the cache is now judged for:
\* switching paths never mixes segments of two paths in one inspection.
SegmentsOfOnePath ==
  \A d \in Device : \A e \in sm.cache[d] : e.path = sm.path

\* The segments of one run are of one workpiece: a second task number never joins
\* segments cached for the first (0 is a PLC that gives no number).
OneRunPerCache ==
  \A d \in Device : \A e \in sm.cache[d] : e.tid \in {0, sm.runTask}

\* The task that waits for a capture waits for the one the pipeline works on.
CaptureOutstanding ==
  Running(sm) /\ sm.task.rid # 0 => sm.vp = sm.task.rid

\* The IPC calls itself ready only when it has no task.
ReadyMeansIdle == sm.mode = "ready" => ~Active(sm)

\* While the person alarm stands the safety word vetoes motion.
VetoReflectsAlarm == sm.up /\ sm.person => sm.veto

\* While the state machine is started it hears the PLC.
StartedHearsPlc == ~sm.stopped => sm.wired

--------------------------------------------------------------------------------
\* Action properties.

\* An answer that says "completed" stays until the trigger is released: no later
\* event turns it into another answer. Errors of Modbus, the person alarm and
\* start() may.
AnswersStand ==
  [][\A t \in Trigger : sm.ack[t] = "completed" => sm'.ack[t] \in {"completed", "idle"}]_vars

\* When the PLC lowers a trigger its acknowledgement returns to idle, unless the
\* task is still running: the last step of the handshake always completes. It does
\* not for a refused trigger, nor for one that lost its task to the person alarm or
\* start().
AckClearsOnRelease ==
  [][\A t \in Trigger :
       t \in sm.last.trig /\ t \notin sm'.last.trig /\ ~sm'.last.empty
         => sm'.ack[t] = "idle" \/ (Running(sm') /\ sm'.task.trig = t)]_vars

\* The code register only ever receives the marking of the current workpiece.
CodeIsCurrent == [][sm'.code # sm.code /\ sm'.up => sm'.code \in {0, sm'.gen}]_vars

\* A fire-and-forget scan is finished by the timer it started itself, as long as
\* no scan is aborted.
TimersFinishTheirOwn ==
  [][sm.task.trig \in ScanStage /\ Running(sm) /\ ~Running(sm') /\ sm.read = "soft"
       /\ sm'.fafs # sm.fafs /\ sm'.read = "soft"
       => \E timer \in sm.fafs \ sm'.fafs : timer.id = sm.task.id]_vars

--------------------------------------------------------------------------------
\* The promise of the abstract specification.

H == INSTANCE Handshake WITH
  None <- NoTrigger, Forceable <- ScanStage, Faults <- (Disturbance # {}),
  link <- sm.up, held <- sm.last.trig, due <- sm.latch,
  job <- [trig |-> sm.task.trig, answered |-> sm.task.announced]

\* Every step of the state machine is one the handshake allows: one trigger at a
\* time, each once for each time it is raised, answers that stand until the
\* release and never longer.
ImplementsHandshake == H!HSpec

\* The pipeline the state machine's captures are modelled on keeps the promise that
\* VisionPipeline implements: one bundle at a time, numbers never used twice.
V == INSTANCE CaptureService WITH current <- sm.vp, next <- sm.nextReq

CapturesAsPromised == V!CSpec

--------------------------------------------------------------------------------
\* Liveness, under FairSpec.

\* Every accepted task is ended, at the latest by its timeout.
TaskEnds ==
  \A i \in 1..MaxServed : Running(sm) /\ sm.task.id = i ~> ~(Running(sm) /\ sm.task.id = i)

\* A trigger raised while the IPC was busy is taken up or withdrawn by the PLC,
\* unless a finished trigger the PLC does not lower, or the lock a forced release
\* left on this one, keeps it waiting; it is not lost.
LatchServed ==
  \A t \in Trigger :
    t \in sm.latch ~> t \notin sm.latch \/ Announced(sm) \/ sm.block = t

\* A code-read scan that completed is released even if the PLC never lowers its
\* trigger.
CodeScanReleased ==
  \A i \in 1..MaxServed :
    Announced(sm) /\ sm.task.id = i /\ (\E dog \in sm.dogs : dog.id = i)
      ~> sm.task.id # i

================================================================================
