---------------------------- MODULE VisionPipeline ----------------------------
(* The capture pipeline: a bundle is one request to a depth camera (MechEye), two *)
(* CoaXPress cameras A and B and a smart camera, and the pose detection on the    *)
(* pictures of A and B.  The pipeline's slots run on the main thread; the depth   *)
(* cameras, A, B and the pose detection each have a worker thread, whose results  *)
(* wait in queues.  An action that handles an event applies a function to pipe.   *)
EXTENDS MechEye, FiniteSets

CONSTANTS
  Request,      \* what may be asked for: [cam, use], a camera and the channels used
  MaxBundle,    \* bound: bundles asked for
  MaxHmi,       \* bound: commands of the HMI to the depth cameras
  MayStop       \* whether the pipeline may be stopped

Cxp == {"A", "B"}
Channel == {"mech", "smart"} \cup Cxp

ASSUME RequestAssumption ==
  \A r \in Request : /\ r.cam \in Camera
                     /\ r.use \subseteq Channel /\ r.use # {}
                     /\ (r.use \cap Cxp) \in {{}, Cxp}

VARIABLES
  pipe,         \* the VisionPipelineService object, and the jobs of its workers
  delays,       \* the bundles whose 1500 ms timers are running
  mechResults,  \* captureFinished signals of the cameras' services
  poses,        \* per CoaXPress camera: its results
  lbResults,    \* results of the pose detection
  commands      \* how many commands the HMI has sent

vars == <<service, calls, worker, signals, pipe, delays, mechResults, poses, lbResults, commands>>

\* m_pending.  rid = 0: inactive.  by: the bundle the depth result was asked for.
NoBundle == [rid |-> 0, cam |-> CHOOSE c \in Camera : TRUE, use |-> {}, done |-> {},
             good |-> {}, mech |-> 0, by |-> 0, asked |-> FALSE]

\* The number of the bundle the pipeline is busy with, in m_pending or m_processing.
Current(p) == IF p.pend.rid # 0 THEN p.pend.rid ELSE p.processing

--------------------------------------------------------------------------------
\* Finishing a bundle.

EmitBundleFinished(p, n) == [p EXCEPT !.processing = 0, !.delivered = Append(@, n)]

\* Mutant: one picture is enough.
FinishOnFirstPicture(p) ==
  LET b == p.pend
  IN IF b.rid = 0 \/ ~(b.use \ Cxp \subseteq b.done) \/ (b.use \cap Cxp # {} /\ b.done \cap Cxp = {})
     THEN p ELSE EmitBundleFinished([p EXCEPT !.pend = NoBundle], b.rid)

\* The pose detection needs both pictures; without them the bundle is delivered.
\* (enqueueLbPoseJob() delivers at once if the pipeline is stopped: a stopped
\* pipeline has no pending bundle.)
FinishBundleIfReady(p) ==
  LET b == p.pend
      q == [p EXCEPT !.pend = NoBundle]
  IN IF b.rid = 0 \/ ~(b.use \subseteq b.done) THEN p
     ELSE IF Cxp \subseteq b.use \cap b.good
     THEN [q EXCEPT !.processing = b.rid, !.lbJobs = Append(@, b.rid)]
     ELSE EmitBundleFinished(q, b.rid)

--------------------------------------------------------------------------------
\* The channels.

StartPendingHikCapture(p, refused) ==
  LET b == p.pend
      s == [p EXCEPT !.pend.asked = "A" \notin refused, !.pend.done = @ \cup refused,
                     !.jobs = [x \in Cxp |-> IF x \in refused THEN @[x] ELSE Append(@[x], b.rid)]]
  IN IF b.rid = 0 \/ ~(Cxp \subseteq b.use) \/ b.asked THEN p
     ELSE IF Cxp \subseteq s.pend.done THEN FinishBundleIfReady(s) ELSE s

\* The smart camera is only triggered, successfully or not; its text and pictures
\* go elsewhere.
StartPendingHikCameraCCapture(p) ==
  IF p.pend.rid = 0 \/ "smart" \notin p.pend.use \ p.pend.done THEN p
  ELSE FinishBundleIfReady([p EXCEPT !.pend.done = @ \cup {"smart"}])

StartHikChannels(p, refused) ==
  LET q == StartPendingHikCameraCCapture(StartPendingHikCapture(p, refused))
  IN IF q.pend.use \subseteq {"mech"} THEN FinishBundleIfReady(q) ELSE q

\* Mutant: the sender of a depth result is not checked.
AnyCameras(p, result) == p.pend.rid # 0 /\ result.id = p.pend.mech

MyCapture(p, result) ==
  p.pend.rid # 0 /\ result.id = p.pend.mech /\ result.cam = p.pend.cam

OnMechEyeCaptureFinished(p, result) ==
  IF MyCapture(p, result)
  THEN [p EXCEPT !.pend.done = @ \cup {"mech"}, !.pend.by = result.by]
  ELSE p

\* A result names its camera, not its request.
OnHikPoseCaptureFinished(p, x, ok) ==
  IF p.pend.rid = 0 \/ ~(Cxp \subseteq p.pend.use) THEN p
  ELSE FinishBundleIfReady(
         [p EXCEPT !.pend.done = @ \cup {x}, !.pend.good = IF ok THEN @ \cup {x} ELSE @ \ {x}])

--------------------------------------------------------------------------------
\* Requests.

\* Mutant: a bundle whose pictures are being processed does not count.
NothingPending(p) == p.open /\ p.pend.rid = 0

\* A stopped or busy pipeline refuses a request without a trace.
Idle(p) == p.open /\ p.pend.rid = 0 /\ p.processing = 0

Pending(r, mech) ==
  [NoBundle EXCEPT !.rid = pipe.next, !.cam = r.cam, !.use = r.use, !.mech = mech]

Numbered == [pipe EXCEPT !.next = @ + 1]

\* The depth camera comes first, the other cameras after it and a delay.
BundleWithDepth(r) ==
  /\ "mech" \in r.use
  /\ Idle(pipe) /\ pipe.next <= MaxBundle
  /\ RequestCapture(r.cam, pipe.next)
  /\ pipe' = [Numbered EXCEPT !.pend = Pending(r, service[r.cam].next)]
  /\ UNCHANGED <<delays, mechResults, poses, lbResults, commands>>

\* A depth camera that refuses costs a number.
BundleRejected(r) ==
  /\ "mech" \in r.use
  /\ Idle(pipe) /\ pipe.next <= MaxBundle
  /\ ~Accepts(r.cam)
  /\ pipe' = Numbered
  /\ UNCHANGED <<mechVars, delays, mechResults, poses, lbResults, commands>>

\* Without a depth camera the channels start at once, and the bundle may be
\* delivered before its number is returned.
BundleWithoutDepth(r) ==
  /\ "mech" \notin r.use
  /\ Idle(pipe) /\ pipe.next <= MaxBundle
  /\ \E refused \in SUBSET Cxp :
       pipe' = StartHikChannels([Numbered EXCEPT !.pend = Pending(r, 0)], refused)
  /\ UNCHANGED <<mechVars, delays, mechResults, poses, lbResults, commands>>

HmiCapture(c) ==
  /\ commands < MaxHmi /\ commands' = commands + 1
  /\ RequestCapture(c, 0)
  /\ UNCHANGED <<pipe, delays, mechResults, poses, lbResults>>

HmiRefresh(c) ==
  /\ commands < MaxHmi /\ commands' = commands + 1
  /\ RequestRefreshStatus(c)
  /\ UNCHANGED <<pipe, delays, mechResults, poses, lbResults>>

--------------------------------------------------------------------------------
\* Events.

\* A service passes captureFinished on to the pipeline, through the queue.
MechSignal(c) ==
  /\ ServiceHears(c)
  /\ LET signal == Head(signals[c])
     IN mechResults' = IF signal.kind = "done"
                       THEN Append(mechResults, [cam |-> c, id |-> signal.id, by |-> signal.by])
                       ELSE mechResults
  /\ UNCHANGED <<pipe, delays, poses, lbResults, commands>>

MechWorker(c) ==
  WorkerSteps(c) /\ UNCHANGED <<pipe, delays, mechResults, poses, lbResults, commands>>

MechResult ==
  /\ mechResults # <<>>
  /\ mechResults' = Tail(mechResults)
  /\ pipe' = OnMechEyeCaptureFinished(pipe, Head(mechResults))
  /\ delays' = IF MyCapture(pipe, Head(mechResults)) THEN delays \cup {pipe.pend.rid} ELSE delays
  /\ UNCHANGED <<mechVars, poses, lbResults, commands>>

\* The timer does not know which bundle started it.
DelayOver ==
  /\ \E n \in delays : delays' = delays \ {n}
  /\ \E refused \in SUBSET Cxp : pipe' = StartHikChannels(pipe, refused)
  /\ UNCHANGED <<mechVars, mechResults, poses, lbResults, commands>>

\* A CoaXPress worker takes a job and posts its result.
CxpCaptured(x) ==
  /\ pipe.jobs[x] # <<>>
  /\ pipe' = [pipe EXCEPT !.jobs[x] = Tail(@)]
  /\ \E ok \in BOOLEAN :
       poses' = [poses EXCEPT ![x] = Append(@, [by |-> Head(pipe.jobs[x]), ok |-> ok])]
  /\ UNCHANGED <<mechVars, delays, mechResults, lbResults, commands>>

PoseCaptured(x) ==
  /\ poses[x] # <<>>
  /\ poses' = [poses EXCEPT ![x] = Tail(@)]
  /\ pipe' = OnHikPoseCaptureFinished(pipe, x, Head(poses[x]).ok)
  /\ UNCHANGED <<mechVars, delays, mechResults, lbResults, commands>>

\* The pose worker posts nothing once the pipeline is stopped.
LbDetected ==
  /\ pipe.lbJobs # <<>>
  /\ pipe' = [pipe EXCEPT !.lbJobs = Tail(@)]
  /\ lbResults' = Append(lbResults, Head(pipe.lbJobs))
  /\ UNCHANGED <<mechVars, delays, mechResults, poses, commands>>

\* Mutant: the gate is not checked again.
LbDeliveredAnyway ==
  /\ lbResults # <<>>
  /\ lbResults' = Tail(lbResults)
  /\ pipe' = EmitBundleFinished(pipe, Head(lbResults))
  /\ UNCHANGED <<mechVars, delays, mechResults, poses, commands>>

LbDelivered ==
  /\ lbResults # <<>>
  /\ lbResults' = Tail(lbResults)
  /\ pipe' = IF pipe.open THEN EmitBundleFinished(pipe, Head(lbResults)) ELSE pipe
  /\ UNCHANGED <<mechVars, delays, mechResults, poses, commands>>

\* stop() waits for the pose worker, which finishes its job and drops the result:
\* nothing else runs on the main thread meanwhile.
StopPipeline ==
  /\ MayStop /\ pipe.open
  /\ pipe' = [pipe EXCEPT !.open = FALSE, !.pend = NoBundle, !.processing = 0, !.lbJobs = <<>>]
  /\ UNCHANGED <<mechVars, delays, mechResults, poses, lbResults, commands>>

--------------------------------------------------------------------------------
\* The state after start(), which is called once.
Init ==
  /\ MechInit
  /\ pipe = [open |-> TRUE, pend |-> NoBundle, processing |-> 0, next |-> 1,
             jobs |-> [x \in Cxp |-> <<>>], lbJobs |-> <<>>, delivered |-> <<>>]
  /\ delays = {}
  /\ mechResults = <<>>
  /\ poses = [x \in Cxp |-> <<>>]
  /\ lbResults = <<>>
  /\ commands = 0

Next ==
  \/ \E r \in Request : BundleWithDepth(r) \/ BundleRejected(r) \/ BundleWithoutDepth(r)
  \/ \E c \in Camera : HmiCapture(c) \/ HmiRefresh(c) \/ MechSignal(c) \/ MechWorker(c)
  \/ MechResult
  \/ DelayOver
  \/ \E x \in Cxp : CxpCaptured(x) \/ PoseCaptured(x)
  \/ LbDetected
  \/ LbDelivered
  \/ StopPipeline

Spec == Init /\ [][Next]_vars

\* The event loop runs, timers expire, and every call into a camera's or the
\* detection's library returns (the captures carry a time limit).
FairSpec ==
  /\ Spec
  /\ \A c \in Camera : WF_vars(MechSignal(c)) /\ WF_vars(MechWorker(c))
  /\ WF_vars(MechResult) /\ WF_vars(DelayOver)
  /\ \A x \in Cxp : WF_vars(CxpCaptured(x)) /\ WF_vars(PoseCaptured(x))
  /\ WF_vars(LbDetected) /\ WF_vars(LbDelivered)

--------------------------------------------------------------------------------
\* Properties.

\* The depth picture of a bundle is the one it asked for: not a capture of the HMI,
\* nor one of the other camera with the same number.
OwnDepthPicture == "mech" \in pipe.pend.done => pipe.pend.by = pipe.pend.rid

\* Every picture on its way from A or B belongs to the pending bundle: the slot,
\* which compares no request numbers, cannot mix two bundles.
OwnPictures ==
  pipe.open =>
    \A x \in Cxp :
      /\ \A i \in DOMAIN pipe.jobs[x] : pipe.jobs[x][i] = pipe.pend.rid
      /\ \A i \in DOMAIN poses[x] : poses[x][i].by = pipe.pend.rid

\* A stopped pipeline delivers nothing.
SilentAfterStop == [][~pipe.open => pipe'.delivered = pipe.delivered]_vars

\* The promise the state machine relies on.
S == INSTANCE CaptureService WITH current <- Current(pipe), next <- pipe.next

ImplementsCaptureService == S!CSpec

\* Every bundle that was granted is delivered, unless the pipeline is stopped.
BundleEnds ==
  \A n \in 1..MaxBundle :
    Current(pipe) = n ~> (~pipe.open \/ \E i \in DOMAIN pipe.delivered : pipe.delivered[i] = n)
================================================================================
