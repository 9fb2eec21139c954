---------------------------- MODULE CxpStereoProofs ----------------------------
(* What holds of the CoaXPress cameras however many there are and however many    *)
(* captures are asked for: the copied handle stays valid, and no request is given *)
(* another one's frame.                                                            *)
EXTENDS CxpStereo, TLAPS

Place == {"none", "wait", "lock", "sdk", "open", "capture", "restart", "begin", "get", "retry",
          "post", "end"}
Event == [kind : {"warm", "result"}, camera : Camera, id : Nat, ok : BOOLEAN, frame : Nat]

\* The types of what the two properties depend on.
Shapes ==
  /\ work \in [Camera -> Place]
  /\ device \in [Camera -> {"none", "open"}]
  /\ job \in [Camera -> Nat] /\ nextId \in [Camera -> Nat] /\ queue \in [Camera -> Seq(Nat)]
  /\ link \in [Camera -> Nat] /\ out \in [Camera -> Nat] /\ taken \in [Camera -> Nat]
  /\ events \in Seq(Event) /\ delivered \in [Camera -> Seq(Event)]

\* A device is only closed after its worker has ended.
ClosedBehindWorker == \A c \in Camera : main = <<"close", c>> => work[c] \in {"none", "end"}

\* From the restart of the grabbing on, what travels belongs to the request the worker holds.
OnTheWay ==
  \A c \in Camera : work[c] \in {"begin", "get", "retry"} =>
    link[c] \in {None, Frame(job[c])} /\ out[c] \in {None, Frame(job[c])}

InHand == \A c \in Camera : taken[c] # None => work[c] = "post" /\ taken[c] = Frame(job[c])

OwnFrame(r) == r.ok => r.frame = Frame(r.id)
Posting == \A i \in 1..Len(events) : OwnFrame(events[i])

HandleInv == Shapes /\ ClosedBehindWorker /\ HandleSafe
FrameInv == Shapes /\ OnTheWay /\ InHand /\ Posting /\ FrameOfRequest

--------------------------------------------------------------------------------
\* The initial states.
LEMMA InitInvariants == Init => HandleInv /\ FrameInv
  BY DEF Init, HandleInv, FrameInv, Shapes, Place, ClosedBehindWorker, HandleSafe, OnTheWay, InHand,
         Posting, FrameOfRequest, None

--------------------------------------------------------------------------------
LEMMA AppendStays == ASSUME NEW S, NEW s \in Seq(S), NEW e \in S PROVE Append(s, e) \in Seq(S)
  OBVIOUS

\* What three of the actions do to single parts of the shapes.
LEMMA GetFrameShapes ==
  ASSUME NEW c \in Camera, GetFrame(c), taken \in [Camera -> Nat], out \in [Camera -> Nat],
         work \in [Camera -> Place]
  PROVE  taken' \in [Camera -> Nat] /\ out' \in [Camera -> Nat] /\ work' \in [Camera -> Place]
<1>1. taken' \in [Camera -> Nat]
  BY DEF GetFrame, Set
<1>2. out' \in [Camera -> Nat]
  BY DEF GetFrame, Set, None
<1>3. work' \in [Camera -> Place]
  BY DEF GetFrame, Set, Place
<1> QED
  BY <1>1, <1>2, <1>3

LEMMA StopServiceShapes ==
  ASSUME NEW c \in Camera, StopService(c), link \in [Camera -> Nat]
  PROVE  link' \in [Camera -> Nat]
  BY DEF StopService, Set, None

LEMMA AskShapes ==
  ASSUME NEW c \in Camera, AskWarmupFrame(c), events \in Seq(Event)
  PROVE  events' \in Seq(Event)
<1> DEFINE e == [kind |-> "warm", camera |-> c, id |-> None, ok |-> FALSE, frame |-> None]
<1>1. events' = events \/ events' = Append(events, e)
  BY DEF AskWarmupFrame
<1>2. e \in Event
  BY DEF Event, None
<1> HIDE DEF e
<1> QED
  BY <1>1, <1>2, AppendStays

\* The shapes survive every step.
LEMMA ShapesKept == Shapes /\ [Next]_vars => Shapes'
<1> SUFFICES ASSUME Shapes, [Next]_vars PROVE Shapes'
  OBVIOUS
<1> USE DEF Shapes, Place, Set, None
<1>1. CASE Posted
  <2>1. CASE RunWarmupRequest
    <3>1. Head(events).camera \in Camera /\ Tail(events) \in Seq(Event)
      <4>1. Head(events) \in Event /\ Tail(events) \in Seq(Event)
        BY <2>1 DEF RunWarmupRequest
      <4> QED
        BY <4>1 DEF Event
    <3> DEFINE c == Head(events).camera
    <3>2. CASE Accepts(c)
      <4>1. Append(queue[c], nextId[c]) \in Seq(Nat) /\ nextId[c] + 1 \in Nat
        BY <3>1
      <4> QED
        BY <2>1, <3>1, <3>2, <4>1 DEF RunWarmupRequest, Enqueue, hardware, locks
    <3>3. CASE ~Accepts(c)
      BY <2>1, <3>1, <3>3 DEF RunWarmupRequest, hardware, locks
    <3> QED
      BY <3>2, <3>3
  <2>2. CASE DeliverResult
    <3>1. Head(events) \in Event /\ Tail(events) \in Seq(Event)
      BY <2>2 DEF DeliverResult
    <3>2. Head(events).camera \in Camera
      BY <3>1 DEF Event
    <3>3. delivered' \in [Camera -> Seq(Event)]
      <4>1. Append(delivered[Head(events).camera], Head(events)) \in Seq(Event)
        BY <3>1, <3>2
      <4> QED
        BY <2>2, <3>2, <4>1 DEF DeliverResult
    <3> QED
      BY <2>2, <3>1, <3>3 DEF DeliverResult, service, hardware, locks
  <2> QED
    BY <1>1, <2>1, <2>2 DEF Posted
<1>2. CASE WarmupBegins \/ Quit \/ JoinWarmup
  BY <1>2 DEF WarmupBegins, Quit, JoinWarmup, service, hardware, locks, history
<1>3. CASE Warmup
  <2>1. PICK c \in Camera : WaitCxpConnected(c) \/ AskWarmupFrame(c) \/ WaitWarmupFrame(c)
    BY <1>3 DEF Warmup
  <2>2. CASE WaitCxpConnected(c) \/ WaitWarmupFrame(c)
    BY <2>2 DEF WaitCxpConnected, WaitWarmupFrame, service, hardware, locks, history
  <2>3. CASE AskWarmupFrame(c)
    <3>2. events' \in Seq(Event)
      BY <2>3, AskShapes
    <3> QED
      BY <2>3, <3>2 DEF AskWarmupFrame, service, hardware, locks, history
  <2> QED
    BY <2>1, <2>2, <2>3
<1>4. ASSUME NEW c \in Camera, StartService(c) \/ RequestMonoCapture(c) \/ Connect(c)
      PROVE  Shapes'
  <2>1. CASE StartService(c)
    BY <2>1 DEF StartService, hardware, locks, history
  <2>2. CASE RequestMonoCapture(c)
    BY <2>2 DEF RequestMonoCapture, Enqueue, hardware, locks
  <2>3. CASE Connect(c)
    BY <2>3 DEF Connect, OpenMatchedDevice, service, history
  <2> QED
    BY <1>4, <2>1, <2>2, <2>3
<1>5. ASSUME NEW c \in Camera, Work(c)
      PROVE  Shapes'
  <2>1. CASE NextJob(c)
    <3>1. CASE queue[c] # <<>> /\ work' = Set(work, c, "lock")
      <4>1. Head(queue[c]) \in Nat /\ Tail(queue[c]) \in Seq(Nat)
        BY <3>1
      <4> QED
        BY <2>1, <3>1, <4>1 DEF NextJob, WorkerOnly, hardware, history
    <3>2. CASE work' = Set(work, c, "end") /\ UNCHANGED <<job, queue>>
      BY <2>1, <3>2 DEF NextJob, WorkerOnly, hardware, history
    <3> QED
      BY <2>1, <3>1, <3>2 DEF NextJob
  <2>2. CASE EnsureConnected(c)
    BY <2>2 DEF EnsureConnected, OpenMatchedDevice, WorkerOnly, history
  <2>3. CASE CopyHandle(c)
    BY <2>3 DEF CopyHandle, WorkerOnly, hardware, history
  <2>7. CASE StopAndClear(c)
    BY <2>7 DEF StopAndClear, WorkerOnly, history
  <2>5. CASE StartGrabbing(c)
    BY <2>5 DEF StartGrabbing, WorkerOnly, history
  <2>6. CASE GetFrame(c)
    <3>1. taken' \in [Camera -> Nat] /\ out' \in [Camera -> Nat] /\ work' \in [Camera -> Place]
      BY <2>6, GetFrameShapes
    <3> QED
      BY <2>6, <3>1 DEF GetFrame, WorkerOnly, history
  <2>4. CASE PostResult(c)
    <3>1. Result(c) \in Event
      BY DEF Result, Event
    <3> QED
      BY <2>4, <3>1 DEF PostResult, WorkerOnly, locks, history
  <2> QED
    BY <1>5, <2>1, <2>2, <2>3, <2>4, <2>5, <2>6, <2>7 DEF Work
<1>6. ASSUME NEW c \in Camera, Expose(c) \/ Arrive(c)
      PROVE  Shapes'
  <2>1. CASE Expose(c)
    <3>1. Frame(job[c]) \in Nat
      BY DEF Frame
    <3> QED
      BY <2>1, <3>1 DEF Expose, threads, service, history
  <2>2. CASE Arrive(c)
    BY <2>2 DEF Arrive, threads, service, history
  <2> QED
    BY <1>6, <2>1, <2>2
<1>7. ASSUME NEW c \in Camera, StopService(c) \/ JoinWorkerThreads(c) \/ CloseDevice(c)
      PROVE  Shapes'
  <2>1. CASE StopService(c)
    <3>1. link' \in [Camera -> Nat]
      BY <2>1, StopServiceShapes
    <3> QED
      BY <2>1, <3>1 DEF StopService, history
  <2>2. CASE JoinWorkerThreads(c)
    BY <2>2 DEF JoinWorkerThreads, hardware, history
  <2>3. CASE CloseDevice(c)
    BY <2>3 DEF CloseDevice, history
  <2> QED
    BY <1>7, <2>1, <2>2, <2>3
<1>8. CASE UNCHANGED vars
  BY <1>8 DEF vars, threads, service, hardware, history
<1> QED
  BY <1>1, <1>2, <1>3, <1>4, <1>5, <1>6, <1>7, <1>8 DEF Next, ShutDown

--------------------------------------------------------------------------------
\* The handle.  A worker that was joined has ended, and only Enqueue starts one: while the
\* program runs.
LEMMA HandleKept == HandleInv /\ [Next]_vars => ClosedBehindWorker' /\ HandleSafe'
<1> SUFFICES ASSUME work \in [Camera -> Place], device \in [Camera -> {"none", "open"}],
                    ClosedBehindWorker, HandleSafe, [Next]_vars
             PROVE  ClosedBehindWorker' /\ HandleSafe'
  BY DEF HandleInv, Shapes
<1> USE DEF ClosedBehindWorker, HandleSafe, Set, Place
<1>1. CASE Posted
  <2>1. CASE RunWarmupRequest
    BY <2>1 DEF RunWarmupRequest, Enqueue, hardware
  <2>2. CASE DeliverResult
    BY <2>2 DEF DeliverResult, hardware
  <2> QED
    BY <1>1, <2>1, <2>2 DEF Posted
<1>2. CASE WarmupBegins \/ Warmup
  BY <1>2 DEF WarmupBegins, Warmup, WaitCxpConnected, AskWarmupFrame, WaitWarmupFrame, hardware
<1>3. CASE Quit \/ JoinWarmup
  BY <1>3 DEF Quit, JoinWarmup, hardware
<1>4. ASSUME NEW c \in Camera, StartService(c)
      PROVE  ClosedBehindWorker' /\ HandleSafe'
  BY <1>4 DEF StartService, AfterStart, hardware
<1>5. ASSUME NEW c \in Camera, RequestMonoCapture(c)
      PROVE  ClosedBehindWorker' /\ HandleSafe'
  BY <1>5 DEF RequestMonoCapture, Enqueue, hardware
<1>6. ASSUME NEW c \in Camera, Connect(c)
      PROVE  ClosedBehindWorker' /\ HandleSafe'
  BY <1>6 DEF Connect, OpenMatchedDevice
<1>7. ASSUME NEW c \in Camera, Work(c)
      PROVE  ClosedBehindWorker' /\ HandleSafe'
  <2>1. CASE NextJob(c) \/ CopyHandle(c) \/ PostResult(c)
    BY <1>7, <2>1 DEF NextJob, CopyHandle, PostResult, WorkerOnly, hardware
  <2>2. CASE EnsureConnected(c)
    <3>1. UNCHANGED main /\ \E place \in {"sdk", "open", "capture", "post"} : work' = Set(work, c, place)
      BY <2>2 DEF EnsureConnected, WorkerOnly
    <3>2. work[c] \notin {"none", "end"} /\ (device' = device \/ device' = Set(device, c, "open"))
      BY <2>2 DEF EnsureConnected, TakeLifecycle, TakeSdk, OpenMatchedDevice
    <3> QED
      BY <3>1, <3>2
  <2>3. CASE StopAndClear(c) \/ StartGrabbing(c) \/ GetFrame(c)
    BY <2>3 DEF StopAndClear, StartGrabbing, GetFrame, WorkerOnly
  <2> QED
    BY <1>7, <2>1, <2>2, <2>3 DEF Work
<1>8. ASSUME NEW c \in Camera, Expose(c) \/ Arrive(c)
      PROVE  ClosedBehindWorker' /\ HandleSafe'
  BY <1>8 DEF Expose, Arrive, threads
<1>9. ASSUME NEW c \in Camera, StopService(c) \/ JoinWorkerThreads(c)
      PROVE  ClosedBehindWorker' /\ HandleSafe'
  BY <1>9 DEF StopService, JoinWorkerThreads, hardware
<1>10. ASSUME NEW c \in Camera, CloseDevice(c)
       PROVE  ClosedBehindWorker' /\ HandleSafe'
  BY <1>10 DEF CloseDevice
<1>11. CASE UNCHANGED vars
  BY <1>11 DEF vars, threads, hardware
<1> QED
  BY <1>1, <1>2, <1>3, <1>4, <1>5, <1>6, <1>7, <1>8, <1>9, <1>10, <1>11 DEF Next, ShutDown

--------------------------------------------------------------------------------
\* The frames.  What the restart of the grabbing left is nothing, and what is exposed from
\* then on is the request's.
LEMMA FramesKept ==
  FrameInv /\ [Next]_vars => OnTheWay' /\ InHand'
<1> SUFFICES ASSUME work \in [Camera -> Place], job \in [Camera -> Nat],
                    link \in [Camera -> Nat], out \in [Camera -> Nat], taken \in [Camera -> Nat],
                    OnTheWay, InHand, [Next]_vars
             PROVE  OnTheWay' /\ InHand'
  BY DEF FrameInv, Shapes
<1> USE DEF OnTheWay, InHand, Set, Place, None, Frame
<1>1. CASE Posted
  <2>1. CASE RunWarmupRequest
    BY <2>1 DEF RunWarmupRequest, Enqueue, hardware
  <2>2. CASE DeliverResult
    BY <2>2 DEF DeliverResult, hardware
  <2> QED
    BY <1>1, <2>1, <2>2 DEF Posted
<1>2. CASE WarmupBegins \/ Warmup \/ Quit \/ JoinWarmup
  BY <1>2 DEF WarmupBegins, Warmup, WaitCxpConnected, AskWarmupFrame, WaitWarmupFrame, Quit,
              JoinWarmup, hardware
<1>3. ASSUME NEW c \in Camera, StartService(c) \/ RequestMonoCapture(c) \/ Connect(c)
      PROVE  OnTheWay' /\ InHand'
  <2>1. CASE StartService(c)
    BY <2>1 DEF StartService, hardware
  <2>2. CASE RequestMonoCapture(c)
    BY <2>2 DEF RequestMonoCapture, Enqueue, hardware
  <2>3. CASE Connect(c)
    BY <2>3 DEF Connect
  <2> QED
    BY <1>3, <2>1, <2>2, <2>3
<1>4. ASSUME NEW c \in Camera, Work(c)
      PROVE  OnTheWay' /\ InHand'
  <2>1. CASE NextJob(c)
    BY <2>1 DEF NextJob, WorkerOnly, hardware
  <2>2. CASE EnsureConnected(c)
    <3>1. work[c] # "post" /\ UNCHANGED <<job, link, out, taken>>
      BY <2>2 DEF EnsureConnected, TakeLifecycle, TakeSdk, WorkerOnly
    <3>2. \E place \in {"sdk", "open", "capture", "post"} : work' = Set(work, c, place)
      BY <2>2 DEF EnsureConnected
    <3> QED
      BY <3>1, <3>2
  <2>3. CASE CopyHandle(c)
    BY <2>3 DEF CopyHandle, WorkerOnly, hardware
  <2>4. CASE StopAndClear(c)
    BY <2>4 DEF StopAndClear, WorkerOnly
  <2>5. CASE StartGrabbing(c)
    BY <2>5 DEF StartGrabbing, WorkerOnly
  <2>6. CASE GetFrame(c)
    BY <2>6 DEF GetFrame, WorkerOnly
  <2>7. CASE PostResult(c)
    BY <2>7 DEF PostResult, WorkerOnly
  <2> QED
    BY <1>4, <2>1, <2>2, <2>3, <2>4, <2>5, <2>6, <2>7 DEF Work
<1>5. ASSUME NEW c \in Camera, Expose(c) \/ Arrive(c)
      PROVE  OnTheWay' /\ InHand'
  BY <1>5 DEF Expose, Arrive, threads
<1>6. ASSUME NEW c \in Camera, StopService(c) \/ JoinWorkerThreads(c) \/ CloseDevice(c)
      PROVE  OnTheWay' /\ InHand'
  <2>1. CASE StopService(c)
    BY <2>1 DEF StopService
  <2>2. CASE JoinWorkerThreads(c)
    BY <2>2 DEF JoinWorkerThreads, hardware
  <2>3. CASE CloseDevice(c)
    BY <2>3 DEF CloseDevice
  <2> QED
    BY <1>6, <2>1, <2>2, <2>3
<1>7. CASE UNCHANGED vars
  BY <1>7 DEF vars, threads, hardware
<1> QED
  BY <1>1, <1>2, <1>3, <1>4, <1>5, <1>6, <1>7 DEF Next, ShutDown

--------------------------------------------------------------------------------
\* What is posted is what the worker had in hand; what is delivered was posted.
LEMMA PostedKept == FrameInv /\ [Next]_vars => Posting' /\ FrameOfRequest'
<1> SUFFICES ASSUME FrameInv, [Next]_vars PROVE Posting' /\ FrameOfRequest'
  OBVIOUS
<1>0. events \in Seq(Event) /\ delivered \in [Camera -> Seq(Event)] /\ Posting /\ FrameOfRequest
  BY DEF FrameInv, Shapes
<1>1. CASE UNCHANGED <<events, delivered>>
  BY <1>0, <1>1 DEF Posting, FrameOfRequest
<1>2. CASE \E e : OwnFrame(e) /\ e \in Event /\ events' = Append(events, e) /\ UNCHANGED delivered
  <2>1. PICK e : OwnFrame(e) /\ e \in Event /\ events' = Append(events, e) /\ UNCHANGED delivered
    BY <1>2
  <2>2. Posting'
    BY <1>0, <2>1 DEF Posting
  <2> QED
    BY <1>0, <2>1, <2>2 DEF FrameOfRequest
<1>3. CASE RunWarmupRequest
  BY <1>0, <1>3 DEF RunWarmupRequest, Posting, FrameOfRequest
<1>4. CASE DeliverResult
  <2>1. Len(events) >= 1 /\ Head(events) = events[1] /\ events' = Tail(events)
    BY <1>0, <1>4 DEF DeliverResult
  <2>2. Head(events) \in Event /\ OwnFrame(Head(events))
    BY <1>0, <2>1 DEF Posting
  <2>3. Posting'
    BY <1>0, <2>1 DEF Posting
  <2> DEFINE r == Head(events)
  <2>4. r.camera \in Camera
    BY <2>2 DEF Event
  <2>5. FrameOfRequest'
    <3>1. CASE delivered' = Set(delivered, r.camera, Append(delivered[r.camera], r))
      BY <1>0, <2>2, <2>4, <3>1 DEF FrameOfRequest, OwnFrame, Set
    <3>2. CASE delivered' = delivered
      BY <1>0, <3>2 DEF FrameOfRequest
    <3> QED
      BY <1>4, <3>1, <3>2 DEF DeliverResult
  <2> QED
    BY <2>3, <2>5
<1>5. ASSUME NEW c \in Camera, AskWarmupFrame(c)
      PROVE  Posting' /\ FrameOfRequest'
  <2> DEFINE e == [kind |-> "warm", camera |-> c, id |-> None, ok |-> FALSE, frame |-> None]
  <2>1. OwnFrame(e) /\ e \in Event
    BY DEF OwnFrame, Event, None
  <2>2. events' \in {events, Append(events, e)} /\ UNCHANGED delivered
    BY <1>5 DEF AskWarmupFrame, history
  <2> HIDE DEF e
  <2> QED
    BY <1>1, <1>2, <2>1, <2>2
<1>6. ASSUME NEW c \in Camera, PostResult(c)
      PROVE  Posting' /\ FrameOfRequest'
  <2>1. taken[c] # None => taken[c] = Frame(job[c])
    BY DEF FrameInv, InHand
  <2>2. OwnFrame(Result(c))
    BY <2>1 DEF OwnFrame, Result
  <2>3. job[c] \in Nat /\ taken[c] \in Nat
    BY DEF FrameInv, Shapes
  <2>4. Result(c) \in Event
    BY <2>3 DEF Result, Event
  <2>5. events' \in {events, Append(events, Result(c))} /\ UNCHANGED delivered
    BY <1>6 DEF PostResult, WorkerOnly, history
  <2> QED
    BY <1>1, <1>2, <2>2, <2>4, <2>5
<1>7. ASSUME NEW c \in Camera,
             NextJob(c) \/ EnsureConnected(c) \/ CopyHandle(c) \/ StopAndClear(c) \/ StartGrabbing(c)
               \/ GetFrame(c)
      PROVE  UNCHANGED <<events, delivered>>
  BY <1>7 DEF NextJob, EnsureConnected, CopyHandle, StopAndClear, StartGrabbing, GetFrame, WorkerOnly,
              history
<1>8. ASSUME NEW c \in Camera,
             StartService(c) \/ RequestMonoCapture(c) \/ Connect(c) \/ Expose(c) \/ Arrive(c)
      PROVE  UNCHANGED <<events, delivered>>
  BY <1>8 DEF StartService, RequestMonoCapture, Connect, Expose, Arrive, threads, history
<1>9. ASSUME NEW c \in Camera,
             WaitCxpConnected(c) \/ WaitWarmupFrame(c) \/ StopService(c) \/ JoinWorkerThreads(c)
               \/ CloseDevice(c)
      PROVE  UNCHANGED <<events, delivered>>
  BY <1>9 DEF WaitCxpConnected, WaitWarmupFrame, StopService, JoinWorkerThreads, CloseDevice, history
<1>10. WarmupBegins \/ Quit \/ JoinWarmup \/ UNCHANGED vars => UNCHANGED <<events, delivered>>
  BY DEF WarmupBegins, Quit, JoinWarmup, vars, threads, history
<1> QED
  BY <1>1, <1>3, <1>4, <1>5, <1>6, <1>7, <1>8, <1>9, <1>10
  DEF Next, Posted, Warmup, ShutDown, Work

--------------------------------------------------------------------------------
\* A capture's SDK calls only ever use the handle of an open device.
THEOREM HandlesAreSafe == Spec => []HandleSafe
<1>1. HandleInv /\ [Next]_vars => HandleInv'
  BY ShapesKept, HandleKept DEF HandleInv
<1>2. HandleInv => HandleSafe
  BY DEF HandleInv
<1> QED
  BY InitInvariants, <1>1, <1>2, PTL DEF Spec

\* A delivered picture was exposed for the request it answers.
THEOREM FramesAreTheRequests == Spec => []FrameOfRequest
<1>1. FrameInv /\ [Next]_vars => FrameInv'
  BY ShapesKept, FramesKept, PostedKept DEF FrameInv
<1>2. FrameInv => FrameOfRequest
  BY DEF FrameInv
<1> QED
  BY InitInvariants, <1>1, <1>2, PTL DEF Spec
================================================================================
