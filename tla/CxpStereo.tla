------------------------------- MODULE CxpStereo -------------------------------
(* The two CoaXPress cameras (HikCxpCameraService), the warm-up the program runs  *)
(* on them at start-up and the shutdown that ends all three (ConsoleRuntime).     *)
(* Each camera has a thread that connects it and a worker that takes its pictures *)
(* from a queue; the warm-up has a thread of its own; results go back to the main *)
(* thread's event queue.  The vendor's SDK is external: calls may fail or take    *)
(* their time, and a device between StartGrabbing and StopGrabbing exposes        *)
(* frames, which travel over the link into the SDK's output queue.                *)
EXTENDS Naturals, Sequences, FiniteSets

CONSTANTS
  Camera,       \* the cameras, in the order the program starts and stops them: 1..2
  MaxRequest,   \* bound: captures the pipeline asks each camera for
  WithWarmup    \* whether the start-up's warm-up runs

None == 0
Free == <<"free", 0>>   \* a mutex nobody holds

ASSUME CxpAssumption ==
  MaxRequest \in Nat /\ WithWarmup \in BOOLEAN /\ Camera = 1..Cardinality(Camera)

VARIABLES
  main,       \* the main thread: where it is, and with which camera
  events,     \* its queue of posted calls
  warm,       \* the warm-up thread: where it is, and with which camera
  cancelled,  \* *cxpWarmupCancel_
  awaited,    \* per camera: the request the warm-up waits for, or None
  promised,   \* per camera: whether the warm-up's promise is kept
  started,    \* per camera: m_started
  accept,     \* per camera: *m_acceptAsyncResults
  sdkReady,   \* per camera: m_impl->sdkReady
  nextId,     \* per camera: m_nextRequestId
  queue,      \* per camera: m_captureQueue
  stopping,   \* per camera: m_captureWorkerStopping
  conn,       \* per camera: where its connect thread is
  work,       \* per camera: where its worker is
  job,        \* per camera: the request the worker holds, or None
  lifecycle,  \* per camera: who holds m_deviceLifecycleMutex, or Free
  sdk,        \* who holds g_cxpSdkMutex, or Free
  device,     \* per camera: m_impl->handle and connected: "none" or "open"
  grabbing,   \* per camera: whether the device exposes frames
  link,       \* per camera: the frame that travels, or None
  out,        \* per camera: the frame in the SDK's output queue, or None
  taken,      \* per camera: the frame the worker took, or None
  accepted,   \* per camera: the requests that entered the queue
  delivered   \* per camera: the results that were signalled: request, success and frame

threads == <<main, events, warm, cancelled, awaited, promised, conn, work, job>>
service == <<started, accept, sdkReady, nextId, queue, stopping>>
hardware == <<device, grabbing, link, out, taken>>
locks == <<lifecycle, sdk>>
history == <<accepted, delivered>>
vars == <<threads, service, hardware, locks, history>>

Set(f, c, v) == [f EXCEPT ![c] = v]
Connector(c) == <<"conn", c>>
Worker(c) == <<"work", c>>

\* The frame exposed while the worker holds a request, or none.
Frame(id) == id + 1

Init ==
  /\ main = <<"start", 1>> /\ events = <<>> /\ cancelled = FALSE
  /\ warm = <<"idle", 1>>
  /\ awaited = [c \in Camera |-> None] /\ promised = [c \in Camera |-> FALSE]
  /\ started = [c \in Camera |-> FALSE] /\ accept = [c \in Camera |-> FALSE]
  /\ sdkReady = [c \in Camera |-> FALSE] /\ nextId = [c \in Camera |-> 1]
  /\ queue = [c \in Camera |-> <<>>] /\ stopping = [c \in Camera |-> FALSE]
  /\ conn = [c \in Camera |-> "none"] /\ work = [c \in Camera |-> "none"]
  /\ job = [c \in Camera |-> None]
  /\ lifecycle = [c \in Camera |-> Free] /\ sdk = Free
  /\ device = [c \in Camera |-> "none"] /\ grabbing = [c \in Camera |-> FALSE]
  /\ link = [c \in Camera |-> None] /\ out = [c \in Camera |-> None]
  /\ taken = [c \in Camera |-> None]
  /\ accepted = [c \in Camera |-> <<>>] /\ delivered = [c \in Camera |-> <<>>]

--------------------------------------------------------------------------------
\* The main thread: starting, requests, posted calls.

AfterStart(c) == IF c + 1 \in Camera THEN <<"start", c + 1>> ELSE <<"run", 1>>

\* start(): without the SDK the service stays down; with it the connect thread begins.
StartService(c) ==
  /\ main = <<"start", c>> /\ main' = AfterStart(c)
  /\ \/ /\ started' = Set(started, c, TRUE) /\ accept' = Set(accept, c, TRUE)
        /\ sdkReady' = Set(sdkReady, c, TRUE) /\ conn' = Set(conn, c, "lock")
     \/ UNCHANGED <<started, accept, sdkReady, conn>>
  /\ UNCHANGED <<events, warm, cancelled, awaited, promised, work, job, nextId, queue, stopping,
                 hardware, locks, history>>

\* enqueueCaptureJob(): the job enters the queue and the worker runs from the first on.
Enqueue(c) ==
  /\ queue' = Set(queue, c, Append(queue[c], nextId[c]))
  /\ nextId' = Set(nextId, c, nextId[c] + 1)
  /\ accepted' = Set(accepted, c, Append(accepted[c], nextId[c]))
  /\ work' = IF work[c] = "none" THEN Set(work, c, "wait") ELSE work

Accepts(c) == started[c] /\ accept[c] /\ ~stopping[c]

\* requestMonoCapture() of the pipeline; a service that is down refuses it.
RequestMonoCapture(c) ==
  /\ main[1] = "run" /\ nextId[c] <= MaxRequest /\ Accepts(c)
  /\ Enqueue(c)
  /\ UNCHANGED <<main, events, warm, cancelled, awaited, promised, conn, job, started, accept,
                 sdkReady, stopping, hardware, locks, delivered>>

\* The posted request of the warm-up: refused at once, its promise is kept all the same.
RunWarmupRequest ==
  /\ main[1] = "run" /\ events # <<>> /\ Head(events).kind = "warm" /\ events' = Tail(events)
  /\ LET c == Head(events).camera
     IN IF Accepts(c)
        THEN /\ Enqueue(c) /\ awaited' = Set(awaited, c, nextId[c]) /\ UNCHANGED promised
        ELSE /\ promised' = Set(promised, c, TRUE)
             /\ UNCHANGED <<queue, nextId, accepted, work, awaited>>
  /\ UNCHANGED <<main, warm, cancelled, conn, job, started, accept, sdkReady, stopping, hardware,
                 locks, delivered>>

\* The posted result: monoCaptureFinished, unless the service stopped; the warm-up's slot
\* takes the one of its own request.
DeliverResult ==
  /\ main[1] = "run" /\ events # <<>> /\ Head(events).kind = "result" /\ events' = Tail(events)
  /\ LET r == Head(events)
     IN IF accept[r.camera]
        THEN /\ delivered' = Set(delivered, r.camera, Append(delivered[r.camera], r))
             /\ promised' = IF awaited[r.camera] = r.id THEN Set(promised, r.camera, TRUE)
                            ELSE promised
        ELSE UNCHANGED <<delivered, promised>>
  /\ UNCHANGED <<main, warm, cancelled, awaited, conn, work, job, service, hardware, locks,
                 accepted>>

--------------------------------------------------------------------------------
\* Opening the device, by the connect thread or by the worker; p is the map of their places.

TakeLifecycle(p, t, c) ==
  /\ p[c] = "lock" /\ lifecycle[c] = Free
  /\ lifecycle' = Set(lifecycle, c, t) /\ UNCHANGED sdk

TakeSdk(p, t, c) ==
  /\ p[c] = "sdk" /\ lifecycle[c] = t /\ sdk = Free
  /\ sdk' = t /\ UNCHANGED lifecycle

\* With the locks held: refused without the SDK, nothing to do if it is open already;
\* otherwise what is left of a handle is closed, and the device is looked for, opened, and
\* set to expose frames.  ok says how it ends.
OpenMatchedDevice(t, c, ok) ==
  /\ sdk = t /\ sdk' = Free /\ lifecycle' = Set(lifecycle, c, Free)
  /\ \/ ~sdkReady[c] /\ ~ok /\ UNCHANGED <<device, grabbing>>
     \/ sdkReady[c] /\ device[c] = "open" /\ ok /\ UNCHANGED <<device, grabbing>>
     \/ sdkReady[c] /\ device[c] = "none" /\ ~ok /\ UNCHANGED <<device, grabbing>>
     \/ /\ sdkReady[c] /\ device[c] = "none" /\ ok
        /\ device' = Set(device, c, "open") /\ grabbing' = Set(grabbing, c, TRUE)

\* The connect thread of startAsyncConnect(): it ends with the attempt; what it reports only
\* tells the state.
Connect(c) ==
  /\ \/ TakeLifecycle(conn, Connector(c), c) /\ conn' = Set(conn, c, "sdk")
        /\ UNCHANGED <<device, grabbing>>
     \/ TakeSdk(conn, Connector(c), c) /\ conn' = Set(conn, c, "open")
        /\ UNCHANGED <<device, grabbing>>
     \/ /\ conn[c] = "open" /\ conn' = Set(conn, c, "end")
        /\ \E ok \in BOOLEAN : OpenMatchedDevice(Connector(c), c, ok)
  /\ UNCHANGED <<main, events, warm, cancelled, awaited, promised, work, job, service, link, out,
                 taken, history>>

--------------------------------------------------------------------------------
\* The worker.

WorkerOnly == UNCHANGED <<main, warm, cancelled, awaited, promised, conn, started, accept,
                          sdkReady, nextId, history>>

\* The condition variable's wait: the next job, or the end once the queue is empty.
NextJob(c) ==
  /\ work[c] = "wait"
  /\ \/ /\ queue[c] # <<>> /\ work' = Set(work, c, "lock")
        /\ job' = Set(job, c, Head(queue[c])) /\ queue' = Set(queue, c, Tail(queue[c]))
     \/ queue[c] = <<>> /\ stopping[c] /\ work' = Set(work, c, "end") /\ UNCHANGED <<job, queue>>
  /\ UNCHANGED <<events, stopping, hardware, locks>> /\ WorkerOnly

\* ensureConnected(): a job opens the device that is not open.
EnsureConnected(c) ==
  /\ \/ TakeLifecycle(work, Worker(c), c) /\ work' = Set(work, c, "sdk")
        /\ UNCHANGED <<device, grabbing>>
     \/ TakeSdk(work, Worker(c), c) /\ work' = Set(work, c, "open") /\ UNCHANGED <<device, grabbing>>
     \/ /\ work[c] = "open"
        /\ \E ok \in BOOLEAN :
             OpenMatchedDevice(Worker(c), c, ok)
             /\ work' = Set(work, c, IF ok THEN "capture" ELSE "post")
  /\ UNCHANGED <<events, job, queue, stopping, link, out, taken>> /\ WorkerOnly

\* captureMonoFrame() copies the handle and lets go of its lock: the calls that follow use it
\* with no lock held.
CopyHandle(c) ==
  /\ work[c] = "capture"
  /\ work' = Set(work, c, IF device[c] = "open" /\ started[c] THEN "restart" ELSE "post")
  /\ UNCHANGED <<events, job, queue, stopping, hardware, locks>> /\ WorkerOnly

\* Mutant: the SDK's queue is cleared, and the device never stops exposing.
OnlyClear(c) ==
  /\ work[c] = "restart" /\ work' = Set(work, c, "begin")
  /\ out' = Set(out, c, None)
  /\ UNCHANGED <<events, job, queue, stopping, locks, device, grabbing, link, taken>>
  /\ WorkerOnly

\* StopGrabbing drops the frame on the link, ClearImageBuffer the one in the queue.
StopAndClear(c) ==
  /\ work[c] = "restart" /\ work' = Set(work, c, "begin")
  /\ grabbing' = Set(grabbing, c, FALSE) /\ link' = Set(link, c, None) /\ out' = Set(out, c, None)
  /\ UNCHANGED <<events, job, queue, stopping, locks, device, taken>> /\ WorkerOnly

StartGrabbing(c) ==
  /\ work[c] = "begin"
  /\ \/ work' = Set(work, c, "get") /\ grabbing' = Set(grabbing, c, TRUE)
     \/ work' = Set(work, c, "post") /\ UNCHANGED grabbing
  /\ UNCHANGED <<events, job, queue, stopping, locks, device, link, out, taken>> /\ WorkerOnly

\* GetImageBuffer, then GetOneFrameTimeout: each waits for a frame or for its timeout; a
\* service that is stopping breaks the capture off.
GetFrame(c) ==
  /\ work[c] \in {"get", "retry"}
  /\ \/ /\ out[c] # None /\ out' = Set(out, c, None) /\ work' = Set(work, c, "post")
        /\ taken' = IF started[c] THEN Set(taken, c, out[c]) ELSE taken
     \/ /\ out[c] = None /\ UNCHANGED <<out, taken>>
        /\ work' = Set(work, c, IF work[c] = "get" /\ started[c] THEN "retry" ELSE "post")
  /\ UNCHANGED <<events, job, queue, stopping, locks, device, grabbing, link>> /\ WorkerOnly

Result(c) ==
  [kind |-> "result", camera |-> c, id |-> job[c], ok |-> taken[c] # None, frame |-> taken[c]]

\* Mutant: a failure is not reported.
PostSuccess(c) ==
  /\ work[c] = "post" /\ work' = Set(work, c, "wait")
  /\ events' = IF accept[c] /\ taken[c] # None THEN Append(events, Result(c)) ELSE events
  /\ job' = Set(job, c, None) /\ taken' = Set(taken, c, None)
  /\ UNCHANGED <<queue, stopping, locks, device, grabbing, link, out>> /\ WorkerOnly

PostResult(c) ==
  /\ work[c] = "post" /\ work' = Set(work, c, "wait")
  /\ events' = IF accept[c] THEN Append(events, Result(c)) ELSE events
  /\ job' = Set(job, c, None) /\ taken' = Set(taken, c, None)
  /\ UNCHANGED <<queue, stopping, locks, device, grabbing, link, out>> /\ WorkerOnly

\* The device exposes a frame, tagged with the request the worker holds at that moment.
Expose(c) ==
  /\ device[c] = "open" /\ grabbing[c] /\ link[c] = None
  /\ link' = Set(link, c, Frame(job[c]))
  /\ UNCHANGED <<threads, service, locks, history, device, grabbing, out, taken>>

\* It arrives in the output queue, which keeps the latest only.
Arrive(c) ==
  /\ link[c] # None /\ link' = Set(link, c, None) /\ out' = Set(out, c, link[c])
  /\ UNCHANGED <<threads, service, locks, history, device, grabbing, taken>>

--------------------------------------------------------------------------------
\* The warm-up.  Its waits end with what they wait for, with their time, or cancelled.

WarmupBegins ==
  /\ WithWarmup /\ main[1] = "run" /\ warm[1] = "idle" /\ warm' = <<"connected", 1>>
  /\ UNCHANGED <<main, events, cancelled, awaited, promised, conn, work, job, service, hardware,
                 locks, history>>

Then(step, c, last) == IF cancelled THEN <<"end", 1>>
                       ELSE IF c + 1 \in Camera THEN <<step, c + 1>> ELSE last

WaitCxpConnected(c) ==
  /\ warm = <<"connected", c>> /\ warm' = Then("connected", c, <<"ask", 1>>)
  /\ UNCHANGED <<main, events, cancelled, awaited, promised, conn, work, job, service, hardware,
                 locks, history>>

AskWarmupFrame(c) ==
  /\ warm = <<"ask", c>>
  /\ IF cancelled THEN warm' = <<"end", 1>> /\ UNCHANGED events
     ELSE /\ warm' = <<"future", c>>
          /\ events' = Append(events, [kind |-> "warm", camera |-> c, id |-> None, ok |-> FALSE,
                                       frame |-> None])
  /\ UNCHANGED <<main, cancelled, awaited, promised, conn, work, job, service, hardware, locks,
                 history>>

\* Mutant: future.get(), without a budget and deaf to the cancellation.
WaitForFutureOnly(c) ==
  /\ warm = <<"future", c>> /\ promised[c]
  /\ warm' = Then("ask", c, <<"end", 1>>)
  /\ UNCHANGED <<main, events, cancelled, awaited, promised, conn, work, job, service, hardware,
                 locks, history>>

WaitWarmupFrame(c) ==
  /\ warm = <<"future", c>>
  /\ warm' = Then("ask", c, <<"end", 1>>)
  /\ UNCHANGED <<main, events, cancelled, awaited, promised, conn, work, job, service, hardware,
                 locks, history>>

--------------------------------------------------------------------------------
\* Shutdown: the main thread no longer runs its queue; it waits for the warm-up, then stops
\* one camera after the other.

Quit ==
  /\ main[1] = "run" /\ main' = <<"join", 1>> /\ cancelled' = TRUE
  /\ UNCHANGED <<events, warm, awaited, promised, conn, work, job, service, hardware, locks,
                 history>>

JoinWarmup ==
  /\ main[1] = "join" /\ warm[1] \in {"idle", "end"} /\ main' = <<"stop", 1>>
  /\ UNCHANGED <<events, warm, cancelled, awaited, promised, conn, work, job, service, hardware,
                 locks, history>>

\* stop(): StopGrabbing takes no lock, to end a capture that waits for its frame.
StopService(c) ==
  /\ main = <<"stop", c>> /\ main' = <<"drain", c>>
  /\ started' = Set(started, c, FALSE) /\ accept' = Set(accept, c, FALSE)
  /\ stopping' = Set(stopping, c, TRUE)
  /\ IF device[c] = "open"
     THEN grabbing' = Set(grabbing, c, FALSE) /\ link' = Set(link, c, None)
     ELSE UNCHANGED <<grabbing, link>>
  /\ UNCHANGED <<events, warm, cancelled, awaited, promised, conn, work, job, sdkReady, nextId,
                 queue, device, out, taken, locks, history>>

\* Mutant: the worker is not waited for.
JoinConnectOnly(c) ==
  /\ main = <<"drain", c>> /\ main' = <<"close", c>>
  /\ conn[c] \in {"none", "end"}
  /\ queue' = Set(queue, c, <<>>) /\ UNCHANGED stopping
  /\ UNCHANGED <<events, warm, cancelled, awaited, promised, conn, work, job, started, accept,
                 sdkReady, nextId, hardware, locks, history>>

\* joinWorkerThreads(): both threads, the worker after it drained the queue.
JoinWorkerThreads(c) ==
  /\ main = <<"drain", c>> /\ main' = <<"close", c>>
  /\ conn[c] \in {"none", "end"} /\ work[c] \in {"none", "end"}
  /\ queue' = Set(queue, c, <<>>) /\ stopping' = Set(stopping, c, FALSE)
  /\ UNCHANGED <<events, warm, cancelled, awaited, promised, conn, work, job, started, accept,
                 sdkReady, nextId, hardware, locks, history>>

\* closeDevice() under both locks, then the SDK is released.
CloseDevice(c) ==
  /\ main = <<"close", c>>
  /\ main' = IF c + 1 \in Camera THEN <<"stop", c + 1>> ELSE <<"done", 1>>
  /\ lifecycle[c] = Free /\ sdk = Free
  /\ device' = Set(device, c, "none") /\ grabbing' = Set(grabbing, c, FALSE)
  /\ link' = Set(link, c, None) /\ out' = Set(out, c, None)
  /\ sdkReady' = Set(sdkReady, c, FALSE)
  /\ UNCHANGED <<events, warm, cancelled, awaited, promised, conn, work, job, started, accept,
                 nextId, queue, stopping, taken, locks, history>>

--------------------------------------------------------------------------------

Work(c) ==
  NextJob(c) \/ EnsureConnected(c) \/ CopyHandle(c) \/ StopAndClear(c) \/ StartGrabbing(c)
  \/ GetFrame(c) \/ PostResult(c)

Warmup == \E c \in Camera : WaitCxpConnected(c) \/ AskWarmupFrame(c) \/ WaitWarmupFrame(c)

Posted == RunWarmupRequest \/ DeliverResult

ShutDown ==
  JoinWarmup \/ \E c \in Camera : StopService(c) \/ JoinWorkerThreads(c) \/ CloseDevice(c)

Next ==
  \/ Posted \/ WarmupBegins \/ Warmup \/ Quit \/ ShutDown
  \/ \E c \in Camera : StartService(c) \/ RequestMonoCapture(c) \/ Connect(c) \/ Work(c)
                       \/ Expose(c) \/ Arrive(c)

\* Threads run, mutexes are handed on, SDK calls return: their timeouts are finite.
Fairness ==
  /\ WF_vars(Posted) /\ WF_vars(ShutDown) /\ WF_vars(Warmup)
  /\ \A c \in Camera : SF_vars(Connect(c)) /\ SF_vars(Work(c))

Spec == Init /\ [][Next]_vars
FairSpec == Spec /\ Fairness

--------------------------------------------------------------------------------
\* Properties.

\* The capture uses a copy of the handle with no lock held: the device it names is open as
\* long as the calls last (captureMonoFrame(), closeDevice()).
HandleSafe ==
  \A c \in Camera : work[c] \in {"restart", "begin", "get", "retry"} => device[c] = "open"

\* A picture was exposed while its request was served: neither the link nor the SDK's queue
\* hands a request the frame of an earlier one (captureMonoFrame()).
FrameOfRequest ==
  \A c \in Camera : \A i \in 1..Len(delivered[c]) :
    LET r == delivered[c][i] IN r.ok => r.frame = Frame(r.id)

\* Every capture that was accepted is answered while the program runs, whatever the device
\* does (captureWorkerLoop()).
EveryRequestAnswered ==
  \A c \in Camera : \A n \in 1..(MaxRequest + 1) :
    (Len(accepted[c]) >= n) ~> (Len(delivered[c]) >= n \/ main[1] # "run")

\* Shutdown ends, though the main thread waits for a warm-up that waits for a result only the
\* main thread could deliver (printShutdownStatus(), captureCxpWarmupFrame()).
ShutdownEnds == (main[1] = "join") ~> (main[1] = "done")

\* Calls of the SDK are serialised over both cameras (the comment on g_cxpSdkMutex).
InSdk(t) == \E c \in Camera :
  \/ t = Connector(c) /\ conn[c] = "open"
  \/ t = Worker(c) /\ work[c] \in {"open", "restart", "begin", "get", "retry"}
SdkCallsSerial ==
  \A t, u \in {Connector(c) : c \in Camera} \cup {Worker(c) : c \in Camera} :
    InSdk(t) /\ InSdk(u) => t = u
================================================================================
