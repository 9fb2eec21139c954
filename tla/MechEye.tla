------------------------------- MODULE MechEye -------------------------------
(* The depth cameras: for each a MechEyeService on the main thread, which        *)
(* accepts one capture at a time, and a MechEyeWorker on a thread of its own.    *)
(* Qt queues carry calls to the worker and its signals back, in order.           *)
EXTENDS Naturals, Sequences

CONSTANTS
  Camera  \* the cameras (telescopic rod, robot arm)

VARIABLES
  service,  \* per camera: m_busy, m_currentState, m_nextRequestId
  calls,    \* per camera: the calls queued for the worker
  worker,   \* per camera: m_connected, m_state, and the capture it performs
  signals   \* per camera: the worker's signals queued for the service

mechVars == <<service, calls, worker, signals>>

\* A capture has its number and, for the properties, the bundle it was asked for
\* (0: by the HMI); number 0 is a call of refreshStatus().
Call == [id : Nat, by : Nat]
RefreshStatus == [id |-> 0, by |-> 0]
NoJob == [id |-> 0, by |-> 0, ended |-> FALSE]

Says(state) == [kind |-> "state", state |-> state]
Done(call) == [kind |-> "done", id |-> call.id, by |-> call.by]
Fatal == [kind |-> "fatal"]

--------------------------------------------------------------------------------
\* The service.

Accepts(c) == ~service[c].busy /\ service[c].state = "ready"

RequestCapture(c, by) ==
  /\ Accepts(c)
  /\ service' = [service EXCEPT ![c].busy = TRUE, ![c].next = @ + 1]
  /\ calls' = [calls EXCEPT ![c] = Append(@, [id |-> service[c].next, by |-> by])]
  /\ UNCHANGED <<worker, signals>>

RequestRefreshStatus(c) ==
  /\ calls' = [calls EXCEPT ![c] = Append(@, RefreshStatus)]
  /\ UNCHANGED <<service, worker, signals>>

\* Any signal but "capturing" ends the service's busy state, whatever capture it
\* is about.
ServiceHears(c) ==
  LET signal == Head(signals[c])
  IN /\ signals[c] # <<>>
     /\ signals' = [signals EXCEPT ![c] = Tail(@)]
     /\ service' =
          IF signal.kind = "state"
          THEN [service EXCEPT ![c].state = signal.state,
                               ![c].busy = @ /\ signal.state = "capturing"]
          ELSE [service EXCEPT ![c].busy = FALSE]
     /\ UNCHANGED <<calls, worker>>

--------------------------------------------------------------------------------
\* The worker.

Take(c) == calls' = [calls EXCEPT ![c] = Tail(@)]

Emit(c, s) == signals' = [signals EXCEPT ![c] = @ \o s]

\* mechEyeSdkMutex(): the camera library serves one worker at a time, from the
\* beginning of a call to its end.
SdkFree == \A c \in Camera : worker[c].job = NoJob

\* refreshStatus(): a connected camera repeats the state the worker has, which is
\* "offline" if an earlier refresh failed; a lost one is connected again.
WorkerRefreshes(c) ==
  LET state == worker[c].state
  IN /\ SdkFree
     /\ calls[c] # <<>> /\ Head(calls[c]) = RefreshStatus
     /\ Take(c)
     /\ \/ /\ worker[c].connected /\ Emit(c, <<Says(state)>>)
           /\ UNCHANGED worker
        \/ /\ ~worker[c].connected /\ Emit(c, <<Says("offline"), Says("ready")>>)
           /\ worker' = [worker EXCEPT ![c].connected = TRUE, ![c].state = "ready"]
        \/ /\ Emit(c, <<Says("offline")>>)
           /\ \E still \in {FALSE, worker[c].connected} :
                worker' = [worker EXCEPT ![c].connected = still, ![c].state = "offline"]
     /\ UNCHANGED service

\* Mutant: a camera that cannot be connected gives no answer.
WorkerRefusesSilently(c) ==
  /\ SdkFree
  /\ calls[c] # <<>> /\ Head(calls[c]) # RefreshStatus
  /\ ~worker[c].connected
  /\ Take(c) /\ Emit(c, <<Says("offline")>>)
  /\ UNCHANGED <<service, worker>>

\* performCapture() on a connected camera, or one it can connect.
WorkerBegins(c) ==
  LET call == Head(calls[c])
      connecting == IF worker[c].connected THEN <<>> ELSE <<Says("offline")>>
  IN /\ SdkFree
     /\ calls[c] # <<>> /\ call # RefreshStatus
     /\ Take(c)
     /\ Emit(c, connecting \o <<Says("capturing")>>)
     /\ worker' = [worker EXCEPT ![c] =
          [connected |-> TRUE, state |-> "capturing",
           job |-> [id |-> call.id, by |-> call.by, ended |-> FALSE]]]
     /\ UNCHANGED service

\* The camera cannot be connected: the capture fails at once.  When the network
\* check fails no state is announced.
WorkerRefuses(c) ==
  LET call == Head(calls[c])
  IN /\ SdkFree
     /\ calls[c] # <<>> /\ call # RefreshStatus
     /\ ~worker[c].connected
     /\ Take(c)
     /\ \/ Emit(c, <<Done(call)>>) /\ UNCHANGED worker
        \/ /\ Emit(c, <<Says("offline"), Done(call)>>)
           /\ worker' = [worker EXCEPT ![c].state = "offline"]
     /\ UNCHANGED service

\* The camera's answer: the state is announced first, the result in a step of its
\* own, since the main thread may run in between.  An exception is announced too.
WorkerEnds(c) ==
  /\ worker[c].job # NoJob /\ ~worker[c].job.ended
  /\ \/ /\ Emit(c, <<Says("ready")>>)
        /\ worker' = [worker EXCEPT ![c].state = "ready", ![c].job.ended = TRUE]
     \/ /\ \E rest \in {<<>>, <<Fatal>>} : Emit(c, <<Says("offline")>> \o rest)
        /\ worker' = [worker EXCEPT ![c].state = "offline", ![c].connected = FALSE,
                                    ![c].job.ended = TRUE]
  /\ UNCHANGED <<service, calls>>

WorkerAnswers(c) ==
  /\ worker[c].job.ended
  /\ Emit(c, <<Done(worker[c].job)>>)
  /\ worker' = [worker EXCEPT ![c].job = NoJob]
  /\ UNCHANGED <<service, calls>>

WorkerSteps(c) ==
  \/ WorkerRefreshes(c)
  \/ WorkerBegins(c)
  \/ WorkerRefuses(c)
  \/ WorkerEnds(c)
  \/ WorkerAnswers(c)

\* start() waits for the worker to connect; the camera may be missing.
MechInit ==
  /\ \E online \in [Camera -> BOOLEAN] :
       LET state(c) == IF online[c] THEN "ready" ELSE "offline"
       IN /\ service = [c \in Camera |-> [busy |-> FALSE, state |-> state(c), next |-> 1]]
          /\ worker = [c \in Camera |->
                         [connected |-> online[c], state |-> state(c), job |-> NoJob]]
  /\ calls = [c \in Camera |-> <<>>]
  /\ signals = [c \in Camera |-> <<>>]
================================================================================
