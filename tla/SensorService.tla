----------------------------- MODULE SensorService -----------------------------
(* What the services of the three auxiliary sensors share, each a copy of one     *)
(* pattern: a service on the main thread, a worker on a thread of its own, queued *)
(* calls one way, queued signals the other, and a stop() that blocks until the     *)
(* worker ran stopWorker(), asks for its deletion and waits for its thread.        *)
(* The runtime starts each once and destroys it right after stop().                *)
EXTENDS Naturals, Sequences

CONSTANTS Kind   \* the sensors of the station, a subset of {"orbbec", "livox", "tfmini"}

VARIABLES
  kind,     \* the sensor this behaviour is about
  phase,    \* "created", "started", "stopping" (in the blocking call), "joining" (quit(), wait()) or "stopped"
  state,    \* m_currentState
  posted,   \* the worker's signals in the main thread's queue
  inbox,    \* the calls in the worker thread's queue
  worker,   \* "none", "idle", the phase of the slot it is in, "dangling", "crashed" or "gone"
  opened    \* what openFinished() told the runtime: "nothing", "yes" or "no"

serviceVars == <<kind, phase, state, posted, inbox, worker, opened>>

Call(what, about) == [what |-> what, about |-> about]
Nothing == 0
StateIs(s) == [what |-> "state", value |-> s, id |-> Nothing]
OpenIs(o) == [what |-> "open", value |-> o, id |-> Nothing]
CaptureIs(outcome, id) == [what |-> "capture", value |-> outcome, id |-> id]
Emit(signals) == posted' = posted \o signals

ServiceInit ==
  /\ kind \in Kind /\ phase = "created" /\ state = "NotStarted"
  /\ posted = <<>> /\ inbox = <<>> /\ worker = "none" /\ opened = "nothing"

--------------------------------------------------------------------------------
\* start(): a new thread and a new worker on it, which is told to start.
StartService ==
  /\ phase = "created" /\ phase' = "started"
  /\ state' = "Idle" /\ worker' = "idle" /\ inbox' = <<Call("start", Nothing)>>
  /\ UNCHANGED <<kind, posted, opened>>

\* stop(), up to the blocking call of stopWorker().
StopService ==
  /\ phase = "started" /\ phase' = "stopping"
  /\ inbox' = Append(inbox, Call("stop", Nothing))
  /\ UNCHANGED <<kind, state, posted, worker, opened>>

\* A call reaches the worker.
Takes(what) == inbox # <<>> /\ Head(inbox).what = what /\ inbox' = Tail(inbox)

\* stopWorker() is over: stop() goes on to deleteLater() and quit().
StopWorkerDone == phase' = "joining" /\ UNCHANGED <<kind, state, opened>>

\* The thread's loop ends; the worker is deleted, at the latest then.
EndThread ==
  /\ phase = "joining" /\ worker = "idle" /\ worker' = "gone" /\ inbox' = <<>>
  /\ UNCHANGED <<kind, phase, state, posted, opened>>

\* wait() returns; the service goes, and with it what was queued for it.
StopReturns ==
  /\ phase = "joining" /\ worker = "gone" /\ phase' = "stopped"
  /\ state' = "Stopped" /\ posted' = <<>>
  /\ UNCHANGED <<kind, inbox, worker, opened>>

\* A queued signal reaches the service: onWorkerStateChanged(), onWorkerOpenFinished().
Hears(what) == phase = "started" /\ posted # <<>> /\ Head(posted).what = what /\ posted' = Tail(posted)

OnWorkerStateChanged ==
  Hears("state") /\ state' = Head(posted).value /\ UNCHANGED <<kind, phase, inbox, worker, opened>>

--------------------------------------------------------------------------------
\* Properties.

\* Whoever waits for openFinished() after start() is told one way or the other
\* (startWorker(), finishDiscovery()).
OpenIsAnswered == (phase = "started") ~> (opened # "nothing" \/ phase # "started")

\* The worker is not deleted under a slot of its own: stop() says it blocks until the sensor is
\* released, then deletes, then quits.
WorkerOutlivesItsSlots == worker # "dangling"
================================================================================
