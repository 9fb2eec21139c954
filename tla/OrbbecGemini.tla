------------------------------ MODULE OrbbecGemini ------------------------------
(* The Orbbec depth camera (OrbbecGeminiService, OrbbecGeminiWorker): opened by    *)
(* the worker, which answers one capture at a time with a signal and a state.      *)
EXTENDS SensorService

CONSTANTS MaxRequest   \* bound: captures asked for

ASSUME OrbbecAssumption == MaxRequest \in Nat

VARIABLES
  busy,            \* m_busy
  captureOnStart,  \* the runtime's settings: it captures once when the camera opens
  requested,       \* how many captures requestCapture() accepted
  answered,        \* the outcomes of captureFinished() the service passed on, by request
  stream           \* the worker's pipeline, started

orbbecVars == <<busy, captureOnStart, requested, answered, stream>>

OrbbecInit ==
  /\ busy = FALSE /\ captureOnStart \in BOOLEAN /\ requested = 0
  /\ answered = <<>> /\ stream = FALSE

--------------------------------------------------------------------------------
\* requestCapture(): refused (0) unless Ready and not busy.
Accepts(s, b) == phase = "started" /\ ~b /\ s = "Ready" /\ requested < MaxRequest
Accept ==
  /\ busy' = TRUE /\ requested' = requested + 1
  /\ inbox' = Append(inbox, Call("capture", requested + 1))

RequestCapture ==
  /\ Accepts(state, busy) /\ Accept
  /\ UNCHANGED <<kind, phase, state, posted, worker, opened, captureOnStart, answered, stream>>

\* The service's slots.  The runtime's slot is called by the one for openFinished().
OrbbecStateChanged ==
  /\ OnWorkerStateChanged
  /\ busy' = (busy /\ Head(posted).value = "Capturing")
  /\ UNCHANGED <<captureOnStart, requested, answered, stream>>

OrbbecOpenFinished ==
  /\ Hears("open") /\ opened' = Head(posted).value
  /\ LET s == IF opened' = "yes" THEN "Ready" ELSE state
     IN /\ state' = s
        /\ IF opened' = "yes" /\ captureOnStart /\ Accepts(s, busy) THEN Accept
           ELSE UNCHANGED <<busy, requested, inbox>>
  /\ UNCHANGED <<kind, phase, worker, captureOnStart, answered, stream>>

OnWorkerCaptureFinished ==
  /\ Hears("capture") /\ busy' = FALSE
  /\ answered' = Append(answered, Head(posted).id)
  /\ UNCHANGED <<kind, phase, state, inbox, worker, opened, captureOnStart, requested, stream>>

OrbbecStop == StopService /\ busy' = FALSE /\ UNCHANGED <<captureOnStart, requested, answered, stream>>

--------------------------------------------------------------------------------
\* startWorker(): stopWorker() first, then the devices are listed, and one is opened.
OrbbecUnchanged == UNCHANGED <<kind, phase, state, opened, busy, captureOnStart, requested, answered>>

OrbbecStartWorker ==
  /\ worker = "idle" /\ Takes("start") /\ worker' = "enumerating"
  /\ Emit(<<StateIs("Stopped"), StateIs("Enumerating")>>)
  /\ OrbbecUnchanged /\ UNCHANGED stream

OpenFails ==
  /\ worker \in {"enumerating", "opening"} /\ worker' = "idle"
  /\ Emit(<<OpenIs("no"), StateIs("Failed")>>)
  /\ stream' = FALSE /\ OrbbecUnchanged /\ UNCHANGED inbox

OpenDevice ==
  /\ worker = "enumerating" /\ worker' = "opening" /\ Emit(<<StateIs("Opening")>>)
  /\ OrbbecUnchanged /\ UNCHANGED <<inbox, stream>>

Opened ==
  /\ worker = "opening" /\ worker' = "idle" /\ stream' = TRUE
  /\ Emit(<<StateIs("Ready"), OpenIs("yes")>>)
  /\ OrbbecUnchanged /\ UNCHANGED inbox

\* performCapture(): without a stream it is answered at once; else it takes its time, and its
\* call stays at the head of the inbox.
PerformCapture ==
  /\ worker = "idle" /\ inbox # <<>> /\ Head(inbox).what = "capture"
  /\ IF stream
     THEN worker' = "capturing" /\ Emit(<<StateIs("Capturing")>>) /\ UNCHANGED inbox
     ELSE Takes("capture") /\ Emit(<<CaptureIs("NotReady", Head(inbox).about)>>) /\ UNCHANGED worker
  /\ OrbbecUnchanged /\ UNCHANGED stream

Outcome == {"Success", "Timeout", "CaptureFailed", "SaveFailed"}

\* Mutant: the worker says it is ready before it hands over the result.
ReadyFirst ==
  /\ worker = "capturing" /\ Takes("capture") /\ worker' = "idle"
  /\ \E o \in Outcome : Emit(<<StateIs("Ready"), CaptureIs(o, Head(inbox).about)>>)
  /\ OrbbecUnchanged /\ UNCHANGED stream

EndCapture ==
  /\ worker = "capturing" /\ Takes("capture") /\ worker' = "idle"
  /\ \E o \in Outcome : Emit(<<CaptureIs(o, Head(inbox).about), StateIs("Ready")>>)
  /\ OrbbecUnchanged /\ UNCHANGED stream

OrbbecStopWorker ==
  /\ worker = "idle" /\ Takes("stop") /\ StopWorkerDone
  /\ stream' = FALSE /\ Emit(<<StateIs("Stopped")>>)
  /\ UNCHANGED <<worker, busy, captureOnStart, requested, answered>>

OrbbecMain ==
  RequestCapture \/ OrbbecStateChanged \/ OrbbecOpenFinished \/ OnWorkerCaptureFinished \/ OrbbecStop
OrbbecWorker ==
  OrbbecStartWorker \/ OpenFails \/ OpenDevice \/ Opened \/ PerformCapture \/ EndCapture \/ OrbbecStopWorker
OrbbecNext == kind = "orbbec" /\ (OrbbecMain \/ OrbbecWorker)

--------------------------------------------------------------------------------
\* Properties.

\* One capture at a time: a request is accepted only when the one before it is answered, however
\* the result, the states around it and the startup's capture interleave (requestCapture()).
OneCapture == requested <= Len(answered) + 1 /\ \A i \in DOMAIN answered : answered[i] = i

================================================================================
