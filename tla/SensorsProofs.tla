----------------------------- MODULE SensorsProofs -----------------------------
(* The auxiliary sensors, whatever the network, the bounds and the station hold:   *)
(* the lidar's callback never meets a worker that is gone, the depth camera answers *)
(* one capture at a time, in order, and the range finder loses no frame.             *)
EXTENDS Sensors, FiniteSetTheorems, SequenceTheorems, TLAPS

Called == [what : {"start", "stop", "device", "capture"}, about : Device \cup Nat]

\* The start is the first call the worker gets, and none waits for it once it stopped.
StartIsFirst ==
  \A i \in 1..Len(inbox) : inbox[i].what = "start" => i = 1 /\ phase \in {"started", "stopping"}

\* The callback is set by the worker's start and unset before its thread may end.
SetWhileStarted ==
  activeWorker => kind = "livox" /\ phase \in {"started", "stopping"}

CallbackInv ==
  /\ inbox \in Seq(Called) /\ inCall \in Device \cup {Nothing} /\ requested \in Nat
  /\ phase = "created" => worker = "none" /\ inbox = <<>>
  /\ StartIsFirst /\ SetWhileStarted /\ CallbackFindsWorker

--------------------------------------------------------------------------------
LEMMA InitCallback == Init => CallbackInv
  BY DEF Init, ServiceInit, OrbbecInit, LivoxInit, CallbackInv, StartIsFirst, SetWhileStarted,
         CallbackFindsWorker

\* A call is taken off the inbox, or another one than the start joins it.
LEMMA TakenKeeps ==
  ASSUME NEW what, inbox \in Seq(Called), Takes(what), StartIsFirst
  PROVE  /\ inbox' \in Seq(Called) /\ \A i \in 1..Len(inbox') : inbox'[i].what # "start"
         /\ what = "start" => phase \in {"started", "stopping"}
<1>1. inbox # <<>> /\ inbox' = Tail(inbox) /\ inbox[1].what = what
  BY DEF Takes
<1>2. \A i \in 1..Len(inbox') : inbox'[i] = inbox[i + 1] /\ i + 1 \in 1..Len(inbox)
  BY <1>1
<1> QED
  BY <1>1, <1>2 DEF StartIsFirst

LEMMA AppendedKeeps ==
  ASSUME NEW c \in Called, c.what # "start", inbox \in Seq(Called), inbox' = Append(inbox, c),
         StartIsFirst, phase' = phase \/ phase' = "stopping"
  PROVE  inbox' \in Seq(Called) /\ StartIsFirst'
  BY DEF StartIsFirst

--------------------------------------------------------------------------------
\* What all three services do, step by step.
LEMMA CommonKeeps == CallbackInv /\ Common => CallbackInv'
<1> SUFFICES ASSUME CallbackInv, Common PROVE CallbackInv'
  OBVIOUS
<1> USE DEF CallbackInv, SetWhileStarted, CallbackFindsWorker
<1>0. activeWorker' = activeWorker /\ inCall' = inCall /\ requested' = requested
  BY DEF Common, orbbecVars, livoxVars
<1>1. CASE StartService
  <2>1. inbox' = <<Call("start", Nothing)>> /\ Call("start", Nothing) \in Called
    BY <1>1 DEF StartService, Called, Call, Nothing
  <2>2. inbox' \in Seq(Called) /\ StartIsFirst'
    BY <1>1, <2>1 DEF StartService, StartIsFirst, Call
  <2> QED
    BY <1>0, <1>1, <2>2 DEF StartService
<1>2. CASE EndThread
  BY <1>0, <1>2 DEF EndThread, StartIsFirst
<1>3. CASE StopReturns
  BY <1>0, <1>3 DEF StopReturns, StartIsFirst
<1> QED
  BY <1>1, <1>2, <1>3 DEF Common

\* The depth camera and the range finder leave the callback alone, and take and get calls.
LEMMA OthersKeep ==
  ASSUME CallbackInv, kind # "livox", UNCHANGED livoxVars, requested' \in Nat,
         kind' = kind, phase # "created" \/ UNCHANGED <<phase, worker, inbox>>,
         phase' \in {phase, "stopping", "joining"}, phase' = "created" => phase = "created",
         inbox' \in Seq(Called), StartIsFirst'
  PROVE  CallbackInv'
  BY DEF CallbackInv, SetWhileStarted, CallbackFindsWorker, livoxVars

LEMMA OrbbecKeeps == CallbackInv /\ OrbbecNext /\ UNCHANGED livoxVars => CallbackInv'
<1> SUFFICES ASSUME CallbackInv, OrbbecNext, UNCHANGED livoxVars PROVE CallbackInv'
  OBVIOUS
<1>0. /\ kind # "livox" /\ inbox \in Seq(Called) /\ requested \in Nat /\ StartIsFirst
      /\ phase = "created" => worker = "none" /\ inbox = <<>>
  BY DEF OrbbecNext, CallbackInv
<1> DEFINE request == Call("capture", requested + 1)
<1>1. request \in Called /\ request.what = "capture"
  BY <1>0 DEF Call, Called
<1> HIDE DEF request
<1>2. CASE RequestCapture
  <2>1. phase = "started" /\ inbox' = Append(inbox, request) /\ UNCHANGED <<kind, phase, worker>>
    BY <1>2 DEF RequestCapture, Accepts, Accept, request
  <2>2. inbox' \in Seq(Called) /\ StartIsFirst'
    BY <1>0, <1>1, <2>1, AppendedKeeps
  <2>3. requested' \in Nat
    BY <1>0, <1>2 DEF RequestCapture, Accept
  <2> QED
    BY <1>0, <2>1, <2>2, <2>3, OthersKeep
<1>3. CASE OrbbecOpenFinished
  <2>1. phase = "started" /\ UNCHANGED <<kind, phase, worker>>
    BY <1>3 DEF OrbbecOpenFinished, Hears
  <2>2. inbox' = inbox \/ inbox' = Append(inbox, request)
    BY <1>3 DEF OrbbecOpenFinished, Accept, request
  <2>3. inbox' \in Seq(Called) /\ StartIsFirst'
    BY <1>0, <1>1, <2>1, <2>2, AppendedKeeps DEF StartIsFirst
  <2>4. requested' \in Nat
    BY <1>0, <1>3 DEF OrbbecOpenFinished, Accept
  <2> QED
    BY <1>0, <2>1, <2>3, <2>4, OthersKeep
<1>4. CASE OrbbecStateChanged \/ OnWorkerCaptureFinished
  <2>1. phase = "started" /\ UNCHANGED <<kind, phase, inbox, requested>>
    BY <1>4 DEF OrbbecStateChanged, OnWorkerStateChanged, OnWorkerCaptureFinished, Hears
  <2> QED
    BY <1>0, <2>1, OthersKeep DEF StartIsFirst
<1>5. CASE OrbbecStop
  <2>1. /\ phase = "started" /\ phase' = "stopping" /\ UNCHANGED <<kind, requested>>
        /\ inbox' = Append(inbox, Call("stop", Nothing))
    BY <1>5 DEF OrbbecStop, StopService
  <2>2. Call("stop", Nothing) \in Called /\ Call("stop", Nothing).what = "stop"
    BY DEF Call, Called, Nothing
  <2>3. inbox' \in Seq(Called) /\ StartIsFirst'
    BY <1>0, <2>1, <2>2, AppendedKeeps
  <2> QED
    BY <1>0, <2>1, <2>3, OthersKeep
<1>6. CASE OrbbecWorker
  <2>1. requested' = requested /\ kind' = kind
    BY <1>6 DEF OrbbecWorker, OrbbecStartWorker, OpenFails, OpenDevice, Opened, PerformCapture,
                EndCapture, OrbbecStopWorker, OrbbecUnchanged, StopWorkerDone
  <2>2. worker # "none"
    BY <1>6 DEF OrbbecWorker, OrbbecStartWorker, OpenFails, OpenDevice, Opened, PerformCapture,
                EndCapture, OrbbecStopWorker
  <2>3. CASE OrbbecStopWorker
    <3>1. Takes("stop") /\ phase' = "joining"
      BY <2>3 DEF OrbbecStopWorker, StopWorkerDone
    <3>2. inbox' \in Seq(Called) /\ StartIsFirst'
      BY <1>0, <3>1, TakenKeeps DEF StartIsFirst
    <3> QED
      BY <1>0, <2>1, <2>2, <3>1, <3>2, OthersKeep
  <2>4. CASE \E what : Takes(what) /\ phase' = phase
    <3>1. inbox' \in Seq(Called) /\ StartIsFirst'
      BY <1>0, <2>4, TakenKeeps DEF StartIsFirst
    <3> QED
      BY <1>0, <2>1, <2>2, <2>4, <3>1, OthersKeep
  <2>5. CASE UNCHANGED <<inbox, phase>>
    BY <1>0, <2>1, <2>2, <2>5, OthersKeep DEF StartIsFirst
  <2> QED
    BY <1>6, <2>3, <2>4, <2>5
    DEF OrbbecWorker, OrbbecStartWorker, OpenFails, OpenDevice, Opened, PerformCapture, EndCapture,
        OrbbecUnchanged
<1> QED
  BY <1>2, <1>3, <1>4, <1>5, <1>6 DEF OrbbecNext, OrbbecMain

LEMMA TfminiKeeps ==
  CallbackInv /\ TfminiNext /\ UNCHANGED <<orbbecVars, livoxVars>> => CallbackInv'
<1> SUFFICES ASSUME CallbackInv, TfminiNext, UNCHANGED <<orbbecVars, livoxVars>> PROVE CallbackInv'
  OBVIOUS
<1>0. /\ kind # "livox" /\ inbox \in Seq(Called) /\ requested' \in Nat /\ StartIsFirst
      /\ phase = "created" => worker = "none" /\ inbox = <<>>
  BY DEF TfminiNext, CallbackInv, orbbecVars
<1>1. CASE TfminiStop
  <2>1. /\ phase = "started" /\ phase' = "stopping" /\ kind' = kind
        /\ inbox' = Append(inbox, Call("stop", Nothing))
    BY <1>1 DEF TfminiStop, StopService
  <2>2. Call("stop", Nothing) \in Called /\ Call("stop", Nothing).what = "stop"
    BY DEF Call, Called, Nothing
  <2>3. inbox' \in Seq(Called) /\ StartIsFirst'
    BY <1>0, <2>1, <2>2, AppendedKeeps
  <2> QED
    BY <1>0, <2>1, <2>3, OthersKeep
<1>2. CASE TfminiStateChanged \/ TfminiOpenFinished \/ OnSerialError \/ SensorSends \/ OnReadyRead
  <2>1. UNCHANGED <<kind, phase, inbox, worker>>
    BY <1>2 DEF TfminiStateChanged, OnWorkerStateChanged, TfminiOpenFinished, OnSerialError,
                SensorSends, OnReadyRead, TfminiUnchanged, serviceVars
  <2> QED
    BY <1>0, <2>1, OthersKeep DEF StartIsFirst
<1>3. CASE TfminiStartWorker \/ TfminiStopWorker
  <2>1. kind' = kind /\ worker = "idle" /\ phase' \in {phase, "joining"}
    BY <1>3 DEF TfminiStartWorker, TfminiStopWorker, TfminiUnchanged, StopWorkerDone
  <2>2. \E what : Takes(what)
    BY <1>3 DEF TfminiStartWorker, TfminiStopWorker
  <2>3. inbox' \in Seq(Called) /\ StartIsFirst'
    BY <1>0, <2>2, TakenKeeps DEF StartIsFirst
  <2> QED
    BY <1>0, <2>1, <2>3, OthersKeep
<1> QED
  BY <1>1, <1>2, <1>3 DEF TfminiNext, TfminiMain, TfminiWorker

--------------------------------------------------------------------------------
LEMMA LivoxKeeps ==
  CallbackInv /\ LivoxNext /\ UNCHANGED orbbecVars => CallbackInv'
<1> SUFFICES ASSUME CallbackInv, LivoxNext, UNCHANGED orbbecVars PROVE CallbackInv'
  OBVIOUS
<1> USE DEF CallbackInv, SetWhileStarted, CallbackFindsWorker
<1>0. requested' = requested
  BY DEF orbbecVars
<1>1. CASE LivoxStateChanged \/ LivoxOpenFinished
  BY <1>0, <1>1 DEF LivoxStateChanged, LivoxOpenFinished, OnWorkerStateChanged, Hears, livoxVars,
                    StartIsFirst
<1>2. CASE LivoxStop
  <2>1. Call("stop", Nothing) \in Called /\ Call("stop", Nothing).what = "stop"
    BY DEF Call, Called, Nothing
  <2>2. inbox' \in Seq(Called) /\ StartIsFirst'
    BY <1>2, <2>1, AppendedKeeps DEF LivoxStop, StopService
  <2> QED
    BY <1>0, <1>2, <2>2 DEF LivoxStop, StopService, livoxVars
<1>3. ASSUME NEW d \in Device, SdkCalls(d) PROVE CallbackInv'
  BY <1>0, <1>3 DEF SdkCalls, serviceVars, StartIsFirst
<1>4. CASE LivoxInfoChangeCallback
  <2>1. Call("device", inCall) \in Called /\ Call("device", inCall).what = "device"
    BY DEF Call, Called, Nothing
  <2>2. inbox' \in Seq(Called) /\ StartIsFirst'
    <3>1. CASE activeWorker
      BY <1>4, <2>1, <3>1, AppendedKeeps DEF LivoxInfoChangeCallback
    <3>2. CASE ~activeWorker
      BY <1>4, <3>2 DEF LivoxInfoChangeCallback, StartIsFirst
    <3> QED
      BY <3>1, <3>2
  <2> QED
    BY <1>0, <1>4, <2>2 DEF LivoxInfoChangeCallback
<1>5. CASE LivoxStartFails \/ LivoxStartWorker \/ OnDeviceDiscovered
  <2>1. UNCHANGED <<kind, phase, inCall>> /\ worker \in {"idle", "discovering"}
    BY <1>5 DEF LivoxStartFails, LivoxStartWorker, OnDeviceDiscovered, LivoxUnchanged
  <2>2. \E what : Takes(what)
    BY <1>5 DEF LivoxStartFails, LivoxStartWorker, OnDeviceDiscovered
  <2>3. inbox' \in Seq(Called) /\ StartIsFirst'
    BY <2>2, TakenKeeps DEF StartIsFirst
  <2>4. CASE LivoxStartWorker
    <3>1. phase \in {"started", "stopping"} /\ kind = "livox"
      BY <2>4, TakenKeeps DEF LivoxStartWorker, LivoxNext
    <3> QED
      BY <1>0, <2>1, <2>3, <2>4, <3>1 DEF LivoxStartWorker
  <2>5. CASE LivoxStartFails \/ OnDeviceDiscovered
    BY <1>0, <2>1, <2>3, <2>5 DEF LivoxStartFails, OnDeviceDiscovered
  <2> QED
    BY <1>5, <2>4, <2>5
<1>6. CASE LivoxStopWorker
  <2>1. inbox' \in Seq(Called) /\ StartIsFirst'
    BY <1>6, TakenKeeps DEF LivoxStopWorker, StartIsFirst
  <2> QED
    BY <1>0, <1>6, <2>1 DEF LivoxStopWorker, StopWorkerDone
<1>7. CASE OnDiscoveryTimeout \/ FinishDiscovery
  <2>1. UNCHANGED <<kind, phase, inbox, inCall>> /\ worker = "discovering"
    BY <1>7 DEF OnDiscoveryTimeout, FinishDiscovery, LivoxUnchanged
  <2>2. worker' \in {"idle", "discovering"}
    BY <1>7 DEF OnDiscoveryTimeout, FinishDiscovery
  <2>3. activeWorker' => activeWorker
    BY <1>7 DEF OnDiscoveryTimeout, FinishDiscovery
  <2> QED
    BY <1>0, <2>1, <2>2, <2>3 DEF StartIsFirst
<1>8. CASE DeleteInLoop \/ LeaveDangling
  <2>1. UNCHANGED <<kind, phase, inCall, activeWorker>> /\ worker \notin {"none", "idle"}
    BY <1>8 DEF DeleteInLoop, LeaveDangling, LivoxUnchanged
  <2>2. ~activeWorker
    BY <1>8 DEF DeleteInLoop, LeaveDangling
  <2>3. inbox' \in Seq(Called) /\ StartIsFirst'
    <3>1. CASE inbox' = <<>>
      BY <3>1 DEF StartIsFirst
    <3>2. CASE inbox' = inbox
      BY <2>1, <3>2 DEF StartIsFirst
    <3> QED
      BY <1>8, <3>1, <3>2 DEF DeleteInLoop, LeaveDangling
  <2> QED
    BY <1>0, <2>1, <2>2, <2>3
<1> QED
  BY <1>1, <1>2, <1>3, <1>4, <1>5, <1>6, <1>7, <1>8 DEF LivoxNext, LivoxMain, LivoxSdk, LivoxWorker

LEMMA CallbackKept == CallbackInv /\ [Next]_vars => CallbackInv'
<1>1. CallbackInv /\ UNCHANGED vars => CallbackInv'
  BY DEF CallbackInv, SetWhileStarted, CallbackFindsWorker, StartIsFirst, vars, serviceVars,
         orbbecVars, livoxVars
<1> QED
  BY <1>1, CommonKeeps, OrbbecKeeps, TfminiKeeps, LivoxKeeps DEF Next

\* Whenever the SDK's callback gets its lock and finds a worker, the worker is there.
THEOREM CallbackMeetsWorker == Spec => []CallbackFindsWorker
<1>1. CallbackInv => CallbackFindsWorker
  BY DEF CallbackInv
<1> QED
  BY InitCallback, CallbackKept, <1>1, PTL DEF Spec

--------------------------------------------------------------------------------
\* One capture at a time.  What the depth camera's two sides have between them, as long as the
\* service runs, is one of seven situations.
Early == {StateIs(s) : s \in {"Stopped", "Enumerating", "Opening", "Failed"}} \cup {OpenIs("no")}
IsOpen == OpenIs("yes")
IsReady == StateIs("Ready")
IsCapturing == StateIs("Capturing")
Start == Call("start", Nothing)
TheCapture == Call("capture", requested)

Untouched == requested = 0 /\ answered = <<>> /\ busy = FALSE
Created ==
  /\ Untouched /\ stream = FALSE /\ worker = "none" /\ inbox = <<>> /\ posted = <<>>
Opening ==
  /\ Untouched /\ stream = FALSE /\ state # "Ready" /\ posted \in Seq(Early)
  /\ worker \in {"idle", "enumerating", "opening"}
  /\ inbox = <<>> \/ (inbox = <<Start>> /\ worker = "idle")
JustOpened ==
  /\ Untouched /\ stream = TRUE /\ state # "Ready" /\ worker = "idle" /\ inbox = <<>>
  /\ \E q \in Seq(Early) : posted = Append(Append(q, IsReady), IsOpen)

NoneOut == requested = Len(answered) /\ busy = FALSE /\ stream = TRUE /\ worker = "idle" /\ inbox = <<>>
Waiting == NoneOut /\ state = "Ready" /\ posted \in {<<>>, <<IsOpen>>}
Settling == NoneOut /\ state = "Capturing" /\ posted = <<IsReady>>

OneOut == requested = Len(answered) + 1 /\ busy = TRUE /\ stream = TRUE
Asked ==
  /\ OneOut /\ worker = "idle" /\ inbox = <<TheCapture>>
  /\ state = "Ready" /\ posted \in {<<>>, <<IsOpen>>}
Taking ==
  /\ OneOut /\ worker = "capturing" /\ inbox = <<TheCapture>>
  /\ \/ state = "Ready" /\ posted \in {<<IsOpen, IsCapturing>>, <<IsCapturing>>}
     \/ state = "Capturing" /\ posted = <<>>
Taken ==
  /\ OneOut /\ worker = "idle" /\ inbox = <<>>
  /\ \E o \in Outcome :
       LET answer == CaptureIs(o, requested)
       IN \/ /\ state = "Ready"
             /\ posted \in {<<IsOpen, IsCapturing, answer, IsReady>>, <<IsCapturing, answer, IsReady>>}
          \/ state = "Capturing" /\ posted = <<answer, IsReady>>

Situation == Opening \/ JustOpened \/ Waiting \/ Settling \/ Asked \/ Taking \/ Taken

Counted ==
  /\ answered \in Seq(Nat) /\ \A i \in 1..Len(answered) : answered[i] = i
  /\ requested \in {Len(answered), Len(answered) + 1}

CaptureInv ==
  /\ Counted
  /\ kind = "orbbec" /\ phase = "created" => Created
  /\ kind = "orbbec" /\ phase = "started" => Situation

LEMMA InitCapture == Init => CaptureInv
  BY DEF Init, ServiceInit, OrbbecInit, CaptureInv, Counted, Created, Untouched

\* Signals join what is posted one after the other.
LEMMA EmitOne == ASSUME NEW S, NEW s \in Seq(S), NEW a \in S PROVE s \o <<a>> = Append(s, a)
  OBVIOUS

LEMMA EmitTwo ==
  ASSUME NEW S, NEW s \in Seq(S), NEW a \in S, NEW b \in S
  PROVE  s \o <<a, b>> = Append(Append(s, a), b)
<1>1. <<a, b>> \in Seq(S) /\ Append(Append(s, a), b) \in Seq(S) /\ s \o <<a, b>> \in Seq(S)
  OBVIOUS
<1>2. Len(s \o <<a, b>>) = Len(Append(Append(s, a), b))
  OBVIOUS
<1>3. \A i \in 1..Len(s \o <<a, b>>) : (s \o <<a, b>>)[i] = Append(Append(s, a), b)[i]
  OBVIOUS
<1> QED
  BY <1>1, <1>2, <1>3, SeqEqual

LEMMA AppendToOne ==
  ASSUME NEW a, NEW b PROVE Append(<<a>>, b) = <<a, b>>
<1> DEFINE S == {a, b}
<1> DEFINE s == Append(<<a>>, b)
<1> DEFINE t == <<a, b>>
<1>1. s \in Seq(S) /\ t \in Seq(S) /\ Len(s) = 2 /\ Len(t) = 2
  OBVIOUS
<1>2. s[1] = t[1] /\ s[2] = t[2]
  OBVIOUS
<1>3. \A i \in 1..Len(s) : i \in {1, 2}
  BY <1>1
<1> HIDE DEF s, t, S
<1>4. s = t
  BY <1>1, <1>2, <1>3, SeqEqual
<1> QED
  BY <1>4 DEF s, t

LEMMA AppendToTwo ==
  ASSUME NEW a, NEW b, NEW c PROVE Append(<<a, b>>, c) = <<a, b, c>>
<1> DEFINE S == {a, b, c}
<1> DEFINE s == Append(<<a, b>>, c)
<1> DEFINE t == <<a, b, c>>
<1>1. s \in Seq(S) /\ t \in Seq(S) /\ Len(s) = 3 /\ Len(t) = 3
  OBVIOUS
<1>2. s[1] = t[1] /\ s[2] = t[2] /\ s[3] = t[3]
  OBVIOUS
<1>3. \A i \in 1..Len(s) : i \in {1, 2, 3}
  BY <1>1
<1> HIDE DEF s, t, S
<1>4. s = t
  BY <1>1, <1>2, <1>3, SeqEqual
<1> QED
  BY <1>4 DEF s, t

LEMMA AppendToThree ==
  ASSUME NEW a, NEW b, NEW c, NEW d PROVE Append(<<a, b, c>>, d) = <<a, b, c, d>>
<1> DEFINE S == {a, b, c, d}
<1> DEFINE s == Append(<<a, b, c>>, d)
<1> DEFINE t == <<a, b, c, d>>
<1>1. s \in Seq(S) /\ t \in Seq(S) /\ Len(s) = 4 /\ Len(t) = 4
  OBVIOUS
<1>2. s[1] = t[1] /\ s[2] = t[2] /\ s[3] = t[3] /\ s[4] = t[4]
  OBVIOUS
<1>3. \A i \in 1..Len(s) : i \in {1, 2, 3, 4}
  BY <1>1
<1> HIDE DEF s, t, S
<1>4. s = t
  BY <1>1, <1>2, <1>3, SeqEqual
<1> QED
  BY <1>4 DEF s, t

LEMMA EmitAlone ==
  ASSUME NEW a, NEW b PROVE <<>> \o <<a>> = <<a>> /\ <<a>> \o <<b>> = <<a, b>>
<1>1. <<>> \o <<a>> = <<a>>
  OBVIOUS
<1>2. <<a>> \in Seq({a, b}) /\ b \in {a, b}
  OBVIOUS
<1>3. <<a>> \o <<b>> = Append(<<a>>, b)
  BY <1>2, EmitOne
<1> QED
  BY <1>1, <1>3, AppendToOne

LEMMA EmitAfterOne == ASSUME NEW a, NEW c, NEW d PROVE <<a>> \o <<c, d>> = <<a, c, d>>
<1> DEFINE S == {a, c, d}
<1>1. <<a>> \in Seq(S) /\ c \in S /\ d \in S
  OBVIOUS
<1> HIDE DEF S
<1>2. <<a>> \o <<c, d>> = Append(Append(<<a>>, c), d)
  BY <1>1, EmitTwo
<1> QED
  BY <1>2, AppendToOne, AppendToTwo

LEMMA EmitAfterTwo == ASSUME NEW a, NEW b, NEW c, NEW d PROVE <<a, b>> \o <<c, d>> = <<a, b, c, d>>
<1> DEFINE S == {a, b, c, d}
<1>1. <<a, b>> \in Seq(S) /\ c \in S /\ d \in S
  OBVIOUS
<1> HIDE DEF S
<1>2. <<a, b>> \o <<c, d>> = Append(Append(<<a, b>>, c), d)
  BY <1>1, EmitTwo
<1>3. Append(<<a, b>>, c) = <<a, b, c>>
  BY AppendToTwo
<1>4. Append(<<a, b, c>>, d) = <<a, b, c, d>>
  BY AppendToThree
<1> QED
  BY <1>2, <1>3, <1>4, Zenon

--------------------------------------------------------------------------------
\* The worker's steps, from one situation to the next.
LEMMA WorkerMovesOn ==
  CaptureInv /\ kind = "orbbec" /\ phase = "started" /\ OrbbecWorker /\ phase' = "started" => Situation'
<1> SUFFICES ASSUME Counted, Situation, kind = "orbbec", phase = "started", OrbbecWorker,
                    phase' = "started"
             PROVE  Situation'
  BY DEF CaptureInv
<1>0. /\ Start.what = "start" /\ TheCapture.what = "capture" /\ TheCapture.about = requested
      /\ Head(<<Start>>) = Start /\ Head(<<TheCapture>>) = TheCapture
      /\ Tail(<<Start>>) = <<>> /\ Tail(<<TheCapture>>) = <<>>
  BY DEF Start, TheCapture, Call
<1>1. CASE OrbbecStartWorker
  <2>1. Opening /\ UNCHANGED <<requested, answered, busy, stream, state>> /\ worker' = "enumerating"
    BY <1>0, <1>1 DEF OrbbecStartWorker, OrbbecUnchanged, Takes, Situation, Opening, JustOpened,
       Waiting, Settling, NoneOut, Asked, Taking, Taken
  <2>2. inbox' = <<>>
    BY <1>0, <1>1, <2>1 DEF OrbbecStartWorker, Takes, Opening
  <2>3. <<StateIs("Stopped"), StateIs("Enumerating")>> \in Seq(Early) /\ posted \in Seq(Early)
    BY <2>1 DEF Early, Opening
  <2>4. posted' \in Seq(Early)
    BY <1>1, <2>3 DEF OrbbecStartWorker, Emit
  <2> QED
    BY <2>1, <2>2, <2>4 DEF Situation, Opening, Untouched
<1>2. CASE OpenFails \/ OpenDevice
  <2>1. Opening /\ UNCHANGED <<requested, answered, busy, state, inbox>>
    BY <1>2 DEF OpenFails, OpenDevice, OrbbecUnchanged, Situation, JustOpened,
       Waiting, Settling, NoneOut, Asked, Taking, Taken
  <2>2. worker' \in {"idle", "opening"} /\ stream' = FALSE /\ inbox' = <<>>
    BY <1>2, <2>1 DEF OpenFails, OpenDevice, Opening
  <2>3. /\ <<OpenIs("no"), StateIs("Failed")>> \in Seq(Early) /\ <<StateIs("Opening")>> \in Seq(Early)
        /\ posted \in Seq(Early)
    BY <2>1 DEF Early, Opening
  <2>4. posted' \in Seq(Early)
    <3>1. \/ posted' = posted \o <<OpenIs("no"), StateIs("Failed")>>
          \/ posted' = posted \o <<StateIs("Opening")>>
      BY <1>2 DEF OpenFails, OpenDevice, Emit
    <3> QED
      BY <2>3, <3>1, ConcatProperties
  <2> QED
    BY <2>1, <2>2, <2>4 DEF Situation, Opening, Untouched
<1>3. CASE Opened
  <2>1. Opening /\ UNCHANGED <<requested, answered, busy, state, inbox>>
    BY <1>3 DEF Opened, OrbbecUnchanged, Situation, JustOpened,
       Waiting, Settling, NoneOut, Asked, Taking, Taken
  <2>2. worker' = "idle" /\ stream' = TRUE /\ inbox' = <<>>
    BY <1>3, <2>1 DEF Opened, Opening
  <2> DEFINE S == Early \cup {IsReady, IsOpen}
  <2>3. posted \in Seq(Early) /\ posted \in Seq(S) /\ IsReady \in S /\ IsOpen \in S
    BY <2>1 DEF Opening
  <2> HIDE DEF S
  <2>4. posted' = Append(Append(posted, IsReady), IsOpen)
    BY <1>3, <2>3, EmitTwo DEF Opened, Emit, IsReady, IsOpen
  <2>5. JustOpened'
    BY <2>1, <2>2, <2>3, <2>4 DEF Opening, JustOpened, Untouched, Early, IsReady, IsOpen, StateIs, OpenIs
  <2> QED
    BY <2>5 DEF Situation
<1>4. CASE PerformCapture
  <2>1. Asked
    BY <1>0, <1>4 DEF PerformCapture, Situation, Opening, JustOpened, Waiting, Settling, NoneOut,
                      Taking, Taken
  <2>2. worker' = "capturing" /\ posted' = posted \o <<IsCapturing>>
        /\ UNCHANGED <<inbox, requested, answered, busy, state, stream>>
    BY <1>4, <2>1 DEF PerformCapture, Asked, OneOut, OrbbecUnchanged, Emit, IsCapturing
  <2>3. posted' \in {<<IsOpen, IsCapturing>>, <<IsCapturing>>}
    BY <2>1, <2>2, EmitAlone DEF Asked
  <2>4. Taking'
    BY <2>1, <2>2, <2>3 DEF Asked, Taking, OneOut, TheCapture, IsOpen, IsCapturing, Call, StateIs, OpenIs
  <2> QED
    BY <2>4 DEF Situation
<1>5. CASE EndCapture
  <2>1. Taking
    BY <1>5 DEF EndCapture, Situation, Opening, JustOpened, Waiting, Settling, NoneOut, Asked, Taken
  <2>2. Head(inbox).about = requested /\ inbox' = <<>> /\ worker' = "idle"
        /\ UNCHANGED <<requested, answered, busy, state, stream>>
    BY <1>0, <1>5, <2>1 DEF EndCapture, Takes, Taking, OrbbecUnchanged
  <2>3. PICK o \in Outcome : posted' = posted \o <<CaptureIs(o, requested), IsReady>>
    BY <1>5, <2>2 DEF EndCapture, Emit, IsReady
  <2> DEFINE answer == CaptureIs(o, requested)
  <2>4. \/ state = "Ready" /\ posted' \in {<<IsOpen, IsCapturing, answer, IsReady>>,
                                           <<IsCapturing, answer, IsReady>>}
        \/ state = "Capturing" /\ posted' = <<answer, IsReady>>
    <3>1. posted' = posted \o <<answer, IsReady>>
      BY <2>3
    <3> HIDE DEF answer
    <3>2. <<>> \o <<answer, IsReady>> = <<answer, IsReady>>
      OBVIOUS
    <3>3. <<IsCapturing>> \o <<answer, IsReady>> = <<IsCapturing, answer, IsReady>>
      BY EmitAfterOne
    <3>4. <<IsOpen, IsCapturing>> \o <<answer, IsReady>> = <<IsOpen, IsCapturing, answer, IsReady>>
      BY EmitAfterTwo
    <3> QED
      BY <2>1, <3>1, <3>2, <3>3, <3>4, Zenon DEF Taking
  <2>5. Taken'
    BY <2>1, <2>2, <2>4 DEF Taking, Taken, OneOut, IsOpen, IsCapturing, IsReady, StateIs, OpenIs, CaptureIs
  <2> QED
    BY <2>5 DEF Situation
<1>6. CASE OrbbecStopWorker
  BY <1>6 DEF OrbbecStopWorker, StopWorkerDone
<1> QED
  BY <1>1, <1>2, <1>3, <1>4, <1>5, <1>6 DEF OrbbecWorker

--------------------------------------------------------------------------------
\* What the service hears, asks and is told.
LEMMA FourTails ==
  ASSUME NEW a, NEW b, NEW c, NEW d
  PROVE  /\ Tail(<<a>>) = <<>> /\ Tail(<<a, b>>) = <<b>> /\ Tail(<<a, b, c>>) = <<b, c>>
         /\ Tail(<<a, b, c, d>>) = <<b, c, d>>
         /\ Head(<<a>>) = a /\ Head(<<a, b>>) = a /\ Head(<<a, b, c>>) = a /\ Head(<<a, b, c, d>>) = a
  OBVIOUS

\* The signals by what they say.
LEMMA Signals ==
  /\ IsOpen.what = "open" /\ IsOpen.value = "yes"
  /\ IsReady.what = "state" /\ IsReady.value = "Ready"
  /\ IsCapturing.what = "state" /\ IsCapturing.value = "Capturing"
  /\ \A o, n : CaptureIs(o, n).what = "capture" /\ CaptureIs(o, n).id = n
  /\ \A e \in Early : e.what \in {"state", "open"} /\ e.value \notin {"Ready", "Capturing", "yes"}
  BY DEF IsOpen, IsReady, IsCapturing, CaptureIs, Early, StateIs, OpenIs

\* The head of what an opening camera posted.
LEMMA OpeningHead ==
  ASSUME Opening, posted # <<>> PROVE Head(posted) \in Early /\ Tail(posted) \in Seq(Early)
  BY DEF Opening

LEMMA JustOpenedHead ==
  ASSUME NEW q \in Seq(Early), posted = Append(Append(q, IsReady), IsOpen)
  PROVE  \/ q = <<>> /\ Head(posted) = IsReady /\ Tail(posted) = <<IsOpen>>
         \/ /\ q # <<>> /\ Head(posted) \in Early /\ Tail(q) \in Seq(Early)
            /\ Tail(posted) = Append(Append(Tail(q), IsReady), IsOpen)
<1> DEFINE S == Early \cup {IsReady, IsOpen}
<1>1. q \in Seq(S) /\ IsReady \in S /\ IsOpen \in S
  OBVIOUS
<1> HIDE DEF S
<1>2. Append(q, IsReady) \in Seq(S) /\ Append(q, IsReady) # <<>>
  BY <1>1
<1>3. /\ Head(posted) = Head(Append(q, IsReady))
      /\ Tail(posted) = Append(Tail(Append(q, IsReady)), IsOpen)
  BY <1>2, HeadTailAppend
<1>4. /\ Head(Append(q, IsReady)) = IF q = <<>> THEN IsReady ELSE Head(q)
      /\ Tail(Append(q, IsReady)) = IF q = <<>> THEN <<>> ELSE Append(Tail(q), IsReady)
  BY <1>1, HeadTailAppend
<1>5. CASE q = <<>>
  <2>1. Append(<<>>, IsOpen) = <<IsOpen>>
    OBVIOUS
  <2> QED
    BY <1>3, <1>4, <1>5, <2>1
<1>6. CASE q # <<>>
  <2>1. Head(q) \in Early /\ Tail(q) \in Seq(Early)
    BY <1>6
  <2> QED
    BY <1>3, <1>4, <1>6, <2>1
<1> QED
  BY <1>5, <1>6

\* An accepted request: the service was ready and nothing was out.
LEMMA AcceptAsks ==
  ASSUME NoneOut, Accept, Counted, UNCHANGED <<worker, answered, stream>>,
         state' = "Ready", posted' \in {<<>>, <<IsOpen>>}
  PROVE  Asked' /\ Counted'
<1>1. requested' = requested + 1 /\ busy' = TRUE /\ inbox' = <<Call("capture", requested + 1)>>
  BY DEF Accept, NoneOut
<1>2. Len(answered) \in Nat
  BY DEF Counted
<1> QED
  BY <1>1, <1>2 DEF NoneOut, Asked, OneOut, Counted, TheCapture, IsOpen, OpenIs, Call

LEMMA RequestMovesOn ==
  ASSUME Counted, Situation, RequestCapture PROVE Situation' /\ Counted'
<1>1. Waiting
  BY DEF RequestCapture, Accepts, Situation, Opening, JustOpened, Settling, Asked, Taking, Taken, OneOut
<1>2. Accept /\ UNCHANGED <<worker, answered, stream, state, posted>>
  BY DEF RequestCapture
<1> QED
  BY <1>1, <1>2, AcceptAsks DEF Waiting, Situation

LEMMA StateMovesOn ==
  ASSUME Counted, Situation, OrbbecStateChanged PROVE Situation' /\ Counted'
<1>1. /\ posted # <<>> /\ Head(posted).what = "state" /\ posted' = Tail(posted)
      /\ state' = Head(posted).value /\ UNCHANGED <<inbox, worker, requested, answered, stream>>
  BY DEF OrbbecStateChanged, OnWorkerStateChanged, Hears
<1>2. busy' = (busy /\ Head(posted).value = "Capturing")
  BY DEF OrbbecStateChanged
<1>3. Counted'
  BY <1>1 DEF Counted
<1>4. CASE Opening
  <2>1. Head(posted) \in Early /\ Tail(posted) \in Seq(Early)
    BY <1>1, <1>4, OpeningHead
  <2> QED
    BY <1>1, <1>2, <1>3, <1>4, <2>1, Signals DEF Situation, Opening, Untouched, Early, StateIs, OpenIs
<1>5. CASE JustOpened
  <2>1. PICK q \in Seq(Early) : posted = Append(Append(q, IsReady), IsOpen)
    BY <1>5 DEF JustOpened
  <2>2. busy' = FALSE
    BY <1>2, <1>5 DEF JustOpened, Untouched
  <2>3. CASE q = <<>> /\ Head(posted) = IsReady /\ Tail(posted) = <<IsOpen>>
    <3>1. Waiting'
      BY <1>1, <1>5, <2>2, <2>3, Signals
      DEF JustOpened, Untouched, Waiting, NoneOut, IsOpen, OpenIs
    <3> QED
      BY <1>3, <3>1 DEF Situation
  <2>4. CASE /\ q # <<>> /\ Head(posted) \in Early /\ Tail(q) \in Seq(Early)
             /\ Tail(posted) = Append(Append(Tail(q), IsReady), IsOpen)
    <3>1. state' # "Ready"
      BY <1>1, <2>4, Signals
    <3>2. JustOpened'
      BY <1>1, <1>5, <2>2, <2>4, <3>1
      DEF JustOpened, Untouched, Early, IsReady, IsOpen, StateIs, OpenIs
    <3> QED
      BY <1>3, <3>2 DEF Situation
  <2> QED
    BY <2>1, <2>3, <2>4, JustOpenedHead
<1>6. CASE Waiting \/ Asked
  BY <1>1, <1>6, Signals, FourTails DEF Waiting, Asked
<1>7. CASE Settling
  <2>1. state' = "Ready" /\ posted' = <<>>
    BY <1>1, <1>7, Signals, FourTails DEF Settling
  <2>2. busy' = FALSE
    BY <1>2, <1>7 DEF Settling, NoneOut
  <2> QED
    BY <1>1, <1>3, <1>7, <2>1, <2>2 DEF Settling, Waiting, NoneOut, Situation
<1>8. CASE Taking
  <2>1. posted = <<IsCapturing>>
    BY <1>1, <1>8, Signals, FourTails DEF Taking
  <2>2. state' = "Capturing" /\ posted' = <<>> /\ busy' = TRUE
    BY <1>1, <1>2, <1>8, <2>1, Signals, FourTails DEF Taking, OneOut
  <2>3. Taking'
    BY <1>1, <1>8, <2>2 DEF Taking, OneOut, TheCapture, Call
  <2> QED
    BY <1>3, <2>3 DEF Situation
<1>9. CASE Taken
  <2>1. PICK o \in Outcome :
          \/ posted \in {<<IsOpen, IsCapturing, CaptureIs(o, requested), IsReady>>,
                          <<IsCapturing, CaptureIs(o, requested), IsReady>>}
          \/ posted = <<CaptureIs(o, requested), IsReady>>
    BY <1>9 DEF Taken
  <2>2. posted = <<IsCapturing, CaptureIs(o, requested), IsReady>>
    BY <1>1, <2>1, Signals, FourTails
  <2>3. state' = "Capturing" /\ posted' = <<CaptureIs(o, requested), IsReady>> /\ busy' = TRUE
    <3>1. Head(posted) = IsCapturing /\ Tail(posted) = <<CaptureIs(o, requested), IsReady>>
      BY <2>2, FourTails
    <3> QED
      BY <1>1, <1>2, <1>9, <3>1, Signals DEF Taken, OneOut
  <2>4. Taken'
    BY <1>1, <1>9, <2>3 DEF Taken, OneOut, CaptureIs, IsReady, StateIs
  <2> QED
    BY <1>3, <2>4 DEF Situation
<1> QED
  BY <1>4, <1>5, <1>6, <1>7, <1>8, <1>9 DEF Situation

LEMMA OpenMovesOn ==
  ASSUME Counted, Situation, OrbbecOpenFinished PROVE Situation' /\ Counted'
<1>1. /\ posted # <<>> /\ Head(posted).what = "open" /\ posted' = Tail(posted)
      /\ opened' = Head(posted).value /\ UNCHANGED <<worker, answered, stream>>
  BY DEF OrbbecOpenFinished, Hears
<1>2. /\ state' = IF opened' = "yes" THEN "Ready" ELSE state
      /\ (Accept /\ opened' = "yes" /\ ~busy) \/ UNCHANGED <<busy, requested, inbox>>
  BY DEF OrbbecOpenFinished, Accepts
<1>3. UNCHANGED <<requested>> => Counted'
  BY <1>1 DEF Counted
<1>4. CASE Opening
  <2>1. Head(posted) \in Early /\ Tail(posted) \in Seq(Early)
    BY <1>1, <1>4, OpeningHead
  <2>2. opened' # "yes"
    BY <1>1, <2>1, Signals
  <2> QED
    BY <1>1, <1>2, <1>3, <1>4, <2>1, <2>2 DEF Situation, Opening, Untouched, Early, StateIs, OpenIs
<1>5. CASE JustOpened
  <2>1. PICK q \in Seq(Early) : posted = Append(Append(q, IsReady), IsOpen)
    BY <1>5 DEF JustOpened
  <2>2. /\ Head(posted) \in Early /\ Tail(q) \in Seq(Early)
        /\ Tail(posted) = Append(Append(Tail(q), IsReady), IsOpen)
    BY <1>1, <2>1, JustOpenedHead, Signals
  <2>3. opened' # "yes"
    BY <1>1, <2>2, Signals
  <2>4. JustOpened'
    BY <1>1, <1>2, <1>5, <2>2, <2>3
    DEF JustOpened, Untouched, Early, IsReady, IsOpen, StateIs, OpenIs
  <2> QED
    BY <1>2, <1>3, <2>3, <2>4 DEF Situation
<1>6. CASE Waiting
  <2>1. posted = <<IsOpen>>
    BY <1>1, <1>6 DEF Waiting
  <2>2. posted' = <<>> /\ state' = "Ready"
    BY <1>1, <1>2, <1>6, <2>1, FourTails DEF Waiting
  <2>3. CASE Accept
    BY <1>1, <1>6, <2>2, <2>3, AcceptAsks DEF Waiting, Situation
  <2>4. CASE UNCHANGED <<busy, requested, inbox>>
    BY <1>1, <1>3, <1>6, <2>2, <2>4 DEF Waiting, NoneOut, Situation
  <2> QED
    BY <1>2, <2>3, <2>4
<1>7. CASE Settling
  BY <1>1, <1>7, Signals, FourTails DEF Settling
<1>8. CASE Asked \/ Taking \/ Taken
  <2>1. UNCHANGED <<busy, requested, inbox>>
    BY <1>2, <1>8 DEF Asked, Taking, Taken, OneOut
  <2>2. CASE Asked
    <3>1. posted = <<IsOpen>>
      BY <1>1, <2>2 DEF Asked
    <3>2. posted' = <<>> /\ state' = "Ready"
      BY <1>1, <1>2, <2>2, <3>1, FourTails DEF Asked
    <3>3. Asked'
      BY <1>1, <2>1, <2>2, <3>2 DEF Asked, OneOut, TheCapture, Call
    <3> QED
      BY <1>3, <2>1, <3>3 DEF Situation
  <2>3. CASE Taking
    <3>1. posted = <<IsOpen, IsCapturing>> /\ state = "Ready"
      BY <1>1, <2>3, Signals, FourTails DEF Taking
    <3>2. posted' = <<IsCapturing>>
      BY <1>1, <3>1, FourTails
    <3>3. state' = "Ready"
      BY <1>2, <3>1
    <3>4. Taking'
      BY <1>1, <2>1, <2>3, <3>2, <3>3 DEF Taking, OneOut, TheCapture, Call, IsCapturing, StateIs
    <3> QED
      BY <1>3, <2>1, <3>4 DEF Situation
  <2>4. CASE Taken
    <3>1. PICK o \in Outcome :
            \/ /\ state = "Ready"
               /\ posted \in {<<IsOpen, IsCapturing, CaptureIs(o, requested), IsReady>>,
                              <<IsCapturing, CaptureIs(o, requested), IsReady>>}
            \/ posted = <<CaptureIs(o, requested), IsReady>>
      BY <2>4 DEF Taken
    <3>2. state = "Ready" /\ posted = <<IsOpen, IsCapturing, CaptureIs(o, requested), IsReady>>
      BY <1>1, <3>1, Signals, FourTails
    <3>3. posted' = <<IsCapturing, CaptureIs(o, requested), IsReady>>
      BY <1>1, <3>2, FourTails
    <3>4. state' = "Ready"
      BY <1>2, <3>2
    <3>5. Taken'
      BY <1>1, <2>1, <2>4, <3>3, <3>4 DEF Taken, OneOut, CaptureIs, IsReady, IsCapturing, StateIs
    <3> QED
      BY <1>3, <2>1, <3>5 DEF Situation
  <2> QED
    BY <1>8, <2>2, <2>3, <2>4
<1> QED
  BY <1>4, <1>5, <1>6, <1>7, <1>8 DEF Situation

LEMMA AnswerMovesOn ==
  ASSUME Counted, Situation, OnWorkerCaptureFinished PROVE Situation' /\ Counted'
<1>1. /\ posted # <<>> /\ Head(posted).what = "capture" /\ posted' = Tail(posted)
      /\ busy' = FALSE /\ answered' = Append(answered, Head(posted).id)
      /\ UNCHANGED <<state, inbox, worker, requested, stream>>
  BY DEF OnWorkerCaptureFinished, Hears
<1>2. ~Opening
  BY <1>1, OpeningHead, Signals
<1>3. ~JustOpened
  <2> SUFFICES ASSUME JustOpened PROVE FALSE
    OBVIOUS
  <2>1. PICK q \in Seq(Early) : posted = Append(Append(q, IsReady), IsOpen)
    BY DEF JustOpened
  <2> QED
    BY <1>1, <2>1, JustOpenedHead, Signals
<1>4. ~Waiting /\ ~Asked
  BY <1>1, Signals, FourTails DEF Waiting, Asked
<1>5. ~Settling
  BY <1>1, Signals, FourTails DEF Settling
<1>6. ~Taking
  BY <1>1, Signals, FourTails DEF Taking
<1>7. Taken
  BY <1>2, <1>3, <1>4, <1>5, <1>6 DEF Situation
<1>8. PICK o \in Outcome :
        \/ posted \in {<<IsOpen, IsCapturing, CaptureIs(o, requested), IsReady>>,
                        <<IsCapturing, CaptureIs(o, requested), IsReady>>}
        \/ state = "Capturing" /\ posted = <<CaptureIs(o, requested), IsReady>>
  BY <1>7 DEF Taken
<1>9. state = "Capturing" /\ posted = <<CaptureIs(o, requested), IsReady>>
  BY <1>1, <1>8, Signals, FourTails
<1>10. posted' = <<IsReady>> /\ Head(posted).id = requested
  BY <1>1, <1>9, Signals, FourTails
<1>11. Len(answered') = requested /\ Counted'
  BY <1>1, <1>7, <1>10 DEF Taken, OneOut, Counted
<1>12. Settling'
  BY <1>1, <1>7, <1>9, <1>10, <1>11 DEF Taken, OneOut, Settling, NoneOut, IsReady, StateIs
<1> QED
  BY <1>11, <1>12 DEF Situation

--------------------------------------------------------------------------------
\* All of it together: a step of another sensor leaves the camera's state alone, and a step that
\* leaves the service stopped or stopping counts nothing.
LEMMA CommonCaptures == CaptureInv /\ Common => CaptureInv'
<1> SUFFICES ASSUME CaptureInv, Common PROVE CaptureInv'
  OBVIOUS
<1>1. Counted' /\ kind' = kind /\ UNCHANGED <<requested, answered, busy, stream>>
  BY DEF Common, orbbecVars, StartService, EndThread, StopReturns, CaptureInv, Counted
<1>2. CASE StartService
  <2>1. kind = "orbbec" => Opening'
    <3> SUFFICES ASSUME kind = "orbbec" PROVE Opening'
      OBVIOUS
    <3>1. Created
      BY <1>2 DEF CaptureInv, StartService
    <3>2. posted' = <<>> /\ state' = "Idle" /\ worker' = "idle" /\ inbox' = <<Start>>
      BY <1>2, <3>1 DEF StartService, Created, Start
    <3> QED
      BY <1>1, <3>1, <3>2 DEF Created, Opening, Untouched, Start, Call, Nothing, Early
  <2> QED
    BY <1>1, <1>2, <2>1 DEF CaptureInv, StartService, Situation
<1>3. CASE EndThread \/ StopReturns
  BY <1>1, <1>3 DEF CaptureInv, EndThread, StopReturns
<1> QED
  BY <1>2, <1>3 DEF Common

LEMMA OrbbecCaptures == CaptureInv /\ OrbbecNext => CaptureInv'
<1> SUFFICES ASSUME CaptureInv, OrbbecNext PROVE CaptureInv'
  OBVIOUS
<1>0. kind = "orbbec"
  BY DEF OrbbecNext
<1>1. CASE RequestCapture \/ OrbbecStateChanged \/ OrbbecOpenFinished \/ OnWorkerCaptureFinished
  <2>1. phase = "started" /\ UNCHANGED <<kind, phase>>
    BY <1>1 DEF RequestCapture, Accepts, OrbbecStateChanged, OnWorkerStateChanged, OrbbecOpenFinished,
                OnWorkerCaptureFinished, Hears
  <2>2. Counted /\ Situation
    BY <1>0, <2>1 DEF CaptureInv
  <2>3. Situation' /\ Counted'
    BY <1>1, <2>2, RequestMovesOn, StateMovesOn, OpenMovesOn, AnswerMovesOn
  <2> QED
    BY <2>1, <2>3 DEF CaptureInv
<1>2. CASE OrbbecStop
  BY <1>2 DEF OrbbecStop, StopService, CaptureInv, Counted
<1>3. CASE OrbbecWorker
  <2>1. UNCHANGED <<kind, requested, answered>> /\ worker # "none"
    BY <1>3 DEF OrbbecWorker, OrbbecStartWorker, OpenFails, OpenDevice, Opened, PerformCapture,
                EndCapture, OrbbecStopWorker, OrbbecUnchanged, StopWorkerDone
  <2>2. phase' = phase \/ phase' = "joining"
    BY <1>3 DEF OrbbecWorker, OrbbecStartWorker, OpenFails, OpenDevice, Opened, PerformCapture,
                EndCapture, OrbbecStopWorker, OrbbecUnchanged, StopWorkerDone
  <2>3. Counted' /\ phase # "created"
    BY <1>0, <2>1 DEF CaptureInv, Counted, Created
  <2>4. phase' = "started" => Situation'
    BY <1>0, <1>3, <2>2, WorkerMovesOn
  <2> QED
    BY <2>1, <2>2, <2>3, <2>4 DEF CaptureInv
<1> QED
  BY <1>1, <1>2, <1>3 DEF OrbbecNext, OrbbecMain

LEMMA OthersCapture ==
  ASSUME CaptureInv, kind # "orbbec", kind' = kind, UNCHANGED orbbecVars PROVE CaptureInv'
  BY DEF CaptureInv, Counted, orbbecVars

LEMMA KindStays == [Next]_vars => kind' = kind
<1>1. Common => kind' = kind
  BY DEF Common, StartService, EndThread, StopReturns
<1>2. OrbbecNext => kind' = kind
  BY DEF OrbbecNext, OrbbecMain, OrbbecWorker, RequestCapture, OrbbecStateChanged, OrbbecOpenFinished,
         OnWorkerCaptureFinished, OnWorkerStateChanged, OrbbecStop, StopService, Hears, OrbbecStartWorker,
         OpenFails, OpenDevice, Opened, PerformCapture, EndCapture, OrbbecStopWorker, OrbbecUnchanged,
         StopWorkerDone
<1>3. LivoxNext => kind' = kind
  BY DEF LivoxNext, LivoxMain, LivoxSdk, LivoxWorker, LivoxStateChanged, LivoxOpenFinished, LivoxStop,
         OnWorkerStateChanged, StopService, SdkCalls, LivoxInfoChangeCallback, LivoxStartFails,
         LivoxStartWorker, OnDeviceDiscovered, OnDiscoveryTimeout, FinishDiscovery, LivoxStopWorker,
         DeleteInLoop, LeaveDangling, LivoxUnchanged, StopWorkerDone, serviceVars
<1>4. TfminiNext => kind' = kind
  BY DEF TfminiNext, TfminiMain, TfminiWorker, TfminiStateChanged, TfminiOpenFinished, TfminiStop,
         OnWorkerStateChanged, StopService, TfminiStartWorker, TfminiStopWorker, OnSerialError,
         SensorSends, OnReadyRead, TfminiUnchanged, StopWorkerDone, serviceVars
<1> QED
  BY <1>1, <1>2, <1>3, <1>4 DEF Next, vars, serviceVars

\* A capture is only accepted when the one before it was answered, and they are answered in order.
THEOREM CapturesOneByOne == Spec => []OneCapture
<1>1. CaptureInv /\ [Next]_vars => CaptureInv'
  <2> SUFFICES ASSUME CaptureInv, [Next]_vars PROVE CaptureInv'
    OBVIOUS
  <2>1. CASE \/ LivoxNext /\ UNCHANGED <<orbbecVars, tfminiVars>>
             \/ TfminiNext /\ UNCHANGED <<orbbecVars, livoxVars>>
    <3>1. kind # "orbbec" /\ UNCHANGED orbbecVars
      BY <2>1 DEF LivoxNext, TfminiNext
    <3> QED
      BY <3>1, KindStays, OthersCapture
  <2>2. CASE UNCHANGED vars
    BY <2>2 DEF vars, serviceVars, orbbecVars, CaptureInv, Counted, Created, Untouched, Situation,
                Opening, JustOpened, Waiting, Settling, NoneOut, Asked, Taking, Taken, OneOut, TheCapture
  <2> QED
    BY <2>1, <2>2, CommonCaptures, OrbbecCaptures DEF Next
<1>2. CaptureInv => OneCapture
  BY DEF CaptureInv, Counted, OneCapture
<1> QED
  BY InitCapture, <1>1, <1>2, PTL DEF Spec

--------------------------------------------------------------------------------
\* Induction over data, as for the smart cameras' lines.

\* Any set of numbers that is not empty has a least one: the way to prove something of every
\* buffer by its length, from the well-foundedness of the finite sets of numbers.
LEMMA LeastNumber ==
  ASSUME NEW T \in SUBSET Nat, T # {}
  PROVE  \E n \in T : \A m \in T : n <= m
<1> DEFINE Below(n) == 0..n
           U == {Below(n) : n \in T}
<1>1. U \subseteq FiniteSubsetsOf(Nat) /\ U # {}
  <2>1. \A n \in T : Below(n) \in SUBSET Nat /\ IsFiniteSet(Below(n))
    BY FS_Interval
  <2> QED BY <2>1 DEF FiniteSubsetsOf
<1>2. PICK u \in U : \A v \in U : <<v, u>> \notin StrictSubsetOrdering(Nat)
  <2> HIDE DEF U
  <2> QED BY <1>1, FS_StrictSubsetOrderingWellFounded, WFMin
<1>3. PICK n \in T : u = Below(n)
  OBVIOUS
<1>4. ASSUME NEW m \in T, m < n PROVE FALSE
  <2>1. Below(m) \subseteq Below(n) /\ Below(m) # Below(n)
    BY <1>4
  <2>2. Below(m) \in U /\ Below(m) \in SUBSET Nat /\ Below(n) \in SUBSET Nat 
    OBVIOUS
  <2> QED BY <1>2, <1>3, <2>1, <2>2 DEF StrictSubsetOrdering
<1> QED
  BY <1>4

\* What holds of a number when it holds of those below holds of all.
LEMMA Induction ==
  ASSUME NEW T, \A n \in Nat : (\A m \in Nat : m < n => m \in T) => n \in T
  PROVE  Nat \subseteq T
<1>1. CASE Nat \ T # {}
  <2>1. PICK n \in Nat \ T : \A m \in Nat \ T : n <= m
    BY <1>1, LeastNumber
  <2>2. \A m \in Nat : m < n => m \in T
    BY <2>1
  <2> QED
    BY <2>1, <2>2
<1> QED
  BY <1>1

\* A loop over data: what is done gives a result at once, and anything else goes on with
\* something smaller, whose result it adds to.
IsLoop(S, Out, measure, done, next, base, join) ==
  /\ measure \in [S -> Nat] /\ done \in SUBSET S /\ next \in [S \ done -> S]
  /\ \A x \in S \ done : measure[next[x]] < measure[x]
  /\ base \in [done -> Out] /\ join \in [S \ done -> [Out -> Out]]

\* A loop that always goes on with something smaller computes a result: the functions that do
\* so up to some size agree with one another, and there is one for every size.
LEMMA LoopEnds ==
  ASSUME NEW S, NEW Out, NEW measure, NEW done, NEW next, NEW base, NEW join,
         IsLoop(S, Out, measure, done, next, base, join)
  PROVE  \E f \in [S -> Out] :
           \A x \in S : f[x] = IF x \in done THEN base[x] ELSE join[x][f[next[x]]]
<1> USE DEF IsLoop
<1> DEFINE Upto(n) == {x \in S : measure[x] <= n}
           Obeys(g, x) == g[x] = IF x \in done THEN base[x] ELSE join[x][g[next[x]]]
           Part(n) == {g \in [Upto(n) -> Out] : \A x \in Upto(n) : Obeys(g, x)}
<1>1. ASSUME NEW n \in Nat, NEW x \in Upto(n), x \notin done 
      PROVE  /\ next[x] \in Upto(n) /\ measure[next[x]] < measure[x]
             /\ measure[next[x]] \in Nat /\ measure[x] \in Nat
  BY <1>1
<1>2. ASSUME NEW m \in Nat, NEW n \in Nat, NEW g \in Part(m), NEW h \in Part(n),
             NEW x \in Upto(m) \cap Upto(n)
      PROVE  g[x] = h[x]
  <2> DEFINE Bad == {y \in Upto(m) \cap Upto(n) : g[y] # h[y]}
             T == {measure[y] : y \in Bad}
  <2>1. SUFFICES ASSUME Bad # {} PROVE FALSE
    BY Zenon
  <2>2. PICK y \in Bad : \A z \in Bad : measure[y] <= measure[z]
    <3>1. T \subseteq Nat /\ T # {}
      <4>1. Bad \subseteq S
        OBVIOUS
      <4> HIDE DEF Bad
      <4> QED BY <2>1, <4>1
    <3>2. PICK k \in T : \A j \in T : k <= j
      <4> HIDE DEF T
      <4> QED BY <3>1, LeastNumber
    <3>3. PICK y \in Bad : k = measure[y]
      OBVIOUS
    <3>4. \A z \in Bad : measure[z] \in T
      OBVIOUS
    <3> QED BY <3>2, <3>3, <3>4
  <2>3. y \notin done
    BY Zenon
  <2>4. next[y] \in Upto(m) \cap Upto(n) /\ ~(measure[y] <= measure[next[y]])
    <3>1. y \in Upto(m) /\ y \in Upto(n)
      OBVIOUS
    <3> QED BY <1>1, <2>3, <3>1
  <2>5. g[next[y]] = h[next[y]]
    BY <2>2, <2>4
  <2>6. Obeys(g, y) /\ Obeys(h, y)
    OBVIOUS
  <2> QED BY <2>3, <2>5, <2>6
<1>3. ASSUME NEW n \in Nat, \A m \in Nat : m < n => Part(m) # {} PROVE Part(n) # {}
  <2> DEFINE Before == IF n = 0 THEN [x \in {} |-> {}] ELSE CHOOSE g \in Part(n - 1) : TRUE
             new == [x \in Upto(n) |-> IF x \in done THEN base[x] ELSE join[x][Before[next[x]]]]
  <2>1. n # 0 => Before \in Part(n - 1)
    <3>1. ASSUME n # 0 PROVE Part(n - 1) # {}
      <4>1. n - 1 \in Nat /\ n - 1 < n
        BY <3>1
      <4> HIDE DEF Part
      <4> QED BY <1>3, <4>1
    <3> HIDE DEF Part
    <3> QED BY <3>1, Zenon
  <2>2. ASSUME NEW x \in Upto(n), x \notin done 
        PROVE n # 0 /\ next[x] \in Upto(n - 1) /\ Before[next[x]] \in Out
    <3>1. n # 0 /\ next[x] \in Upto(n - 1)
      BY <1>1, <2>2
    <3> QED
      BY <2>1, <3>1
  <2>3. new \in [Upto(n) -> Out]
    BY <2>2
  <2>4. ASSUME NEW x \in Upto(n) PROVE Obeys(new, x)
    <3>1. CASE x \in done
      BY <3>1
    <3>2. CASE x \notin done
      <4>1. n # 0 /\ next[x] \in Upto(n - 1) /\ next[x] \in Upto(n)
        BY <1>1, <2>2, <3>2
      <4>2. Obeys(Before, next[x])
        <5> HIDE DEF Before
        <5> QED BY <2>1, <4>1, Zenon
      <4>3. new[next[x]] = Before[next[x]]
        <5> HIDE DEF Before
        <5> QED BY <4>1, <4>2, Zenon
      <4>4. new[x] = join[x][Before[next[x]]]
        <5> HIDE DEF Before
        <5> QED BY <3>2, Zenon
      <4> HIDE DEF new
      <4> QED BY <3>2, <4>3, <4>4
    <3> QED BY <3>1, <3>2
  <2> QED BY <2>3, <2>4
<1>4. ASSUME NEW n \in Nat PROVE Part(n) # {}
  <2> DEFINE T == {k \in Nat : Part(k) # {}}
  <2> HIDE DEF Part
  <2>1. ASSUME NEW k \in Nat, \A m \in Nat : m < k => m \in T PROVE k \in T
    <3>1. \A m \in Nat : m < k => Part(m) # {}
      BY <2>1
    <3> QED BY <1>3, <3>1
  <2>2. n \in T
    <3> HIDE DEF T
    <3> QED BY <2>1, Induction
  <2> QED BY <2>2
<1> DEFINE part(n) == CHOOSE g \in Part(n) : TRUE
           f == [x \in S |-> part(measure[x])[x]]
<1>5. \A n \in Nat : part(n) \in Part(n)
  BY <1>4, Zenon
<1>6. ASSUME NEW x \in S PROVE f[x] \in Out /\ Obeys(f, x)
  <2>0. measure[x] \in Nat /\ x \in Upto(measure[x])
    OBVIOUS
  <2>1. part(measure[x]) \in Part(measure[x]) 
    BY <1>5, <2>0
  <2>2. f[x] = part(measure[x])[x]
    OBVIOUS
  <2> HIDE DEF part, f
  <2>3. f[x] \in Out /\ Obeys(part(measure[x]), x)
    BY <2>0, <2>1, <2>2
  <2>4. CASE x \notin done
    <3>1. /\ next[x] \in Upto(measure[x]) /\ next[x] \in S /\ measure[next[x]] \in Nat 
          /\ next[x] \in Upto(measure[next[x]])
      BY <1>1, <2>0, <2>4
    <3>2. part(measure[next[x]]) \in Part(measure[next[x]]) /\ f[next[x]] = part(measure[next[x]])[next[x]]
      BY <1>5, <3>1 DEF f
    <3>3. part(measure[next[x]])[next[x]] = part(measure[x])[next[x]]
      <4> HIDE DEF Part, Upto
      <4> QED BY <1>2, <2>0, <2>1, <3>1, <3>2
    <3> QED BY <2>2, <2>3, <2>4, <3>2, <3>3
  <2> QED BY <2>2, <2>3, <2>4
<1>7. f \in [S -> Out]
  <2>1. f = [x \in S |-> f[x]]
    OBVIOUS
  <2> HIDE DEF f
  <2> QED BY <1>6, <2>1
<1> HIDE DEF f
<1> QED
  BY <1>6, <1>7

--------------------------------------------------------------------------------
\* The range finder's frames.

\* The frames lie one after another: the n-th begins after the first At(n) bytes.
At(n) == n * FrameSize

LEMMA AtProps ==
  /\ FrameSize \in Nat /\ FrameSize > 2 /\ At(0) = 0
  /\ \A n \in Nat : At(n) \in Nat /\ At(n + 1) = At(n) + FrameSize
  /\ \A m, n \in Nat : m < n => At(m) + FrameSize <= At(n)
<1>1. FrameSize \in Nat /\ FrameSize > 2
  BY TfminiAssumption
<1>2. \A n \in Nat : n * FrameSize \in Nat /\ (n + 1) * FrameSize = n * FrameSize + FrameSize
  BY <1>1
<1>3. ASSUME NEW m \in Nat, NEW n \in Nat, m < n PROVE At(m) + FrameSize <= At(n)
  <2>1. PICK d \in Nat : n = m + 1 + d
    <3>1. n - m - 1 \in Nat /\ n = m + 1 + (n - m - 1)
      BY <1>3
    <3> QED
      BY <3>1
  <2>2. n * FrameSize = m * FrameSize + FrameSize + d * FrameSize /\ d * FrameSize \in Nat
    BY <1>1, <2>1
  <2> QED
    BY <1>1, <1>2, <2>2 DEF At
<1>4. 0 * FrameSize = 0
  BY <1>1
<1> QED
  BY <1>1, <1>2, <1>3, <1>4 DEF At

\* Every byte is one of some frame.
LEMMA Covered == \A k \in Nat : k > 0 => \E m \in Nat : \E j \in 1..FrameSize : k = At(m) + j
<1> DEFINE T == {k \in Nat : k > 0 => \E m \in Nat : \E j \in 1..FrameSize : k = At(m) + j}
<1>1. ASSUME NEW k \in Nat, \A l \in Nat : l < k => l \in T PROVE k \in T
  <2>1. CASE k <= FrameSize
    <3>1. k = At(0) + k
      BY AtProps
    <3> QED
      BY <2>1, <3>1, AtProps
  <2>2. CASE k > FrameSize
    <3>1. k - FrameSize \in Nat /\ k - FrameSize < k /\ k - FrameSize > 0
      BY <2>2, AtProps
    <3>2. PICK m \in Nat : \E j \in 1..FrameSize : k - FrameSize = At(m) + j
      BY <1>1, <3>1
    <3>3. PICK j \in 1..FrameSize : k - FrameSize = At(m) + j
      BY <3>2
    <3>4. k = At(m + 1) + j /\ m + 1 \in Nat
      <4>1. At(m) \in Nat /\ At(m + 1) = At(m) + FrameSize /\ FrameSize \in Nat
        BY AtProps
      <4> QED
        BY <3>3, <4>1
    <3> QED
      BY <3>4
  <2> QED
    BY <2>1, <2>2, AtProps
<1>2. Nat \subseteq T
  <2> HIDE DEF T
  <2> QED
    BY <1>1, Induction
<1> QED
  BY <1>2

LEMMA FrameBytes ==
  ASSUME NEW n \in 0..MaxFrame
  PROVE  /\ Frame(n) \in Seq(0..Header) /\ Len(Frame(n)) = FrameSize
         /\ \A j \in 1..FrameSize : Frame(n)[j] = IF j <= 2 THEN Header ELSE n
         /\ n # Header
<1>1. FrameSize \in Nat /\ MaxFrame \in Nat /\ Header = MaxFrame + 1
  BY TfminiAssumption DEF Header
<1> QED
  BY <1>1 DEF Frame

\* A piece of what the sensor sends: the bytes after the first p, up to the q-th.
Piece(b, p, q) ==
  /\ p \in Nat /\ q \in Nat /\ p <= q /\ q <= At(MaxFrame + 1)
  /\ b \in Seq(0..Header) /\ Len(b) = q - p
  /\ \A m \in Nat : \A j \in 1..FrameSize :
       p < At(m) + j /\ At(m) + j <= q => b[At(m) + j - p] = Frame(m)[j]

LEMMA FrameSent ==
  ASSUME NEW m \in Nat, NEW j \in 1..FrameSize, At(m) + j <= At(MaxFrame + 1)
  PROVE  m \in 0..MaxFrame
<1>1. MaxFrame + 1 \in Nat /\ MaxFrame \in Nat
  BY TfminiAssumption
<1>2. CASE m > MaxFrame
  <2>1. m = MaxFrame + 1 \/ MaxFrame + 1 < m
    BY <1>1, <1>2
  <2>2. At(m) \in Nat /\ At(MaxFrame + 1) \in Nat /\ FrameSize \in Nat
    BY <1>1, AtProps
  <2>3. MaxFrame + 1 < m => At(MaxFrame + 1) + FrameSize <= At(m)
    BY <1>1, AtProps
  <2>4. At(m) >= At(MaxFrame + 1)
    BY <2>1, <2>2, <2>3
  <2> QED
    BY <2>2, <2>4
<1> QED
  BY <1>1, <1>2

\* Two headers in a row are the beginning of a frame.
LEMMA PairsAreFrames ==
  ASSUME NEW b, NEW p, NEW q, Piece(b, p, q), NEW i \in Pairs(b)
  PROVE  \E m \in 0..MaxFrame : p + i = At(m) + 1
<1>1. /\ p \in Nat /\ q \in Nat /\ q <= At(MaxFrame + 1) /\ Len(b) = q - p
      /\ i \in Nat /\ i > 0 /\ i + 1 <= Len(b) /\ b[i] = Header /\ b[i + 1] = Header
  BY DEF Piece, Pairs
<1>2. PICK m \in Nat : \E j \in 1..FrameSize : p + i = At(m) + j
  <2>1. p + i \in Nat /\ p + i > 0
    BY <1>1
  <2> QED
    BY <2>1, Covered
<1>3. PICK j \in 1..FrameSize : p + i = At(m) + j
  BY <1>2
<1>4. m \in 0..MaxFrame /\ At(m) \in Nat /\ FrameSize \in Nat /\ FrameSize > 2
  <2>1. At(MaxFrame + 1) \in Nat
    BY AtProps, TfminiAssumption
  <2>2. At(m) + j <= At(MaxFrame + 1)
    BY <1>1, <1>3, <2>1
  <2> QED
    BY <2>2, FrameSent, AtProps
<1>5. b[i] = Frame(m)[j]
  <2>1. p < At(m) + j /\ At(m) + j <= q /\ At(m) + j - p = i
    BY <1>1, <1>3, <1>4
  <2> QED
    BY <2>1 DEF Piece
<1>6. j <= 2
  BY <1>1, <1>4, <1>5, FrameBytes
<1>7. CASE j = 2
  <2>1. 3 \in 1..FrameSize /\ p < At(m) + 3 /\ At(m) + 3 <= q /\ At(m) + 3 - p = i + 1
    BY <1>1, <1>3, <1>4, <1>7
  <2>2. b[i + 1] = Frame(m)[3]
    BY <2>1 DEF Piece
  <2> QED
    BY <1>1, <1>4, <2>1, <2>2, FrameBytes
<1> QED
  BY <1>3, <1>4, <1>6, <1>7

\* A frame that begins and has come that far begins with two headers.
LEMMA FramesArePairs ==
  ASSUME NEW b, NEW p, NEW q, Piece(b, p, q), NEW m \in Nat, p <= At(m), At(m) + 2 <= q
  PROVE  At(m) + 1 - p \in Pairs(b)
<1>1. p \in Nat /\ q \in Nat /\ q <= At(MaxFrame + 1) /\ Len(b) = q - p /\ At(MaxFrame + 1) \in Nat
  BY AtProps, TfminiAssumption DEF Piece
<1>2. At(m) \in Nat /\ 1 \in 1..FrameSize /\ 2 \in 1..FrameSize
  BY AtProps
<1>3. m \in 0..MaxFrame
  BY <1>1, <1>2, FrameSent
<1>4. b[At(m) + 1 - p] = Header /\ b[At(m) + 2 - p] = Header
  <2>1. p < At(m) + 1 /\ At(m) + 1 <= q /\ p < At(m) + 2 /\ At(m) + 2 <= q
    BY <1>1, <1>2
  <2>2. b[At(m) + 1 - p] = Frame(m)[1] /\ b[At(m) + 2 - p] = Frame(m)[2]
    BY <1>2, <2>1 DEF Piece
  <2> QED
    BY <1>2, <1>3, <2>2, FrameBytes
<1>5. At(m) + 1 - p \in 1..(Len(b) - 1) /\ (At(m) + 1 - p) + 1 = At(m) + 2 - p
  BY <1>1, <1>2
<1> QED
  BY <1>4, <1>5 DEF Pairs

\* The bytes of a sequence from the i-th on.
LEMMA FromProps ==
  ASSUME NEW S, NEW b \in Seq(S), NEW i \in 1..(Len(b) + 1)
  PROVE  /\ From(b, i) \in Seq(S) /\ Len(From(b, i)) = Len(b) - i + 1
         /\ \A k \in 1..(Len(b) - i + 1) : From(b, i)[k] = b[i + k - 1]
<1>1. Len(b) \in Nat
  OBVIOUS
<1>2. i \in Int /\ Len(b) \in Int /\ \A k \in i..Len(b) : b[k] \in S
  BY <1>1
<1>3. /\ SubSeq(b, i, Len(b)) \in Seq(S)
      /\ Len(SubSeq(b, i, Len(b))) = IF i <= Len(b) THEN Len(b) - i + 1 ELSE 0
      /\ \A k \in 1..(Len(b) - i + 1) : SubSeq(b, i, Len(b))[k] = b[i + k - 1]
  BY <1>2, SubSeqProperties
<1> QED
  BY <1>1, <1>3 DEF From

\* What is left of a piece when something goes from its beginning.
LEMMA RestOfPiece ==
  ASSUME NEW b, NEW p, NEW q, Piece(b, p, q), NEW i \in 1..(Len(b) + 1)
  PROVE  Piece(From(b, i), p + i - 1, q) /\ Len(From(b, i)) = Len(b) - i + 1
<1>1. p \in Nat /\ q \in Nat /\ q <= At(MaxFrame + 1) /\ Len(b) = q - p /\ b \in Seq(0..Header)
  BY DEF Piece
<1>2. /\ From(b, i) \in Seq(0..Header) /\ Len(From(b, i)) = Len(b) - i + 1
      /\ \A k \in 1..(Len(b) - i + 1) : From(b, i)[k] = b[i + k - 1]
  BY <1>1, FromProps
<1>3. ASSUME NEW m \in Nat, NEW j \in 1..FrameSize, p + i - 1 < At(m) + j, At(m) + j <= q
      PROVE  From(b, i)[At(m) + j - (p + i - 1)] = Frame(m)[j]
  <2>1. At(m) \in Nat /\ FrameSize \in Nat
    BY AtProps
  <2>2. At(m) + j - (p + i - 1) \in 1..(Len(b) - i + 1)
    BY <1>1, <1>3, <2>1
  <2>3. i + (At(m) + j - (p + i - 1)) - 1 = At(m) + j - p
    BY <1>1, <2>1
  <2>4. p < At(m) + j
    BY <1>1, <1>3, <2>1
  <2> QED
    BY <1>2, <1>3, <2>2, <2>3, <2>4 DEF Piece
<1>4. p + i - 1 \in Nat /\ p + i - 1 <= q /\ Len(b) - i + 1 = q - (p + i - 1)
  BY <1>1
<1> QED
  BY <1>1, <1>2, <1>3, <1>4 DEF Piece

--------------------------------------------------------------------------------
\* What parseBuffer() makes of a buffer, one round of its loop at a time.
Bytes == Seq(0..Header)
Parsed == [frames : Seq(Nat), rest : Bytes]
Found(b) == From(b, FirstPair(b))
IsOver(b) == Len(b) < 2 \/ Pairs(b) = {} \/ Len(Found(b)) < FrameSize
Over(b) ==
  [frames |-> <<>>, rest |-> IF Len(b) < 2 THEN b ELSE IF Pairs(b) = {} THEN <<>> ELSE Found(b)]
Further(b) == From(Found(b), IF TryParseFrame(Found(b)) THEN FrameSize + 1 ELSE 2)
Added(b, d) ==
  IF TryParseFrame(Found(b))
  THEN [frames |-> <<Found(b)[FrameSize]>> \o d.frames, rest |-> d.rest] ELSE d

LEMMA FirstOfPairs ==
  ASSUME NEW b \in Bytes, Pairs(b) # {}
  PROVE  /\ FirstPair(b) \in Pairs(b) /\ \A j \in Pairs(b) : FirstPair(b) <= j
         /\ Found(b) \in Bytes /\ Len(Found(b)) = Len(b) - FirstPair(b) + 1
         /\ FirstPair(b) \in 1..(Len(b) - 1)
<1>1. Pairs(b) \in SUBSET Nat
  BY DEF Pairs
<1>2. \E i \in Pairs(b) : \A j \in Pairs(b) : i <= j
  BY <1>1, LeastNumber
<1>3. FirstPair(b) \in Pairs(b) /\ \A j \in Pairs(b) : FirstPair(b) <= j
  BY <1>2 DEF FirstPair
<1>4. FirstPair(b) \in 1..(Len(b) - 1) /\ Len(b) \in Nat
  BY <1>3 DEF Pairs, Bytes
<1>5. FirstPair(b) \in 1..(Len(b) + 1) /\ b \in Seq(0..Header)
  BY <1>4 DEF Bytes
<1>6. Found(b) \in Seq(0..Header) /\ Len(Found(b)) = Len(b) - FirstPair(b) + 1
  BY <1>5, FromProps DEF Found
<1> QED
  BY <1>3, <1>4, <1>6 DEF Bytes

LEMMA RoundShortens ==
  ASSUME NEW b \in Bytes, ~IsOver(b)
  PROVE  /\ Further(b) \in Bytes /\ Len(Further(b)) < Len(b)
         /\ Found(b) \in Bytes /\ Len(Found(b)) >= FrameSize
<1>1. Found(b) \in Seq(0..Header) /\ Len(Found(b)) <= Len(b) /\ Len(Found(b)) >= FrameSize
  <2>1. /\ Found(b) \in Bytes /\ Len(Found(b)) = Len(b) - FirstPair(b) + 1
        /\ FirstPair(b) \in 1..(Len(b) - 1)
    BY FirstOfPairs DEF IsOver
  <2>2. Len(Found(b)) \in Nat /\ Len(b) \in Nat /\ FrameSize \in Nat
    BY <2>1, AtProps DEF Bytes
  <2> QED
    BY <2>1, <2>2 DEF IsOver, Bytes
<1>2. ASSUME NEW i \in {2, FrameSize + 1}
      PROVE  From(Found(b), i) \in Seq(0..Header) /\ Len(From(Found(b), i)) < Len(b)
  <2>1. Len(Found(b)) \in Nat /\ Len(b) \in Nat /\ FrameSize \in Nat /\ FrameSize > 2
    <3>1. Len(Found(b)) \in Nat /\ Len(b) \in Nat
      BY <1>1 DEF Bytes
    <3> QED
      BY <3>1, AtProps
  <2>2. i \in 1..(Len(Found(b)) + 1) /\ i > 1
    BY <1>1, <2>1
  <2>3. From(Found(b), i) \in Seq(0..Header) /\ Len(From(Found(b), i)) = Len(Found(b)) - i + 1
    BY <1>1, <2>2, FromProps
  <2> QED
    BY <1>1, <2>1, <2>2, <2>3
<1> QED
  BY <1>1, <1>2 DEF Further, Bytes

LEMMA OverType == ASSUME NEW b \in Bytes, IsOver(b) PROVE Over(b) \in Parsed
<1>1. <<>> \in Bytes /\ (Pairs(b) # {} => Found(b) \in Bytes)
  BY FirstOfPairs DEF Bytes
<1> QED
  BY <1>1 DEF Over, Parsed

LEMMA AddedType ==
  ASSUME NEW b \in Bytes, ~IsOver(b), NEW d \in Parsed PROVE Added(b, d) \in Parsed
<1>1. Found(b) \in Seq(0..Header) /\ FrameSize \in 1..Len(Found(b)) /\ 0..Header \subseteq Nat
  <2>1. FrameSize \in Nat /\ FrameSize > 2
    BY AtProps
  <2>2. Found(b) \in Bytes /\ Len(Found(b)) >= FrameSize
    BY RoundShortens
  <2> QED
    BY <2>1, <2>2 DEF Bytes
<1>2. <<Found(b)[FrameSize]>> \in Seq(Nat) /\ d.frames \in Seq(Nat)
  <2>1. Found(b)[FrameSize] \in 0..Header
    BY <1>1, ElementOfSeq
  <2>2. Found(b)[FrameSize] \in Nat
    BY <1>1, <2>1
  <2> QED
    BY <2>2 DEF Parsed
<1>3. <<Found(b)[FrameSize]>> \o d.frames \in Seq(Nat)
  BY <1>2, ConcatProperties
<1> QED
  BY <1>3 DEF Added, Parsed

\* The loop ends, so the recursive definition defines it.
LEMMA ParseUnfolds ==
  \A b \in Bytes : Parse[b] = IF IsOver(b) THEN Over(b) ELSE Added(b, Parse[Further(b)])
<1> DEFINE S == Bytes
           done == {x \in S : IsOver(x)}
           measure == [x \in S |-> Len(x)]
           next == [x \in S \ done |-> Further(x)]
           base == [x \in done |-> Over(x)]
           join == [x \in S \ done |-> [d \in Parsed |-> Added(x, d)]]
           Unfolds(f) == f = [x \in S |->
             IF Len(x) < 2 THEN [frames |-> <<>>, rest |-> x]
             ELSE IF Pairs(x) = {} THEN [frames |-> <<>>, rest |-> <<>>]
             ELSE IF Len(Found(x)) < FrameSize THEN [frames |-> <<>>, rest |-> Found(x)]
             ELSE IF ~TryParseFrame(Found(x)) THEN f[From(Found(x), 2)]
             ELSE [frames |-> <<Found(x)[FrameSize]>> \o f[From(Found(x), FrameSize + 1)].frames,
                   rest |-> f[From(Found(x), FrameSize + 1)].rest]]
           Rounds(f) == \A x \in S : f[x] = IF IsOver(x) THEN Over(x) ELSE Added(x, f[Further(x)])
<1>1. measure \in [S -> Nat]
  BY DEF Bytes
<1>2. next \in [S \ done -> S] /\ \A x \in S \ done : measure[next[x]] < measure[x]
  BY RoundShortens
<1>3. base \in [done -> Parsed]
  BY OverType
<1>4. join \in [S \ done -> [Parsed -> Parsed]]
  BY AddedType
<1>5. PICK f \in [S -> Parsed] :
        \A x \in S : f[x] = IF x \in done THEN base[x] ELSE join[x][f[next[x]]]
  <2>1. IsLoop(S, Parsed, measure, done, next, base, join)
    <3>1. done \in SUBSET S
      OBVIOUS
    <3> HIDE DEF S, done, measure, next, base, join
    <3> QED
      BY <1>1, <1>2, <1>3, <1>4, <3>1 DEF IsLoop
  <2> HIDE DEF S, done, measure, next, base, join
  <2> QED
    BY <2>1, LoopEnds
<1>6. Rounds(f)
  <2> SUFFICES ASSUME NEW x \in S
               PROVE  f[x] = IF IsOver(x) THEN Over(x) ELSE Added(x, f[Further(x)])
    OBVIOUS
  <2>1. CASE IsOver(x)
    BY <1>5, <2>1
  <2>2. CASE ~IsOver(x)
    <3>1. x \in S \ done /\ Further(x) \in S /\ f[Further(x)] \in Parsed
      BY <2>2, RoundShortens
    <3>2. f[x] = join[x][f[next[x]]]
      BY <1>5, <3>1
    <3> QED
      BY <2>2, <3>1, <3>2
  <2> QED
    BY <2>1, <2>2
<1>7. Unfolds(f)
  <2>1. f = [x \in S |-> f[x]]
    OBVIOUS
  <2>2. ASSUME NEW x \in S
        PROVE f[x] =
             IF Len(x) < 2 THEN [frames |-> <<>>, rest |-> x]
             ELSE IF Pairs(x) = {} THEN [frames |-> <<>>, rest |-> <<>>]
             ELSE IF Len(Found(x)) < FrameSize THEN [frames |-> <<>>, rest |-> Found(x)]
             ELSE IF ~TryParseFrame(Found(x)) THEN f[From(Found(x), 2)]
             ELSE [frames |-> <<Found(x)[FrameSize]>> \o f[From(Found(x), FrameSize + 1)].frames,
                   rest |-> f[From(Found(x), FrameSize + 1)].rest]
    BY <1>6 DEF IsOver, Over, Further, Added
  <2> QED
    BY <2>1, <2>2, Zenon
<1>8. Unfolds(Parse)
  <2>1. Parse = CHOOSE g : Unfolds(g)
    BY DEF Parse, Found, Bytes
  <2> HIDE DEF Unfolds
  <2> QED
    BY <1>7, <2>1, Zenon
<1>9. ASSUME NEW x \in S
      PROVE Parse[x] =
             IF Len(x) < 2 THEN [frames |-> <<>>, rest |-> x]
             ELSE IF Pairs(x) = {} THEN [frames |-> <<>>, rest |-> <<>>]
             ELSE IF Len(Found(x)) < FrameSize THEN [frames |-> <<>>, rest |-> Found(x)]
             ELSE IF ~TryParseFrame(Found(x)) THEN Parse[From(Found(x), 2)]
             ELSE [frames |-> <<Found(x)[FrameSize]>> \o Parse[From(Found(x), FrameSize + 1)].frames,
                   rest |-> Parse[From(Found(x), FrameSize + 1)].rest]
  BY <1>8
<1> QED
  BY <1>9 DEF IsOver, Over, Further, Added

--------------------------------------------------------------------------------
\* What reading a piece gives: frames that follow one another, and what is left begins where the
\* last of them ends.  If the piece begins with a frame, that frame is the first.
FitsWith(d, p, q, k, m, s) ==
  /\ d.frames \in Seq(Nat) /\ Len(d.frames) = k /\ \A i \in 1..k : d.frames[i] = m + i - 1
  /\ Piece(d.rest, s, q) /\ p <= s
  /\ k > 0 => p <= At(m) /\ s = At(m + k)
  /\ \A a \in Nat : p = At(a) => IF k = 0 THEN s = p ELSE m = a
Fits(d, p, q) == \E k \in Nat : \E m \in Nat : \E s \in Nat : FitsWith(d, p, q, k, m, s)

\* The first pair of a piece that begins with a frame is at its beginning.
LEMMA PairFirst ==
  ASSUME NEW b, NEW p, NEW q, Piece(b, p, q), NEW a \in Nat, p = At(a), Len(b) >= 2
  PROVE  Pairs(b) # {} /\ FirstPair(b) = 1
<1>1. p \in Nat /\ q \in Nat /\ Len(b) = q - p /\ b \in Bytes
  BY DEF Piece, Bytes
<1>2. p <= At(a) /\ At(a) + 2 <= q /\ At(a) + 1 - p = 1
  BY <1>1
<1>3. 1 \in Pairs(b)
  BY <1>2, FramesArePairs
<1>4. FirstPair(b) \in 1..(Len(b) - 1) /\ FirstPair(b) <= 1
  BY <1>1, <1>3, FirstOfPairs
<1> QED
  BY <1>3, <1>4

LEMMA EmptyPiece == ASSUME NEW q \in Nat, q <= At(MaxFrame + 1) PROVE Piece(<<>>, q, q)
<1>1. ASSUME NEW m \in Nat, NEW j \in 1..FrameSize, q < At(m) + j, At(m) + j <= q PROVE FALSE
  <2>1. At(m) \in Nat /\ FrameSize \in Nat
    BY AtProps
  <2> QED
    BY <1>1, <2>1
<1> QED
  BY <1>1 DEF Piece

LEMMA OverFits ==
  ASSUME NEW b, NEW p, NEW q, Piece(b, p, q), IsOver(b)
  PROVE  Fits(Over(b), p, q)
<1>1. /\ p \in Nat /\ q \in Nat /\ p <= q /\ q <= At(MaxFrame + 1) /\ Len(b) = q - p
      /\ b \in Bytes /\ Len(b) \in Nat
  BY DEF Piece, Bytes
<1>2. ASSUME NEW s \in Nat, Piece(Over(b).rest, s, q), p <= s, \A a \in Nat : p = At(a) => s = p
      PROVE  Fits(Over(b), p, q)
  <2>1. Over(b).frames = <<>> /\ <<>> \in Seq(Nat) /\ Len(<<>>) = 0
    BY DEF Over
  <2>2. 0 \in Nat /\ FitsWith(Over(b), p, q, 0, 0, s)
    BY <1>2, <2>1 DEF FitsWith
  <2> QED
    BY <1>2, <2>2 DEF Fits
<1>3. CASE Len(b) < 2
  <2>1. Over(b).rest = b
    BY <1>3 DEF Over
  <2> QED
    BY <1>1, <1>2, <2>1
<1>4. CASE Len(b) >= 2 /\ Pairs(b) = {}
  <2>1. Over(b).rest = <<>>
    BY <1>1, <1>4 DEF Over
  <2>2. \A a \in Nat : p = At(a) => q = p
    BY <1>4, PairFirst
  <2> QED
    BY <1>1, <1>2, <2>1, <2>2, EmptyPiece
<1>5. CASE Len(b) >= 2 /\ Pairs(b) # {}
  <2>1. Over(b).rest = Found(b)
    BY <1>1, <1>5 DEF Over
  <2>2. FirstPair(b) \in 1..(Len(b) - 1)
    BY <1>1, <1>5, FirstOfPairs
  <2>3. Piece(Found(b), p + FirstPair(b) - 1, q)
    <3>1. FirstPair(b) \in 1..(Len(b) + 1)
      BY <1>1, <2>2
    <3> QED
      BY <3>1, RestOfPiece DEF Found
  <2>4. p + FirstPair(b) - 1 \in Nat /\ p <= p + FirstPair(b) - 1
    BY <1>1, <2>2
  <2>5. \A a \in Nat : p = At(a) => p + FirstPair(b) - 1 = p
    BY <1>1, <1>5, PairFirst
  <2> QED
    BY <1>2, <2>1, <2>3, <2>4, <2>5
<1> QED
  BY <1>1, <1>3, <1>4, <1>5

LEMMA AtInjective == ASSUME NEW m \in Nat, NEW n \in Nat, At(m) = At(n) PROVE m = n
<1>1. At(m) \in Nat /\ FrameSize \in Nat /\ FrameSize > 2
  BY AtProps
<1>2. m < n \/ n < m => At(m) + FrameSize <= At(n) \/ At(n) + FrameSize <= At(m)
  BY AtProps
<1>3. ~(m < n) /\ ~(n < m)
  BY <1>1, <1>2
<1> QED
  BY <1>3

\* A round that goes on has found a frame: what it takes off is one, and the next follows it.
LEMMA RoundTakesFrame ==
  ASSUME NEW b, NEW p, NEW q, Piece(b, p, q), ~IsOver(b)
  PROVE  \E m \in 0..MaxFrame :
           /\ p <= At(m) /\ \A a \in Nat : p = At(a) => m = a
           /\ TryParseFrame(Found(b)) /\ Found(b)[FrameSize] = m
           /\ Piece(Further(b), At(m + 1), q)
<1>1. /\ p \in Nat /\ q \in Nat /\ p <= q /\ q <= At(MaxFrame + 1) /\ Len(b) = q - p
      /\ b \in Bytes /\ Len(b) \in Nat /\ Len(b) >= 2
  BY DEF Piece, Bytes, IsOver
<1>2. /\ FirstPair(b) \in Pairs(b) /\ FirstPair(b) \in 1..(Len(b) - 1)
      /\ Found(b) \in Bytes /\ Len(Found(b)) >= FrameSize
  BY <1>1, FirstOfPairs, RoundShortens DEF IsOver
<1>3. PICK m \in 0..MaxFrame : p + FirstPair(b) = At(m) + 1
  BY <1>2, PairsAreFrames
<1>4. /\ m \in Nat /\ At(m) \in Nat /\ At(m + 1) = At(m) + FrameSize
      /\ FrameSize \in Nat /\ FrameSize > 2
  BY AtProps
<1>5. p <= At(m) /\ p + FirstPair(b) - 1 = At(m)
  BY <1>1, <1>2, <1>3, <1>4
<1>6. Piece(Found(b), At(m), q)
  <2>1. FirstPair(b) \in 1..(Len(b) + 1)
    BY <1>1, <1>2
  <2>2. Piece(Found(b), p + FirstPair(b) - 1, q)
    BY <2>1, RestOfPiece DEF Found
  <2> QED
    BY <1>5, <2>2
<1>7. Found(b) \in Seq(0..Header) /\ Len(Found(b)) = q - At(m) /\ Len(Found(b)) \in Nat
  BY <1>6 DEF Piece
<1>8. \A j \in 1..FrameSize : Found(b)[j] = Frame(m)[j]
  <2> SUFFICES ASSUME NEW j \in 1..FrameSize PROVE Found(b)[j] = Frame(m)[j]
    OBVIOUS
  <2>1. At(m) < At(m) + j /\ At(m) + j <= q /\ At(m) + j - At(m) = j
    BY <1>1, <1>2, <1>4, <1>7
  <2> QED
    BY <1>4, <1>6, <2>1 DEF Piece
<1>9. TryParseFrame(Found(b)) /\ Found(b)[FrameSize] = m
  <2>1. FrameSize \in 1..FrameSize /\ ~(FrameSize <= 2)
    BY <1>4
  <2>2. Found(b)[FrameSize] = m
    BY <1>8, <2>1, FrameBytes
  <2>3. /\ SubSeq(Found(b), 1, FrameSize) \in Seq(0..Header)
        /\ Len(SubSeq(Found(b), 1, FrameSize)) = FrameSize
        /\ \A i \in 1..FrameSize : SubSeq(Found(b), 1, FrameSize)[i] = Found(b)[i]
    <3>1. \A i \in 1..FrameSize : Found(b)[i] \in 0..Header
      <4>1. \A i \in 1..FrameSize : i \in 1..Len(Found(b))
        BY <1>2, <1>4, <1>7
      <4> QED
        BY <1>7, <4>1, ElementOfSeq
    <3>2. /\ SubSeq(Found(b), 1, FrameSize) \in Seq(0..Header)
          /\ Len(SubSeq(Found(b), 1, FrameSize)) = IF 1 <= FrameSize THEN FrameSize - 1 + 1 ELSE 0
          /\ \A i \in 1..(FrameSize - 1 + 1) : SubSeq(Found(b), 1, FrameSize)[i] = Found(b)[1 + i - 1]
      BY <1>4, <3>1, SubSeqProperties
    <3> QED
      BY <1>4, <3>2
  <2>4. SubSeq(Found(b), 1, FrameSize) = Frame(m)
    <3>1. Frame(m) \in Seq(0..Header) /\ Len(Frame(m)) = FrameSize
      BY FrameBytes
    <3>2. \A i \in 1..FrameSize : SubSeq(Found(b), 1, FrameSize)[i] = Frame(m)[i]
      BY <1>8, <2>3
    <3> QED
      BY <2>3, <3>1, <3>2, SeqEqual
  <2> QED
    BY <2>2, <2>4 DEF TryParseFrame
<1>10. Piece(Further(b), At(m + 1), q)
  <2>1. FrameSize + 1 \in 1..(Len(Found(b)) + 1)
    BY <1>2, <1>4, <1>7
  <2>2. Piece(From(Found(b), FrameSize + 1), At(m) + (FrameSize + 1) - 1, q)
    BY <1>6, <2>1, RestOfPiece
  <2>3. At(m) + (FrameSize + 1) - 1 = At(m + 1)
    BY <1>4
  <2> QED
    BY <1>9, <2>2, <2>3 DEF Further
<1>11. \A a \in Nat : p = At(a) => m = a
  <2> SUFFICES ASSUME NEW a \in Nat, p = At(a) PROVE m = a
    OBVIOUS
  <2>1. FirstPair(b) = 1
    BY <1>1, PairFirst
  <2>2. At(m) = At(a)
    BY <1>1, <1>4, <1>5, <2>1
  <2> QED
    BY <1>4, <2>2, AtInjective
<1> QED
  BY <1>5, <1>9, <1>10, <1>11

LEMMA AddedFits ==
  ASSUME NEW b, NEW p \in Nat, NEW q, NEW m \in Nat, NEW d,
         p <= At(m), \A a \in Nat : p = At(a) => m = a,
         TryParseFrame(Found(b)), Found(b)[FrameSize] = m, Fits(d, At(m + 1), q)
  PROVE  Fits(Added(b, d), p, q)
<1>1. PICK k \in Nat, n \in Nat, s \in Nat : FitsWith(d, At(m + 1), q, k, n, s)
  BY DEF Fits
<1>2. /\ d.frames \in Seq(Nat) /\ Len(d.frames) = k /\ \A i \in 1..k : d.frames[i] = n + i - 1
      /\ Piece(d.rest, s, q) /\ At(m + 1) <= s
      /\ k > 0 => At(m + 1) <= At(n) /\ s = At(n + k)
      /\ \A a \in Nat : At(m + 1) = At(a) => IF k = 0 THEN s = At(m + 1) ELSE n = a
  BY <1>1 DEF FitsWith
<1>3. IF k = 0 THEN s = At(m + 1) ELSE n = m + 1
  BY <1>2
<1>4. s = At(m + (k + 1))
  <2>1. CASE k = 0
    BY <1>3, <2>1
  <2>2. CASE k # 0
    <3>1. n + k = m + (k + 1)
      BY <1>3, <2>2
    <3> QED
      BY <1>2, <2>2, <3>1
  <2> QED
    BY <2>1, <2>2
<1> DEFINE all == <<m>> \o d.frames
<1>5. all \in Seq(Nat) /\ Len(all) = k + 1 /\ \A i \in 1..(k + 1) : all[i] = m + i - 1
  <2>1. <<m>> \in Seq(Nat) /\ Len(<<m>>) = 1 /\ <<m>>[1] = m
    OBVIOUS
  <2>2. /\ all \in Seq(Nat) /\ Len(all) = 1 + k
        /\ \A i \in 1..(1 + k) : all[i] = IF i <= 1 THEN <<m>>[i] ELSE d.frames[i - 1]
    <3>1. /\ all \in Seq(Nat) /\ Len(all) = Len(<<m>>) + Len(d.frames)
          /\ \A i \in 1..(Len(<<m>>) + Len(d.frames)) :
               all[i] = IF i <= Len(<<m>>) THEN <<m>>[i] ELSE d.frames[i - Len(<<m>>)]
      BY <1>2, <2>1, ConcatProperties
    <3> HIDE DEF all
    <3> QED
      BY <1>2, <2>1, <3>1
  <2> HIDE DEF all
  <2>3. ASSUME NEW i \in 1..(k + 1) PROVE all[i] = m + i - 1
    <3>1. CASE i = 1
      BY <2>1, <2>2, <3>1
    <3>2. CASE i > 1
      <4>1. i - 1 \in 1..k /\ k # 0 /\ i \in 1..(1 + k) /\ ~(i <= 1)
        BY <3>2
      <4>2. all[i] = d.frames[i - 1]
        BY <2>2, <4>1
      <4>3. d.frames[i - 1] = n + (i - 1) - 1 /\ n = m + 1
        BY <1>2, <1>3, <4>1
      <4> QED
        BY <4>2, <4>3
    <3> QED
      BY <3>1, <3>2
  <2> QED
    BY <2>2, <2>3
<1>6. Added(b, d).frames = all /\ Added(b, d).rest = d.rest
  BY DEF Added
<1>7. p <= s /\ k + 1 \in Nat /\ k + 1 > 0
  <2>1. At(m) \in Nat /\ FrameSize \in Nat /\ At(m + 1) = At(m) + FrameSize
    BY AtProps
  <2> QED
    BY <1>2, <2>1
<1> HIDE DEF all
<1> QED
  <2>1. FitsWith(Added(b, d), p, q, k + 1, m, s)
    BY <1>2, <1>4, <1>5, <1>6, <1>7 DEF FitsWith
  <2> QED
    BY <1>7, <2>1 DEF Fits

\* Whatever piece is read, what comes out fits.
LEMMA ParseFits == ASSUME NEW b, NEW p, NEW q, Piece(b, p, q) PROVE Fits(Parse[b], p, q)
<1> DEFINE T == {n \in Nat : \A c \in Bytes : \A u, v \in Nat :
                   Len(c) = n /\ Piece(c, u, v) => Fits(Parse[c], u, v)}
<1>1. ASSUME NEW n \in Nat, \A l \in Nat : l < n => l \in T PROVE n \in T
  <2> SUFFICES ASSUME NEW c \in Bytes, NEW u \in Nat, NEW v \in Nat, Len(c) = n, Piece(c, u, v)
               PROVE  Fits(Parse[c], u, v)
    OBVIOUS
  <2>1. CASE IsOver(c)
    BY <2>1, OverFits, ParseUnfolds
  <2>2. CASE ~IsOver(c)
    <3>1. PICK m \in 0..MaxFrame :
            /\ u <= At(m) /\ \A a \in Nat : u = At(a) => m = a
            /\ TryParseFrame(Found(c)) /\ Found(c)[FrameSize] = m
            /\ Piece(Further(c), At(m + 1), v)
      BY <2>2, RoundTakesFrame
    <3>2. Further(c) \in Bytes /\ Len(Further(c)) \in Nat /\ Len(Further(c)) < n
      BY <2>2, RoundShortens DEF Bytes
    <3>3. m \in Nat /\ At(m + 1) \in Nat
      BY AtProps
    <3>4. Fits(Parse[Further(c)], At(m + 1), v)
      BY <1>1, <3>1, <3>2, <3>3
    <3>5. Fits(Added(c, Parse[Further(c)]), u, v)
      BY <3>1, <3>3, <3>4, AddedFits
    <3> QED
      BY <2>2, <3>5, ParseUnfolds
  <2> QED
    BY <2>1, <2>2
<1>2. Nat \subseteq T
  <2> HIDE DEF T
  <2> QED
    BY <1>1, Induction
<1>3. b \in Bytes /\ p \in Nat /\ q \in Nat /\ Len(b) \in Nat
  BY DEF Piece, Bytes
<1> QED
  BY <1>2, <1>3

--------------------------------------------------------------------------------
\* A whole frame is a piece, the beginning of a piece is one, and so are two that meet.
LEMMA AtOrder ==
  ASSUME NEW m \in Nat, NEW n \in Nat, m <= n
  PROVE  At(m) \in Nat /\ At(n) \in Nat /\ At(m) <= At(n)
<1>1. At(m) \in Nat /\ At(n) \in Nat /\ FrameSize \in Nat /\ (m < n => At(m) + FrameSize <= At(n))
  BY AtProps
<1>2. CASE m = n
  BY <1>1, <1>2
<1>3. CASE m < n
  BY <1>1, <1>3
<1> QED
  BY <1>2, <1>3

LEMMA AtReflects ==
  ASSUME NEW m \in Nat, NEW n \in Nat, At(m) <= At(n) PROVE m <= n
<1>1. At(m) \in Nat /\ At(n) \in Nat /\ FrameSize \in Nat /\ FrameSize > 2
  BY AtProps
<1>2. n < m => At(n) + FrameSize <= At(m)
  BY AtProps
<1> QED
  BY <1>1, <1>2

LEMMA FramePiece == ASSUME NEW n \in 0..MaxFrame PROVE Piece(Frame(n), At(n), At(n + 1))
<1>1. MaxFrame \in Nat /\ n \in Nat /\ n + 1 \in Nat /\ MaxFrame + 1 \in Nat /\ n + 1 <= MaxFrame + 1
  BY TfminiAssumption
<1>2. /\ At(n) \in Nat /\ At(n + 1) \in Nat /\ At(n + 1) = At(n) + FrameSize
      /\ FrameSize \in Nat /\ FrameSize > 2
  BY <1>1, AtProps
<1>3. At(n + 1) <= At(MaxFrame + 1)
  BY <1>1, AtOrder
<1>4. Frame(n) \in Seq(0..Header) /\ Len(Frame(n)) = At(n + 1) - At(n)
  BY <1>2, FrameBytes
<1>5. ASSUME NEW m \in Nat, NEW j \in 1..FrameSize, At(n) < At(m) + j, At(m) + j <= At(n + 1)
      PROVE  Frame(n)[At(m) + j - At(n)] = Frame(m)[j]
  <2>1. At(m) \in Nat
    BY AtProps
  <2>2. m < n => At(m) + FrameSize <= At(n)
    BY <1>1, AtProps
  <2>3. n < m => At(n) + FrameSize <= At(m)
    BY <1>1, AtProps
  <2>4. m = n
    BY <1>1, <1>2, <1>5, <2>1, <2>2, <2>3
  <2>5. At(m) + j - At(n) = j
    BY <1>2, <2>4
  <2> QED
    BY <2>4, <2>5
<1> QED
  BY <1>2, <1>3, <1>4, <1>5 DEF Piece

LEMMA StartOfPiece ==
  ASSUME NEW b, NEW p, NEW q, Piece(b, p, q), NEW n \in 0..Len(b)
  PROVE  Piece(SubSeq(b, 1, n), p, p + n)
<1>1. /\ p \in Nat /\ q \in Nat /\ q <= At(MaxFrame + 1) /\ Len(b) = q - p
      /\ b \in Seq(0..Header) /\ Len(b) \in Nat
  BY DEF Piece
<1>2. /\ SubSeq(b, 1, n) \in Seq(0..Header) /\ Len(SubSeq(b, 1, n)) = n
      /\ \A i \in 1..n : SubSeq(b, 1, n)[i] = b[i]
  <2>1. \A i \in 1..n : i \in 1..Len(b)
    BY <1>1
  <2>2. \A i \in 1..n : b[i] \in 0..Header
    BY <1>1, <2>1, ElementOfSeq
  <2>3. n \in Int /\ 1 \in Int
    BY <1>1
  <2>4. /\ SubSeq(b, 1, n) \in Seq(0..Header)
        /\ Len(SubSeq(b, 1, n)) = IF 1 <= n THEN n - 1 + 1 ELSE 0
        /\ \A i \in 1..(n - 1 + 1) : SubSeq(b, 1, n)[i] = b[1 + i - 1]
    BY <2>2, <2>3, SubSeqProperties
  <2>5. n - 1 + 1 = n /\ n >= 0 /\ \A i \in 1..n : 1 + i - 1 = i
    BY <2>3
  <2> QED
    BY <2>3, <2>4, <2>5
<1>3. ASSUME NEW m \in Nat, NEW j \in 1..FrameSize, p < At(m) + j, At(m) + j <= p + n
      PROVE  SubSeq(b, 1, n)[At(m) + j - p] = Frame(m)[j]
  <2>1. At(m) \in Nat /\ FrameSize \in Nat
    BY AtProps
  <2>2. At(m) + j - p \in 1..n /\ At(m) + j <= q
    BY <1>1, <1>3, <2>1
  <2>3. b[At(m) + j - p] = Frame(m)[j]
    BY <1>3, <2>2 DEF Piece
  <2> QED
    BY <1>2, <2>2, <2>3
<1>4. p + n \in Nat /\ p <= p + n /\ p + n <= At(MaxFrame + 1) /\ n = (p + n) - p
  <2>1. MaxFrame + 1 \in Nat
    BY TfminiAssumption
  <2>2. At(MaxFrame + 1) \in Nat
    BY <2>1, AtProps
  <2>3. p + n <= q
    BY <1>1
  <2> QED
    BY <1>1, <2>2, <2>3
<1> QED
  BY <1>1, <1>2, <1>3, <1>4 DEF Piece

LEMMA PiecesMeet ==
  ASSUME NEW a, NEW b, NEW p, NEW q, NEW r, Piece(a, p, q), Piece(b, q, r)
  PROVE  Piece(a \o b, p, r)
<1>1. /\ p \in Nat /\ q \in Nat /\ r \in Nat /\ p <= q /\ q <= r /\ r <= At(MaxFrame + 1)
      /\ a \in Seq(0..Header) /\ Len(a) = q - p /\ b \in Seq(0..Header) /\ Len(b) = r - q
  BY DEF Piece
<1>2. /\ a \o b \in Seq(0..Header) /\ Len(a \o b) = Len(a) + Len(b)
      /\ \A i \in 1..(Len(a) + Len(b)) : (a \o b)[i] = IF i <= Len(a) THEN a[i] ELSE b[i - Len(a)]
  BY <1>1, ConcatProperties
<1>3. ASSUME NEW m \in Nat, NEW j \in 1..FrameSize, p < At(m) + j, At(m) + j <= r
      PROVE  (a \o b)[At(m) + j - p] = Frame(m)[j]
  <2>1. At(m) \in Nat /\ FrameSize \in Nat
    BY AtProps
  <2>2. At(m) + j - p \in 1..(Len(a) + Len(b))
    BY <1>1, <1>3, <2>1
  <2>3. CASE At(m) + j <= q
    <3>1. At(m) + j - p <= Len(a) /\ a[At(m) + j - p] = Frame(m)[j]
      BY <1>1, <1>3, <2>1, <2>3 DEF Piece
    <3> QED
      BY <1>2, <2>2, <3>1
  <2>4. CASE At(m) + j > q
    <3>1. ~(At(m) + j - p <= Len(a)) /\ At(m) + j - p - Len(a) = At(m) + j - q /\ q < At(m) + j
      BY <1>1, <2>1, <2>4
    <3>2. b[At(m) + j - q] = Frame(m)[j]
      BY <1>3, <3>1 DEF Piece
    <3>3. (a \o b)[At(m) + j - p] = b[At(m) + j - p - Len(a)]
      <4>1. PICK i \in Int : i = At(m) + j - p
        BY <1>1, <2>1
      <4>2. i \in 1..(Len(a) + Len(b)) /\ ~(i <= Len(a))
        BY <2>2, <3>1, <4>1
      <4>3. (a \o b)[i] = b[i - Len(a)]
        BY <1>2, <4>2
      <4>4. i - Len(a) = At(m) + j - p - Len(a)
        BY <1>1, <2>1, <4>1
      <4> QED
        BY <4>1, <4>3, <4>4, Zenon
    <3>4. (a \o b)[At(m) + j - p] = b[At(m) + j - q]
      BY <3>1, <3>3
    <3> QED
      BY <3>2, <3>4
  <2>5. At(m) + j <= q \/ At(m) + j > q
    BY <1>1, <2>1
  <2> QED
    BY <2>3, <2>4, <2>5
<1>4. Len(a) + Len(b) = r - p /\ p <= r
  BY <1>1
<1> QED
  BY <1>1, <1>2, <1>3, <1>4 DEF Piece

--------------------------------------------------------------------------------
\* Where the buffer and the wire lie in what the sensor sends.  The buffer begins at or after the
\* end of every frame that was read, and at the end of the last one unless it was trimmed.
Last == distances[Len(distances)]
Lies(p, q) ==
  /\ p >= 1 /\ Piece(buffer, p, q) /\ Piece(wire, q, At(sent + 1))
  /\ \A i \in 1..Len(distances) : At(distances[i] + 1) <= p
  /\ port /\ ~trimmed /\ distances # <<>> =>
       p = At(Last + 1) /\ Last - distances[1] + 1 = Len(distances)

Starting == phase = "created" \/ \E i \in 1..Len(inbox) : inbox[i].what = "start"
Unread ==
  /\ port = FALSE /\ wire = <<>> /\ buffer = <<>> /\ sent = 0 /\ distances = <<>> /\ trimmed = FALSE

StreamInv ==
  /\ sent \in 0..MaxFrame /\ distances \in Seq(Nat)
  /\ \A i, j \in 1..Len(distances) : i < j => distances[i] < distances[j]
  /\ \A i \in 1..Len(distances) : distances[i] \in 1..sent
  /\ \E p \in Nat : \E q \in Nat : Lies(p, q)
  /\ kind # "tfmini" \/ Starting => Unread

LEMMA EndOfSent ==
  ASSUME sent \in 0..MaxFrame
  PROVE  /\ sent \in Nat /\ sent + 1 \in Nat /\ At(sent + 1) \in Nat /\ At(sent + 1) >= 1
         /\ At(sent + 1) <= At(MaxFrame + 1) /\ Piece(<<>>, At(sent + 1), At(sent + 1))
<1>1. /\ sent \in Nat /\ sent + 1 \in Nat /\ MaxFrame + 1 \in Nat /\ sent + 1 <= MaxFrame + 1
      /\ 1 \in Nat /\ 1 <= sent + 1 /\ 0 \in Nat
  BY TfminiAssumption
<1>2. At(sent + 1) \in Nat /\ At(sent + 1) <= At(MaxFrame + 1) /\ At(1) <= At(sent + 1) /\ At(1) \in Nat
  BY <1>1, AtOrder
<1>3. At(1) > 2
  <2>1. At(0 + 1) = At(0) + FrameSize /\ At(0) = 0 /\ FrameSize \in Nat /\ FrameSize > 2
    BY <1>1, AtProps
  <2> QED
    BY <2>1
<1>4. At(sent + 1) >= 1
  BY <1>2, <1>3
<1> QED
  BY <1>1, <1>2, <1>4, EmptyPiece

LEMMA UnreadLies == ASSUME Unread PROVE StreamInv
<1>1. 0 \in 0..MaxFrame /\ sent = 0
  BY TfminiAssumption DEF Unread
<1>2. Lies(At(sent + 1), At(sent + 1)) /\ At(sent + 1) \in Nat
  BY <1>1, EndOfSent DEF Lies, Unread
<1>3. distances \in Seq(Nat) /\ Len(distances) = 0
  BY DEF Unread
<1> QED
  BY <1>1, <1>2, <1>3 DEF StreamInv

LEMMA InitStream == Init => StreamInv
<1>1. Init => Unread
  BY DEF Init, TfminiInit, Unread
<1> QED
  BY <1>1, UnreadLies

\* What leaves the stream alone, and starts nothing, keeps it.
LEMMA StreamStays ==
  ASSUME StreamInv, UNCHANGED tfminiVars, kind' = kind, kind = "tfmini" /\ Starting' => Starting
  PROVE  StreamInv'
<1>1. \A p, q \in Nat : Lies(p, q) => Lies(p, q)'
  BY DEF Lies, Last, tfminiVars
<1>2. Unread => Unread'
  BY DEF Unread, tfminiVars
<1> QED
  BY <1>1, <1>2 DEF StreamInv, tfminiVars

LEMMA CommonStreams ==
  ASSUME CallbackInv, StreamInv, Common PROVE StreamInv'
<1>1. UNCHANGED tfminiVars
  BY DEF Common
<1>2. kind' = kind /\ (Starting' => Starting)
  <2>1. CASE StartService
    BY <2>1 DEF StartService, Starting
  <2>2. CASE EndThread
    BY <2>2 DEF EndThread, Starting
  <2>3. CASE StopReturns
    BY <2>3 DEF StopReturns, Starting
  <2> QED
    BY <2>1, <2>2, <2>3 DEF Common
<1> QED
  BY <1>1, <1>2, StreamStays

LEMMA ServiceStreams ==
  ASSUME CallbackInv, StreamInv, kind = "tfmini", TfminiMain \/ OnSerialError PROVE StreamInv'
<1>1. UNCHANGED tfminiVars /\ kind' = kind
  BY DEF TfminiMain, TfminiStateChanged, TfminiOpenFinished, TfminiStop, OnWorkerStateChanged,
         StopService, OnSerialError, TfminiUnchanged
<1>2. Starting' => Starting
  <2>1. CASE TfminiStop
    <3>1. inbox' = Append(inbox, Call("stop", Nothing)) /\ phase' = "stopping" /\ inbox \in Seq(Called)
      BY <2>1 DEF TfminiStop, StopService, CallbackInv
    <3>2. \A i \in 1..Len(inbox') :
            inbox'[i] = Call("stop", Nothing) \/ (i \in 1..Len(inbox) /\ inbox'[i] = inbox[i])
      BY <3>1
    <3>3. Call("stop", Nothing).what # "start"
      BY DEF Call
    <3> QED
      BY <3>1, <3>2, <3>3 DEF Starting
  <2>2. CASE ~TfminiStop
    <3>1. UNCHANGED <<phase, inbox>>
      BY <2>2 DEF TfminiMain, TfminiStateChanged, TfminiOpenFinished, OnWorkerStateChanged,
                  OnSerialError, TfminiUnchanged
    <3> QED
      BY <3>1 DEF Starting
  <2> QED
    BY <2>1, <2>2
<1> QED
  BY <1>1, <1>2, StreamStays

LEMMA NoLongerStarting ==
  ASSUME CallbackInv, NEW what, Takes(what), phase' = phase \/ phase' = "joining",
         what = "start" \/ phase' = "joining"
  PROVE  ~Starting'
<1>1. inbox \in Seq(Called) /\ StartIsFirst
  BY DEF CallbackInv
<1>2. /\ \A i \in 1..Len(inbox') : inbox'[i].what # "start"
      /\ what = "start" => phase \in {"started", "stopping"}
  BY <1>1, TakenKeeps
<1> QED
  BY <1>2 DEF Starting

LEMMA StartStreams ==
  ASSUME CallbackInv, StreamInv, kind = "tfmini", TfminiStartWorker PROVE StreamInv'
<1>1. ~Starting' /\ Unread /\ kind' = "tfmini"
  <2>1. Takes("start") /\ phase' = phase /\ kind' = kind
    BY DEF TfminiStartWorker, TfminiUnchanged
  <2>2. inbox # <<>> /\ inbox \in Seq(Called) /\ inbox[1].what = "start"
    BY <2>1 DEF Takes, CallbackInv
  <2>3. Starting
    <3>1. 1 \in 1..Len(inbox)
      BY <2>2
    <3> QED
      BY <2>2, <3>1 DEF Starting
  <2> QED
    BY <2>1, <2>3, NoLongerStarting DEF StreamInv
<1>2. /\ buffer' = <<>> /\ sent' = 0 /\ distances' = <<>> /\ trimmed' = FALSE
  BY <1>1 DEF TfminiStartWorker, Unread
<1>3. CASE UNCHANGED <<port, wire>>
  <2>1. Unread'
    BY <1>1, <1>2, <1>3 DEF Unread
  <2>2. (Unread => StreamInv)'
    BY UnreadLies, PTL
  <2> QED
    BY <2>1, <2>2
<1>4. CASE \E n \in 0..(FrameSize - 1) : wire' = SubSeq(Frame(0), FrameSize - n + 1, FrameSize)
  <2>1. PICK n \in 0..(FrameSize - 1) : wire' = SubSeq(Frame(0), FrameSize - n + 1, FrameSize)
    BY <1>4
  <2>2. /\ FrameSize \in Nat /\ FrameSize > 2 /\ 0 \in 0..MaxFrame /\ 0 \in Nat
        /\ At(0) = 0 /\ At(0 + 1) = At(0) + FrameSize
    <3>1. 0 \in 0..MaxFrame /\ 0 \in Nat
      BY TfminiAssumption
    <3> QED
      BY <3>1, AtProps
  <2> DEFINE p == FrameSize - n
  <2>3. p \in Nat /\ p >= 1 /\ p + 1 \in 1..(FrameSize + 1) /\ p <= FrameSize /\ At(1) = FrameSize
    BY <2>2
  <2>4. Piece(Frame(0), 0, FrameSize) /\ Len(Frame(0)) = FrameSize
    <3>1. Piece(Frame(0), At(0), At(0 + 1)) /\ Len(Frame(0)) = FrameSize
      BY <2>2, FramePiece, FrameBytes
    <3>2. At(0 + 1) = FrameSize
      BY <2>2
    <3> QED
      BY <2>2, <3>1, <3>2
  <2>5. wire' = From(Frame(0), p + 1)
    BY <2>1, <2>4 DEF From
  <2> HIDE DEF p
  <2>6. Piece(wire', p, FrameSize)
    <3>1. Piece(From(Frame(0), p + 1), 0 + (p + 1) - 1, FrameSize)
      BY <2>3, <2>4, RestOfPiece
    <3>2. 0 + (p + 1) - 1 = p
      BY <2>3
    <3> QED
      BY <2>5, <3>1, <3>2
  <2>7. Piece(<<>>, p, p)
    <3>1. FrameSize <= At(MaxFrame + 1)
      BY <2>4 DEF Piece
    <3>2. At(MaxFrame + 1) \in Nat
      BY AtProps, TfminiAssumption
    <3>3. p <= At(MaxFrame + 1)
      BY <2>2, <2>3, <3>1, <3>2
    <3> QED
      BY <2>3, <3>3, EmptyPiece
  <2>8. At(sent' + 1) = FrameSize
    <3>1. sent' + 1 = 1
      BY <1>2
    <3> QED
      BY <2>3, <3>1
  <2>9. Lies(p, p)'
    <3>1. distances' = <<>> /\ Len(distances') = 0
      BY <1>2
    <3> QED
      BY <1>2, <2>3, <2>6, <2>7, <2>8, <3>1 DEF Lies
  <2>10. distances' \in Seq(Nat) /\ Len(distances') = 0
    BY <1>2
  <2> QED
    BY <1>1, <1>2, <2>2, <2>3, <2>9, <2>10 DEF StreamInv
<1> QED
  BY <1>3, <1>4 DEF TfminiStartWorker

LEMMA StopStreams ==
  ASSUME CallbackInv, StreamInv, kind = "tfmini", TfminiStopWorker PROVE StreamInv'
<1>1. ~Starting' /\ kind' = "tfmini"
  <2>1. Takes("stop") /\ phase' = "joining" /\ kind' = kind
    BY DEF TfminiStopWorker, StopWorkerDone
  <2> QED
    BY <2>1, NoLongerStarting
<1>2. port' = FALSE /\ buffer' = <<>> /\ wire' = <<>> /\ UNCHANGED <<sent, distances, trimmed>>
  BY DEF TfminiStopWorker
<1>3. sent \in 0..MaxFrame /\ distances \in Seq(Nat) /\ \A i \in 1..Len(distances) : distances[i] \in 1..sent
  BY DEF StreamInv
<1>4. /\ sent \in Nat /\ At(sent + 1) \in Nat /\ At(sent + 1) >= 1
      /\ Piece(<<>>, At(sent + 1), At(sent + 1))
  BY <1>3, EndOfSent
<1>5. \A i \in 1..Len(distances) : At(distances[i] + 1) <= At(sent + 1)
  <2> SUFFICES ASSUME NEW i \in 1..Len(distances) PROVE At(distances[i] + 1) <= At(sent + 1)
    OBVIOUS
  <2>1. distances[i] + 1 \in Nat /\ sent + 1 \in Nat /\ distances[i] + 1 <= sent + 1
    BY <1>3, <1>4
  <2> QED
    BY <2>1, AtOrder
<1>6. Lies(At(sent + 1), At(sent + 1))'
  BY <1>2, <1>4, <1>5 DEF Lies
<1> QED
  BY <1>1, <1>2, <1>3, <1>4, <1>6 DEF StreamInv

\* The sensor sends its next frame to the end of what it sent.
LEMMA NotStarting ==
  ASSUME StreamInv, kind = "tfmini", port = TRUE, UNCHANGED <<phase, inbox>>
  PROVE  ~Starting'
  BY DEF StreamInv, Unread, Starting

LEMMA SendStreams ==
  ASSUME StreamInv, kind = "tfmini", SensorSends PROVE StreamInv'
<1>1. /\ UNCHANGED <<kind, phase, inbox, port, buffer, distances, trimmed>>
      /\ port /\ sent < MaxFrame /\ sent' = sent + 1 /\ wire' = wire \o Frame(sent + 1)
  BY DEF SensorSends, serviceVars
<1>2. /\ sent \in 0..MaxFrame /\ distances \in Seq(Nat)
      /\ \A i, j \in 1..Len(distances) : i < j => distances[i] < distances[j]
      /\ \A i \in 1..Len(distances) : distances[i] \in 1..sent
  BY DEF StreamInv
<1>3. sent + 1 \in 0..MaxFrame
  BY <1>1, <1>2, TfminiAssumption
<1>4. PICK p \in Nat, q \in Nat : Lies(p, q)
  BY DEF StreamInv
<1>5. Piece(wire', q, At(sent' + 1))
  <2>1. Piece(wire, q, At(sent + 1)) /\ Piece(Frame(sent + 1), At(sent + 1), At((sent + 1) + 1))
    BY <1>3, <1>4, FramePiece DEF Lies
  <2> QED
    BY <1>1, <2>1, PiecesMeet
<1>6. Lies(p, q)'
  BY <1>1, <1>4, <1>5 DEF Lies, Last
<1>7. ~Starting'
  BY <1>1, NotStarting DEF StreamInv, Unread, Starting
<1>8. \A i \in 1..Len(distances) : distances[i] \in 1..(sent + 1)
  BY <1>2
<1> QED
  BY <1>1, <1>2, <1>3, <1>4, <1>6, <1>7, <1>8 DEF StreamInv

\* What is trimmed goes from the beginning.
LEMMA TrimmedPiece ==
  ASSUME NEW b, NEW p, NEW q, Piece(b, p, q)
  PROVE  \E s \in Nat : Piece(TrimRxBuffer(b), s, q) /\ p <= s /\ (Len(b) <= MaxBuffer => s = p)
<1>1. /\ p \in Nat /\ q \in Nat /\ Len(b) \in Nat /\ MaxBuffer \in Nat
  BY TfminiAssumption DEF Piece
<1>2. CASE Len(b) > MaxBuffer
  <2> DEFINE i == Len(b) - MaxBuffer + 1
  <2>1. i \in 1..(Len(b) + 1) /\ p + i - 1 \in Nat /\ p <= p + i - 1
    BY <1>1, <1>2
  <2>2. TrimRxBuffer(b) = From(b, i)
    BY <1>2 DEF TrimRxBuffer
  <2> HIDE DEF i
  <2>3. Piece(From(b, i), p + i - 1, q)
    BY <2>1, RestOfPiece
  <2>4. ~(Len(b) <= MaxBuffer)
    BY <1>1, <1>2
  <2> QED
    BY <2>1, <2>2, <2>3, <2>4
<1>3. CASE Len(b) <= MaxBuffer
  <2>1. TrimRxBuffer(b) = b
    BY <1>1, <1>3 DEF TrimRxBuffer
  <2> QED
    BY <1>1, <2>1
<1> QED
  BY <1>1, <1>2, <1>3

LEMMA ReadStreams ==
  ASSUME StreamInv, kind = "tfmini", OnReadyRead PROVE StreamInv'
<1>1. PICK n \in 1..Len(wire) :
        LET got == buffer \o SubSeq(wire, 1, n)
            d == Parse[TrimRxBuffer(got)]
        IN /\ wire' = From(wire, n + 1) /\ buffer' = d.rest
           /\ distances' = distances \o d.frames /\ trimmed' = (trimmed \/ Len(got) > MaxBuffer)
  BY DEF OnReadyRead
<1> DEFINE got == buffer \o SubSeq(wire, 1, n)
           d == Parse[TrimRxBuffer(got)]
<1>2. /\ wire' = From(wire, n + 1) /\ buffer' = d.rest
      /\ distances' = distances \o d.frames /\ trimmed' = (trimmed \/ Len(got) > MaxBuffer)
  BY <1>1
<1>3. port /\ UNCHANGED <<kind, phase, inbox, port, sent>>
  BY DEF OnReadyRead, TfminiUnchanged
<1>4. /\ sent \in 0..MaxFrame /\ distances \in Seq(Nat)
      /\ \A i, j \in 1..Len(distances) : i < j => distances[i] < distances[j]
      /\ \A i \in 1..Len(distances) : distances[i] \in 1..sent
  BY DEF StreamInv
<1>5. PICK p \in Nat, q \in Nat : Lies(p, q)
  BY DEF StreamInv
<1>6. Piece(buffer, p, q) /\ Piece(wire, q, At(sent + 1)) /\ p >= 1
  BY <1>5 DEF Lies
<1>7. Piece(got, p, q + n) /\ Piece(wire', q + n, At(sent + 1)) /\ q + n \in Nat
  <2>1. n \in 0..Len(wire) /\ n + 1 \in 1..(Len(wire) + 1) /\ q + (n + 1) - 1 = q + n
    <3>1. Len(wire) \in Nat
      BY <1>6 DEF Piece
    <3> QED
      BY <3>1
  <2>2. Piece(SubSeq(wire, 1, n), q, q + n)
    BY <1>6, <2>1, StartOfPiece
  <2>3. Piece(From(wire, n + 1), q + (n + 1) - 1, At(sent + 1))
    BY <1>6, <2>1, RestOfPiece
  <2> QED
    BY <1>2, <1>6, <2>1, <2>2, <2>3, PiecesMeet
<1>8. Len(got) \in Nat /\ MaxBuffer \in Nat
  BY <1>7, TfminiAssumption DEF Piece
<1> HIDE DEF got
<1>9. PICK r \in Nat :
        /\ Piece(TrimRxBuffer(got), r, q + n) /\ p <= r
        /\ Len(got) <= MaxBuffer => r = p
  BY <1>7, TrimmedPiece
<1>10. Fits(d, r, q + n)
  <2>1. Piece(TrimRxBuffer(got), r, q + n)
    BY <1>9
  <2> HIDE DEF got
  <2> QED
    BY <2>1, ParseFits
<1> HIDE DEF d
<1>11. PICK k \in Nat, m \in Nat, s \in Nat : FitsWith(d, r, q + n, k, m, s)
  BY <1>10 DEF Fits
<1>12. /\ d.frames \in Seq(Nat) /\ Len(d.frames) = k /\ \A i \in 1..k : d.frames[i] = m + i - 1
       /\ Piece(buffer', s, q + n) /\ r <= s
       /\ k > 0 => r <= At(m) /\ s = At(m + k)
       /\ \A a \in Nat : r = At(a) => IF k = 0 THEN s = r ELSE m = a
  BY <1>2, <1>11 DEF FitsWith
<1>13. /\ p <= r /\ r <= s /\ p >= 1
       /\ k > 0 => r <= At(m) /\ s = At(m + k)
  BY <1>6, <1>9, <1>12, Zenon
<1> DEFINE l == Len(distances)
<1>14. l \in Nat
  BY <1>4
<1>15. /\ distances' \in Seq(Nat) /\ Len(distances') = l + k
       /\ \A i \in 1..l : distances'[i] = distances[i]
       /\ \A i \in 1..k : distances'[l + i] = m + i - 1
  <2>1. /\ distances' \in Seq(Nat) /\ Len(distances') = l + k
        /\ \A i \in 1..(l + k) : distances'[i] = IF i <= l THEN distances[i] ELSE d.frames[i - l]
    BY <1>2, <1>4, <1>12, ConcatProperties
  <2> HIDE DEF l
  <2>2. \A i \in 1..l : i \in 1..(l + k) /\ i <= l
    BY <1>14
  <2>3. \A i \in 1..k : l + i \in 1..(l + k) /\ ~(l + i <= l) /\ (l + i) - l = i
    BY <1>14
  <2>4. \A i \in 1..l : distances'[i] = distances[i]
    BY <2>1, <2>2
  <2>5. \A i \in 1..k : distances'[l + i] = d.frames[i]
    BY <2>1, <2>3
  <2> QED
    BY <1>12, <2>1, <2>4, <2>5
<1>16. \A i \in 1..l : distances[i] \in Nat /\ At(distances[i] + 1) <= p
  <2>1. \A i \in 1..l : At(distances[i] + 1) <= p
    BY <1>5 DEF Lies
  <2>2. \A i \in 1..l : distances[i] \in Nat
    BY <1>4
  <2> QED
    BY <2>1, <2>2
<1> HIDE DEF l
<1>17. \A i \in (l + 1)..(l + k) : /\ i - l \in 1..k /\ distances'[i] = m + (i - l) - 1
  <2> SUFFICES ASSUME NEW i \in (l + 1)..(l + k)
               PROVE  i - l \in 1..k /\ distances'[i] = m + (i - l) - 1
    OBVIOUS
  <2>1. i - l \in 1..k /\ l + (i - l) = i
    BY <1>14
  <2> QED
    BY <1>15, <2>1
<1>18. \A i \in 1..(l + k) : i \in 1..l \/ i \in (l + 1)..(l + k)
  BY <1>14
\* The frames of a read are behind those before, and among those that were sent.
<1>19. k > 0 => \A i \in 1..l : distances[i] < m
  <2> SUFFICES ASSUME k > 0, NEW i \in 1..l PROVE distances[i] < m
    OBVIOUS
  <2>1. distances[i] \in Nat /\ distances[i] + 1 \in Nat /\ At(distances[i] + 1) <= p /\ p <= r /\ r <= At(m)
    BY <1>16, <1>13
  <2>2. At(distances[i] + 1) \in Nat /\ At(m) \in Nat
    BY <2>1, AtProps
  <2>3. At(distances[i] + 1) <= At(m)
    BY <2>1, <2>2
  <2>4. distances[i] + 1 <= m
    BY <2>1, <2>3, AtReflects
  <2> QED
    BY <2>1, <2>4
<1>20. k > 0 => m >= 1 /\ m + k <= sent + 1
  <2> SUFFICES ASSUME k > 0 PROVE m >= 1 /\ m + k <= sent + 1
    OBVIOUS
  <2>1. s <= q + n /\ q + n <= At(sent + 1) /\ s = At(m + k) /\ r <= At(m)
    BY <1>7, <1>12 DEF Piece
  <2>2. m + k \in Nat /\ sent + 1 \in Nat /\ At(sent + 1) \in Nat
    <3>1. m + k \in Nat /\ sent + 1 \in Nat
      BY <1>4
    <3> QED
      BY <3>1, AtProps
  <2>3. At(m + k) <= At(sent + 1)
    BY <1>7, <2>1, <2>2
  <2>4. m + k <= sent + 1
    BY <2>2, <2>3, AtReflects
  <2>5. m # 0
    <3>1. At(0) = 0
      BY AtProps
    <3> QED
      BY <1>13, <2>1, <3>1
  <2> QED
    BY <2>4, <2>5
<1>21. \A i, j \in 1..(l + k) : i < j => distances'[i] < distances'[j]
  <2> SUFFICES ASSUME NEW i \in 1..(l + k), NEW j \in 1..(l + k), i < j
               PROVE  distances'[i] < distances'[j]
    OBVIOUS
  <2>1. CASE j \in 1..l
    <3>1. i \in 1..l
      BY <1>14, <2>1
    <3>2. distances[i] < distances[j]
      BY <1>4, <2>1, <3>1 DEF l
    <3> QED
      BY <1>15, <2>1, <3>1, <3>2
  <2>2. CASE j \in (l + 1)..(l + k) /\ i \in 1..l
    <3>1. distances'[j] = m + (j - l) - 1 /\ j - l \in 1..k
      BY <1>17, <2>2
    <3>2. distances'[i] = distances[i] /\ distances[i] < m /\ distances[i] \in Nat
      BY <1>15, <1>16, <1>19, <2>2, <3>1
    <3> QED
      BY <3>1, <3>2
  <2>3. CASE j \in (l + 1)..(l + k) /\ i \in (l + 1)..(l + k)
    <3>1. distances'[j] = m + (j - l) - 1 /\ distances'[i] = m + (i - l) - 1
      BY <1>17, <2>3
    <3> QED
      BY <1>14, <3>1
  <2> QED
    BY <1>18, <2>1, <2>2, <2>3
<1>22. \A i \in 1..(l + k) : distances'[i] \in 1..sent /\ At(distances'[i] + 1) <= s
  <2> SUFFICES ASSUME NEW i \in 1..(l + k)
               PROVE  distances'[i] \in 1..sent /\ At(distances'[i] + 1) <= s
    OBVIOUS
  <2>1. CASE i \in 1..l
    <3>1. distances'[i] = distances[i] /\ distances[i] \in 1..sent /\ At(distances[i] + 1) <= p
      BY <1>4, <1>15, <1>16, <2>1 DEF l
    <3>2. distances[i] + 1 \in Nat
      BY <1>16, <2>1
    <3>3. At(distances[i] + 1) \in Nat
      BY <3>2, AtProps
    <3> QED
      BY <1>13, <3>1, <3>3
  <2>2. CASE i \in (l + 1)..(l + k)
    <3>1. distances'[i] = m + (i - l) - 1 /\ i - l \in 1..k
      BY <1>17, <2>2
    <3>2. k > 0 /\ m >= 1 /\ m + k <= sent + 1 /\ s = At(m + k) /\ sent \in Nat
      BY <1>4, <1>12, <1>20, <3>1
    <3>3. /\ distances'[i] \in 1..sent /\ distances'[i] + 1 \in Nat
          /\ distances'[i] + 1 <= m + k /\ m + k \in Nat
      BY <3>1, <3>2
    <3> QED
      BY <3>2, <3>3, AtOrder
  <2> QED
    BY <1>18, <2>1, <2>2
\* What is left begins where the last frame ends.
<1>23. ASSUME port', ~trimmed', distances' # <<>>
       PROVE  s = At(Last' + 1) /\ Last' - distances'[1] + 1 = Len(distances')
  <2>1. ~trimmed /\ Len(got) <= MaxBuffer
    <3>1. ~trimmed /\ ~(Len(got) > MaxBuffer)
      BY <1>2, <1>23, Zenon
    <3> QED
      BY <1>8, <3>1
  <2>2. r = p /\ Last' = distances'[l + k]
    <3>1. Len(distances') = l + k
      BY <1>15
    <3> QED
      BY <1>9, <2>1, <3>1, Zenon DEF Last
  <2>3. l > 0 => /\ p = At(distances[l] + 1) /\ distances[l] - distances[1] + 1 = l
                 /\ distances[l] \in Nat /\ distances[1] \in Nat
    <3> SUFFICES ASSUME l > 0 PROVE /\ p = At(distances[l] + 1) /\ distances[l] - distances[1] + 1 = l
                                    /\ distances[l] \in Nat /\ distances[1] \in Nat
      OBVIOUS
    <3>1. distances # <<>> /\ 1 \in 1..l /\ l \in 1..l
      BY <1>4, <1>14 DEF l
    <3>2. p = At(Last + 1) /\ Last - distances[1] + 1 = Len(distances)
      BY <1>3, <1>5, <2>1, <3>1 DEF Lies
    <3> QED
      BY <1>16, <3>1, <3>2 DEF Last, l
  <2>4. l + k > 0
    <3>1. l + k # 0
      BY <1>15, <1>23
    <3> QED
      BY <1>14, <3>1
  <2>5. CASE k = 0
    <3>1. l > 0 /\ l + k = l /\ l \in 1..l /\ 1 \in 1..l
      BY <1>14, <2>4, <2>5
    <3>2. distances'[l] = distances[l] /\ distances'[1] = distances[1]
      BY <1>15, <3>1
    <3>3. distances[l] + 1 \in Nat /\ s = r
      BY <1>12, <2>2, <2>3, <2>5, <3>1
    <3> QED
      BY <1>15, <2>2, <2>3, <3>1, <3>2, <3>3
  <2>6. CASE k > 0 /\ l = 0
    <3>1. k \in 1..k /\ 1 \in 1..k /\ l + k = k /\ l + 1 = 1
      BY <2>6
    <3>2. distances'[l + k] = m + k - 1 /\ distances'[l + 1] = m + 1 - 1
      BY <1>15, <3>1
    <3>3. m + k - 1 + 1 = m + k /\ s = At(m + k)
      BY <1>12, <2>6
    <3>4. Last' = m + k - 1 /\ distances'[1] = m /\ Len(distances') = k
      BY <1>15, <2>2, <3>1, <3>2
    <3> QED
      BY <3>3, <3>4
  <2>7. CASE k > 0 /\ l > 0
    <3>1. k \in 1..k /\ 1 \in 1..l
      BY <1>14, <2>7
    <3>2. distances'[l + k] = m + k - 1 /\ distances'[1] = distances[1]
      BY <1>15, <3>1
    <3>3. m = distances[l] + 1
      <4>1. distances[l] + 1 \in Nat /\ r = At(distances[l] + 1) /\ k # 0
        BY <2>2, <2>3, <2>7
      <4> QED
        BY <1>12, <4>1
    <3>4. m + k - 1 + 1 = m + k /\ s = At(m + k)
      BY <1>12, <2>7
    <3>5. Last' = m + k - 1 /\ Len(distances') = l + k
      BY <1>15, <2>2, <3>2
    <3>6. Last' + 1 = m + k /\ Last' - distances'[1] + 1 = l + k
      <4>1. distances[l] \in Nat /\ distances[1] \in Nat /\ distances[l] - distances[1] + 1 = l
        BY <2>3, <2>7
      <4>2. Last' = distances[l] + k /\ distances'[1] = distances[1]
        BY <3>2, <3>3, <3>5, <4>1
      <4> QED
        BY <1>14, <3>3, <4>1, <4>2
    <3> QED
      BY <3>4, <3>5, <3>6
  <2> QED
    BY <1>14, <2>4, <2>5, <2>6, <2>7
<1>24. Lies(s, q + n)'
  <2>1. s >= 1
    BY <1>13
  <2>2. port' /\ ~trimmed' /\ distances' # <<>> =>
          s = At(Last' + 1) /\ Last' - distances'[1] + 1 = Len(distances')
    BY <1>23, Zenon
  <2> QED
    BY <1>3, <1>7, <1>12, <1>15, <1>22, <2>1, <2>2 DEF Lies
<1>25. ~Starting'
  BY <1>3, NotStarting DEF StreamInv, Unread, Starting
<1> QED
  BY <1>3, <1>4, <1>7, <1>15, <1>21, <1>22, <1>24, <1>25 DEF StreamInv

--------------------------------------------------------------------------------
LEMMA StreamKept == CallbackInv /\ StreamInv /\ [Next]_vars => StreamInv'
<1> SUFFICES ASSUME CallbackInv, StreamInv, [Next]_vars PROVE StreamInv'
  OBVIOUS
<1>1. CASE TfminiNext
  BY <1>1, ServiceStreams, StartStreams, StopStreams, SendStreams, ReadStreams
  DEF TfminiNext, TfminiWorker
<1>2. CASE (OrbbecNext \/ LivoxNext) /\ UNCHANGED tfminiVars
  <2>1. kind # "tfmini" /\ kind' = kind
    BY <1>2, KindStays DEF OrbbecNext, LivoxNext
  <2> QED
    BY <1>2, <2>1, StreamStays
<1>3. CASE UNCHANGED vars
  <2>1. UNCHANGED tfminiVars /\ kind' = kind /\ (Starting' => Starting)
    BY <1>3 DEF vars, serviceVars, Starting
  <2> QED
    BY <2>1, StreamStays
<1> QED
  BY <1>1, <1>2, <1>3, CommonStreams DEF Next

\* However the reads cut what the sensor sends, wherever in a frame it begins, and whatever the
\* sizes of a frame and of the buffer: no frame is read twice, out of order or out of pieces of
\* two, and once one was read none after it is lost unless the buffer overran (parseBuffer()).
THEOREM FramesAreKept == Spec => []FramesKept
<1>1. StreamInv => FramesKept
  <2> SUFFICES ASSUME StreamInv PROVE FramesKept
    OBVIOUS
  <2>1. /\ distances \in Seq(Nat) /\ sent \in 0..MaxFrame
        /\ \A i, j \in 1..Len(distances) : i < j => distances[i] < distances[j]
        /\ \A i \in 1..Len(distances) : distances[i] \in 1..sent
    BY DEF StreamInv
  <2>2. ASSUME port, ~trimmed, distances # <<>>
        PROVE  /\ Last - distances[1] + 1 = Len(distances)
               /\ Len(buffer) + Len(wire) = (sent - Last) * FrameSize
    <3>1. PICK p \in Nat, q \in Nat : Lies(p, q)
      BY DEF StreamInv
    <3>2. /\ p = At(Last + 1) /\ Last - distances[1] + 1 = Len(distances)
          /\ Len(buffer) = q - p /\ Len(wire) = At(sent + 1) - q
      BY <2>2, <3>1 DEF Lies, Piece
    <3>3. sent \in Nat /\ Last \in Nat /\ FrameSize \in Nat
      <4>1. Len(distances) \in 1..Len(distances)
        BY <2>1, <2>2
      <4> QED
        BY <2>1, <4>1, TfminiAssumption DEF Last
    <3>4. At(sent + 1) \in Nat /\ At(Last + 1) \in Nat
      <4>1. sent + 1 \in Nat /\ Last + 1 \in Nat
        BY <3>3
      <4> QED
        BY <4>1, AtProps
    <3>5. (sent + 1) * FrameSize - (Last + 1) * FrameSize = (sent - Last) * FrameSize
      BY <3>3
    <3> QED
      BY <3>2, <3>4, <3>5 DEF At
  <2>3. DOMAIN distances = 1..Len(distances)
    BY <2>1
  <2>4. Increasing(distances) /\ \A i \in DOMAIN distances : distances[i] \in 1..sent
    BY <2>1, <2>3 DEF Increasing
  <2> QED
    BY <2>2, <2>4, Zenon DEF FramesKept, Last
<1>2. CallbackInv /\ StreamInv /\ [Next]_vars => CallbackInv' /\ StreamInv'
  BY StreamKept, CallbackKept
<1> QED
  BY InitCallback, InitStream, <1>1, <1>2, PTL DEF Spec
================================================================================
