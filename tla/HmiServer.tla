------------------------------- MODULE HmiServer -------------------------------
(* The TCP server of the HMI (HmiTcpServer, HmiSession): one client at a time,    *)
(* whose commands go to the station and who is shown the station's status.  The   *)
(* server lives on the main thread: an action is one event of its loop, with all  *)
(* the slots the event calls.  The station (state machine, Modbus, cameras) is a  *)
(* record of what the status shows of it; the sockets follow Qt.                  *)
EXTENDS Naturals, Sequences

CONSTANTS
  MaxSession,   \* bound: clients that connect
  MaxInput,     \* bound: messages of the clients and changes of the station together
  Frame,        \* the messages a client may send
  Unknown       \* what is not known, or was never said

Session == 1..MaxSession
Nobody == 0
Slot == {"system", "plc", "camera", "device"}
Bad == {"badLength", "badJson"}
Report == {"personOn", "personOff"}
\* A "command" is any message but a report of the person's zone: which one, its handler says.
AllFrame == {"command"} \cup Report \cup Bad

ASSUME HmiAssumption ==
  /\ MaxSession \in Nat /\ MaxInput \in Nat
  /\ Frame \subseteq AllFrame

VARIABLES
  station,      \* what the status is made of
  inputs,       \* how many messages and changes there were
  server,       \* "off", "on" or "stopped": bindServiceSignals() and start(), stop()
  session,      \* m_session, or Nobody
  ticking,      \* whether m_statusPushTimer and m_heartbeatTimer run
  greetings,    \* the postponed first pushes (QTimer::singleShot(0)) in the event queue
  reading,      \* the session whose onReadyRead() is running, or Nobody
  sock,         \* per session: its QTcpSocket
  doomed,       \* the sessions deleteLater() was called for
  beat,         \* the sessions whose 6 s heartbeat timer runs
  wire,         \* per session: what the client sent and the socket did not read
  buffer,       \* per session: m_buffer
  person,       \* m_personZoneAlarm, or Unknown while m_personZoneAlarmCacheValid is unset
  desk,         \* the push caches, and what left through them
  sent,         \* per session: the messages its client sent
  heard         \* per session: the messages handled

link == <<sock, doomed, beat>>
input == <<wire, buffer, heard>>
vars == <<station, inputs, server, session, ticking, greetings, reading, link, input,
          person, desk, sent>>

HasClient == session # Nobody /\ sock[session] = "open"

--------------------------------------------------------------------------------
\* The status.

BuildSystemStatusPayload(w) == [appState |-> w.app, alarmLevel |-> w.alarm]

BuildPlcStatusPayload(w) == [modbusConnected |-> w.modbus, rod |-> w.rod]

\* One camera stands for the six: connected means neither Idle nor Error.
MechEyeServiceConnected(w) == w.camera = "Ready"

BuildCameraStatusPayload(w) == [state |-> w.camera, connected |-> MechEyeServiceConnected(w)]

\* The words of online and of faulty parts; "hmi" is online whenever it is sent.
BuildDeviceStatusPayload(w) ==
  [online |-> {b \in {"mech"} : MechEyeServiceConnected(w)} \cup {b \in {"modbus"} : w.modbus},
   fault |-> {b \in {"mech"} : w.camera = "Error"} \cup {b \in {"modbus"} : ~w.modbus}
             \cup {b \in {"core"} : w.app = "Error" \/ w.alarm >= 3}
             \cup {b \in {"alarm"} : w.alarm >= 2}]

Payload(w) == [system |-> BuildSystemStatusPayload(w), plc |-> BuildPlcStatusPayload(w),
               camera |-> BuildCameraStatusPayload(w), device |-> BuildDeviceStatusPayload(w)]

Station == [app : {"Init", "Ready", "Scanning", "Error"}, alarm : {0, 2, 3}, modbus : BOOLEAN,
            rod : {"none", "ok", "fault"}, camera : {"Idle", "Ready", "Error"},
            zone : BOOLEAN, stopped : BOOLEAN, wired : BOOLEAN]

\* What is not known is no status: an empty QJsonObject, an unset flag.
ASSUME UnknownAssumption ==
  Unknown # "fault" /\ \A w \in Station : \A x \in Slot : Payload(w)[x] # Unknown

\* The desk: cache, the four HmiStatusPushCaches; edge, m_cameraConnectivityCache; aux,
\* m_plcAuxDeviceAlarmCache; shown, what the client was sent last of each status; warned,
\* whether it was told of the rod's fault; unsent, the sessions whose socket holds bytes
\* not written yet.
BlankDesk == [cache |-> [x \in Slot |-> Unknown], edge |-> Unknown, aux |-> Unknown,
              shown |-> [x \in Slot |-> Unknown], warned |-> FALSE, unsent |-> {}]

SendToClient(d) == IF HasClient THEN [d EXCEPT !.unsent = @ \cup {session}] ELSE d

\* Mutant: the pushes of one client count for the next.
KeepStatusPushCache(d) == [d EXCEPT !.edge = Unknown, !.aux = Unknown]

InvalidateStatusPushCache(d) ==
  [d EXCEPT !.cache = BlankDesk.cache, !.edge = Unknown, !.aux = Unknown]

\* Mutant: what is compared is not what is remembered.
PushUnremembered(d, w, slots, force) ==
  LET told == {x \in slots : force \/ d.cache[x] = Unknown}
      Put(f) == [x \in Slot |-> IF x \in told THEN Payload(w)[x] ELSE f[x]]
      c == [d EXCEPT !.cache = Put(@)]
  IN IF ~HasClient \/ told = {} THEN c
     ELSE [SendToClient(c) EXCEPT !.shown = Put(@),
             !.warned = @ \/ ("plc" \in told /\ w.rod = "fault")]

\* pushStatusIfChanged() of some slots: all of them if forced, else those the cache does
\* not hold; the cache holds them afterwards, even when there was nobody to send them to.
PushStatusIfChanged(d, w, slots, force) ==
  LET told == {x \in slots : force \/ d.cache[x] # Payload(w)[x]}
      Put(f) == [x \in Slot |-> IF x \in told THEN Payload(w)[x] ELSE f[x]]
      c == [d EXCEPT !.cache = Put(@)]
  IN IF ~HasClient \/ told = {} THEN c
     ELSE [SendToClient(c) EXCEPT !.shown = Put(@),
             !.warned = @ \/ ("plc" \in told /\ w.rod = "fault")]

SyncPlcAuxDeviceAlarmCache(d, w) == [d EXCEPT !.aux = IF w.rod = "none" THEN Unknown ELSE w.rod]

SyncCameraConnectivityCache(d, w) == [d EXCEPT !.edge = MechEyeServiceConnected(w)]

\* Mutant: the fault is remembered, and not reported, while the cache is not valid.
CheckAuxOnlyIfValid(d, rod) ==
  LET told == [SendToClient(d) EXCEPT !.warned = @ \/ HasClient]
  IN [(IF rod = "fault" /\ d.aux = "ok" THEN told ELSE d) EXCEPT !.aux = rod]

\* checkPlcAuxDeviceAlarms(): a rod that comes to fault is reported, if there is a client.
CheckPlcAuxDeviceAlarms(d, rod) ==
  LET told == [SendToClient(d) EXCEPT !.warned = @ \/ HasClient]
  IN [(IF rod = "fault" /\ d.aux # "fault" THEN told ELSE d) EXCEPT !.aux = rod]

\* checkCameraConnectivityEdges(): the first check only learns the state.
CheckCameraConnectivityEdges(d, w) ==
  IF ~HasClient \/ d.edge = MechEyeServiceConnected(w) THEN d
  ELSE SyncCameraConnectivityCache(IF d.edge = Unknown THEN d ELSE SendToClient(d), w)

PushCameraStatus(d, w) ==
  CheckCameraConnectivityEdges(PushStatusIfChanged(d, w, {"camera"}, FALSE), w)

\* The four pushes of a client's first turn of the event loop, and the caches with them.
PushAllStatusToClient(d, w) ==
  SyncPlcAuxDeviceAlarmCache(SyncCameraConnectivityCache(
    SendToClient(PushStatusIfChanged(d, w, Slot, TRUE)), w), w)

\* cmd.get_status: the answer holds the four, and is entered in every cache.
SyncStatusPushCacheFromCurrent(d, w) ==
  SyncPlcAuxDeviceAlarmCache(SyncCameraConnectivityCache([d EXCEPT !.cache = Payload(w)], w), w)

HandleCmdGetStatus(d, w) ==
  SyncStatusPushCacheFromCurrent(
    IF HasClient
    THEN [SendToClient(d) EXCEPT !.shown = Payload(w),
            !.warned = @ \/ w.rod = "fault"]
    ELSE d, w)

--------------------------------------------------------------------------------
\* The station, as far as the server sees it.  y.w is the station, y.d the desk: the
\* slots of the server run inside the calls that change the station.

\* setState(): the signal pushes the status, if there is a client.
SetState(y, app) ==
  LET w == [y.w EXCEPT !.app = app]
  IN IF y.w.app = app THEN y
     ELSE [w |-> w, d |-> IF w.stopped \/ ~HasClient THEN y.d
                          ELSE PushStatusIfChanged(y.d, w, {"system", "device"}, FALSE)]

\* setAlarm() with a message: event.alarm, whatever the level.
SetAlarm(y, level) ==
  [w |-> [y.w EXCEPT !.alarm = level], d |-> IF y.w.stopped THEN y.d ELSE SendToClient(y.d)]

EnterFaultState(y) == SetState(SetAlarm(y, 3), "Error")

\* StateMachine::onModbusConnected(): the command area it remembers is forgotten.
BeReady(y) == SetState([y EXCEPT !.w.alarm = 0, !.w.rod = "none"], "Ready")

\* start() reports the reset of the paths before it resets the alarm and the state.
StartStation(y) ==
  LET pushed == PushStatusIfChanged(SendToClient(y.d), y.w, {"system"}, FALSE)
      init == SetState([w |-> [y.w EXCEPT !.stopped = FALSE, !.alarm = 0], d |-> pushed], "Init")
  IN IF y.w.modbus THEN BeReady(init) ELSE init

\* stop() cuts the state machine from Modbus for good, and tells nobody.
StopStation(y) ==
  IF y.w.stopped THEN y
  ELSE [y EXCEPT !.w = [@ EXCEPT !.stopped = TRUE, !.wired = FALSE, !.alarm = 0, !.app = "Init"]]

Hears(w) == w.wired /\ ~w.stopped

\* The link's signals: the state machine first, then the two slots of the server.
ModbusSignal(y) ==
  LET d == SendToClient(y.d)
  IN [y EXCEPT !.d = IF HasClient THEN PushStatusIfChanged(d, y.w, {"plc", "device"}, FALSE) ELSE d]

ModbusUp(y) ==
  LET v == [y EXCEPT !.w.modbus = TRUE]
  IN IF y.w.modbus THEN y ELSE ModbusSignal(IF Hears(y.w) THEN BeReady(v) ELSE v)

ModbusDown(y) ==
  LET v == [y EXCEPT !.w.modbus = FALSE]
  IN IF ~y.w.modbus THEN y ELSE ModbusSignal(IF Hears(y.w) THEN EnterFaultState(v) ELSE v)

\* A failed connectDevice() only reports the error.
ModbusFails(y) == IF y.w.modbus THEN y ELSE [y EXCEPT !.d = SendToClient(@)]

ReportPersonZoneAlarm(y, alarm) ==
  IF alarm THEN [EnterFaultState(y) EXCEPT !.w.zone = TRUE]
  ELSE IF y.w.zone THEN SetState([y EXCEPT !.w.alarm = 0, !.w.zone = FALSE], "Ready") ELSE y

Now == [w |-> station, d |-> desk]
Take(y) == station' = y.w /\ desk' = y.d

--------------------------------------------------------------------------------
\* Sessions.  x is what the end of a session changes.

Conn == [session |-> session, ticking |-> ticking, sock |-> sock, doomed |-> doomed,
         beat |-> beat, person |-> person, desk |-> desk]

Become(x) ==
  /\ session' = x.session /\ ticking' = x.ticking /\ sock' = x.sock /\ doomed' = x.doomed
  /\ beat' = x.beat /\ person' = x.person /\ desk' = x.desk

\* onSessionDisconnected() does not ask which session: it drops the current one.
OnSessionDisconnected(x) ==
  [x EXCEPT !.session = Nobody, !.doomed = @ \cup ({x.session} \ {Nobody}), !.ticking = FALSE,
            !.person = Unknown, !.desk = InvalidateStatusPushCache(@)]

OnSocketDisconnected(x, s) ==
  OnSessionDisconnected([x EXCEPT !.sock[s] = "closed", !.beat = @ \ {s}])

\* disconnectFromHost(): at once if all is written, otherwise when it is.
Disconnect(x, s) ==
  IF x.sock[s] # "open" THEN x
  ELSE IF s \in x.desk.unsent THEN [x EXCEPT !.sock[s] = "closing"]
  ELSE OnSocketDisconnected(x, s)

\* Disconnect and deleteLater() the current session; deleteLater() of the null pointer
\* onSessionDisconnected() may have left does nothing in Qt 5.
DropSession(x) ==
  IF x.session = Nobody THEN x
  ELSE [Disconnect(x, x.session) EXCEPT !.session = Nobody, !.doomed = @ \cup {x.session}]

--------------------------------------------------------------------------------
\* The events of the main thread.

Idle == reading = Nobody

Init ==
  /\ station \in [app : {"Init"}, alarm : {0}, modbus : BOOLEAN, rod : {"none"},
                  camera : {"Idle"}, zone : {FALSE}, stopped : {FALSE}, wired : {TRUE}]
  /\ inputs = 0 /\ server = "off" /\ session = Nobody /\ ticking = FALSE
  /\ greetings = 0 /\ reading = Nobody
  /\ sock = [s \in Session |-> "none"] /\ doomed = {} /\ beat = {}
  /\ wire = [s \in Session |-> <<>>] /\ buffer = [s \in Session |-> <<>>]
  /\ person = Unknown /\ desk = BlankDesk
  /\ sent = [s \in Session |-> <<>>] /\ heard = [s \in Session |-> <<>>]

Start ==
  /\ Idle /\ server = "off" /\ server' = "on"
  /\ UNCHANGED <<station, inputs, session, ticking, greetings, reading, link, input, person,
                 desk, sent>>

Stop ==
  /\ Idle /\ server = "on" /\ server' = "stopped"
  /\ Become(DropSession([Conn EXCEPT !.ticking = FALSE]))
  /\ UNCHANGED <<station, inputs, greetings, reading, input, sent>>

\* The new client replaces the old one, gets core.hello, and its first pushes are postponed.
Accepted(x, s) ==
  LET d == InvalidateStatusPushCache(x.desk)
  IN [x EXCEPT !.session = s, !.sock[s] = "open", !.beat = @ \cup {s}, !.ticking = TRUE,
        !.desk = [d EXCEPT !.shown = BlankDesk.shown, !.warned = FALSE, !.unsent = @ \cup {s}]]

OnNewConnection(s) ==
  /\ Idle /\ server = "on"
  /\ sock[s] = "none" /\ \A t \in Session : t < s => sock[t] # "none"
  /\ Become(Accepted(DropSession(Conn), s))
  /\ greetings' = greetings + 1
  /\ UNCHANGED <<station, inputs, server, reading, input, sent>>

\* What only the desk notices.
OnlyDesk ==
  UNCHANGED <<station, inputs, server, session, ticking, reading, link, input, person, sent>>

FirstPushes ==
  /\ Idle /\ greetings > 0 /\ greetings' = greetings - 1
  /\ desk' = IF HasClient THEN PushAllStatusToClient(desk, station) ELSE desk
  /\ OnlyDesk

\* onStatusPushTimer(): the camera's push comes with its edges.
OnStatusPushTimer ==
  /\ Idle /\ ticking /\ HasClient
  /\ desk' = PushStatusIfChanged(
               PushCameraStatus(PushStatusIfChanged(desk, station, {"system", "plc"}, FALSE),
                                station), station, {"device"}, FALSE)
  /\ UNCHANGED greetings /\ OnlyDesk

\* onHeartbeatTimer(), and the events that only tell the client of something: a capture, an
\* inspection's result, an answer of the flow.
Tell ==
  /\ Idle /\ HasClient /\ desk' = SendToClient(desk)
  /\ UNCHANGED greetings /\ OnlyDesk

\* Mutant: the timeout is reported, and nobody is disconnected.
TimeoutOnlyReported(s) ==
  /\ Idle /\ s \in beat
  /\ Become([Conn EXCEPT !.beat = @ \ {s}])
  /\ UNCHANGED <<station, inputs, server, greetings, reading, input, sent>>

\* A session's 6 s pass without a message: the server disconnects the current session.
OnSessionHeartbeatTimeout(s) ==
  /\ Idle /\ s \in beat
  /\ LET x == [Conn EXCEPT !.beat = @ \ {s}]
     IN Become(IF session = Nobody THEN x ELSE Disconnect(x, session))
  /\ UNCHANGED <<station, inputs, server, greetings, reading, input, sent>>

\* The socket writes what it holds; a closing one then ends.
Flush(s) ==
  /\ Idle /\ s \in desk.unsent /\ sock[s] \in {"open", "closing"}
  /\ LET x == [Conn EXCEPT !.desk.unsent = @ \ {s}]
     IN Become(IF sock[s] = "closing" THEN OnSocketDisconnected(x, s) ELSE x)
  /\ UNCHANGED <<station, inputs, server, greetings, reading, input, sent>>

\* The client closes the connection, or the network loses it.
PeerLoss(s) ==
  /\ Idle /\ sock[s] \in {"open", "closing"}
  /\ Become(OnSocketDisconnected(Conn, s))
  /\ UNCHANGED <<station, inputs, server, greetings, reading, input, sent>>

\* The deferred delete: the session goes with its socket, its timer and its connections.
Delete(s) ==
  /\ Idle /\ s \in doomed /\ doomed' = doomed \ {s}
  /\ sock' = [sock EXCEPT ![s] = "gone"] /\ beat' = beat \ {s}
  /\ desk' = [desk EXCEPT !.unsent = @ \ {s}]
  /\ wire' = [wire EXCEPT ![s] = <<>>] /\ buffer' = [buffer EXCEPT ![s] = <<>>]
  /\ sent' = [sent EXCEPT ![s] = <<>>] /\ heard' = [heard EXCEPT ![s] = <<>>]
  /\ UNCHANGED <<station, inputs, server, session, ticking, greetings, reading, person>>

--------------------------------------------------------------------------------
\* Messages.  A frame is a head and a body; the socket reads whatever has arrived.

Unit(f) == <<[f |-> f, part |-> "head"], [f |-> f, part |-> "body"]>>

\* The client writes a message; what arrives while the main thread works waits for its turn,
\* and what arrives at a closing socket is not read.
ClientSends(s, f) ==
  /\ Idle /\ sock[s] = "open" /\ inputs < MaxInput /\ inputs' = inputs + 1
  /\ sent' = [sent EXCEPT ![s] = Append(@, f)] /\ wire' = [wire EXCEPT ![s] = @ \o Unit(f)]
  /\ UNCHANGED <<station, server, session, ticking, greetings, reading, link, buffer, heard,
                 person, desk>>

\* Disconnecting sockets are not read any more.
OnReadyRead(s) ==
  /\ Idle /\ sock[s] = "open" /\ reading' = s
  /\ \E n \in 1..Len(wire[s]) :
       /\ buffer' = [buffer EXCEPT ![s] = @ \o SubSeq(wire[s], 1, n)]
       /\ wire' = [wire EXCEPT ![s] = SubSeq(@, n + 1, Len(@))]
  /\ UNCHANGED <<station, inputs, server, session, ticking, greetings, link, heard, person,
                 desk, sent>>

\* The loop's condition: the first frame of the buffer, complete or refused at its head.
Complete(s) == Len(buffer[s]) >= 2
First(s) == Head(buffer[s]).f

WaitForMore(s) ==
  /\ reading = s /\ reading' = Nobody
  /\ ~Complete(s) /\ (buffer[s] # <<>> => First(s) # "badLength")
  /\ UNCHANGED <<station, inputs, server, session, ticking, greetings, link, input, person,
                 desk, sent>>

RefuseFrame(s) ==
  /\ reading = s /\ reading' = Nobody
  /\ buffer[s] # <<>>
  /\ (Complete(s) => First(s) \in Bad) /\ (~Complete(s) => First(s) = "badLength")
  /\ buffer' = [buffer EXCEPT ![s] = <<>>]
  /\ Become(Disconnect(Conn, s))
  /\ UNCHANGED <<station, inputs, server, greetings, wire, heard, sent>>

\* A message leaves the buffer, arms the session's timer again and goes to its handler.
Receive(s, f) ==
  /\ reading = s /\ Complete(s) /\ First(s) = f
  /\ buffer' = [buffer EXCEPT ![s] = SubSeq(@, 3, Len(@))]
  /\ heard' = [heard EXCEPT ![s] = Append(@, f)]
  /\ beat' = beat \cup {s}
  /\ UNCHANGED <<inputs, server, session, ticking, greetings, reading, sock, doomed, wire, sent>>

\* The handler changes the station, then answers.
Answered(y) == [y EXCEPT !.d = SendToClient(@)]

HandlePong(s) == Receive(s, "command") /\ UNCHANGED <<station, desk, person>>

HandleQuery(s) ==
  /\ Receive(s, "command") /\ desk' = SendToClient(desk)
  /\ UNCHANGED <<station, person>>

HandleCmdStart(s) ==
  Receive(s, "command") /\ Take(Answered(StartStation(Now))) /\ UNCHANGED person

HandleCmdStop(s) ==
  Receive(s, "command") /\ Take(Answered(StopStation(Now))) /\ UNCHANGED person

HandleCmdClearAlarm(s) ==
  Receive(s, "command") /\ Take(Answered([Now EXCEPT !.w.alarm = 0])) /\ UNCHANGED person

GetStatus(s) ==
  /\ Receive(s, "command") /\ desk' = HandleCmdGetStatus(desk, station)
  /\ UNCHANGED <<station, person>>

HandleCmdModbusConnect(s) ==
  /\ Receive(s, "command")
  /\ \E y \in {ModbusUp(Now), ModbusFails(Now)} : Take(Answered(y))
  /\ UNCHANGED person

HandleCmdModbusDisconnect(s) ==
  Receive(s, "command") /\ Take(Answered(ModbusDown(Now))) /\ UNCHANGED person

\* The report reaches the state machine if it differs from the one before.
HandleCmdReportPersonZoneAlarm(s, f) ==
  LET alarm == f = "personOn"
  IN /\ Receive(s, f) /\ person' = alarm
     /\ Take(Answered(IF person # alarm THEN ReportPersonZoneAlarm(Now, alarm) ELSE Now))

--------------------------------------------------------------------------------
\* What happens to the station of its own accord, and the slots it calls: before
\* bindServiceSignals() and after disconnectServiceSignals() it calls none.

Changes(y) ==
  /\ Idle /\ server = "on" /\ inputs < MaxInput /\ inputs' = inputs + 1
  /\ Take(y)
  /\ UNCHANGED <<server, session, ticking, greetings, reading, link, input, person, sent>>

ModbusConnected == ~station.modbus /\ Changes(ModbusUp(Now))
ModbusDisconnected == station.modbus /\ Changes(ModbusDown(Now))

\* A task begins or ends: the state, the task's event, and the path's event, whose push does
\* not ask for a client.
TaskMoves ==
  /\ Hears(station) /\ station.app \in {"Ready", "Scanning"}
  /\ LET y == SetState(Now, IF station.app = "Ready" THEN "Scanning" ELSE "Ready")
     IN Changes([y EXCEPT !.d = PushStatusIfChanged(SendToClient(@), y.w, {"system"}, FALSE)])

\* A task that fails raises the alarm with an event, the status follows with the timer.
AlarmRaised == ~station.stopped /\ Changes(SetAlarm(Now, 2))

\* Trig_ResultReset takes the safety interlock back.
ResultReset ==
  /\ Hears(station) /\ station.modbus /\ station.zone
  /\ LET y == [Now EXCEPT !.w.zone = FALSE]
     IN Changes([y EXCEPT !.d = PushStatusIfChanged(SendToClient(@), y.w, {"system"}, FALSE)])

\* stateChanged and fatalError of a camera.
CameraMoves ==
  \E c \in {"Idle", "Ready", "Error"} \ {station.camera} :
    LET w == [station EXCEPT !.camera = c]
        d == IF c = "Error" THEN SendToClient(desk) ELSE desk
    IN Changes([w |-> w, d |-> IF HasClient
                               THEN PushStatusIfChanged(PushCameraStatus(d, w), w, {"device"}, FALSE)
                               ELSE d])

\* registersRead: the state machine remembers the block, the server looks for faults in it.
RegistersRead ==
  /\ station.modbus
  /\ \E v \in {"ok", "fault"} :
       /\ v # station.rod \/ v # desk.aux
       /\ Changes([w |-> IF Hears(station) THEN [station EXCEPT !.rod = v] ELSE station,
                   d |-> CheckPlcAuxDeviceAlarms(desk, v)])

StationMoves ==
  ModbusConnected \/ ModbusDisconnected \/ TaskMoves \/ AlarmRaised \/ ResultReset
  \/ CameraMoves \/ RegistersRead

--------------------------------------------------------------------------------

Handle(s) ==
  \/ HandlePong(s) \/ HandleQuery(s) \/ HandleCmdStart(s) \/ HandleCmdStop(s)
  \/ HandleCmdClearAlarm(s) \/ GetStatus(s) \/ HandleCmdModbusConnect(s)
  \/ HandleCmdModbusDisconnect(s) \/ \E f \in Report : HandleCmdReportPersonZoneAlarm(s, f)

\* One turn of the loop of onReadyRead().
Turn(s) == WaitForMore(s) \/ RefuseFrame(s) \/ Handle(s)

Next ==
  \/ Start \/ Stop \/ FirstPushes \/ OnStatusPushTimer \/ Tell \/ StationMoves
  \/ \E s \in Session :
       \/ OnNewConnection(s) \/ OnSessionHeartbeatTimeout(s) \/ Flush(s) \/ PeerLoss(s)
       \/ Delete(s) \/ OnReadyRead(s) \/ Turn(s) \/ \E f \in Frame : ClientSends(s, f)

Spec == Init /\ [][Next]_vars

--------------------------------------------------------------------------------
\* Properties.

\* What each variable holds.
TypeOK ==
  /\ station \in Station
  /\ inputs \in 0..MaxInput /\ server \in {"off", "on", "stopped"}
  /\ session \in {Nobody} \cup Session /\ reading \in {Nobody} \cup Session
  /\ ticking \in BOOLEAN /\ greetings \in 0..MaxSession
  /\ sock \in [Session -> {"none", "open", "closing", "closed", "gone"}]
  /\ doomed \subseteq Session /\ beat \subseteq Session /\ desk.unsent \subseteq Session
  /\ person \in BOOLEAN \cup {Unknown}
  /\ \A s \in Session : sent[s] \in Seq(Frame) /\ heard[s] \in Seq(Frame \ Bad)

\* The caches decide what is not sent again, so they never hold what this client was not
\* sent: neither a predecessor's status nor one pushed while nobody was there
\* (pushStatusIfChanged(), invalidateStatusPushCache()).
CachesTruthful ==
  HasClient => \A x \in Slot : desk.cache[x] # Unknown => desk.shown[x] = desk.cache[x]

\* The caches of the edge-triggered alarms agree with what the client was told: a camera it
\* takes for connected is not remembered as lost, and a fault of the rod that will not be
\* reported again has been (checkCameraConnectivityEdges(), checkPlcAuxDeviceAlarms()).
EdgesTruthful ==
  HasClient =>
    /\ desk.edge # Unknown => desk.shown["camera"] # Unknown
                              /\ desk.shown["camera"].connected = desk.edge
    /\ desk.aux = "fault" => desk.warned

\* Every tick of the push timer leaves the client with the whole status as it is, though only
\* what differs from the caches is sent (onStatusPushTimer()).
TickBringsUpToDate == [][OnStatusPushTimer => desk'.shown = Payload(station)]_vars

\* A client that goes silent does not keep its place, and one that stays is not left with old
\* status: the connected client's session is on the clock of the heartbeat, the push timer
\* runs, and a session that is no longer connected waits for nothing but its socket
\* (resetHeartbeatTimer(), onSessionHeartbeatTimeout(), onNewConnection()).
ClientTended ==
  session # Nobody =>
    /\ sock[session] \in {"open", "closing"} /\ session \notin doomed /\ ticking
    /\ sock[session] = "open" => session \in beat

\* The old client is the one that is dropped: a client that is connected is the current one
\* (onNewConnection(): the strategy is to kick the old one out).
OpenIsServed == \A s \in Session : sock[s] = "open" => session = s

\* A report that a person is in the zone leaves the interlock set, the first and every
\* repeated one (handleCmdReportPersonZoneAlarm()).
ReportTakesEffect ==
  [][\A s \in Session :
       reading = s /\ Len(heard'[s]) > Len(heard[s]) /\ heard'[s][Len(heard'[s])] = "personOn"
         => station'.zone]_vars
================================================================================
