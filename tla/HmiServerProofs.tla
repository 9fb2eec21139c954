---------------------------- MODULE HmiServerProofs ----------------------------
(* The server of the HMI, for any clients, messages and bounds: what the caches of  *)
(* the status hold was shown to the client that is there, and the client that is    *)
(* there is on the clocks of the server.                                             *)
EXTENDS HmiServer, TLAPS

Told == {Payload(w)[x] : w \in Station, x \in Slot} \cup {Unknown}

Desk == [cache : [Slot -> Told], edge : BOOLEAN \cup {Unknown}, aux : {"ok", "fault", Unknown},
         shown : [Slot -> Told], warned : BOOLEAN, unsent : SUBSET Session]

\* What a cache holds was shown.
Honest(d) == \A x \in Slot : d.cache[x] # Unknown => d.shown[x] = d.cache[x]

\* What the edges remember was shown, or reported.
EdgesAgree(d) ==
  /\ d.edge # Unknown => d.shown["camera"] # Unknown /\ d.shown["camera"].connected = d.edge
  /\ d.aux = "fault" => d.warned

Agrees(d) == d \in Desk /\ (HasClient => Honest(d) /\ EdgesAgree(d))

\* The station of y is one, and its desk agrees with the client.
Sound(y) == y \in [w : Station, d : Desk] /\ Agrees(y.d)

SessionTyped == session \in {Nobody} \cup Session

--------------------------------------------------------------------------------
\* The pushes.

LEMMA PayloadFacts ==
  ASSUME NEW w \in Station
  PROVE  /\ Payload(w) \in [Slot -> Told] /\ \A x \in Slot : Payload(w)[x] # Unknown
         /\ Payload(w)["camera"].connected = MechEyeServiceConnected(w)
         /\ MechEyeServiceConnected(w) \in BOOLEAN
<1>1. \A x \in Slot : Payload(w)[x] \in Told /\ Payload(w)[x] # Unknown
  BY UnknownAssumption DEF Told
<1>2. Payload(w) = [x \in Slot |-> Payload(w)[x]]
  BY DEF Payload, Slot
<1>3. Payload(w)["camera"].connected = MechEyeServiceConnected(w)
  BY DEF Payload, BuildCameraStatusPayload
<1>4. MechEyeServiceConnected(w) \in BOOLEAN
  BY DEF MechEyeServiceConnected
<1> QED
  BY <1>1, <1>2, <1>3, <1>4

LEMMA SendKeeps ==
  ASSUME SessionTyped, NEW d \in Desk
  PROVE  LET e == SendToClient(d)
         IN /\ e \in Desk /\ e.cache = d.cache /\ e.shown = d.shown /\ e.edge = d.edge
            /\ e.aux = d.aux /\ e.warned = d.warned /\ (Agrees(d) => Agrees(e))
<1> DEFINE e == SendToClient(d)
<1>1. /\ e \in Desk /\ e.cache = d.cache /\ e.shown = d.shown /\ e.edge = d.edge
      /\ e.aux = d.aux /\ e.warned = d.warned
  BY DEF SendToClient, HasClient, SessionTyped, Desk
<1> HIDE DEF e
<1>2. Agrees(d) => Agrees(e)
  BY <1>1 DEF Agrees, Honest, EdgesAgree
<1> QED
  BY <1>1, <1>2 DEF e

\* What a push makes of the desk d.
Pushed(d, w, slots, force, e) ==
  /\ e \in Desk /\ e.edge = d.edge /\ e.aux = d.aux /\ (d.warned => e.warned)
  /\ \A x \in Slot \ slots : e.cache[x] = d.cache[x] /\ e.shown[x] = d.shown[x]
  /\ \A x \in slots : e.cache[x] = Payload(w)[x]
  /\ HasClient /\ Honest(d) => Honest(e) /\ \A x \in slots : e.shown[x] = Payload(w)[x]
  /\ HasClient /\ force /\ "plc" \in slots /\ w.rod = "fault" => e.warned

LEMMA PushFacts ==
  ASSUME SessionTyped, NEW d \in Desk, NEW w \in Station, NEW slots \in SUBSET Slot,
         NEW force \in BOOLEAN
  PROVE  Pushed(d, w, slots, force, PushStatusIfChanged(d, w, slots, force))
<1> DEFINE P == Payload(w)
           told == {x \in slots : force \/ d.cache[x] # P[x]}
           Put(f) == [x \in Slot |-> IF x \in told THEN P[x] ELSE f[x]]
           c == [d EXCEPT !.cache = Put(@)]
           e == PushStatusIfChanged(d, w, slots, force)
<1>1. P \in [Slot -> Told] /\ \A x \in Slot : P[x] # Unknown
  BY PayloadFacts
<1>2. e = IF ~HasClient \/ told = {} THEN c
          ELSE [SendToClient(c) EXCEPT !.shown = Put(@),
                  !.warned = @ \/ ("plc" \in told /\ w.rod = "fault")]
  BY DEF PushStatusIfChanged
<1> HIDE DEF P, e
<1>3. told \subseteq Slot /\ \A x \in Slot \ slots : x \notin told
  OBVIOUS
<1>4. \A f \in [Slot -> Told] : Put(f) \in [Slot -> Told]
  BY <1>1
<1>5. \A x \in slots : x \notin told => d.cache[x] = P[x] /\ ~force
  OBVIOUS
<1> HIDE DEF told
<1>6. /\ c \in Desk /\ c.cache = Put(d.cache) /\ c.shown = d.shown /\ c.edge = d.edge
      /\ c.aux = d.aux /\ c.warned = d.warned
  BY <1>4 DEF Desk
<1> HIDE DEF c
<1>7. CASE ~HasClient \/ told = {}
  <2>1. e = c
    BY <1>2, <1>7
  <2>2. \A x \in slots : e.cache[x] = P[x]
    BY <1>5, <1>6, <2>1
  <2>3. told = {} /\ Honest(d) => Honest(e) /\ \A x \in slots : e.shown[x] = P[x]
    BY <1>1, <1>5, <1>6, <2>1 DEF Honest
  <2> QED
    BY <1>3, <1>5, <1>6, <1>7, <2>1, <2>2, <2>3 DEF Pushed, e, P
<1>8. CASE HasClient /\ told # {}
  <2> DEFINE s == SendToClient(c)
  <2>1. /\ s \in Desk /\ s.cache = c.cache /\ s.shown = c.shown /\ s.edge = c.edge
        /\ s.aux = c.aux /\ s.warned = c.warned
    BY <1>6, SendKeeps
  <2>2. e = [s EXCEPT !.shown = Put(@), !.warned = @ \/ ("plc" \in told /\ w.rod = "fault")]
    BY <1>2, <1>8
  <2> HIDE DEF s
  <2>3. /\ e \in Desk /\ e.cache = Put(d.cache) /\ e.shown = Put(d.shown) /\ e.edge = d.edge
        /\ e.aux = d.aux /\ (e.warned <=> d.warned \/ ("plc" \in told /\ w.rod = "fault"))
    <3>1. s.shown \in [Slot -> Told] /\ s.warned \in BOOLEAN
      BY <2>1 DEF Desk
    <3>2. Put(s.shown) \in [Slot -> Told]
      BY <1>4, <3>1
    <3>3. (s.warned \/ ("plc" \in told /\ w.rod = "fault")) \in BOOLEAN
      OBVIOUS
    <3> QED
      BY <1>6, <2>1, <2>2, <3>2, <3>3 DEF Desk
  <2>4. \A x \in Slot \ slots : e.cache[x] = d.cache[x] /\ e.shown[x] = d.shown[x]
    BY <1>3, <2>3
  <2>5. \A x \in slots : e.cache[x] = P[x]
    BY <1>5, <2>3
  <2>6. Honest(d) => Honest(e) /\ \A x \in slots : e.shown[x] = P[x]
    BY <1>1, <1>5, <2>3 DEF Honest
  <2>7. force /\ "plc" \in slots => "plc" \in told
    BY <1>5
  <2> QED
    BY <1>8, <2>3, <2>4, <2>5, <2>6, <2>7 DEF Pushed, e, P
<1> QED
  BY <1>7, <1>8

\* A push that leaves the camera alone.
LEMMA PushKeeps ==
  ASSUME SessionTyped, NEW d, Agrees(d), NEW w \in Station, NEW slots \in SUBSET (Slot \ {"camera"}),
         NEW force \in BOOLEAN
  PROVE  Agrees(PushStatusIfChanged(d, w, slots, force))
<1> DEFINE e == PushStatusIfChanged(d, w, slots, force)
<1>1. slots \in SUBSET Slot /\ d \in Desk /\ "camera" \in Slot \ slots
  BY DEF Agrees, Slot
<1>2. /\ e \in Desk /\ e.edge = d.edge /\ e.aux = d.aux /\ (d.warned => e.warned)
      /\ e.shown["camera"] = d.shown["camera"]
      /\ HasClient /\ Honest(d) => Honest(e)
  <2>1. Pushed(d, w, slots, force, e)
    BY <1>1, PushFacts
  <2> HIDE DEF e
  <2> QED
    BY <1>1, <2>1 DEF Pushed
<1> HIDE DEF e
<1>3. Agrees(e)
  BY <1>2 DEF Agrees, EdgesAgree
<1> QED
  BY <1>3 DEF e

\* The camera's push comes with its edge.
LEMMA PushCameraKeeps ==
  ASSUME SessionTyped, NEW d, Agrees(d), NEW w \in Station
  PROVE  LET e == PushCameraStatus(d, w)
         IN /\ Agrees(e)
            /\ HasClient => e.shown["camera"] = Payload(w)["camera"]
            /\ \A x \in Slot \ {"camera"} : e.shown[x] = d.shown[x]
<1> DEFINE c == PushStatusIfChanged(d, w, {"camera"}, FALSE)
           connected == MechEyeServiceConnected(w)
           e == PushCameraStatus(d, w)
<1>1. /\ c \in Desk /\ c.edge = d.edge /\ c.aux = d.aux /\ (d.warned => c.warned)
      /\ HasClient => Honest(c) /\ c.shown["camera"] = Payload(w)["camera"]
      /\ \A x \in Slot \ {"camera"} : c.shown[x] = d.shown[x]
  <2>1. {"camera"} \in SUBSET Slot /\ FALSE \in BOOLEAN /\ d \in Desk
    BY DEF Slot, Agrees
  <2>2. Pushed(d, w, {"camera"}, FALSE, c)
    BY <2>1, PushFacts
  <2> HIDE DEF c
  <2> QED
    BY <2>2 DEF Pushed, Agrees
<1>2. /\ connected \in BOOLEAN /\ Payload(w)["camera"].connected = connected
      /\ Payload(w)["camera"] # Unknown
  BY PayloadFacts DEF Slot
<1>3. e = IF ~HasClient \/ c.edge = connected THEN c
          ELSE [(IF c.edge = Unknown THEN c ELSE SendToClient(c)) EXCEPT !.edge = connected]
  BY DEF PushCameraStatus, CheckCameraConnectivityEdges, SyncCameraConnectivityCache
<1> HIDE DEF c, connected, e
<1>4. CASE ~HasClient
  BY <1>1, <1>3, <1>4 DEF Agrees, e, c
<1>5. CASE HasClient /\ c.edge = connected
  <2>1. e = c
    BY <1>3, <1>5
  <2>2. Agrees(e)
    BY <1>1, <1>2, <1>5, <2>1 DEF Agrees, EdgesAgree
  <2> QED
    BY <1>1, <1>5, <2>1, <2>2 DEF e, c
<1>6. CASE HasClient /\ c.edge # connected
  <2> DEFINE s == IF c.edge = Unknown THEN c ELSE SendToClient(c)
  <2>1. s \in Desk /\ s.cache = c.cache /\ s.shown = c.shown /\ s.aux = c.aux /\ s.warned = c.warned
    BY <1>1, SendKeeps
  <2>2. e = [s EXCEPT !.edge = connected]
    BY <1>3, <1>6
  <2> HIDE DEF s
  <2>3. /\ e \in Desk /\ e.cache = c.cache /\ e.shown = c.shown /\ e.aux = c.aux
        /\ e.warned = c.warned /\ e.edge = connected
    BY <1>2, <2>1, <2>2 DEF Desk
  <2>4. Agrees(e)
    BY <1>1, <1>2, <1>6, <2>3 DEF Agrees, EdgesAgree, Honest
  <2> QED
    BY <1>1, <1>6, <2>3, <2>4 DEF e, c
<1> QED
  BY <1>4, <1>5, <1>6

\* The first pushes of a client: everything, and what the edges remember of it.
LEMMA PushAllKeeps ==
  ASSUME SessionTyped, NEW d, Agrees(d), NEW w \in Station, HasClient
  PROVE  Agrees(PushAllStatusToClient(d, w))
<1> DEFINE c == PushStatusIfChanged(d, w, Slot, TRUE)
           s == SendToClient(c)
           connected == MechEyeServiceConnected(w)
           e == PushAllStatusToClient(d, w)
<1>1. c \in Desk /\ Honest(c) /\ c.shown["camera"] = Payload(w)["camera"] /\ (w.rod = "fault" => c.warned)
  <2>1. Slot \in SUBSET Slot /\ TRUE \in BOOLEAN /\ d \in Desk
    BY DEF Agrees
  <2>2. Pushed(d, w, Slot, TRUE, c)
    BY <2>1, PushFacts
  <2> HIDE DEF c
  <2> QED
    BY <2>2 DEF Pushed, Agrees, Slot
<1>2. /\ connected \in BOOLEAN /\ Payload(w)["camera"].connected = connected
      /\ Payload(w)["camera"] # Unknown
  BY PayloadFacts DEF Slot
<1>3. e = [[s EXCEPT !.edge = connected] EXCEPT !.aux = IF w.rod = "none" THEN Unknown ELSE w.rod]
  BY DEF PushAllStatusToClient, SyncPlcAuxDeviceAlarmCache, SyncCameraConnectivityCache
<1> HIDE DEF c
<1>4. s \in Desk /\ s.cache = c.cache /\ s.shown = c.shown /\ s.warned = c.warned
  BY <1>1, SendKeeps
<1> HIDE DEF s, connected, e
<1>5. (IF w.rod = "none" THEN Unknown ELSE w.rod) \in {"ok", "fault", Unknown}
  BY DEF Station
<1>6. /\ e \in Desk /\ e.cache = c.cache /\ e.shown = c.shown /\ e.warned = c.warned
      /\ e.edge = connected /\ e.aux = IF w.rod = "none" THEN Unknown ELSE w.rod
  BY <1>2, <1>3, <1>4, <1>5 DEF Desk
<1>7. e.aux = "fault" => w.rod = "fault"
  BY <1>6, UnknownAssumption
<1>8. Agrees(e)
  BY <1>1, <1>2, <1>6, <1>7 DEF Agrees, Honest, EdgesAgree
<1> QED
  BY <1>8 DEF e

\* cmd.get_status.
LEMMA GetStatusKeeps ==
  ASSUME SessionTyped, NEW d, Agrees(d), NEW w \in Station
  PROVE  Agrees(HandleCmdGetStatus(d, w))
<1> DEFINE s == SendToClient(d)
           c == IF HasClient
                THEN [s EXCEPT !.shown = Payload(w), !.warned = @ \/ w.rod = "fault"] ELSE d
           connected == MechEyeServiceConnected(w)
           e == HandleCmdGetStatus(d, w)
<1>1. /\ connected \in BOOLEAN /\ Payload(w)["camera"].connected = connected
      /\ Payload(w)["camera"] # Unknown /\ Payload(w) \in [Slot -> Told]
  BY PayloadFacts DEF Slot
<1>2. e = [[[c EXCEPT !.cache = Payload(w)] EXCEPT !.edge = connected]
             EXCEPT !.aux = IF w.rod = "none" THEN Unknown ELSE w.rod]
  BY DEF HandleCmdGetStatus, SyncStatusPushCacheFromCurrent, SyncPlcAuxDeviceAlarmCache,
     SyncCameraConnectivityCache
<1>3. s \in Desk /\ d \in Desk
  BY SendKeeps DEF Agrees
<1> HIDE DEF s
<1>4. /\ c \in Desk
      /\ HasClient => c.shown = Payload(w) /\ (w.rod = "fault" => c.warned)
  <2>1. (s.warned \/ w.rod = "fault") \in BOOLEAN
    OBVIOUS
  <2> QED
    BY <1>1, <1>3, <2>1 DEF Desk
<1> HIDE DEF c, connected, e
<1>5. (IF w.rod = "none" THEN Unknown ELSE w.rod) \in {"ok", "fault", Unknown}
  BY DEF Station
<1>6. /\ e \in Desk /\ e.cache = Payload(w) /\ e.shown = c.shown /\ e.warned = c.warned
      /\ e.edge = connected /\ e.aux = IF w.rod = "none" THEN Unknown ELSE w.rod
  BY <1>1, <1>2, <1>4, <1>5 DEF Desk
<1>7. e.aux = "fault" => w.rod = "fault"
  BY <1>6, UnknownAssumption
<1>8. Agrees(e)
  BY <1>1, <1>4, <1>6, <1>7 DEF Agrees, Honest, EdgesAgree
<1> QED
  BY <1>8 DEF e

LEMMA CheckAuxKeeps ==
  ASSUME SessionTyped, NEW d, Agrees(d), NEW rod \in {"ok", "fault"}
  PROVE  Agrees(CheckPlcAuxDeviceAlarms(d, rod))
<1> DEFINE s == SendToClient(d)
           told == [s EXCEPT !.warned = @ \/ HasClient]
           c == IF rod = "fault" /\ d.aux # "fault" THEN told ELSE d
           e == CheckPlcAuxDeviceAlarms(d, rod)
<1>1. e = [c EXCEPT !.aux = rod]
  BY DEF CheckPlcAuxDeviceAlarms
<1>2. s \in Desk /\ s.cache = d.cache /\ s.shown = d.shown /\ s.edge = d.edge /\ d \in Desk
  BY SendKeeps DEF Agrees
<1> HIDE DEF s
<1>3. /\ told \in Desk /\ told.cache = d.cache /\ told.shown = d.shown /\ told.edge = d.edge
      /\ HasClient => told.warned
  <2>1. (s.warned \/ HasClient) \in BOOLEAN
    BY DEF HasClient
  <2> QED
    BY <1>2, <2>1 DEF Desk
<1> HIDE DEF told
<1>4. /\ c \in Desk /\ c.cache = d.cache /\ c.shown = d.shown /\ c.edge = d.edge
      /\ HasClient /\ rod = "fault" => c.warned
  BY <1>2, <1>3 DEF Agrees, EdgesAgree
<1> HIDE DEF c, e
<1>5. /\ e \in Desk /\ e.cache = d.cache /\ e.shown = d.shown /\ e.edge = d.edge
      /\ e.warned = c.warned /\ e.aux = rod
  BY <1>1, <1>4 DEF Desk
<1>6. Agrees(e)
  BY <1>4, <1>5 DEF Agrees, Honest, EdgesAgree
<1> QED
  BY <1>6 DEF e

--------------------------------------------------------------------------------
\* The station, with the slots it calls.

App == {"Init", "Ready", "Scanning", "Error"}

LEMMA SoundParts ==
  ASSUME NEW w \in Station, NEW d, Agrees(d)
  PROVE  Sound([w |-> w, d |-> d])
  BY DEF Sound, Agrees

LEMMA StationChanges ==
  ASSUME NEW w \in Station
  PROVE  /\ \A a \in App : [w EXCEPT !.app = a] \in Station
         /\ \A l \in {0, 2, 3} : [w EXCEPT !.alarm = l] \in Station
         /\ \A b \in BOOLEAN : [w EXCEPT !.modbus = b] \in Station
         /\ \A b \in BOOLEAN : [w EXCEPT !.zone = b] \in Station
         /\ \A v \in {"none", "ok", "fault"} : [w EXCEPT !.rod = v] \in Station
         /\ \A c \in {"Idle", "Ready", "Error"} : [w EXCEPT !.camera = c] \in Station
         /\ [w EXCEPT !.stopped = FALSE, !.alarm = 0] \in Station
         /\ [w EXCEPT !.alarm = 0, !.rod = "none"] \in Station
         /\ [w EXCEPT !.alarm = 0, !.zone = FALSE] \in Station
         /\ [w EXCEPT !.stopped = TRUE, !.wired = FALSE, !.alarm = 0, !.app = "Init"] \in Station
  BY DEF Station, App

LEMMA SetStateKeeps ==
  ASSUME SessionTyped, NEW y, Sound(y), NEW a \in App
  PROVE  Sound(SetState(y, a))
<1> DEFINE w == [y.w EXCEPT !.app = a]
           p == PushStatusIfChanged(y.d, w, {"system", "device"}, FALSE)
           d == IF w.stopped \/ ~HasClient THEN y.d ELSE p
<1>1. y.w \in Station /\ Agrees(y.d)
  BY DEF Sound
<1>2. w \in Station
  BY <1>1, StationChanges
<1> HIDE DEF w
<1>3. Agrees(p)
  <2>1. {"system", "device"} \in SUBSET (Slot \ {"camera"}) /\ FALSE \in BOOLEAN
    BY DEF Slot
  <2> QED
    BY <1>1, <1>2, <2>1, PushKeeps
<1> HIDE DEF p
<1>4. Agrees(d)
  BY <1>1, <1>3
<1>5. SetState(y, a) = IF y.w.app = a THEN y ELSE [w |-> w, d |-> d]
  BY DEF SetState, w, p
<1> HIDE DEF d
<1> QED
  BY <1>2, <1>4, <1>5, SoundParts

LEMMA SetAlarmKeeps ==
  ASSUME SessionTyped, NEW y, Sound(y), NEW l \in {0, 2, 3}
  PROVE  Sound(SetAlarm(y, l))
<1>1. y.w \in Station /\ Agrees(y.d) /\ y.d \in Desk
  BY DEF Sound, Agrees
<1>2. [y.w EXCEPT !.alarm = l] \in Station
  BY <1>1, StationChanges
<1>3. Agrees(IF y.w.stopped THEN y.d ELSE SendToClient(y.d))
  BY <1>1, SendKeeps
<1> QED
  BY <1>2, <1>3, SoundParts DEF SetAlarm

LEMMA DeskChanges ==
  ASSUME SessionTyped, NEW y, Sound(y)
  PROVE  /\ \A w \in Station : Sound([y EXCEPT !.w = w])
         /\ \A d : Agrees(d) => Sound([y EXCEPT !.d = d])
         /\ Agrees(SendToClient(y.d)) /\ y.w \in Station /\ Agrees(y.d)
<1>1. y \in [w : Station, d : Desk] /\ Agrees(y.d)
  BY DEF Sound
<1>2. ASSUME NEW w \in Station PROVE Sound([y EXCEPT !.w = w])
  BY <1>1 DEF Sound
<1>3. ASSUME NEW d, Agrees(d) PROVE Sound([y EXCEPT !.d = d])
  BY <1>1, <1>3 DEF Sound, Agrees
<1>4. Agrees(SendToClient(y.d))
  BY <1>1, SendKeeps
<1> QED
  BY <1>1, <1>2, <1>3, <1>4

LEMMA FaultKeeps ==
  ASSUME SessionTyped, NEW y, Sound(y)
  PROVE  Sound(EnterFaultState(y))
<1>1. 3 \in {0, 2, 3} /\ "Error" \in App
  BY DEF App
<1>2. Sound(SetAlarm(y, 3))
  BY <1>1, SetAlarmKeeps
<1> HIDE DEF App
<1> QED
  BY <1>1, <1>2, SetStateKeeps DEF EnterFaultState

LEMMA ReadyKeeps ==
  ASSUME SessionTyped, NEW y, Sound(y)
  PROVE  Sound(BeReady(y))
<1> DEFINE v == [y EXCEPT !.w.alarm = 0, !.w.rod = "none"]
<1>1. y \in [w : Station, d : Desk]
  BY DEF Sound
<1>2. v = [y EXCEPT !.w = [y.w EXCEPT !.alarm = 0, !.rod = "none"]]
  BY <1>1 DEF Station
<1>3. [y.w EXCEPT !.alarm = 0, !.rod = "none"] \in Station
  BY <1>1, StationChanges
<1>4. Sound(v)
  BY <1>2, <1>3, DeskChanges
<1> HIDE DEF v
<1>5. "Ready" \in App
  BY DEF App
<1>6. Sound(SetState(v, "Ready"))
  BY <1>4, <1>5, SetStateKeeps
<1> QED
  BY <1>6 DEF BeReady, v

\* A push of the system's status.
LEMMA PushSystemKeeps ==
  ASSUME SessionTyped, NEW d, Agrees(d), NEW w \in Station
  PROVE  /\ Agrees(PushStatusIfChanged(d, w, {"system"}, FALSE))
         /\ Agrees(PushStatusIfChanged(d, w, {"device"}, FALSE))
         /\ Agrees(PushStatusIfChanged(d, w, {"system", "plc"}, FALSE))
         /\ Agrees(PushStatusIfChanged(d, w, {"plc", "device"}, FALSE))
         /\ Agrees(PushStatusIfChanged(SendToClient(d), w, {"system"}, FALSE))
<1>1. /\ {"system"} \in SUBSET (Slot \ {"camera"}) /\ {"plc", "device"} \in SUBSET (Slot \ {"camera"})
      /\ {"device"} \in SUBSET (Slot \ {"camera"}) /\ {"system", "plc"} \in SUBSET (Slot \ {"camera"})
      /\ FALSE \in BOOLEAN
  BY DEF Slot
<1>2. Agrees(SendToClient(d))
  BY SendKeeps DEF Agrees
<1> QED
  BY <1>1, <1>2, PushKeeps

LEMMA StartStationKeeps ==
  ASSUME SessionTyped, NEW y, Sound(y)
  PROVE  Sound(StartStation(y))
<1> DEFINE pushed == PushStatusIfChanged(SendToClient(y.d), y.w, {"system"}, FALSE)
           w == [y.w EXCEPT !.stopped = FALSE, !.alarm = 0]
           init == SetState([w |-> w, d |-> pushed], "Init")
<1>1. y.w \in Station /\ Agrees(y.d)
  BY DEF Sound
<1>2. Agrees(pushed) /\ w \in Station
  BY <1>1, PushSystemKeeps, StationChanges
<1>3. StartStation(y) = IF y.w.modbus THEN BeReady(init) ELSE init
  BY DEF StartStation
<1> HIDE DEF pushed, w
<1>4. Sound([w |-> w, d |-> pushed])
  BY <1>2, SoundParts
<1>5. "Init" \in App
  BY DEF App
<1>6. Sound(init)
  BY <1>4, <1>5, SetStateKeeps
<1> HIDE DEF init
<1>7. Sound(BeReady(init))
  BY <1>6, ReadyKeeps
<1> QED
  BY <1>3, <1>6, <1>7

LEMMA StopStationKeeps ==
  ASSUME SessionTyped, NEW y, Sound(y)
  PROVE  Sound(StopStation(y))
<1>1. y \in [w : Station, d : Desk]
  BY DEF Sound
<1>2. [y.w EXCEPT !.stopped = TRUE, !.wired = FALSE, !.alarm = 0, !.app = "Init"] \in Station
  BY <1>1, StationChanges
<1>3. Sound([y EXCEPT !.w = [y.w EXCEPT !.stopped = TRUE, !.wired = FALSE, !.alarm = 0, !.app = "Init"]])
  BY <1>2, DeskChanges
<1> QED
  BY <1>3 DEF StopStation

LEMMA SignalKeeps ==
  ASSUME SessionTyped, NEW y, Sound(y)
  PROVE  Sound(ModbusSignal(y))
<1> DEFINE s == SendToClient(y.d)
           e == PushStatusIfChanged(s, y.w, {"plc", "device"}, FALSE)
<1>1. Agrees(s) /\ y.w \in Station
  BY DeskChanges
<1> HIDE DEF s
<1>2. Agrees(e)
  BY <1>1, PushSystemKeeps
<1>3. ModbusSignal(y) = [y EXCEPT !.d = IF HasClient THEN e ELSE s]
  BY DEF ModbusSignal, s
<1> HIDE DEF e
<1> QED
  BY <1>1, <1>2, <1>3, DeskChanges

LEMMA ModbusKeeps ==
  ASSUME SessionTyped, NEW y, Sound(y)
  PROVE  Sound(ModbusUp(y)) /\ Sound(ModbusDown(y)) /\ Sound(ModbusFails(y))
<1>1. ASSUME NEW b \in BOOLEAN PROVE Sound([y EXCEPT !.w.modbus = b])
  <2>1. [y EXCEPT !.w.modbus = b] = [y EXCEPT !.w = [y.w EXCEPT !.modbus = b]]
    BY DEF Sound
  <2>2. [y.w EXCEPT !.modbus = b] \in Station
    BY StationChanges DEF Sound
  <2> QED
    BY <2>1, <2>2, DeskChanges
<1>2. Sound(ModbusUp(y))
  <2> DEFINE v == [y EXCEPT !.w.modbus = TRUE]
             u == IF Hears(y.w) THEN BeReady(v) ELSE v
  <2>1. Sound(v)
    BY <1>1
  <2> HIDE DEF v
  <2>2. Sound(u)
    BY <2>1, ReadyKeeps
  <2>3. ModbusUp(y) = IF y.w.modbus THEN y ELSE ModbusSignal(u)
    BY DEF ModbusUp, v
  <2> HIDE DEF u
  <2> QED
    BY <2>2, <2>3, SignalKeeps
<1>3. Sound(ModbusDown(y))
  <2> DEFINE v == [y EXCEPT !.w.modbus = FALSE]
             u == IF Hears(y.w) THEN EnterFaultState(v) ELSE v
  <2>1. Sound(v)
    BY <1>1
  <2> HIDE DEF v
  <2>2. Sound(u)
    BY <2>1, FaultKeeps
  <2>3. ModbusDown(y) = IF ~y.w.modbus THEN y ELSE ModbusSignal(u)
    BY DEF ModbusDown, v
  <2> HIDE DEF u
  <2> QED
    BY <2>2, <2>3, SignalKeeps
<1>4. Sound(ModbusFails(y))
  BY DeskChanges DEF ModbusFails
<1> QED
  BY <1>2, <1>3, <1>4

LEMMA ZoneKeeps ==
  ASSUME SessionTyped, NEW y, Sound(y), NEW b \in BOOLEAN
  PROVE  Sound([y EXCEPT !.w.zone = b])
<1>1. [y EXCEPT !.w.zone = b] = [y EXCEPT !.w = [y.w EXCEPT !.zone = b]]
  BY DEF Sound
<1>2. [y.w EXCEPT !.zone = b] \in Station
  BY StationChanges DEF Sound
<1> QED
  BY <1>1, <1>2, DeskChanges

LEMMA ReportKeeps ==
  ASSUME SessionTyped, NEW y, Sound(y), NEW alarm \in BOOLEAN
  PROVE  Sound(ReportPersonZoneAlarm(y, alarm))
<1>1. Sound([EnterFaultState(y) EXCEPT !.w.zone = TRUE])
  BY FaultKeeps, ZoneKeeps
<1>2. Sound(SetState([y EXCEPT !.w.alarm = 0, !.w.zone = FALSE], "Ready"))
  <2> DEFINE v == [y EXCEPT !.w.alarm = 0, !.w.zone = FALSE]
  <2>1. v = [y EXCEPT !.w = [y.w EXCEPT !.alarm = 0, !.zone = FALSE]]
    BY DEF Sound, Station
  <2>2. [y.w EXCEPT !.alarm = 0, !.zone = FALSE] \in Station
    BY StationChanges DEF Sound
  <2>3. Sound(v) /\ "Ready" \in App
    BY <2>1, <2>2, DeskChanges DEF App
  <2> HIDE DEF v
  <2>4. Sound(SetState(v, "Ready"))
    BY <2>3, SetStateKeeps
  <2> QED
    BY <2>4 DEF v
<1> QED
  BY <1>1, <1>2 DEF ReportPersonZoneAlarm

LEMMA AnsweredKeeps ==
  ASSUME SessionTyped, NEW y, Sound(y)
  PROVE  Sound(Answered(y))
  BY DeskChanges DEF Answered

--------------------------------------------------------------------------------
\* The sessions.  x is a state of them, as in Conn.

Connection(x) ==
  /\ x \in [session : {Nobody} \cup Session, ticking : BOOLEAN,
            sock : [Session -> {"none", "open", "closing", "closed", "gone"}],
            doomed : SUBSET Session, beat : SUBSET Session, person : BOOLEAN \cup {Unknown},
            desk : Desk]
  /\ \A s \in x.doomed : x.sock[s] # "none"
  /\ x.session # Nobody => x.sock[x.session] # "none"

\* What is the client's is in order, but for its own clock.
Almost(x) ==
  /\ Connection(x)
  /\ x.session # Nobody =>
       /\ x.sock[x.session] \in {"open", "closing"} /\ x.session \notin x.doomed /\ x.ticking
       /\ x.sock[x.session] = "open" => Honest(x.desk) /\ EdgesAgree(x.desk)

Held(x) ==
  Almost(x) /\ (x.session # Nobody /\ x.sock[x.session] = "open" => x.session \in x.beat)

LEMMA NobodyIsNoSession == Nobody \notin Session
  BY HmiAssumption DEF Nobody, Session

LEMMA InvalidatedDesk ==
  ASSUME NEW d \in Desk
  PROVE  /\ InvalidateStatusPushCache(d) \in Desk
         /\ \A s \in Session :
              LET e == [InvalidateStatusPushCache(d) EXCEPT
                          !.shown = BlankDesk.shown, !.warned = FALSE, !.unsent = @ \cup {s}]
              IN e \in Desk /\ Honest(e) /\ EdgesAgree(e)
<1> DEFINE blank == [x \in Slot |-> Unknown]
           c == [d EXCEPT !.cache = blank, !.edge = Unknown, !.aux = Unknown]
<1>1. BlankDesk.cache = blank /\ BlankDesk.shown = blank
  BY DEF BlankDesk
<1>2. blank \in [Slot -> Told]
  BY DEF Told
<1>3. c = InvalidateStatusPushCache(d)
  BY <1>1 DEF InvalidateStatusPushCache
<1>4. c \in Desk /\ c.cache = blank /\ c.edge = Unknown /\ c.aux = Unknown
  BY <1>2 DEF Desk
<1> HIDE DEF c
<1>5. ASSUME NEW s \in Session
      PROVE  LET e == [c EXCEPT !.shown = blank, !.warned = FALSE, !.unsent = @ \cup {s}]
             IN e \in Desk /\ Honest(e) /\ EdgesAgree(e)
  <2> DEFINE e == [c EXCEPT !.shown = blank, !.warned = FALSE, !.unsent = @ \cup {s}]
  <2>1. e \in Desk /\ e.cache = blank /\ e.edge = Unknown /\ e.aux = Unknown
    BY <1>2, <1>4 DEF Desk
  <2> HIDE DEF e
  <2>2. Honest(e) /\ EdgesAgree(e)
    BY <2>1, UnknownAssumption DEF Honest, EdgesAgree
  <2> QED
    BY <2>1, <2>2 DEF e
<1> QED
  BY <1>1, <1>3, <1>4, <1>5

\* onSessionDisconnected() leaves nobody.
LEMMA DroppedHolds ==
  ASSUME NEW x, Connection(x)
  PROVE  LET y == OnSessionDisconnected(x)
         IN Held(y) /\ y.session = Nobody /\ y.sock = x.sock
<1> DEFINE y == OnSessionDisconnected(x)
           d == InvalidateStatusPushCache(x.desk)
<1>1. d \in Desk
  BY InvalidatedDesk DEF Connection
<1>2. y = [x EXCEPT !.session = Nobody, !.doomed = @ \cup ({x.session} \ {Nobody}), !.ticking = FALSE,
            !.person = Unknown, !.desk = d]
  BY DEF OnSessionDisconnected
<1> HIDE DEF d, y
<1>3. /\ y \in [session : {Nobody} \cup Session, ticking : BOOLEAN,
                sock : [Session -> {"none", "open", "closing", "closed", "gone"}],
                doomed : SUBSET Session, beat : SUBSET Session, person : BOOLEAN \cup {Unknown},
                desk : Desk]
      /\ y.session = Nobody /\ y.sock = x.sock /\ y.doomed = x.doomed \cup ({x.session} \ {Nobody})
  BY <1>1, <1>2 DEF Connection
<1>4. \A s \in y.doomed : y.sock[s] # "none"
  BY <1>3 DEF Connection
<1> QED
  BY <1>3, <1>4 DEF Held, Almost, Connection, y

LEMMA SocketDroppedHolds ==
  ASSUME NEW x, Connection(x), NEW s \in Session
  PROVE  LET y == OnSocketDisconnected(x, s)
         IN /\ Held(y) /\ y.session = Nobody
            /\ \A t \in Session : t # s => y.sock[t] = x.sock[t]
<1> DEFINE z == [x EXCEPT !.sock[s] = "closed", !.beat = @ \ {s}]
<1>1. /\ Connection(z) /\ \A t \in Session : t # s => z.sock[t] = x.sock[t]
  BY DEF Connection
<1> HIDE DEF z
<1>2. LET y == OnSessionDisconnected(z)
      IN Held(y) /\ y.session = Nobody /\ y.sock = z.sock
  BY <1>1, DroppedHolds
<1> QED
  BY <1>1, <1>2 DEF OnSocketDisconnected, z

LEMMA DisconnectHolds ==
  ASSUME NEW x, Almost(x), NEW s \in Session
  PROVE  LET y == Disconnect(x, s)
         IN /\ Almost(y) /\ (Held(x) => Held(y)) /\ (s = x.session => Held(y))
            /\ y.session \in {x.session, Nobody}
            /\ \A t \in Session : t # s => y.sock[t] = x.sock[t]
            /\ x.sock[s] # "none" => y.sock[s] # "none"
<1> DEFINE y == Disconnect(x, s)
           z == [x EXCEPT !.sock[s] = "closing"]
<1>1. CASE x.sock[s] # "open"
  <2>1. y = x
    BY <1>1 DEF Disconnect
  <2> HIDE DEF y
  <2>2. s = x.session => Held(x)
    BY <1>1 DEF Held
  <2> QED
    BY <2>1, <2>2 DEF y
<1>2. CASE x.sock[s] = "open" /\ s \in x.desk.unsent
  <2>1. y = z
    BY <1>2 DEF Disconnect
  <2>2. /\ Connection(z) /\ z.session = x.session /\ z.sock[s] = "closing" /\ z.doomed = x.doomed
        /\ z.ticking = x.ticking /\ z.desk = x.desk /\ z.beat = x.beat
        /\ \A t \in Session : t # s => z.sock[t] = x.sock[t]
    BY DEF Almost, Connection
  <2> HIDE DEF y, z
  <2>3. Almost(z)
    BY <1>2, <2>2, NobodyIsNoSession DEF Almost, Connection
  <2>4. (Held(x) => Held(z)) /\ (s = x.session => Held(z))
    BY <1>2, <2>2, <2>3, NobodyIsNoSession DEF Held, Connection
  <2> QED
    BY <2>1, <2>2, <2>3, <2>4 DEF y
<1>3. CASE x.sock[s] = "open" /\ s \notin x.desk.unsent
  <2>1. y = OnSocketDisconnected(x, s)
    BY <1>3 DEF Disconnect
  <2>2. /\ Held(y) /\ y.session = Nobody /\ \A t \in Session : t # s => y.sock[t] = x.sock[t]
    BY <2>1, SocketDroppedHolds DEF Almost
  <2>3. y.sock[s] # "none"
    BY <2>1 DEF OnSocketDisconnected, OnSessionDisconnected, Almost, Connection
  <2> HIDE DEF y
  <2> QED
    BY <2>2, <2>3 DEF Held, y
<1> QED
  BY <1>1, <1>2, <1>3

LEMMA DropHolds ==
  ASSUME NEW x, Almost(x)
  PROVE  LET y == DropSession(x)
         IN /\ Held(y) /\ y.session = Nobody
            /\ \A t \in Session : x.sock[t] = "none" <=> y.sock[t] = "none"
<1> DEFINE y == DropSession(x)
<1>1. CASE x.session = Nobody
  BY <1>1 DEF DropSession, Held
<1>2. CASE x.session # Nobody
  <2>1. PICK s \in Session : s = x.session
    BY <1>2 DEF Almost, Connection
  <2> DEFINE z == Disconnect(x, s)
  <2>2. /\ Almost(z) /\ \A t \in Session : t # s => z.sock[t] = x.sock[t]
        /\ x.sock[s] # "none" => z.sock[s] # "none"
    BY DisconnectHolds
  <2>3. y = [z EXCEPT !.session = Nobody, !.doomed = @ \cup {s}]
    BY <1>2, <2>1 DEF DropSession
  <2> HIDE DEF y, z
  <2>4. x.sock[s] # "none"
    BY <1>2, <2>1 DEF Almost, Connection
  <2>5. y.session = Nobody /\ y.sock = z.sock /\ Connection(y)
    BY <2>2, <2>3, <2>4 DEF Almost, Connection
  <2>6. Held(y)
    BY <2>5 DEF Held, Almost
  <2> QED
    BY <2>1, <2>2, <2>4, <2>5, <2>6 DEF y
<1> QED
  BY <1>1, <1>2

LEMMA AcceptedHolds ==
  ASSUME NEW x, Connection(x), NEW s \in Session, x.sock[s] = "none"
  PROVE  Held(Accepted(x, s))
<1> DEFINE e == [InvalidateStatusPushCache(x.desk) EXCEPT
                   !.shown = BlankDesk.shown, !.warned = FALSE, !.unsent = @ \cup {s}]
           y == Accepted(x, s)
<1>1. e \in Desk /\ Honest(e) /\ EdgesAgree(e)
  BY InvalidatedDesk DEF Connection
<1>2. y = [x EXCEPT !.session = s, !.sock[s] = "open", !.beat = @ \cup {s}, !.ticking = TRUE,
            !.desk = e]
  BY DEF Accepted
<1> HIDE DEF e, y
<1>3. s \notin x.doomed
  BY DEF Connection
<1>4. /\ Connection(y) /\ y.session = s /\ y.sock[s] = "open" /\ s \in y.beat /\ y.ticking
      /\ y.doomed = x.doomed /\ y.desk = e
  BY <1>1, <1>2 DEF Connection
<1>5. Held(y)
  BY <1>1, <1>3, <1>4 DEF Held, Almost
<1> QED
  BY <1>5 DEF y

--------------------------------------------------------------------------------
\* The invariant, and the steps that keep it.

HmiInv ==
  /\ station \in Station
  /\ SessionTyped /\ ticking \in BOOLEAN
  /\ sock \in [Session -> {"none", "open", "closing", "closed", "gone"}]
  /\ doomed \in SUBSET Session /\ beat \in SUBSET Session /\ person \in BOOLEAN \cup {Unknown}
  /\ \A s \in doomed : sock[s] # "none"
  /\ ClientTended
  /\ desk \in Desk
  /\ HasClient => Honest(desk) /\ EdgesAgree(desk)

LEMMA InvHolds ==
  ASSUME HmiInv
  PROVE  /\ Held(Conn) /\ Almost(Conn) /\ Connection(Conn) /\ Agrees(desk) /\ Sound(Now)
         /\ SessionTyped /\ station \in Station
<1>1. Conn \in [session : {Nobody} \cup Session, ticking : BOOLEAN,
                sock : [Session -> {"none", "open", "closing", "closed", "gone"}],
                doomed : SUBSET Session, beat : SUBSET Session, person : BOOLEAN \cup {Unknown},
                desk : Desk]
  BY DEF HmiInv, SessionTyped, Conn
<1>2. Connection(Conn)
  BY <1>1 DEF Connection, HmiInv, ClientTended, Conn
<1>3. Held(Conn)
  BY <1>2 DEF Held, Almost, HmiInv, ClientTended, Conn, HasClient
<1>4. Agrees(desk) /\ SessionTyped /\ station \in Station
  BY DEF HmiInv, Agrees
<1> QED
  BY <1>2, <1>3, <1>4, SoundParts DEF Held, Now

LEMMA BecomesSo ==
  ASSUME NEW x, Held(x), Become(x), station' \in Station
  PROVE  HmiInv'
<1>1. /\ session' = x.session /\ ticking' = x.ticking /\ sock' = x.sock /\ doomed' = x.doomed
      /\ beat' = x.beat /\ person' = x.person /\ desk' = x.desk
  BY DEF Become
<1>2. /\ SessionTyped' /\ ticking' \in BOOLEAN
      /\ sock' \in [Session -> {"none", "open", "closing", "closed", "gone"}]
      /\ doomed' \in SUBSET Session /\ beat' \in SUBSET Session /\ person' \in BOOLEAN \cup {Unknown}
      /\ desk' \in Desk /\ \A s \in doomed' : sock'[s] # "none"
  BY <1>1 DEF Held, Almost, Connection, SessionTyped
<1>3. ClientTended'
  BY <1>1 DEF ClientTended, Held, Almost
<1>4. HasClient' => Honest(x.desk) /\ EdgesAgree(x.desk)
  BY <1>1 DEF HasClient, Held, Almost
<1>5. HasClient' => (Honest(desk) /\ EdgesAgree(desk))'
  BY <1>1, <1>4 DEF Honest, EdgesAgree
<1> QED
  BY <1>2, <1>3, <1>5 DEF HmiInv

\* A step that leaves the sessions alone.
LEMMA StaysSo ==
  ASSUME HmiInv, UNCHANGED <<session, ticking, sock, doomed>>, beat \subseteq beat',
         beat' \in SUBSET Session, person' \in BOOLEAN \cup {Unknown},
         station' \in Station, Agrees(desk')
  PROVE  HmiInv'
<1>1. HasClient' <=> HasClient
  BY DEF HasClient
<1>2. (HasClient => Honest(desk) /\ EdgesAgree(desk))'
  BY <1>1 DEF Agrees, Honest, EdgesAgree
<1>3. ClientTended'
  BY DEF HmiInv, ClientTended
<1>4. desk' \in Desk
  BY DEF Agrees
<1> QED
  BY <1>2, <1>3, <1>4 DEF HmiInv, SessionTyped

LEMMA InitHolds == Init => HmiInv
<1> SUFFICES ASSUME Init PROVE HmiInv
  OBVIOUS
<1>1. station \in Station
  BY DEF Init, Station
<1>2. desk \in Desk
  BY DEF Init, BlankDesk, Desk, Told
<1>3. session = Nobody /\ doomed = {}
  BY DEF Init
<1>4. SessionTyped /\ ~HasClient /\ ClientTended
  BY <1>3 DEF SessionTyped, HasClient, ClientTended
<1> QED
  BY <1>1, <1>2, <1>3, <1>4 DEF Init, HmiInv

\* The events of the sessions.
LEMMA SessionsKeep ==
  ASSUME HmiInv, NEW s \in Session,
         \/ OnNewConnection(s) \/ OnSessionHeartbeatTimeout(s) \/ Flush(s) \/ PeerLoss(s)
         \/ RefuseFrame(s)
  PROVE  HmiInv'
<1> USE InvHolds
<1>1. CASE OnNewConnection(s)
  <2> DEFINE x == DropSession(Conn)
  <2>1. Become(Accepted(x, s)) /\ sock[s] = "none" /\ station' = station
    BY <1>1 DEF OnNewConnection
  <2>2. Connection(x) /\ x.sock[s] = "none"
    BY <2>1, DropHolds DEF Held, Almost, Conn
  <2> HIDE DEF x
  <2>3. Held(Accepted(x, s))
    BY <2>2, AcceptedHolds
  <2> QED
    BY <2>1, <2>3, BecomesSo
<1>2. CASE OnSessionHeartbeatTimeout(s)
  <2> DEFINE x == [Conn EXCEPT !.beat = @ \ {s}]
             y == IF session = Nobody THEN x ELSE Disconnect(x, session)
  <2>1. Become(y) /\ station' = station
    BY <1>2 DEF OnSessionHeartbeatTimeout
  <2>2. Almost(x) /\ x.session = session
    BY DEF Almost, Connection, Conn
  <2> HIDE DEF x
  <2>3. Held(y)
    <3>1. CASE session = Nobody
      BY <2>2, <3>1 DEF Held
    <3>2. CASE session # Nobody
      <4>1. PICK t \in Session : t = session
        BY <3>2 DEF SessionTyped
      <4>2. Held(Disconnect(x, t))
        BY <2>2, <4>1, DisconnectHolds
      <4> QED
        BY <3>2, <4>1, <4>2
    <3> QED
      BY <3>1, <3>2
  <2> HIDE DEF y
  <2> QED
    BY <2>1, <2>3, BecomesSo
<1>3. CASE Flush(s)
  <2> DEFINE x == [Conn EXCEPT !.desk.unsent = @ \ {s}]
             y == IF sock[s] = "closing" THEN OnSocketDisconnected(x, s) ELSE x
  <2>1. Become(y) /\ station' = station
    BY <1>3 DEF Flush
  <2>2. /\ Connection(x) /\ x.session = session /\ x.sock = sock /\ x.doomed = doomed
        /\ x.ticking = ticking /\ x.beat = beat /\ x.desk = [desk EXCEPT !.unsent = @ \ {s}]
    BY DEF Almost, Connection, Conn, Desk
  <2>3. /\ x.desk.cache = desk.cache /\ x.desk.shown = desk.shown /\ x.desk.edge = desk.edge
        /\ x.desk.aux = desk.aux /\ x.desk.warned = desk.warned
    BY <2>2 DEF Agrees, Desk
  <2> HIDE DEF x
  <2>4. Held(x)
    BY <2>2, <2>3 DEF Held, Almost, Conn, Honest, EdgesAgree
  <2>5. Held(OnSocketDisconnected(x, s))
    BY <2>2, SocketDroppedHolds
  <2>6. Held(y)
    BY <2>4, <2>5
  <2> HIDE DEF y
  <2> QED
    BY <2>1, <2>6, BecomesSo
<1>4. CASE PeerLoss(s)
  <2> DEFINE y == OnSocketDisconnected(Conn, s)
  <2>1. Become(y) /\ station' = station
    BY <1>4 DEF PeerLoss
  <2>2. Held(y)
    BY SocketDroppedHolds
  <2> HIDE DEF y
  <2> QED
    BY <2>1, <2>2, BecomesSo
<1>5. CASE RefuseFrame(s)
  <2> DEFINE y == Disconnect(Conn, s)
  <2>1. Become(y) /\ station' = station
    BY <1>5 DEF RefuseFrame
  <2>2. Held(y)
    BY DisconnectHolds
  <2> HIDE DEF y
  <2> QED
    BY <2>1, <2>2, BecomesSo
<1> QED
  BY <1>1, <1>2, <1>3, <1>4, <1>5

LEMMA StopHolds == HmiInv /\ Stop => HmiInv'
<1> SUFFICES ASSUME HmiInv, Stop PROVE HmiInv'
  OBVIOUS
<1> DEFINE x == [Conn EXCEPT !.ticking = FALSE]
           y == DropSession(x)
<1>1. Become(y) /\ station' = station /\ station \in Station
  BY InvHolds DEF Stop
<1>2. CASE session = Nobody
  <2>1. Held(x) /\ y = x
    BY <1>2, InvHolds DEF DropSession, Held, Almost, Connection, Conn
  <2> HIDE DEF x, y
  <2> QED
    BY <1>1, <2>1, BecomesSo
<1>3. CASE session # Nobody
  <2>1. PICK s \in Session : s = session
    BY <1>3, InvHolds DEF SessionTyped
  <2> DEFINE z == Disconnect(x, s)
  <2>2. y = [z EXCEPT !.session = Nobody, !.doomed = @ \cup {s}]
    BY <1>3, <2>1 DEF DropSession, Conn
  <2>3. Connection(x) /\ x.sock[s] # "none"
    BY <1>3, <2>1, InvHolds DEF Connection, Conn
  <2> HIDE DEF x, y
  <2>4. Connection(z) /\ z.sock[s] # "none"
    <3>1. CASE x.sock[s] # "open"
      BY <2>3, <3>1 DEF Disconnect
    <3>2. CASE x.sock[s] = "open" /\ s \in x.desk.unsent
      BY <2>3, <3>2 DEF Disconnect, Connection
    <3>3. CASE x.sock[s] = "open" /\ s \notin x.desk.unsent
      <4>1. z = OnSocketDisconnected(x, s)
        BY <3>3 DEF Disconnect
      <4>2. Connection(z)
        BY <2>3, <4>1, SocketDroppedHolds DEF Held, Almost
      <4>3. z.sock[s] = "closed"
        BY <2>3, <4>1 DEF OnSocketDisconnected, OnSessionDisconnected, Connection
      <4> QED
        BY <4>2, <4>3
    <3> QED
      BY <3>1, <3>2, <3>3
  <2> HIDE DEF z
  <2>5. y.session = Nobody /\ Connection(y)
    BY <2>2, <2>4 DEF Connection
  <2>6. Held(y)
    BY <2>5 DEF Held, Almost
  <2> QED
    BY <1>1, <2>6, BecomesSo
<1> QED
  BY <1>2, <1>3

LEMMA DeleteHolds == HmiInv /\ (\E s \in Session : Delete(s)) => HmiInv'
<1> SUFFICES ASSUME HmiInv, NEW s \in Session, Delete(s) PROVE HmiInv'
  OBVIOUS
<1>1. /\ s \in doomed /\ doomed' = doomed \ {s} /\ sock' = [sock EXCEPT ![s] = "gone"]
      /\ beat' = beat \ {s} /\ desk' = [desk EXCEPT !.unsent = @ \ {s}]
      /\ UNCHANGED <<station, session, ticking, person>>
  BY DEF Delete
<1>2. session # s
  BY <1>1, NobodyIsNoSession DEF HmiInv, ClientTended
<1>3. session # Nobody => session \in Session /\ sock'[session] = sock[session]
  BY <1>1, <1>2 DEF HmiInv, SessionTyped
<1>4. ClientTended'
  BY <1>1, <1>2, <1>3 DEF HmiInv, ClientTended
<1>5. HasClient' <=> HasClient
  BY <1>1, <1>3 DEF HasClient
<1>6. /\ desk' \in Desk /\ desk'.cache = desk.cache /\ desk'.shown = desk.shown
      /\ desk'.edge = desk.edge /\ desk'.aux = desk.aux /\ desk'.warned = desk.warned
  BY <1>1 DEF HmiInv, Desk
<1>7. (HasClient => Honest(desk) /\ EdgesAgree(desk))'
  BY <1>5, <1>6 DEF HmiInv, Honest, EdgesAgree
<1> QED
  BY <1>1, <1>4, <1>6, <1>7 DEF HmiInv, SessionTyped

\* The timers and the postponed pushes.
LEMMA PushesKeep ==
  ASSUME HmiInv, Start \/ FirstPushes \/ OnStatusPushTimer \/ Tell
  PROVE  HmiInv'
<1> USE InvHolds
<1>1. ASSUME Agrees(desk'), OnlyDesk PROVE HmiInv'
  BY <1>1, StaysSo DEF OnlyDesk, link, HmiInv
<1>2. CASE Start
  BY <1>2, StaysSo DEF Start, link, HmiInv
<1>3. CASE FirstPushes
  <2>1. OnlyDesk /\ desk' = IF HasClient THEN PushAllStatusToClient(desk, station) ELSE desk
    BY <1>3 DEF FirstPushes
  <2>2. Agrees(desk')
    BY <2>1, PushAllKeeps
  <2> QED
    BY <1>1, <2>1, <2>2
<1>4. CASE OnStatusPushTimer
  <2> DEFINE a == PushStatusIfChanged(desk, station, {"system", "plc"}, FALSE)
             b == PushCameraStatus(a, station)
             c == PushStatusIfChanged(b, station, {"device"}, FALSE)
  <2>1. OnlyDesk /\ desk' = c
    BY <1>4 DEF OnStatusPushTimer
  <2>2. Agrees(a)
    BY PushSystemKeeps
  <2> HIDE DEF a
  <2>3. Agrees(b)
    BY <2>2, PushCameraKeeps
  <2> HIDE DEF b
  <2>4. Agrees(c)
    BY <2>3, PushSystemKeeps
  <2> QED
    BY <1>1, <2>1, <2>4
<1>5. CASE Tell
  <2>1. Agrees(SendToClient(desk))
    BY SendKeeps DEF Agrees
  <2> QED
    BY <1>1, <1>5, <2>1 DEF Tell
<1> QED
  BY <1>2, <1>3, <1>4, <1>5

LEMMA TakeKeeps ==
  ASSUME HmiInv, NEW y, Sound(y), Take(y), UNCHANGED <<session, ticking, sock, doomed>>,
         beat \subseteq beat', beat' \in SUBSET Session, person' \in BOOLEAN \cup {Unknown}
  PROVE  HmiInv'
<1>1. station' \in Station /\ Agrees(desk')
  BY DEF Take, Sound
<1> QED
  BY <1>1, StaysSo

\* The messages.
LEMMA MessagesKeep ==
  ASSUME HmiInv, NEW s \in Session,
         WaitForMore(s) \/ Handle(s) \/ OnReadyRead(s) \/ \E f \in Frame : ClientSends(s, f)
  PROVE  HmiInv'
<1> USE InvHolds
<1>1. CASE WaitForMore(s) \/ OnReadyRead(s) \/ \E f \in Frame : ClientSends(s, f)
  <2>1. UNCHANGED <<station, session, ticking, sock, doomed, beat, person, desk>>
    BY <1>1 DEF WaitForMore, OnReadyRead, ClientSends, link
  <2> QED
    BY <2>1, StaysSo DEF HmiInv
<1>2. ASSUME NEW f, Receive(s, f)
      PROVE  /\ UNCHANGED <<session, ticking, sock, doomed>> /\ beat \subseteq beat'
             /\ beat' \in SUBSET Session
  BY <1>2 DEF Receive, HmiInv
<1>3. person \in BOOLEAN \cup {Unknown}
  BY DEF HmiInv
<1>4. ASSUME NEW f, Receive(s, f), UNCHANGED <<station, person>>, Agrees(desk') PROVE HmiInv'
  BY <1>2, <1>3, <1>4, StaysSo
<1>5. ASSUME NEW f, Receive(s, f), NEW y, Sound(y), Take(Answered(y)), person' \in BOOLEAN \cup {Unknown}
      PROVE  HmiInv'
  <2>1. Sound(Answered(y))
    BY <1>5, AnsweredKeeps
  <2> QED
    BY <1>2, <1>5, <2>1, TakeKeeps
<1>6. CASE HandlePong(s)
  BY <1>4, <1>6 DEF HandlePong
<1>7. CASE HandleQuery(s)
  BY <1>4, <1>7, SendKeeps DEF HandleQuery, Agrees
<1>8. CASE HandleCmdStart(s)
  BY <1>3, <1>5, <1>8, StartStationKeeps DEF HandleCmdStart
<1>9. CASE HandleCmdStop(s)
  BY <1>3, <1>5, <1>9, StopStationKeeps DEF HandleCmdStop
<1>10. CASE HandleCmdClearAlarm(s)
  <2>1. [Now EXCEPT !.w.alarm = 0] = [w |-> [station EXCEPT !.alarm = 0], d |-> desk]
    BY DEF Now
  <2>2. [station EXCEPT !.alarm = 0] \in Station
    BY DEF Station
  <2>3. Sound([w |-> [station EXCEPT !.alarm = 0], d |-> desk])
    BY <2>2, SoundParts
  <2> QED
    BY <1>3, <1>5, <1>10, <2>1, <2>3 DEF HandleCmdClearAlarm
<1>11. CASE GetStatus(s)
  BY <1>4, <1>11, GetStatusKeeps DEF GetStatus
<1>12. CASE HandleCmdModbusConnect(s)
  <2>1. PICK y \in {ModbusUp(Now), ModbusFails(Now)} : Take(Answered(y))
    BY <1>12 DEF HandleCmdModbusConnect
  <2>2. Sound(y)
    BY <2>1, ModbusKeeps
  <2>3. Receive(s, "command") /\ person' = person
    BY <1>12 DEF HandleCmdModbusConnect
  <2> QED
    BY <1>3, <1>5, <2>1, <2>2, <2>3
<1>13. CASE HandleCmdModbusDisconnect(s)
  BY <1>3, <1>5, <1>13, ModbusKeeps DEF HandleCmdModbusDisconnect
<1>14. CASE \E f \in Report : HandleCmdReportPersonZoneAlarm(s, f)
  <2>1. PICK f \in Report : HandleCmdReportPersonZoneAlarm(s, f)
    BY <1>14
  <2> DEFINE alarm == f = "personOn"
             y == IF person # alarm THEN ReportPersonZoneAlarm(Now, alarm) ELSE Now
  <2>2. Receive(s, f) /\ person' = alarm /\ Take(Answered(y))
    BY <2>1 DEF HandleCmdReportPersonZoneAlarm
  <2>3. alarm \in BOOLEAN
    OBVIOUS
  <2>4. Sound(y)
    BY <2>3, ReportKeeps
  <2> HIDE DEF y
  <2>5. person' \in BOOLEAN \cup {Unknown}
    BY <2>2, <2>3
  <2> QED
    BY <1>5, <2>2, <2>4, <2>5
<1> QED
  BY <1>1, <1>6, <1>7, <1>8, <1>9, <1>10, <1>11, <1>12, <1>13, <1>14 DEF Handle

\* What happens to the station.
LEMMA StationMovesKeep == HmiInv /\ StationMoves => HmiInv'
<1> SUFFICES ASSUME HmiInv, StationMoves PROVE HmiInv'
  OBVIOUS
<1> USE InvHolds
<1>1. ASSUME NEW y, Sound(y), Changes(y) PROVE HmiInv'
  BY <1>1, TakeKeeps DEF Changes, link, HmiInv
<1>2. CASE ModbusConnected
  BY <1>1, <1>2, ModbusKeeps DEF ModbusConnected
<1>3. CASE ModbusDisconnected
  BY <1>1, <1>3, ModbusKeeps DEF ModbusDisconnected
<1>4. CASE TaskMoves
  <2> DEFINE a == IF station.app = "Ready" THEN "Scanning" ELSE "Ready"
             y == SetState(Now, a)
             d == PushStatusIfChanged(SendToClient(y.d), y.w, {"system"}, FALSE)
  <2>1. Changes([y EXCEPT !.d = d])
    BY <1>4 DEF TaskMoves
  <2>2. a \in App
    BY DEF App
  <2>3. Sound(y)
    BY <2>2, SetStateKeeps
  <2> HIDE DEF y
  <2>4. y.w \in Station /\ Agrees(y.d)
    BY <2>3, DeskChanges
  <2>5. Agrees(d)
    BY <2>4, PushSystemKeeps
  <2> HIDE DEF d
  <2>6. Sound([y EXCEPT !.d = d])
    BY <2>3, <2>5, DeskChanges
  <2> QED
    BY <1>1, <2>1, <2>6
<1>5. CASE AlarmRaised
  <2>1. 2 \in {0, 2, 3}
    OBVIOUS
  <2> QED
    BY <1>1, <1>5, <2>1, SetAlarmKeeps DEF AlarmRaised
<1>6. CASE ResultReset
  <2> DEFINE y == [Now EXCEPT !.w.zone = FALSE]
             d == PushStatusIfChanged(SendToClient(y.d), y.w, {"system"}, FALSE)
  <2>1. Changes([y EXCEPT !.d = d])
    BY <1>6 DEF ResultReset
  <2>2. Sound(y)
    BY ZoneKeeps
  <2> HIDE DEF y
  <2>3. y.w \in Station /\ Agrees(y.d)
    BY <2>2, DeskChanges
  <2>4. Agrees(d)
    BY <2>3, PushSystemKeeps
  <2> HIDE DEF d
  <2>5. Sound([y EXCEPT !.d = d])
    BY <2>2, <2>4, DeskChanges
  <2> QED
    BY <1>1, <2>1, <2>5
<1>7. CASE CameraMoves
  <2>1. PICK c \in {"Idle", "Ready", "Error"} \ {station.camera} :
          LET w == [station EXCEPT !.camera = c]
              d == IF c = "Error" THEN SendToClient(desk) ELSE desk
          IN Changes([w |-> w, d |-> IF HasClient
                               THEN PushStatusIfChanged(PushCameraStatus(d, w), w, {"device"}, FALSE)
                               ELSE d])
    BY <1>7 DEF CameraMoves
  <2> DEFINE w == [station EXCEPT !.camera = c]
             d == IF c = "Error" THEN SendToClient(desk) ELSE desk
             p == PushCameraStatus(d, w)
             q == PushStatusIfChanged(p, w, {"device"}, FALSE)
             e == IF HasClient THEN q ELSE d
  <2>2. Changes([w |-> w, d |-> e])
    BY <2>1
  <2>3. w \in Station /\ Agrees(d)
    BY StationChanges, SendKeeps DEF Agrees
  <2> HIDE DEF w, d
  <2>4. Agrees(p)
    BY <2>3, PushCameraKeeps
  <2> HIDE DEF p
  <2>5. Agrees(q)
    BY <2>3, <2>4, PushSystemKeeps
  <2> HIDE DEF q
  <2>6. Sound([w |-> w, d |-> e])
    BY <2>3, <2>5, SoundParts
  <2> HIDE DEF e
  <2> QED
    BY <1>1, <2>2, <2>6
<1>8. CASE RegistersRead
  <2>1. PICK v \in {"ok", "fault"} :
          Changes([w |-> IF Hears(station) THEN [station EXCEPT !.rod = v] ELSE station,
                   d |-> CheckPlcAuxDeviceAlarms(desk, v)])
    BY <1>8 DEF RegistersRead
  <2>2. /\ (IF Hears(station) THEN [station EXCEPT !.rod = v] ELSE station) \in Station
        /\ Agrees(CheckPlcAuxDeviceAlarms(desk, v))
    BY StationChanges, CheckAuxKeeps
  <2> QED
    BY <1>1, <2>1, <2>2, SoundParts
<1> QED
  BY <1>2, <1>3, <1>4, <1>5, <1>6, <1>7, <1>8 DEF StationMoves

LEMMA NextHolds == HmiInv /\ [Next]_vars => HmiInv'
<1> SUFFICES ASSUME HmiInv, [Next]_vars PROVE HmiInv'
  OBVIOUS
<1>1. CASE Start \/ FirstPushes \/ OnStatusPushTimer \/ Tell
  BY <1>1, PushesKeep
<1>2. CASE Stop
  BY <1>2, StopHolds
<1>3. CASE StationMoves
  BY <1>3, StationMovesKeep
<1>4. CASE \E s \in Session :
             OnNewConnection(s) \/ OnSessionHeartbeatTimeout(s) \/ Flush(s) \/ PeerLoss(s) \/ RefuseFrame(s)
  BY <1>4, SessionsKeep
<1>5. CASE \E s \in Session : Delete(s)
  BY <1>5, DeleteHolds
<1>6. CASE \E s \in Session :
             WaitForMore(s) \/ Handle(s) \/ OnReadyRead(s) \/ \E f \in Frame : ClientSends(s, f)
  BY <1>6, MessagesKeep
<1>7. CASE UNCHANGED vars
  <2>1. UNCHANGED <<station, session, ticking, sock, doomed, beat, person, desk>>
    BY <1>7 DEF vars, link
  <2> QED
    BY <2>1, StaysSo, InvHolds DEF HmiInv
<1> QED
  BY <1>1, <1>2, <1>3, <1>4, <1>5, <1>6, <1>7 DEF Next, Turn

\* However clients replace each other, also in the middle of a read, the invariant holds: the
\* station, the sessions and their sockets are well-typed, what is to be deleted once had a
\* connection, the session served is on the clocks, and the desk agrees with the client
\* (onNewConnection(), onSessionDisconnected(), onReadyRead()).
THEOREM HmiInvariant == Spec => []HmiInv
  BY InitHolds, NextHolds, PTL DEF Spec

--------------------------------------------------------------------------------
\* The caches never hold what this client was not sent, although they are filled while nobody
\* is there and outlive nobody's session (pushStatusIfChanged(), invalidateStatusPushCache()).
THEOREM CachesAreTruthful == Spec => []CachesTruthful
<1>1. HmiInv => CachesTruthful
  BY DEF HmiInv, CachesTruthful, Honest
<1> QED
  BY <1>1, HmiInvariant, PTL

\* The edge-triggered alarms remember what the client was told: a camera's edge agrees with the
\* status shown, and a fault of the rod that will not be reported again has been
\* (checkCameraConnectivityEdges(), checkPlcAuxDeviceAlarms()).
THEOREM EdgesAreTruthful == Spec => []EdgesTruthful
<1>1. HmiInv => EdgesTruthful
  BY DEF HmiInv, EdgesTruthful, EdgesAgree
<1> QED
  BY <1>1, HmiInvariant, PTL

\* The session that is served is on the clocks of the server and is not about to be deleted,
\* however sessions replace and outlive each other (onNewConnection(), resetHeartbeatTimer(),
\* onSessionDisconnected()).
THEOREM ClientIsTended == Spec => []ClientTended
<1>1. HmiInv => ClientTended
  BY DEF HmiInv
<1> QED
  BY <1>1, HmiInvariant, PTL

\* A tick of the push timer leaves the client with the whole status as it is, though it sends
\* only what differs from the caches (onStatusPushTimer()).
THEOREM TickIsComplete == Spec => TickBringsUpToDate
<1>1. HmiInv /\ [Next]_vars => [OnStatusPushTimer => desk'.shown = Payload(station)]_vars
  <2> SUFFICES ASSUME HmiInv, OnStatusPushTimer PROVE desk'.shown = Payload(station)
    OBVIOUS
  <2> DEFINE P == Payload(station)
             a == PushStatusIfChanged(desk, station, {"system", "plc"}, FALSE)
             b == PushCameraStatus(a, station)
             c == PushStatusIfChanged(b, station, {"device"}, FALSE)
  <2>1. HasClient /\ desk' = c
    BY DEF OnStatusPushTimer
  <2>2. SessionTyped /\ station \in Station /\ Agrees(desk) /\ desk \in Desk
    BY InvHolds DEF Agrees
  <2>3. /\ {"system", "plc"} \in SUBSET Slot /\ {"device"} \in SUBSET Slot /\ FALSE \in BOOLEAN
    BY DEF Slot
  <2>4. Pushed(desk, station, {"system", "plc"}, FALSE, a) /\ Agrees(a)
    BY <2>2, <2>3, PushFacts, PushSystemKeeps
  <2>5. a.shown["system"] = P["system"] /\ a.shown["plc"] = P["plc"]
    BY <2>1, <2>2, <2>4 DEF Pushed, Agrees
  <2> HIDE DEF a
  <2>6. /\ Agrees(b) /\ b.shown["camera"] = P["camera"]
        /\ \A x \in Slot \ {"camera"} : b.shown[x] = a.shown[x]
    BY <2>1, <2>2, <2>4, PushCameraKeeps
  <2> HIDE DEF b
  <2>7. Pushed(b, station, {"device"}, FALSE, c)
    BY <2>2, <2>3, <2>6, PushFacts DEF Agrees
  <2> HIDE DEF c
  <2>8. c.shown["device"] = P["device"] /\ \A x \in Slot \ {"device"} : c.shown[x] = b.shown[x]
    BY <2>1, <2>6, <2>7 DEF Pushed, Agrees
  <2>9. \A x \in Slot : c.shown[x] = P[x]
    BY <2>5, <2>6, <2>8 DEF Slot
  <2>10. c.shown \in [Slot -> Told] /\ P \in [Slot -> Told]
    BY <2>2, <2>7, PayloadFacts DEF Pushed, Desk
  <2> HIDE DEF P
  <2>11. c.shown = P
    BY <2>9, <2>10
  <2> QED
    BY <2>1, <2>11 DEF P
<1> QED
  BY <1>1, HmiInvariant, PTL DEF Spec, TickBringsUpToDate
================================================================================
