------------------------------ MODULE SmartCamera ------------------------------
(* The smart cameras that read codes: the TCP server they connect to             *)
(* (HikSmartCameraTcpServer, HikSmartCameraSession) and the controller over it    *)
(* and over the monitor of their uploads (HikCameraCController, FtpMonitor).      *)
(* All of it lives on the main thread: an action is one event of its loop.        *)
EXTENDS FtpMonitor, SequencesExt

CONSTANTS
  Ip,          \* the addresses that connect
  Configured,  \* m_configuredCameraIps
  Speech,      \* the messages cameras send, a subset of Message
  MaxConn,     \* bound: connections
  MaxInput     \* bound: messages of the cameras, what their network and their uploads do, together

Conn == 1..MaxConn
Nobody == 0

\* The bytes a message is made of, by groups: a text (the code behind X or PX, a word of the
\* heartbeat) and what ends it.
Byte == {"code", "semicolon", "beat", "crlf", "hello"}
Message == [code |-> <<"code", "semicolon">>, heartbeat |-> <<"beat", "crlf">>, hello |-> <<"hello">>]

ASSUME SmartCameraAssumption ==
  /\ IsFiniteSet(Ip) /\ Configured \subseteq Ip /\ Speech \subseteq DOMAIN Message
  /\ MaxConn \in Nat /\ MaxInput \in Nat

VARIABLES
  state,     \* the controller's HikCameraCState
  listening, \* whether the TCP server listens
  sessions,  \* m_sessions: per address the connection of its session, or Nobody
  sock,      \* per connection: "none", "open", "lost" (the peer is gone unnoticed), "closed" or "gone"
  peer,      \* per connection: its address
  doomed,    \* the connections whose session deleteLater() was called for
  beating,   \* the connections with m_receivedHeartbeat
  silent,    \* the connections with nothing received for m_heartbeatTimeoutMs
  posted,    \* the controller's queued slots: cameraConnected, cameraDisconnected, ready
  wire,      \* per connection: bytes on their way
  buffer,    \* per connection: m_receiveBuffer
  spoken,    \* per connection: the codes its camera sent
  texts,     \* per connection: the texts of ocrTextReceived()
  inputs     \* how much the cameras and their network did

coreVars == <<state, listening, sessions, sock, peer, doomed, beating, silent, posted, wire,
              buffer, spoken, texts>>
tcpVars == <<coreVars, inputs>>
vars == <<tcpVars, ftpVars>>

Started == state \in {"Initializing", "Ready", "Error"}
IsCameraConnected(ip) == sessions[ip] # Nobody

Init ==
  /\ FtpInit
  /\ state = "Idle" /\ listening = FALSE
  /\ sessions = [ip \in Ip |-> Nobody]
  /\ sock = [c \in Conn |-> "none"] /\ peer \in [Conn -> Ip]
  /\ doomed = {} /\ beating = {} /\ silent = {} /\ posted = <<>>
  /\ wire = [c \in Conn |-> <<>>] /\ buffer = [c \in Conn |-> <<>>]
  /\ spoken = [c \in Conn |-> 0] /\ texts = [c \in Conn |-> <<>>]
  /\ inputs = 0

--------------------------------------------------------------------------------
\* The controller.

\* start(): a server that cannot listen is tried once more; then the state is an error, and
\* the monitor starts all the same.
Start ==
  /\ state = "Idle" /\ (StartMonitor \/ MonitorFails)
  /\ \/ listening' = TRUE /\ state' = "Initializing"
     \/ listening' = FALSE /\ state' = "Error"
  /\ UNCHANGED <<sessions, sock, peer, doomed, beating, silent, posted, wire, buffer, spoken,
                 texts, inputs>>

\* stop(): the server is deleted, and its sessions with it; their last signals reach nobody.
\* What is queued for the controller stays queued.
Stop ==
  /\ Started /\ StopMonitor
  /\ state' = "Stopped" /\ listening' = FALSE
  /\ sessions' = [ip \in Ip |-> Nobody] /\ doomed' = {} /\ beating' = {} /\ silent' = {}
  /\ sock' = [c \in Conn |-> IF sock[c] = "none" THEN "none" ELSE "gone"]
  /\ wire' = [c \in Conn |-> <<>>] /\ buffer' = [c \in Conn |-> <<>>]
  /\ spoken' = [c \in Conn |-> 0] /\ texts' = [c \in Conn |-> <<>>]
  /\ UNCHANGED <<peer, posted, inputs>>

\* The queued slots of the controller; an unknown camera's connection changes nothing, the
\* update of the state comes a turn later, and a disconnected camera leaves it Ready.
Post(q, what, ip) == Append(q, [what |-> what, ip |-> ip])

RunPosted ==
  /\ posted # <<>>
  /\ LET p == Head(posted)
     IN /\ posted' = IF p.what = "connected" /\ p.ip \in Configured
                     THEN Post(Tail(posted), "ready", p.ip) ELSE Tail(posted)
        /\ state' = IF p.what = "ready" /\ Started /\ \E ip \in Configured : IsCameraConnected(ip)
                    THEN "Ready" ELSE state
  /\ UNCHANGED <<listening, sessions, sock, peer, doomed, beating, silent, wire, buffer, spoken,
                 texts, inputs, ftpVars>>

--------------------------------------------------------------------------------
\* The server.

Network ==
  /\ inputs < MaxInput /\ inputs' = inputs + 1
  /\ UNCHANGED <<state, listening, ftpVars>>

\* onNewConnection(): a session of the same address is replaced; it is deleted later.
OnNewConnection(c) ==
  /\ listening /\ sock[c] = "none" /\ \A b \in Conn : b < c => sock[b] # "none"
  /\ sock' = [sock EXCEPT ![c] = "open"]
  /\ sessions' = [sessions EXCEPT ![peer[c]] = c]
  /\ doomed' = doomed \cup ({sessions[peer[c]]} \ {Nobody})
  /\ posted' = Post(posted, "connected", peer[c])
  /\ UNCHANGED <<state, listening, peer, beating, silent, wire, buffer, spoken, texts,
                 inputs, ftpVars>>

\* onSessionDisconnected() of an address: whichever session is its current one is dropped.
Dropped(ip) ==
  IF IsCameraConnected(ip)
  THEN [sessions |-> [sessions EXCEPT ![ip] = Nobody], doomed |-> doomed \cup {sessions[ip]},
        posted |-> Post(posted, "disconnected", ip)]
  ELSE [sessions |-> sessions, doomed |-> doomed, posted |-> posted]

\* What a connection had goes with its socket.
Forget(c) ==
  /\ beating' = beating \ {c} /\ silent' = silent \ {c}
  /\ wire' = [wire EXCEPT ![c] = <<>>] /\ buffer' = [buffer EXCEPT ![c] = <<>>]
  /\ spoken' = [spoken EXCEPT ![c] = 0] /\ texts' = [texts EXCEPT ![c] = <<>>]

\* The camera closes the connection or its socket fails.
Disconnected(c) ==
  /\ Network /\ sock[c] \in {"open", "lost"} /\ sock' = [sock EXCEPT ![c] = "closed"]
  /\ LET d == Dropped(peer[c])
     IN sessions' = d.sessions /\ doomed' = d.doomed /\ posted' = d.posted
  /\ Forget(c) /\ UNCHANGED peer

\* The camera loses its power or its cable: nothing tells the server.
LosePeer(c) ==
  /\ Network /\ sock[c] = "open" /\ sock' = [sock EXCEPT ![c] = "lost"]
  /\ UNCHANGED <<sessions, peer, doomed, beating, silent, posted, wire, buffer, spoken, texts>>

\* The deferred delete: the destructor of a session still connected closes its socket, whose
\* disconnected() is heard by the server once more.
Delete(c) ==
  /\ c \in doomed /\ sock' = [sock EXCEPT ![c] = "gone"]
  /\ LET d == IF sock[c] \in {"open", "lost"} THEN Dropped(peer[c])
              ELSE [sessions |-> sessions, doomed |-> doomed, posted |-> posted]
     IN sessions' = d.sessions /\ doomed' = d.doomed \ {c} /\ posted' = d.posted
  /\ Forget(c) /\ UNCHANGED <<state, listening, peer, inputs, ftpVars>>

\* Mutant: the cameras that are late stay in the map.
LateStay ==
  LET late == {ip \in Ip : sessions[ip] \in beating \cap silent}
  IN /\ listening /\ late # {}
     /\ doomed' = doomed \cup {sessions[ip] : ip \in late}
     /\ \E order \in Bijection(1..Cardinality(late), late) :
          posted' = posted \o [i \in 1..Cardinality(late) |->
                                 [what |-> "disconnected", ip |-> order[i]]]
     /\ UNCHANGED <<state, listening, sessions, sock, peer, beating, silent, wire, buffer, spoken,
                    texts, inputs, ftpVars>>

\* Mutant: the cameras that are late go without a word.
LateGoSilently ==
  LET late == {ip \in Ip : sessions[ip] \in beating \cap silent}
  IN /\ listening /\ late # {}
     /\ doomed' = doomed \cup {sessions[ip] : ip \in late}
     /\ sessions' = [ip \in Ip |-> IF ip \in late THEN Nobody ELSE sessions[ip]]
     /\ UNCHANGED <<state, listening, sock, peer, beating, silent, posted, wire, buffer, spoken,
                    texts, inputs, ftpVars>>

\* onHeartbeatTimeout(): the timer asks only those that ever sent a heartbeat, in some order.
OnHeartbeatTimeout ==
  LET late == {ip \in Ip : sessions[ip] \in beating \cap silent}
  IN /\ listening /\ late # {}
     /\ doomed' = doomed \cup {sessions[ip] : ip \in late}
     /\ sessions' = [ip \in Ip |-> IF ip \in late THEN Nobody ELSE sessions[ip]]
     /\ \E order \in Bijection(1..Cardinality(late), late) :
          posted' = posted \o [i \in 1..Cardinality(late) |->
                                 [what |-> "disconnected", ip |-> order[i]]]
     /\ UNCHANGED <<state, listening, sock, peer, beating, silent, wire, buffer, spoken, texts, inputs, ftpVars>>

\* A camera says nothing for m_heartbeatTimeoutMs; only those that sent a heartbeat are asked.
FallSilent(c) ==
  /\ Network /\ c \in beating \ silent /\ sock[c] \in {"open", "lost"} /\ wire[c] = <<>>
  /\ silent' = silent \cup {c}
  /\ UNCHANGED <<sessions, sock, peer, doomed, beating, posted, wire, buffer, spoken, texts>>

--------------------------------------------------------------------------------
\* Messages.

CameraSends(c, m) ==
  /\ Network /\ sock[c] = "open"
  /\ wire' = [wire EXCEPT ![c] = @ \o Message[m]]
  /\ spoken' = [spoken EXCEPT ![c] = @ + IF m = "code" THEN 1 ELSE 0]
  /\ UNCHANGED <<sessions, sock, peer, doomed, beating, silent, posted, buffer, texts>>

\* drainReceiveBuffer(): one round of its loop takes a line off the buffer, or none.  A line
\* break anywhere goes before a semicolon; a hello has to be all there is.
Positions(b, t) == {i \in DOMAIN b : b[i] = t}
First(b, t) == CHOOSE i \in Positions(b, t) : \A j \in Positions(b, t) : i <= j
LineLength(b) ==
  IF Positions(b, "crlf") # {} THEN First(b, "crlf")
  ELSE IF Positions(b, "semicolon") # {} THEN First(b, "semicolon")
  ELSE IF b = <<"hello">> THEN 1 ELSE 0

\* processReceivedData(), onTcpCommandReceived(): the end of the line goes, and one more
\* semicolon; the words of the heartbeat are no text.
Text(line) ==
  LET Chop(t) == IF t # <<>> /\ Last(t) = "semicolon" THEN Front(t) ELSE t
  IN IF Last(line) = "crlf" THEN Chop(Chop(Front(line))) ELSE Chop(Chop(line))
IsBeat(line) == Text(line) \in {<<"hello">>, <<"beat">>}
IsText(line) == ~IsBeat(line) /\ Text(line) # <<>>

\* What the loop makes of a buffer: the texts it passes on, whether it heard a heartbeat, and
\* anything at all, and what it leaves.
Drain[b \in Seq(Byte)] ==
  LET n == LineLength(b)
      line == SubSeq(b, 1, n)
      d == Drain[SubSeq(b, n + 1, Len(b))]
  IN IF n = 0 THEN [texts |-> <<>>, beats |-> FALSE, lives |-> FALSE, rest |-> b]
     ELSE [texts |-> (IF IsText(line) THEN <<Text(line)>> ELSE <<>>) \o d.texts,
           beats |-> IsBeat(line) \/ d.beats, lives |-> Text(line) # <<>> \/ d.lives,
           rest |-> d.rest]

\* Mutant: a read begins with an empty buffer.
ReadAfresh(c) ==
  /\ sock[c] = "open" /\ wire[c] # <<>>
  /\ \E n \in 1..Len(wire[c]) :
       LET d == Drain[SubSeq(wire[c], 1, n)]
       IN /\ wire' = [wire EXCEPT ![c] = SubSeq(@, n + 1, Len(@))]
          /\ buffer' = [buffer EXCEPT ![c] = d.rest]
          /\ texts' = [texts EXCEPT ![c] = @ \o d.texts]
          /\ beating' = beating \cup {b \in {c} : d.beats}
          /\ silent' = silent \ {b \in {c} : d.lives}
  /\ UNCHANGED <<state, listening, sessions, sock, peer, doomed, posted, spoken, inputs,
                 ftpVars>>

\* onReadyRead(): whatever has arrived joins the buffer; a line of text or of heartbeat shows
\* that the camera lives.  The text goes to the state machine in the same call.
OnReadyRead(c) ==
  /\ sock[c] = "open" /\ wire[c] # <<>>
  /\ \E n \in 1..Len(wire[c]) :
       LET d == Drain[buffer[c] \o SubSeq(wire[c], 1, n)]
       IN /\ wire' = [wire EXCEPT ![c] = SubSeq(@, n + 1, Len(@))]
          /\ buffer' = [buffer EXCEPT ![c] = d.rest]
          /\ texts' = [texts EXCEPT ![c] = @ \o d.texts]
          /\ beating' = beating \cup {b \in {c} : d.beats}
          /\ silent' = silent \ {b \in {c} : d.lives}
  /\ UNCHANGED <<state, listening, sessions, sock, peer, doomed, posted, spoken, inputs,
                 ftpVars>>

--------------------------------------------------------------------------------

Loop == RunPosted \/ OnHeartbeatTimeout \/ \E c \in Conn : Delete(c) \/ OnReadyRead(c)

Next ==
  \/ Start \/ Stop \/ Loop
  \/ \E c \in Conn : OnNewConnection(c) \/ Disconnected(c) \/ LosePeer(c) \/ FallSilent(c)
                     \/ \E m \in Speech : CameraSends(c, m)
  \/ FtpEnvironment /\ inputs < MaxInput /\ inputs' = inputs + 1 /\ UNCHANGED coreVars
  \/ FtpTurn /\ UNCHANGED tcpVars

Spec == Init /\ [][Next]_vars

\* The event loop runs, and time passes.
Fairness ==
  /\ WF_vars(RunPosted) /\ WF_vars(OnHeartbeatTimeout) /\ \A c \in Conn : WF_vars(Delete(c))
  /\ WF_vars(OnDirectoryChanged /\ UNCHANGED tcpVars)
  /\ WF_vars(CheckPendingFiles /\ UNCHANGED tcpVars)
  /\ \A f \in File : WF_vars(Age(f) /\ UNCHANGED tcpVars)
FairSpec == Spec /\ Fairness

--------------------------------------------------------------------------------
\* Properties.

\* m_sessions holds no session that is deleted or about to be: sendStartCaptureToCamera()
\* and the heartbeat's timer go through its pointers (onHeartbeatTimeout(), onNewConnection(),
\* onSessionDisconnected()).
NoDanglingSession ==
  \A ip \in Ip : IsCameraConnected(ip) =>
    sessions[ip] \notin doomed /\ sock[sessions[ip]] \in {"open", "lost"}

\* The last thing the controller is told of an address is true of it, however sessions replace,
\* lose and outlive each other (cameraConnected(), cameraDisconnected()).
LatestOf(ip, i) ==
  /\ posted[i].ip = ip /\ posted[i].what # "ready"
  /\ \A j \in DOMAIN posted : j > i => posted[j].ip # ip \/ posted[j].what = "ready"
ReportsAreTrue ==
  listening => \A ip \in Ip : \A i \in DOMAIN posted :
    LatestOf(ip, i) => (posted[i].what = "connected") = IsCameraConnected(ip)

\* No code is lost, doubled or made up between the wire and the state machine, however reads
\* cut the stream: the texts, what is buffered and what is on the wire hold as many codes as
\* the camera sent (drainReceiveBuffer()).
Codes(s) == Cardinality(Positions(s, "code"))
TextCodes(ts) == Cardinality(UNION {{i} \X Positions(ts[i], "code") : i \in DOMAIN ts})
NoCodeLost ==
  \A c \in Conn : sock[c] = "open" =>
    TextCodes(texts[c]) + Codes(buffer[c]) + Codes(wire[c]) = spoken[c]

\* A text is the code of one message (the format given in drainReceiveBuffer()).
TextIsACode == \A c \in Conn : \A i \in DOMAIN texts[c] : texts[c][i] = <<"code">>

\* A new connection replaces the session of its address: the latest one that is open is the
\* current one (onNewConnection()).
LatestIsServed ==
  \A c \in Conn :
    (sock[c] = "open" /\ \A b \in Conn : b > c => peer[b] # peer[c] \/ sock[b] = "none")
      => sessions[peer[c]] = c
================================================================================
