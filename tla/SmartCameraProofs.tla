--------------------------- MODULE SmartCameraProofs ---------------------------
(* The map of sessions, for any number of addresses and connections: no pointer   *)
(* the server keeps outlives its session, what the controller is told of an        *)
(* address in the end is true of it, and no code that a camera sends is lost.      *)
EXTENDS SmartCamera, FiniteSetTheorems, SequenceTheorems, TLAPS

Shapes ==
  /\ sessions \in [Ip -> Conn \cup {Nobody}]
  /\ sock \in [Conn -> {"none", "open", "lost", "closed", "gone"}]
  /\ peer \in [Conn -> Ip]
  /\ doomed \subseteq Conn

\* A session is kept under its own address only, while its socket is there; one that is to be
\* deleted once had a connection.
OwnAddress == \A ip \in Ip : sessions[ip] # Nobody => peer[sessions[ip]] = ip
DoomedWereOpen == \A c \in doomed : sock[c] # "none"

SessionInv == Shapes /\ OwnAddress /\ DoomedWereOpen /\ NoDanglingSession

--------------------------------------------------------------------------------
LEMMA NobodyIsNoConnection == Nobody \notin Conn
  BY DEF Nobody, Conn

LEMMA InitSession == Init => SessionInv
  BY DEF Init, SessionInv, Shapes, OwnAddress, DoomedWereOpen, NoDanglingSession, IsCameraConnected, Nobody

\* The state the invariant is about, in the steps that leave it alone.
Quiet == UNCHANGED <<sessions, sock, peer, doomed>>

LEMMA QuietKeeps == SessionInv /\ Quiet => SessionInv'
  BY DEF SessionInv, Quiet, Shapes, OwnAddress, DoomedWereOpen, NoDanglingSession, IsCameraConnected

\* An address that drops its session drops no other one's.
LEMMA DropKeeps ==
  ASSUME SessionInv, NEW c \in Conn, sock[c] # "none",
         NEW s \in {"closed", "gone"}, sock' = [sock EXCEPT ![c] = s],
         sessions' = Dropped(peer[c]).sessions, peer' = peer,
         doomed' \subseteq Dropped(peer[c]).doomed
  PROVE  SessionInv'
<1> DEFINE ip == peer[c]
<1>1. ip \in Ip
  BY DEF SessionInv, Shapes
<1>2. sessions' = [sessions EXCEPT ![ip] = Nobody]
  BY <1>1 DEF Dropped, IsCameraConnected, SessionInv, Shapes
<1>3. doomed' \subseteq doomed \cup ({sessions[ip]} \ {Nobody})
  BY DEF Dropped, IsCameraConnected
<1>4. Shapes'
  BY <1>1, <1>2, <1>3 DEF SessionInv, Shapes
<1>5. OwnAddress'
  BY <1>1, <1>2 DEF SessionInv, Shapes, OwnAddress
<1>6. DoomedWereOpen'
  BY <1>1, <1>3, NobodyIsNoConnection
  DEF SessionInv, Shapes, DoomedWereOpen, NoDanglingSession, IsCameraConnected
<1>7. NoDanglingSession'
  <2> SUFFICES ASSUME NEW p \in Ip, sessions'[p] # Nobody
               PROVE  sessions'[p] \notin doomed' /\ sock'[sessions'[p]] \in {"open", "lost"}
    BY DEF NoDanglingSession, IsCameraConnected
  <2>1. p # ip /\ sessions'[p] = sessions[p]
    BY <1>1, <1>2 DEF SessionInv, Shapes
  <2>2. peer[sessions[p]] = p /\ sessions[p] # c
    BY <2>1 DEF SessionInv, OwnAddress
  <2>3. sessions[ip] # Nobody => sessions[ip] # sessions[p]
    BY <1>1, <2>1, <2>2 DEF SessionInv, OwnAddress
  <2> QED
    BY <1>3, <2>1, <2>2, <2>3, NobodyIsNoConnection
    DEF SessionInv, Shapes, NoDanglingSession, IsCameraConnected
<1> QED
  BY <1>4, <1>5, <1>6, <1>7 DEF SessionInv

--------------------------------------------------------------------------------
\* A new connection replaces the session of its address, and only that one.
LEMMA NewConnectionKeeps ==
  ASSUME SessionInv, NEW c \in Conn, OnNewConnection(c) PROVE SessionInv'
<1>1. /\ peer[c] \in Ip /\ sock[c] = "none" /\ peer' = peer
      /\ sock' = [sock EXCEPT ![c] = "open"] /\ sessions' = [sessions EXCEPT ![peer[c]] = c]
      /\ doomed' = doomed \cup ({sessions[peer[c]]} \ {Nobody})
  BY DEF OnNewConnection, SessionInv, Shapes
<1>2. Shapes'
  BY <1>1 DEF SessionInv, Shapes
<1>3. OwnAddress'
  BY <1>1 DEF SessionInv, Shapes, OwnAddress
<1>4. DoomedWereOpen'
  BY <1>1 DEF SessionInv, Shapes, DoomedWereOpen, NoDanglingSession, IsCameraConnected
<1>5. c \notin doomed'
  BY <1>1 DEF SessionInv, DoomedWereOpen, NoDanglingSession, IsCameraConnected
<1>6. NoDanglingSession'
  <2> SUFFICES ASSUME NEW p \in Ip, sessions'[p] # Nobody
               PROVE  sessions'[p] \notin doomed' /\ sock'[sessions'[p]] \in {"open", "lost"}
    BY DEF NoDanglingSession, IsCameraConnected
  <2>1. CASE p = peer[c]
    BY <1>1, <1>5, <2>1 DEF SessionInv, Shapes
  <2>2. CASE p # peer[c]
    <3>1. sessions'[p] = sessions[p] /\ sessions[p] # sessions[peer[c]] /\ sessions[p] # c
      BY <1>1, <2>2 DEF SessionInv, Shapes, OwnAddress, NoDanglingSession, IsCameraConnected
    <3> QED
      BY <1>1, <3>1 DEF SessionInv, Shapes, NoDanglingSession, IsCameraConnected
  <2> QED
    BY <2>1, <2>2
<1> QED
  BY <1>2, <1>3, <1>4, <1>6 DEF SessionInv

\* The timer dooms the sessions it takes out of the map.
LEMMA HeartbeatKeeps ==
  ASSUME SessionInv, beating \subseteq Conn, OnHeartbeatTimeout PROVE SessionInv'
<1> DEFINE late == {ip \in Ip : sessions[ip] \in beating \cap silent}
<1>1. /\ doomed' = doomed \cup {sessions[ip] : ip \in late}
      /\ sessions' = [ip \in Ip |-> IF ip \in late THEN Nobody ELSE sessions[ip]]
      /\ sock' = sock /\ peer' = peer
  BY DEF OnHeartbeatTimeout
<1>2. \A ip \in late : sessions[ip] \in Conn /\ sessions[ip] # Nobody
  BY NobodyIsNoConnection
<1> HIDE DEF late
<1>3. late \subseteq Ip
  BY DEF late
<1>4. Shapes'
  BY <1>1, <1>2 DEF SessionInv, Shapes
<1>5. OwnAddress'
  BY <1>1 DEF SessionInv, Shapes, OwnAddress
<1>6. DoomedWereOpen'
  BY <1>1, <1>2, <1>3 DEF SessionInv, DoomedWereOpen, NoDanglingSession, IsCameraConnected
<1>7. NoDanglingSession'
  <2> SUFFICES ASSUME NEW p \in Ip, sessions'[p] # Nobody
               PROVE  sessions'[p] \notin doomed' /\ sock'[sessions'[p]] \in {"open", "lost"}
    BY DEF NoDanglingSession, IsCameraConnected
  <2>1. p \notin late /\ sessions'[p] = sessions[p]
    BY <1>1
  <2>2. \A ip \in late : sessions[ip] # sessions[p]
    BY <1>2, <1>3, <2>1 DEF SessionInv, OwnAddress
  <2> QED
    BY <1>1, <2>1, <2>2 DEF SessionInv, NoDanglingSession, IsCameraConnected
<1> QED
  BY <1>4, <1>5, <1>6, <1>7 DEF SessionInv

--------------------------------------------------------------------------------
\* Only connections are ever heard beating.
LEMMA BeatingKept == beating \subseteq Conn /\ [Next]_vars => beating' \subseteq Conn
<1> SUFFICES ASSUME beating \subseteq Conn, [Next]_vars PROVE beating' \subseteq Conn
  OBVIOUS
<1>1. ASSUME NEW c \in Conn, OnReadyRead(c) PROVE beating' \subseteq Conn
  <2>1. \E heard : beating' = beating \cup {b \in {c} : heard}
    BY <1>1 DEF OnReadyRead
  <2> QED
    BY <2>1
<1>2. ASSUME NEW c \in Conn,
             OnNewConnection(c) \/ Disconnected(c) \/ LosePeer(c) \/ FallSilent(c) \/ Delete(c)
      PROVE  beating' \subseteq Conn
  BY <1>2 DEF OnNewConnection, Disconnected, LosePeer, FallSilent, Delete, Forget
<1>3. ASSUME NEW c \in Conn, NEW m \in Speech, CameraSends(c, m) PROVE beating' \subseteq Conn
  BY <1>3 DEF CameraSends
<1>4. CASE Start \/ Stop \/ RunPosted \/ OnHeartbeatTimeout
  BY <1>4 DEF Start, Stop, RunPosted, OnHeartbeatTimeout
<1>5. CASE UNCHANGED vars \/ UNCHANGED tcpVars \/ UNCHANGED coreVars
  BY <1>5 DEF vars, tcpVars, coreVars
<1> QED
  BY <1>1, <1>2, <1>3, <1>4, <1>5 DEF Next, Loop

\* One step per event of the loop.
LEMMA SessionKept == SessionInv /\ beating \subseteq Conn /\ [Next]_vars => SessionInv'
<1> SUFFICES ASSUME SessionInv, beating \subseteq Conn, [Next]_vars PROVE SessionInv'
  OBVIOUS
<1>1. CASE Start \/ RunPosted
  BY <1>1, QuietKeeps DEF Start, RunPosted, Quiet
<1>2. CASE Stop
  BY <1>2 DEF Stop, SessionInv, Shapes, OwnAddress, DoomedWereOpen, NoDanglingSession,
              IsCameraConnected, Nobody
<1>3. CASE OnHeartbeatTimeout
  BY <1>3, HeartbeatKeeps
<1>4. ASSUME NEW c \in Conn, OnNewConnection(c) PROVE SessionInv'
  BY <1>4, NewConnectionKeeps
<1>5. ASSUME NEW c \in Conn, Disconnected(c) PROVE SessionInv'
  <2>1. /\ sock[c] # "none" /\ sock' = [sock EXCEPT ![c] = "closed"] /\ peer' = peer
        /\ sessions' = Dropped(peer[c]).sessions /\ doomed' = Dropped(peer[c]).doomed
    BY <1>5 DEF Disconnected
  <2> QED
    BY <2>1, DropKeeps
<1>6. ASSUME NEW c \in Conn, LosePeer(c) PROVE SessionInv'
  BY <1>6 DEF LosePeer, SessionInv, Shapes, OwnAddress, DoomedWereOpen, NoDanglingSession,
              IsCameraConnected
<1>7. ASSUME NEW c \in Conn, Delete(c) PROVE SessionInv'
  <2>1. c \in doomed /\ sock[c] # "none" /\ peer' = peer /\ sock' = [sock EXCEPT ![c] = "gone"]
    BY <1>7 DEF Delete, SessionInv, DoomedWereOpen
  <2>2. CASE sock[c] \in {"open", "lost"}
    <3>1. sessions' = Dropped(peer[c]).sessions /\ doomed' \subseteq Dropped(peer[c]).doomed
      BY <1>7, <2>2 DEF Delete
    <3> QED
      BY <2>1, <3>1, DropKeeps
  <2>3. CASE sock[c] \notin {"open", "lost"}
    <3>1. sessions' = sessions /\ doomed' = doomed \ {c}
      BY <1>7, <2>3 DEF Delete
    <3> QED
      BY <2>1, <3>1 DEF SessionInv, Shapes, OwnAddress, DoomedWereOpen, NoDanglingSession,
                        IsCameraConnected
  <2> QED
    BY <2>2, <2>3
<1>8. ASSUME NEW c \in Conn, FallSilent(c) \/ OnReadyRead(c) PROVE SessionInv'
  BY <1>8, QuietKeeps DEF FallSilent, OnReadyRead, Quiet
<1>9. ASSUME NEW c \in Conn, NEW m \in Speech, CameraSends(c, m) PROVE SessionInv'
  BY <1>9, QuietKeeps DEF CameraSends, Quiet
<1>10. CASE UNCHANGED vars \/ UNCHANGED tcpVars \/ UNCHANGED coreVars
  BY <1>10, QuietKeeps DEF vars, tcpVars, coreVars, Quiet
<1> QED
  BY <1>1, <1>2, <1>3, <1>4, <1>5, <1>6, <1>7, <1>8, <1>9, <1>10 DEF Next, Loop

--------------------------------------------------------------------------------
\* What the controller has queued, and the last that it says of an address.
Notice == [what : {"connected", "disconnected", "ready"}, ip : Ip]

Latest(q, ip, i) ==
  /\ q[i].ip = ip /\ q[i].what # "ready"
  /\ \A j \in DOMAIN q : j > i => q[j].ip # ip \/ q[j].what = "ready"

Truthful(q, m) ==
  \A ip \in Ip : \A i \in DOMAIN q :
    Latest(q, ip, i) => (q[i].what = "connected") = (m[ip] # Nobody)

\* The queue is read until the controller is stopped; it is never started again.
ReportInv ==
  /\ posted \in Seq(Notice)
  /\ listening => state # "Stopped"
  /\ state # "Stopped" => Truthful(posted, sessions)

LEMMA InitReports == Init => ReportInv
  BY DEF Init, ReportInv, Truthful

\* A notice of a camera settles what is said of its address and of no other.
LEMMA PostKeeps ==
  ASSUME NEW q \in Seq(Notice), NEW n \in Notice, NEW m, NEW k, Truthful(q, m),
         n.what # "ready", (n.what = "connected") = (k[n.ip] # Nobody),
         \A ip \in Ip \ {n.ip} : k[ip] = m[ip]
  PROVE  Append(q, n) \in Seq(Notice) /\ Truthful(Append(q, n), k)
<1> DEFINE r == Append(q, n)
<1>1. /\ r \in Seq(Notice) /\ Len(q) \in Nat /\ DOMAIN q = 1..Len(q)
      /\ DOMAIN r = 1..(Len(q) + 1) /\ r[Len(q) + 1] = n
      /\ \A i \in DOMAIN q : r[i] = q[i] /\ i \in DOMAIN r
  OBVIOUS
<1> HIDE DEF r
<1>2. ASSUME NEW ip \in Ip, NEW i \in DOMAIN r, Latest(r, ip, i)
      PROVE  (r[i].what = "connected") = (k[ip] # Nobody)
  <2>1. CASE i = Len(q) + 1
    BY <1>1, <1>2, <2>1 DEF Latest
  <2>2. CASE i # Len(q) + 1
    <3>1. i \in DOMAIN q /\ Len(q) + 1 \in DOMAIN r /\ Len(q) + 1 > i
      BY <1>1, <2>2
    <3>2. n.ip # ip
      BY <1>1, <1>2, <3>1 DEF Latest
    <3>3. Latest(q, ip, i)
      BY <1>1, <1>2, <3>1 DEF Latest
    <3> QED
      BY <1>1, <3>1, <3>2, <3>3 DEF Truthful
  <2> QED
    BY <2>1, <2>2
<1> QED
  BY <1>1, <1>2 DEF r, Truthful

\* An update of the state says nothing of a camera.
LEMMA ReadyKeeps ==
  ASSUME NEW q \in Seq(Notice), NEW n \in Notice, NEW m, Truthful(q, m), n.what = "ready"
  PROVE  Append(q, n) \in Seq(Notice) /\ Truthful(Append(q, n), m)
<1> DEFINE r == Append(q, n)
<1>1. /\ r \in Seq(Notice) /\ Len(q) \in Nat /\ DOMAIN q = 1..Len(q)
      /\ DOMAIN r = 1..(Len(q) + 1) /\ r[Len(q) + 1] = n
      /\ \A i \in DOMAIN q : r[i] = q[i] /\ i \in DOMAIN r
  OBVIOUS
<1> HIDE DEF r
<1>2. ASSUME NEW ip \in Ip, NEW i \in DOMAIN r, Latest(r, ip, i)
      PROVE  (r[i].what = "connected") = (m[ip] # Nobody)
  <2>1. i \in DOMAIN q
    BY <1>1, <1>2 DEF Latest
  <2>2. Latest(q, ip, i)
    BY <1>1, <1>2, <2>1 DEF Latest
  <2> QED
    BY <1>1, <2>1, <2>2 DEF Truthful
<1> QED
  BY <1>1, <1>2 DEF r, Truthful

\* What has been heard was followed by all that is still to be heard.
LEMMA TailKeeps ==
  ASSUME NEW q \in Seq(Notice), q # <<>>, NEW m, Truthful(q, m)
  PROVE  Tail(q) \in Seq(Notice) /\ Truthful(Tail(q), m)
<1> DEFINE r == Tail(q)
<1>1. /\ r \in Seq(Notice) /\ Len(q) \in Nat \ {0} /\ DOMAIN q = 1..Len(q)
      /\ DOMAIN r = 1..(Len(q) - 1)
      /\ \A i \in DOMAIN r : r[i] = q[i + 1]
  OBVIOUS
<1> HIDE DEF r
<1>2. ASSUME NEW ip \in Ip, NEW i \in DOMAIN r, Latest(r, ip, i)
      PROVE  (r[i].what = "connected") = (m[ip] # Nobody)
  <2>1. i + 1 \in DOMAIN q /\ r[i] = q[i + 1]
    BY <1>1
  <2>2. ASSUME NEW j \in DOMAIN q, j > i + 1 PROVE q[j].ip # ip \/ q[j].what = "ready"
    <3>1. j - 1 \in DOMAIN r /\ j - 1 > i /\ r[j - 1] = q[j]
      BY <1>1, <2>2
    <3> QED
      BY <1>2, <3>1 DEF Latest
  <2>3. Latest(q, ip, i + 1)
    BY <1>2, <2>1, <2>2 DEF Latest
  <2> QED
    BY <2>1, <2>3 DEF Truthful
<1> QED
  BY <1>1, <1>2 DEF r, Truthful

\* A sequence of cameras that are gone settles what is said of these addresses.
LEMMA GoneKeeps ==
  ASSUME NEW q \in Seq(Notice), NEW n \in Nat, NEW late \in SUBSET Ip,
         NEW order \in [1..n -> late], \A ip \in late : \E i \in 1..n : order[i] = ip,
         NEW m, NEW k, Truthful(q, m),
         \A ip \in late : k[ip] = Nobody, \A ip \in Ip \ late : k[ip] = m[ip],
         NEW tail \in Seq(Notice), Len(tail) = n,
         \A i \in 1..n : tail[i].what = "disconnected" /\ tail[i].ip = order[i]
  PROVE  q \o tail \in Seq(Notice) /\ Truthful(q \o tail, k)
<1> DEFINE r == q \o tail
<1>1. /\ r \in Seq(Notice) /\ Len(q) \in Nat /\ DOMAIN q = 1..Len(q)
      /\ DOMAIN r = 1..(Len(q) + n)
      /\ \A i \in DOMAIN q : r[i] = q[i] /\ i \in DOMAIN r
      /\ \A i \in 1..n : r[Len(q) + i] = tail[i] /\ Len(q) + i \in DOMAIN r
  OBVIOUS
<1> HIDE DEF r
<1>2. ASSUME NEW ip \in Ip, NEW i \in DOMAIN r, Latest(r, ip, i)
      PROVE  (r[i].what = "connected") = (k[ip] # Nobody)
  <2>1. CASE i \in DOMAIN q
    <3>1. ip \notin late
      <4> SUFFICES ASSUME ip \in late PROVE FALSE
        OBVIOUS
      <4>1. PICK j \in 1..n : order[j] = ip
        OBVIOUS
      <4>2. Len(q) + j \in DOMAIN r /\ Len(q) + j > i /\ r[Len(q) + j] = tail[j]
        BY <1>1, <2>1
      <4> QED
        BY <1>2, <4>1, <4>2 DEF Latest
    <3>2. Latest(q, ip, i)
      BY <1>1, <1>2, <2>1 DEF Latest
    <3>3. r[i] = q[i] /\ k[ip] = m[ip]
      BY <1>1, <2>1, <3>1
    <3> QED
      BY <2>1, <3>2, <3>3 DEF Truthful
  <2>2. CASE i \notin DOMAIN q
    <3>1. PICK j \in 1..n : i = Len(q) + j
      <4>1. i - Len(q) \in 1..n /\ i = Len(q) + (i - Len(q))
        BY <1>1, <2>2
      <4> QED
        BY <4>1
    <3>2. r[i] = tail[j] /\ tail[j].what = "disconnected" /\ tail[j].ip = order[j]
      BY <1>1, <3>1
    <3>3. ip \in late
      BY <1>2, <3>1, <3>2 DEF Latest
    <3> QED
      BY <3>2, <3>3
  <2> QED
    BY <2>1, <2>2
<1> QED
  BY <1>1, <1>2 DEF r, Truthful

--------------------------------------------------------------------------------
\* A session that ends is reported with the address it is dropped from.
LEMMA DropReports ==
  ASSUME ReportInv, Shapes, NEW c \in Conn, state' = state, listening' = listening,
         sessions' = Dropped(peer[c]).sessions, posted' = Dropped(peer[c]).posted
  PROVE  ReportInv'
<1> DEFINE ip == peer[c]  n == [what |-> "disconnected", ip |-> ip]
<1>1. ip \in Ip /\ n \in Notice
  BY DEF Shapes, Notice
<1>2. CASE IsCameraConnected(ip)
  <2>1. sessions' = [sessions EXCEPT ![ip] = Nobody] /\ posted' = Append(posted, n)
    BY <1>2 DEF Dropped, Post
  <2>2. sessions'[ip] = Nobody /\ \A b \in Ip \ {ip} : sessions'[b] = sessions[b]
    BY <1>1, <2>1 DEF Shapes
  <2>3. n.what = "disconnected" /\ n.ip = ip
    OBVIOUS
  <2> HIDE DEF n, ip
  <2>4. Append(posted, n) \in Seq(Notice)
    BY <1>1 DEF ReportInv
  <2>5. state # "Stopped" => Truthful(Append(posted, n), sessions')
    BY <1>1, <2>2, <2>3, PostKeeps DEF ReportInv
  <2> QED
    BY <2>1, <2>4, <2>5 DEF ReportInv, Truthful, Latest
<1>3. CASE ~IsCameraConnected(ip)
  BY <1>3 DEF Dropped, ReportInv, Truthful, Latest
<1> QED
  BY <1>2, <1>3

\* A connection is reported in the place of what it replaces.
LEMMA ConnectionReports ==
  ASSUME ReportInv, Shapes, NEW c \in Conn, OnNewConnection(c) PROVE ReportInv'
<1> DEFINE n == [what |-> "connected", ip |-> peer[c]]
<1>1. peer[c] \in Ip /\ n \in Notice /\ n.what = "connected" /\ n.ip = peer[c]
  BY DEF Shapes, Notice
<1>2. /\ sessions' = [sessions EXCEPT ![peer[c]] = c] /\ posted' = Append(posted, n)
      /\ state' = state /\ listening' = listening
  BY DEF OnNewConnection, Post
<1>3. sessions'[peer[c]] = c /\ \A b \in Ip \ {peer[c]} : sessions'[b] = sessions[b]
  BY <1>1, <1>2 DEF Shapes
<1>4. sessions'[peer[c]] # Nobody
  BY <1>3, NobodyIsNoConnection
<1> HIDE DEF n
<1>5. Append(posted, n) \in Seq(Notice)
  BY <1>1 DEF ReportInv
<1>6. state # "Stopped" => Truthful(Append(posted, n), sessions')
  BY <1>1, <1>3, <1>4, PostKeeps DEF ReportInv
<1> QED
  BY <1>2, <1>5, <1>6 DEF ReportInv, Truthful, Latest

\* Every camera the timer gives up is reported, in whatever order it goes through them.
LEMMA HeartbeatReports ==
  ASSUME ReportInv, Shapes, OnHeartbeatTimeout PROVE ReportInv'
<1> DEFINE late == {ip \in Ip : sessions[ip] \in beating \cap silent}
<1>1. /\ sessions' = [ip \in Ip |-> IF ip \in late THEN Nobody ELSE sessions[ip]]
      /\ \E order \in Bijection(1..Cardinality(late), late) :
           posted' = posted \o [i \in 1..Cardinality(late) |->
                                  [what |-> "disconnected", ip |-> order[i]]]
      /\ state' = state /\ listening' = listening
  BY DEF OnHeartbeatTimeout
<1> HIDE DEF late
<1>2. late \in SUBSET Ip
  BY DEF late
<1>3. Cardinality(late) \in Nat
  BY <1>2, SmartCameraAssumption, FS_Subset, FS_CardinalityType
<1> DEFINE n == Cardinality(late)
<1>4. PICK order \in Bijection(1..n, late) :
        posted' = posted \o [i \in 1..n |-> [what |-> "disconnected", ip |-> order[i]]]
  BY <1>1
<1>5. order \in [1..n -> late] /\ \A ip \in late : \E i \in 1..n : order[i] = ip
  BY DEF Bijection, Injection, Surjection
<1>6. n \in Nat
  BY <1>3
<1> HIDE DEF n
<1> DEFINE tail == [i \in 1..n |-> [what |-> "disconnected", ip |-> order[i]]]
<1>7. posted' = posted \o tail
  BY <1>4
<1>8. /\ tail \in Seq(Notice) /\ Len(tail) = n
      /\ \A i \in 1..n : tail[i].what = "disconnected" /\ tail[i].ip = order[i]
  BY <1>2, <1>5, <1>6 DEF Notice
<1> HIDE DEF tail
<1>11. posted \o tail \in Seq(Notice)
  BY <1>8 DEF ReportInv
<1>9. /\ \A ip \in late : sessions'[ip] = Nobody
      /\ \A ip \in Ip \ late : sessions'[ip] = sessions[ip]
  BY <1>1, <1>2
<1>10. ASSUME state # "Stopped" PROVE Truthful(posted \o tail, sessions')
  <2>1. posted \in Seq(Notice) /\ Truthful(posted, sessions)
    BY <1>10 DEF ReportInv
  <2> QED
    BY <1>2, <1>5, <1>6, <1>8, <1>9, <2>1, GoneKeeps
<1> QED
  BY <1>1, <1>7, <1>11, <1>10 DEF ReportInv, Truthful, Latest

\* What the controller hears is off the queue; it may queue the update of its state.
LEMMA HearingReports ==
  ASSUME ReportInv, RunPosted PROVE ReportInv'
<1>1. posted # <<>> /\ sessions' = sessions /\ listening' = listening
  BY DEF RunPosted
<1>2. state' \in {state, "Ready"} /\ (state = "Stopped" => state' = "Stopped")
  BY DEF RunPosted, Started
<1>3. Tail(posted) \in Seq(Notice) /\ Head(posted) \in Notice
  BY <1>1 DEF ReportInv
<1>4. state # "Stopped" => Truthful(Tail(posted), sessions)
  BY <1>1, TailKeeps DEF ReportInv
<1> DEFINE n == [what |-> "ready", ip |-> Head(posted).ip]
<1>5. n \in Notice /\ n.what = "ready"
  BY <1>3 DEF Notice
<1>6. posted' \in {Tail(posted), Append(Tail(posted), n)}
  BY DEF RunPosted, Post
<1> HIDE DEF n
<1>7. posted' \in Seq(Notice) /\ (state # "Stopped" => Truthful(posted', sessions))
  <2>1. CASE posted' = Tail(posted)
    BY <1>3, <1>4, <2>1
  <2>2. CASE posted' = Append(Tail(posted), n)
    <3>1. Append(Tail(posted), n) \in Seq(Notice)
      BY <1>3, <1>5
    <3>2. state # "Stopped" => Truthful(Append(Tail(posted), n), sessions)
      BY <1>3, <1>4, <1>5, ReadyKeeps
    <3> QED
      BY <2>2, <3>1, <3>2
  <2> QED
    BY <1>6, <2>1, <2>2
<1>8. state' # "Stopped" => state # "Stopped"
  BY <1>2
<1>9. listening' => state' # "Stopped"
  BY <1>1, <1>2 DEF ReportInv
<1> QED
  BY <1>1, <1>7, <1>8, <1>9 DEF ReportInv, Truthful, Latest

\* One step per event of the loop.
LEMMA ReportsKept == ReportInv /\ Shapes /\ [Next]_vars => ReportInv'
<1> SUFFICES ASSUME ReportInv, Shapes, [Next]_vars PROVE ReportInv'
  OBVIOUS
<1>1. CASE UNCHANGED <<state, listening, sessions, posted>>
  BY <1>1 DEF ReportInv, Truthful, Latest
<1>2. CASE Start
  BY <1>2 DEF Start, ReportInv, Truthful, Latest
<1>3. CASE Stop
  BY <1>3 DEF Stop, ReportInv
<1>4. CASE RunPosted
  BY <1>4, HearingReports
<1>5. CASE OnHeartbeatTimeout
  BY <1>5, HeartbeatReports
<1>6. ASSUME NEW c \in Conn, OnNewConnection(c) PROVE ReportInv'
  BY <1>6, ConnectionReports
<1>7. ASSUME NEW c \in Conn, Disconnected(c) PROVE ReportInv'
  <2>1. /\ state' = state /\ listening' = listening
        /\ sessions' = Dropped(peer[c]).sessions /\ posted' = Dropped(peer[c]).posted
    BY <1>7 DEF Disconnected, Network
  <2> QED
    BY <2>1, DropReports
<1>8. ASSUME NEW c \in Conn, Delete(c) PROVE ReportInv'
  <2>1. state' = state /\ listening' = listening
    BY <1>8 DEF Delete
  <2>2. CASE sock[c] \in {"open", "lost"}
    <3>1. sessions' = Dropped(peer[c]).sessions /\ posted' = Dropped(peer[c]).posted
      BY <1>8, <2>2 DEF Delete
    <3> QED
      BY <2>1, <3>1, DropReports
  <2>3. CASE sock[c] \notin {"open", "lost"}
    <3>1. sessions' = sessions /\ posted' = posted
      BY <1>8, <2>3 DEF Delete
    <3> QED
      BY <1>1, <2>1, <3>1
  <2> QED
    BY <2>2, <2>3
<1>9. ASSUME NEW c \in Conn, LosePeer(c) \/ FallSilent(c) \/ OnReadyRead(c) PROVE ReportInv'
  BY <1>1, <1>9 DEF LosePeer, FallSilent, OnReadyRead, Network
<1>10. ASSUME NEW c \in Conn, NEW m \in Speech, CameraSends(c, m) PROVE ReportInv'
  BY <1>1, <1>10 DEF CameraSends, Network
<1>11. CASE UNCHANGED vars \/ UNCHANGED tcpVars \/ UNCHANGED coreVars
  BY <1>1, <1>11 DEF vars, tcpVars, coreVars
<1> QED
  BY <1>2, <1>3, <1>4, <1>5, <1>6, <1>7, <1>8, <1>9, <1>10, <1>11 DEF Next, Loop

--------------------------------------------------------------------------------
\* Induction over data.

\* Any set of numbers that is not empty has a least one: the way to prove something of every
\* buffer by its length, from the well-foundedness of the finite sets of numbers.
LEMMA LeastNumber ==
  ASSUME NEW T \in SUBSET Nat, T # {}
  PROVE  \E n \in T : \A m \in T : n <= m
<1> DEFINE Below(n) == 0..n
           U == {Below(n) : n \in T}
<1>1. U \subseteq FiniteSubsetsOf(Nat) /\ U # {}
  <2>1. \A n \in T : Below(n) \in SUBSET Nat /\ IsFiniteSet(Below(n))
    BY FS_Interval
  <2> QED BY <2>1 DEF FiniteSubsetsOf
<1>2. PICK u \in U : \A v \in U : <<v, u>> \notin StrictSubsetOrdering(Nat)
  <2> HIDE DEF U
  <2> QED BY <1>1, FS_StrictSubsetOrderingWellFounded, WFMin
<1>3. PICK n \in T : u = Below(n)
  OBVIOUS
<1>4. ASSUME NEW m \in T, m < n PROVE FALSE
  <2>1. Below(m) \subseteq Below(n) /\ Below(m) # Below(n)
    BY <1>4
  <2>2. Below(m) \in U /\ Below(m) \in SUBSET Nat /\ Below(n) \in SUBSET Nat 
    OBVIOUS
  <2> QED BY <1>2, <1>3, <2>1, <2>2 DEF StrictSubsetOrdering
<1> QED
  BY <1>4

\* What holds of a number when it holds of those below holds of all.
LEMMA Induction ==
  ASSUME NEW T, \A n \in Nat : (\A m \in Nat : m < n => m \in T) => n \in T
  PROVE  Nat \subseteq T
<1>1. CASE Nat \ T # {}
  <2>1. PICK n \in Nat \ T : \A m \in Nat \ T : n <= m
    BY <1>1, LeastNumber
  <2>2. \A m \in Nat : m < n => m \in T
    BY <2>1
  <2> QED
    BY <2>1, <2>2
<1> QED
  BY <1>1

\* A loop over data: what is done gives a result at once, and anything else goes on with
\* something smaller, whose result it adds to.
IsLoop(S, Out, measure, done, next, base, join) ==
  /\ measure \in [S -> Nat] /\ done \in SUBSET S /\ next \in [S \ done -> S]
  /\ \A x \in S \ done : measure[next[x]] < measure[x]
  /\ base \in [done -> Out] /\ join \in [S \ done -> [Out -> Out]]

\* A loop that always goes on with something smaller computes a result: the functions that do
\* so up to some size agree with one another, and there is one for every size.
LEMMA LoopEnds ==
  ASSUME NEW S, NEW Out, NEW measure, NEW done, NEW next, NEW base, NEW join,
         IsLoop(S, Out, measure, done, next, base, join)
  PROVE  \E f \in [S -> Out] :
           \A x \in S : f[x] = IF x \in done THEN base[x] ELSE join[x][f[next[x]]]
<1> USE DEF IsLoop
<1> DEFINE Upto(n) == {x \in S : measure[x] <= n}
           Obeys(g, x) == g[x] = IF x \in done THEN base[x] ELSE join[x][g[next[x]]]
           Part(n) == {g \in [Upto(n) -> Out] : \A x \in Upto(n) : Obeys(g, x)}
<1>1. ASSUME NEW n \in Nat, NEW x \in Upto(n), x \notin done 
      PROVE  /\ next[x] \in Upto(n) /\ measure[next[x]] < measure[x]
             /\ measure[next[x]] \in Nat /\ measure[x] \in Nat
  BY <1>1
<1>2. ASSUME NEW m \in Nat, NEW n \in Nat, NEW g \in Part(m), NEW h \in Part(n),
             NEW x \in Upto(m) \cap Upto(n)
      PROVE  g[x] = h[x]
  <2> DEFINE Bad == {y \in Upto(m) \cap Upto(n) : g[y] # h[y]}
             T == {measure[y] : y \in Bad}
  <2>1. SUFFICES ASSUME Bad # {} PROVE FALSE
    BY Zenon
  <2>2. PICK y \in Bad : \A z \in Bad : measure[y] <= measure[z]
    <3>1. T \subseteq Nat /\ T # {}
      <4>1. Bad \subseteq S
        OBVIOUS
      <4> HIDE DEF Bad
      <4> QED BY <2>1, <4>1
    <3>2. PICK k \in T : \A j \in T : k <= j
      <4> HIDE DEF T
      <4> QED BY <3>1, LeastNumber
    <3>3. PICK y \in Bad : k = measure[y]
      OBVIOUS
    <3>4. \A z \in Bad : measure[z] \in T
      OBVIOUS
    <3> QED BY <3>2, <3>3, <3>4
  <2>3. y \notin done
    BY Zenon
  <2>4. next[y] \in Upto(m) \cap Upto(n) /\ ~(measure[y] <= measure[next[y]])
    <3>1. y \in Upto(m) /\ y \in Upto(n)
      OBVIOUS
    <3> QED BY <1>1, <2>3, <3>1
  <2>5. g[next[y]] = h[next[y]]
    BY <2>2, <2>4
  <2>6. Obeys(g, y) /\ Obeys(h, y)
    OBVIOUS
  <2> QED BY <2>3, <2>5, <2>6
<1>3. ASSUME NEW n \in Nat, \A m \in Nat : m < n => Part(m) # {} PROVE Part(n) # {}
  <2> DEFINE Before == IF n = 0 THEN [x \in {} |-> {}] ELSE CHOOSE g \in Part(n - 1) : TRUE
             new == [x \in Upto(n) |-> IF x \in done THEN base[x] ELSE join[x][Before[next[x]]]]
  <2>1. n # 0 => Before \in Part(n - 1)
    <3>1. ASSUME n # 0 PROVE Part(n - 1) # {}
      <4>1. n - 1 \in Nat /\ n - 1 < n
        BY <3>1
      <4> HIDE DEF Part
      <4> QED BY <1>3, <4>1
    <3> HIDE DEF Part
    <3> QED BY <3>1, Zenon
  <2>2. ASSUME NEW x \in Upto(n), x \notin done 
        PROVE n # 0 /\ next[x] \in Upto(n - 1) /\ Before[next[x]] \in Out
    <3>1. n # 0 /\ next[x] \in Upto(n - 1)
      BY <1>1, <2>2
    <3> QED
      BY <2>1, <3>1
  <2>3. new \in [Upto(n) -> Out]
    BY <2>2
  <2>4. ASSUME NEW x \in Upto(n) PROVE Obeys(new, x)
    <3>1. CASE x \in done
      BY <3>1
    <3>2. CASE x \notin done
      <4>1. n # 0 /\ next[x] \in Upto(n - 1) /\ next[x] \in Upto(n)
        BY <1>1, <2>2, <3>2
      <4>2. Obeys(Before, next[x])
        <5> HIDE DEF Before
        <5> QED BY <2>1, <4>1, Zenon
      <4>3. new[next[x]] = Before[next[x]]
        <5> HIDE DEF Before
        <5> QED BY <4>1, <4>2, Zenon
      <4>4. new[x] = join[x][Before[next[x]]]
        <5> HIDE DEF Before
        <5> QED BY <3>2, Zenon
      <4> HIDE DEF new
      <4> QED BY <3>2, <4>3, <4>4
    <3> QED BY <3>1, <3>2
  <2> QED BY <2>3, <2>4
<1>4. ASSUME NEW n \in Nat PROVE Part(n) # {}
  <2> DEFINE T == {k \in Nat : Part(k) # {}}
  <2> HIDE DEF Part
  <2>1. ASSUME NEW k \in Nat, \A m \in Nat : m < k => m \in T PROVE k \in T
    <3>1. \A m \in Nat : m < k => Part(m) # {}
      BY <2>1
    <3> QED BY <1>3, <3>1
  <2>2. n \in T
    <3> HIDE DEF T
    <3> QED BY <2>1, Induction
  <2> QED BY <2>2
<1> DEFINE part(n) == CHOOSE g \in Part(n) : TRUE
           f == [x \in S |-> part(measure[x])[x]]
<1>5. \A n \in Nat : part(n) \in Part(n)
  BY <1>4, Zenon
<1>6. ASSUME NEW x \in S PROVE f[x] \in Out /\ Obeys(f, x)
  <2>0. measure[x] \in Nat /\ x \in Upto(measure[x])
    OBVIOUS
  <2>1. part(measure[x]) \in Part(measure[x]) 
    BY <1>5, <2>0
  <2>2. f[x] = part(measure[x])[x]
    OBVIOUS
  <2> HIDE DEF part, f
  <2>3. f[x] \in Out /\ Obeys(part(measure[x]), x)
    BY <2>0, <2>1, <2>2
  <2>4. CASE x \notin done
    <3>1. /\ next[x] \in Upto(measure[x]) /\ next[x] \in S /\ measure[next[x]] \in Nat 
          /\ next[x] \in Upto(measure[next[x]])
      BY <1>1, <2>0, <2>4
    <3>2. part(measure[next[x]]) \in Part(measure[next[x]]) /\ f[next[x]] = part(measure[next[x]])[next[x]]
      BY <1>5, <3>1 DEF f
    <3>3. part(measure[next[x]])[next[x]] = part(measure[x])[next[x]]
      <4> HIDE DEF Part, Upto
      <4> QED BY <1>2, <2>0, <2>1, <3>1, <3>2
    <3> QED BY <2>2, <2>3, <2>4, <3>2, <3>3
  <2> QED BY <2>2, <2>3, <2>4
<1>7. f \in [S -> Out]
  <2>1. f = [x \in S |-> f[x]]
    OBVIOUS
  <2> HIDE DEF f
  <2> QED BY <1>6, <2>1
<1> HIDE DEF f
<1> QED
  BY <1>6, <1>7

--------------------------------------------------------------------------------
\* Lines and texts.

\* A sequence is what comes before a cut and what comes after it.
LEMMA Cut ==
  ASSUME NEW S, NEW s \in Seq(S), NEW n \in 0..Len(s)
  PROVE  LET a == SubSeq(s, 1, n)
             z == SubSeq(s, n + 1, Len(s))
         IN /\ a \in Seq(S) /\ Len(a) = n
            /\ z \in Seq(S) /\ Len(z) = Len(s) - n
            /\ s = a \o z
<1>1. Len(s) \in Nat /\ n \in Int /\ \A i \in 1..Len(s) : s[i] \in S
  OBVIOUS
<1>2. SubSeq(s, 1, n) \in Seq(S) /\ Len(SubSeq(s, 1, n)) = n
  BY <1>1, SubSeqProperties
<1>3. SubSeq(s, n + 1, Len(s)) \in Seq(S) /\ Len(SubSeq(s, n + 1, Len(s))) = Len(s) - n
  <2>1. n + 1 \in Int /\ \A i \in (n + 1)..Len(s) : s[i] \in S
    BY <1>1
  <2> QED
    BY <1>1, <2>1, SubSeqProperties
<1>4. s = SubSeq(s, 1, n) \o SubSeq(s, n + 1, Len(s))
  <2>1. n \in (1 - 1)..Len(s) /\ 1 \in 1..(Len(s) + 1) /\ Len(s) \in n..Len(s)
    BY <1>1
  <2> QED
    BY <2>1, ConcatAdjacentSubSeq, SubSeqFull
<1> QED
  BY <1>2, <1>3, <1>4

\* How many bytes of a kind a sequence has.
LEMMA PositionsCount ==
  ASSUME NEW s \in Seq(Byte), NEW t
  PROVE  /\ Positions(s, t) \subseteq 1..Len(s) /\ IsFiniteSet(Positions(s, t))
         /\ Cardinality(Positions(s, t)) \in Nat
<1>1. Positions(s, t) \subseteq 1..Len(s) /\ Len(s) \in Nat
  BY DEF Positions
<1>2. IsFiniteSet(1..Len(s))
  BY <1>1, FS_Interval
<1> QED
  BY <1>1, <1>2, FS_Subset, FS_CardinalityType

\* The first place of a byte is one of its places.
LEMMA FirstIsLeast ==
  ASSUME NEW s \in Seq(Byte), NEW t, Positions(s, t) # {}
  PROVE  First(s, t) \in Positions(s, t) /\ \A j \in Positions(s, t) : First(s, t) <= j
<1>1. Positions(s, t) \subseteq Nat
  BY PositionsCount
<1> QED
  BY <1>1, LeastNumber, Zenon DEF First

\* A line is a piece of the buffer's beginning, and it ends with its end or is a greeting.
LEMMA LineOfBuffer ==
  ASSUME NEW b \in Seq(Byte)
  PROVE  /\ LineLength(b) \in 0..Len(b)
         /\ LineLength(b) # 0 => LET line == SubSeq(b, 1, LineLength(b)) IN
              /\ line \in Seq(Byte) /\ Len(line) = LineLength(b)
              /\ Last(line) \in {"crlf", "semicolon", "hello"}
<1>1. CASE Positions(b, "crlf") # {}
  <2>1. LineLength(b) = First(b, "crlf")
    BY <1>1, Zenon DEF LineLength
  <2>2. LineLength(b) \in 1..Len(b) /\ b[LineLength(b)] = "crlf"
    BY <1>1, <2>1, FirstIsLeast DEF Positions
  <2> QED
    BY <2>2 DEF Last
<1>2. CASE Positions(b, "crlf") = {} /\ Positions(b, "semicolon") # {}
  <2>1. LineLength(b) = First(b, "semicolon")
    BY <1>2, Zenon DEF LineLength
  <2>2. LineLength(b) \in 1..Len(b) /\ b[LineLength(b)] = "semicolon"
    BY <1>2, <2>1, FirstIsLeast DEF Positions
  <2> QED
    BY <2>2 DEF Last
<1>3. CASE Positions(b, "crlf") = {} /\ Positions(b, "semicolon") = {} /\ b = <<"hello">>
  <2>1. LineLength(b) = 1
    BY <1>3, Zenon DEF LineLength
  <2>2. LineLength(b) \in 1..Len(b) /\ b[LineLength(b)] = "hello"
    BY <1>3, <2>1
  <2> QED
    BY <2>2 DEF Last
<1>4. CASE Positions(b, "crlf") = {} /\ Positions(b, "semicolon") = {} /\ b # <<"hello">>
  <2>1. LineLength(b) = 0
    BY <1>4, Zenon DEF LineLength
  <2> QED
    BY <2>1
<1> QED
  BY <1>1, <1>2, <1>3, <1>4

\* Anything but a code may go from the end of a sequence.
LEMMA FrontKeepsCodes ==
  ASSUME NEW t \in Seq(Byte), t # <<>>, Last(t) # "code"
  PROVE  Front(t) \in Seq(Byte) /\ Codes(Front(t)) = Codes(t)
<1>1. Front(t) \in Seq(Byte) /\ Positions(Front(t), "code") = Positions(t, "code")
  BY DEF Front, Last, Positions
<1> QED
  BY <1>1 DEF Codes

\* One semicolon goes.
Chopped(t) == IF t # <<>> /\ Last(t) = "semicolon" THEN Front(t) ELSE t

LEMMA ChoppedKeepsCodes ==
  ASSUME NEW t \in Seq(Byte)
  PROVE  Chopped(t) \in Seq(Byte) /\ Codes(Chopped(t)) = Codes(t)
BY FrontKeepsCodes DEF Chopped

\* The text of a line has the codes of the line (processReceivedData()).
LEMMA TextKeepsCodes ==
  ASSUME NEW line \in Seq(Byte), line # <<>>
  PROVE  Text(line) \in Seq(Byte) /\ Codes(Text(line)) = Codes(line)
<1>1. CASE Last(line) = "crlf"
  <2>1. Text(line) = Chopped(Chopped(Front(line)))
    BY <1>1 DEF Text, Chopped
  <2>2. Front(line) \in Seq(Byte) /\ Codes(Front(line)) = Codes(line)
    BY <1>1, FrontKeepsCodes
  <2> QED
    BY <2>1, <2>2, ChoppedKeepsCodes
<1>2. CASE Last(line) # "crlf"
  <2>1. Text(line) = Chopped(Chopped(line))
    BY <1>2 DEF Text, Chopped
  <2> QED
    BY <2>1, ChoppedKeepsCodes
<1> QED
  BY <1>1, <1>2

\* What drainReceiveBuffer() makes of a buffer, one round of its loop at a time.
Drained == [texts : Seq(Seq(Byte)), beats : BOOLEAN, lives : BOOLEAN, rest : Seq(Byte)]
Line(b) == SubSeq(b, 1, LineLength(b))
After(b) == SubSeq(b, LineLength(b) + 1, Len(b))
Undrained(b) == [texts |-> <<>>, beats |-> FALSE, lives |-> FALSE, rest |-> b]
Joined(b, d) ==
  [texts |-> (IF IsText(Line(b)) THEN <<Text(Line(b))>> ELSE <<>>) \o d.texts,
   beats |-> IsBeat(Line(b)) \/ d.beats, lives |-> Text(Line(b)) # <<>> \/ d.lives,
   rest |-> d.rest]

\* A round takes the line off and leaves less.
LEMMA RoundShortens ==
  ASSUME NEW b \in Seq(Byte), LineLength(b) # 0
  PROVE  /\ Line(b) \in Seq(Byte) /\ Line(b) # <<>> /\ After(b) \in Seq(Byte)
         /\ b = Line(b) \o After(b) /\ Len(After(b)) \in Nat /\ Len(After(b)) < Len(b)
<1> DEFINE n == LineLength(b)
<1>1. n \in 1..Len(b) /\ Len(b) \in Nat
  BY LineOfBuffer
<1> HIDE DEF n
<1>2. Line(b) = SubSeq(b, 1, n) /\ After(b) = SubSeq(b, n + 1, Len(b))
  BY DEF Line, After, n
<1> QED
  BY <1>1, <1>2, Cut

LEMMA JoinedType ==
  ASSUME NEW b \in Seq(Byte), LineLength(b) # 0, NEW d \in Drained
  PROVE  Joined(b, d) \in Drained
<1>1. Text(Line(b)) \in Seq(Byte)
  BY RoundShortens, TextKeepsCodes
<1>2. Joined(b, d).texts \in Seq(Seq(Byte))
  <2>1. d.texts \in Seq(Seq(Byte))
    BY DEF Drained
  <2>2. <<Text(Line(b))>> \in Seq(Seq(Byte)) /\ <<>> \in Seq(Seq(Byte))
    BY <1>1
  <2> QED
    BY <2>1, <2>2 DEF Joined
<1>3. IsBeat(Line(b)) \in BOOLEAN /\ (Text(Line(b)) # <<>>) \in BOOLEAN
  BY DEF IsBeat
<1> QED
  BY <1>2, <1>3 DEF Joined, Drained

\* The loop ends, so the recursive definition defines it.
LEMMA DrainUnfolds ==
  \A b \in Seq(Byte) :
    Drain[b] = IF LineLength(b) = 0 THEN Undrained(b) ELSE Joined(b, Drain[After(b)])
<1> DEFINE S == Seq(Byte)
           done == {x \in S : LineLength(x) = 0}
           measure == [x \in S |-> Len(x)]
           next == [x \in S \ done |-> After(x)]
           base == [x \in done |-> Undrained(x)]
           join == [x \in S \ done |-> [d \in Drained |-> Joined(x, d)]]
           Unfolds(f) == f = [x \in S |-> IF LineLength(x) = 0 THEN Undrained(x) ELSE Joined(x, f[After(x)])]
<1>1. measure \in [S -> Nat]
  OBVIOUS
<1>2. next \in [S \ done -> S] /\ \A x \in S \ done : measure[next[x]] < measure[x]
  BY RoundShortens
<1>3. base \in [done -> Drained]
  BY DEF Undrained, Drained
<1>4. join \in [S \ done -> [Drained -> Drained]]
  BY JoinedType
<1>5. PICK f \in [S -> Drained] :
        \A x \in S : f[x] = IF x \in done THEN base[x] ELSE join[x][f[next[x]]]
  <2>1. IsLoop(S, Drained, measure, done, next, base, join)
    <3>1. done \in SUBSET S
      OBVIOUS
    <3> HIDE DEF S, done, measure, next, base, join
    <3> QED
      BY <1>1, <1>2, <1>3, <1>4, <3>1 DEF IsLoop
  <2> HIDE DEF S, done, measure, next, base, join
  <2> QED
    BY <2>1, LoopEnds
<1>6. \A x \in S : f[x] = IF LineLength(x) = 0 THEN Undrained(x) ELSE Joined(x, f[After(x)])
  <2> SUFFICES ASSUME NEW x \in S
               PROVE  f[x] = IF LineLength(x) = 0 THEN Undrained(x) ELSE Joined(x, f[After(x)])
    OBVIOUS
  <2>1. CASE LineLength(x) = 0
    BY <1>5, <2>1
  <2>2. CASE LineLength(x) # 0
    <3>1. x \in S \ done /\ After(x) \in S /\ f[After(x)] \in Drained
      BY <2>2, RoundShortens
    <3>2. f[x] = join[x][f[next[x]]]
      BY <1>5, <3>1
    <3> QED
      BY <2>2, <3>1, <3>2
  <2> QED
    BY <2>1, <2>2
<1>7. Unfolds(f)
  BY <1>6
<1>8. Unfolds(Drain)
  <2>1. Drain = CHOOSE g : Unfolds(g)
    BY DEF Drain, Undrained, Joined, Line, After
  <2> HIDE DEF Unfolds
  <2> QED
    BY <1>7, <2>1, Zenon
<1>9. Drain = [x \in S |-> IF LineLength(x) = 0 THEN Undrained(x) ELSE Joined(x, Drain[After(x)])]
  BY <1>8
<1> QED
  BY <1>9

--------------------------------------------------------------------------------
\* Codes, counted.

\* Two sets whose elements correspond one to one have as many of them.
LEMMA Matched ==
  ASSUME NEW A, NEW B, IsFiniteSet(A), NEW f \in [A -> B],
         \A x, y \in A : f[x] = f[y] => x = y, \A z \in B : \E x \in A : f[x] = z
  PROVE  IsFiniteSet(B) /\ Cardinality(B) = Cardinality(A)
<1>1. f \in Bijection(A, B)
  BY DEF Bijection, Injection, Surjection, IsInjective
<1> QED
  BY <1>1, FS_Bijection DEF ExistsBijection

\* A set with a finite part taken out.
LEMMA Parts ==
  ASSUME NEW A, NEW C, IsFiniteSet(A), A \subseteq C, IsFiniteSet(C \ A)
  PROVE  /\ IsFiniteSet(C) /\ Cardinality(A) \in Nat /\ Cardinality(C \ A) \in Nat
         /\ Cardinality(C) = Cardinality(A) + Cardinality(C \ A)
<1> DEFINE D == C \ A
<1>1. C = A \cup D /\ A \cap D = {} /\ IsFiniteSet(D)
  OBVIOUS
<1> HIDE DEF D
<1>2. Cardinality({}) = 0 /\ Cardinality(A) \in Nat /\ Cardinality(D) \in Nat
  BY <1>1, FS_EmptySet, FS_CardinalityType
<1>3. /\ IsFiniteSet(A \cup D)
      /\ Cardinality(A \cup D) = Cardinality(A) + Cardinality(D) - Cardinality(A \cap D)
  BY <1>1, FS_Union
<1>4. Cardinality(A \cap D) = 0
  BY <1>1, <1>2, Zenon
<1>5. Cardinality(C) = Cardinality(A \cup D)
  BY <1>1, Zenon
<1> QED
  <2>1. IsFiniteSet(C)
    BY <1>1, <1>3, Zenon
  <2> QED
    BY <1>2, <1>3, <1>4, <1>5, <2>1 DEF D

LEMMA CodesConcat ==
  ASSUME NEW s \in Seq(Byte), NEW t \in Seq(Byte)
  PROVE  Codes(s \o t) = Codes(s) + Codes(t)
<1> DEFINE A == Positions(s, "code")
           B == Positions(t, "code")
           C == Positions(s \o t, "code")
           f == [j \in B |-> j + Len(s)]
<1>1. /\ A \subseteq 1..Len(s) /\ B \subseteq 1..Len(t) /\ Len(s) \in Nat /\ Len(t) \in Nat
      /\ IsFiniteSet(A) /\ IsFiniteSet(B)
  BY PositionsCount
<1>2. A \subseteq C
  BY <1>1, ConcatProperties DEF Positions
<1>3. IsFiniteSet(C \ A) /\ Cardinality(C \ A) = Cardinality(B)
  <2>1. ASSUME NEW j \in B PROVE j + Len(s) \in C \ A
    BY <1>1, ConcatProperties DEF Positions
  <2>2. ASSUME NEW k \in C \ A PROVE \E j \in B : f[j] = k
    <3>1. k \in 1..(Len(s) + Len(t)) /\ (s \o t)[k] = "code"
      BY ConcatProperties DEF Positions
    <3>2. k > Len(s)
      BY <1>1, <3>1, ConcatProperties DEF Positions
    <3>3. k - Len(s) \in B /\ k = (k - Len(s)) + Len(s)
      BY <1>1, <3>1, <3>2, ConcatProperties DEF Positions
    <3> QED
      BY <3>3
  <2>3. \A x, y \in B : f[x] = f[y] => x = y
    BY <1>1
  <2>4. f \in [B -> C \ A]
    <3> HIDE DEF A, B, C
    <3> QED
      BY <2>1
  <2> HIDE DEF A, B, C, f
  <2> QED
    BY <1>1, <2>2, <2>3, <2>4, Matched
<1> HIDE DEF A, B, C
<1>4. Cardinality(C) = Cardinality(A) + Cardinality(B)
  BY <1>1, <1>2, <1>3, Parts
<1> QED
  BY <1>4 DEF Codes, A, B, C

\* The codes of a list of texts, each by its text and its place there.
Marks(ts) == UNION {{i} \X Positions(ts[i], "code") : i \in DOMAIN ts}

LEMMA MarksAre ==
  ASSUME NEW ts \in Seq(Seq(Byte))
  PROVE  \A p : p \in Marks(ts) <=>
           \E i \in 1..Len(ts) : \E j \in Positions(ts[i], "code") : p = <<i, j>>
<1>1. DOMAIN ts = 1..Len(ts)
  OBVIOUS
<1>2. \A p : p \in Marks(ts) <=> \E i \in 1..Len(ts) : p \in {i} \X Positions(ts[i], "code")
  BY <1>1 DEF Marks
<1>3. \A i, p : p \in {i} \X Positions(ts[i], "code") <=>
        \E j \in Positions(ts[i], "code") : p = <<i, j>>
  OBVIOUS
<1> QED
  BY <1>2, <1>3

LEMMA MarksOfNone == Marks(<<>>) = {} /\ TextCodes(<<>>) = 0
BY FS_EmptySet DEF Marks, TextCodes

LEMMA MarksOfOne ==
  ASSUME NEW t \in Seq(Byte)
  PROVE  IsFiniteSet(Marks(<<t>>)) /\ TextCodes(<<t>>) = Codes(t)
<1> DEFINE A == Positions(t, "code")
           f == [j \in A |-> <<1, j>>]
<1>1. Marks(<<t>>) = {1} \X A /\ IsFiniteSet(A)
  BY PositionsCount DEF Marks
<1>2. IsFiniteSet({1} \X A) /\ Cardinality({1} \X A) = Cardinality(A)
  <2> HIDE DEF A
  <2>1. f \in [A -> {1} \X A] /\ \A x, y \in A : f[x] = f[y] => x = y
    OBVIOUS
  <2>2. ASSUME NEW z \in {1} \X A PROVE \E x \in A : f[x] = z
    <3>1. z = <<1, z[2]>> /\ z[2] \in A
      OBVIOUS
    <3> QED
      BY <3>1
  <2> DEFINE P == {1} \X A
  <2> HIDE DEF f, P
  <2>3. IsFiniteSet(P) /\ Cardinality(P) = Cardinality(A)
    <3>1. f \in [A -> P] /\ \A z \in P : \E x \in A : f[x] = z
      BY <2>1, <2>2 DEF P
    <3> QED
      BY <1>1, <2>1, <3>1, Matched
  <2> QED
    BY <2>3 DEF P
<1> QED
  BY <1>1, <1>2 DEF TextCodes, Marks, Codes

\* Texts that follow others are marked further on.
LEMMA MarksConcat ==
  ASSUME NEW s \in Seq(Seq(Byte)), NEW t \in Seq(Seq(Byte)), IsFiniteSet(Marks(s)), IsFiniteSet(Marks(t))
  PROVE  IsFiniteSet(Marks(s \o t)) /\ TextCodes(s \o t) = TextCodes(s) + TextCodes(t)
<1> DEFINE A == Marks(s)
           B == Marks(t)
           C == Marks(s \o t)
           f == [p \in B |-> <<p[1] + Len(s), p[2]>>]
<1>1. /\ Len(s) \in Nat /\ Len(t) \in Nat
      /\ \A p : p \in A <=> \E i \in 1..Len(s) : \E j \in Positions(s[i], "code") : p = <<i, j>>
      /\ \A p : p \in B <=> \E i \in 1..Len(t) : \E j \in Positions(t[i], "code") : p = <<i, j>>
      /\ \A p : p \in C <=> \E i \in 1..(Len(s) + Len(t)) : \E j \in Positions((s \o t)[i], "code") : p = <<i, j>>
  <2>1. s \o t \in Seq(Seq(Byte)) /\ Len(s \o t) = Len(s) + Len(t)
    BY ConcatProperties
  <2> QED
    <3>1. Len(s) \in Nat /\ Len(t) \in Nat
      OBVIOUS
    <3>2. \A p : p \in A <=> \E i \in 1..Len(s) : \E j \in Positions(s[i], "code") : p = <<i, j>>
      BY MarksAre
    <3>3. \A p : p \in B <=> \E i \in 1..Len(t) : \E j \in Positions(t[i], "code") : p = <<i, j>>
      BY MarksAre
    <3>4. \A p : p \in C <=> \E i \in 1..Len(s \o t) : \E j \in Positions((s \o t)[i], "code") : p = <<i, j>>
      BY <2>1, MarksAre
    <3> HIDE DEF A, B, C
    <3> QED
      BY <2>1, <3>1, <3>2, <3>3, <3>4
<1>2. \A i \in 1..(Len(s) + Len(t)) : (s \o t)[i] = IF i <= Len(s) THEN s[i] ELSE t[i - Len(s)]
  BY ConcatProperties
<1>5. IsFiniteSet(A) /\ IsFiniteSet(B)
  OBVIOUS
<1> HIDE DEF A, B, C
<1>3. A \subseteq C
  <2> SUFFICES ASSUME NEW p \in A PROVE p \in C
    OBVIOUS
  <2>1. PICK i \in 1..Len(s) : \E j \in Positions(s[i], "code") : p = <<i, j>>
    BY <1>1
  <2>2. i \in 1..(Len(s) + Len(t)) /\ (s \o t)[i] = s[i]
    BY <1>1, <1>2
  <2> QED
    BY <1>1, <2>1, <2>2
<1>4. IsFiniteSet(C \ A) /\ Cardinality(C \ A) = Cardinality(B)
  <2>1. ASSUME NEW p \in B PROVE <<p[1] + Len(s), p[2]>> \in C \ A
    <3>1. PICK i \in 1..Len(t) : \E j \in Positions(t[i], "code") : p = <<i, j>>
      BY <1>1
    <3>2. PICK j \in Positions(t[i], "code") : p = <<i, j>>
      BY <3>1
    <3>3. i + Len(s) \in 1..(Len(s) + Len(t)) /\ (s \o t)[i + Len(s)] = t[i]
      BY <1>1, <1>2
    <3>4. <<i + Len(s), j>> \in C
      BY <1>1, <3>2, <3>3
    <3>5. i + Len(s) \notin 1..Len(s)
      BY <1>1
    <3>6. <<i + Len(s), j>> \notin A
      BY <1>1, <3>5
    <3>7. p[1] = i /\ p[2] = j
      BY <3>2
    <3> QED
      BY <3>4, <3>6, <3>7
  <2>2. ASSUME NEW q \in C \ A PROVE \E p \in B : f[p] = q
    <3>1. PICK i \in 1..(Len(s) + Len(t)) : \E j \in Positions((s \o t)[i], "code") : q = <<i, j>>
      BY <1>1
    <3>2. PICK j \in Positions((s \o t)[i], "code") : q = <<i, j>>
      BY <3>1
    <3>3. ~(i <= Len(s))
      <4>1. CASE i <= Len(s)
        <5>1. i \in 1..Len(s) /\ j \in Positions(s[i], "code")
          BY <1>1, <1>2, <3>2, <4>1
        <5> QED
          BY <1>1, <2>2, <3>2, <5>1
      <4> QED
        BY <4>1
    <3>4. i - Len(s) \in 1..Len(t) /\ j \in Positions(t[i - Len(s)], "code")
      BY <1>1, <1>2, <3>2, <3>3
    <3>5. <<i - Len(s), j>> \in B
      BY <1>1, <3>4
    <3>6. f[<<i - Len(s), j>>] = <<(i - Len(s)) + Len(s), j>>
      BY <3>5
    <3>7. (i - Len(s)) + Len(s) = i
      BY <1>1
    <3> QED
      BY <3>2, <3>5, <3>6, <3>7
  <2>3. ASSUME NEW p \in B, NEW q \in B, f[p] = f[q] PROVE p = q
    <3>1. PICK i \in 1..Len(t) : \E j \in Positions(t[i], "code") : p = <<i, j>>
      BY <1>1
    <3>2. PICK j \in Positions(t[i], "code") : p = <<i, j>>
      BY <3>1
    <3>3. PICK k \in 1..Len(t) : \E l \in Positions(t[k], "code") : q = <<k, l>>
      BY <1>1
    <3>4. PICK l \in Positions(t[k], "code") : q = <<k, l>>
      BY <3>3
    <3>5. f[p] = <<i + Len(s), j>> /\ f[q] = <<k + Len(s), l>>
      BY <3>2, <3>4
    <3>6. i + Len(s) = k + Len(s) /\ j = l
      BY <2>3, <3>5
    <3>7. i = k
      BY <1>1, <3>6
    <3> QED
      BY <3>2, <3>4, <3>6, <3>7
  <2>4. f \in [B -> C \ A]
    BY <2>1
  <2> HIDE DEF f
  <2> QED
    BY <1>5, <2>2, <2>3, <2>4, Matched
<1>6. IsFiniteSet(C) /\ Cardinality(C) = Cardinality(A) + Cardinality(B)
  BY <1>3, <1>4, <1>5, Parts
<1> QED
  BY <1>6 DEF TextCodes, A, B, C, Marks

\* The texts and the rest of a buffer hold the codes the buffer held.
Kept(b) ==
  /\ Drain[b] \in Drained /\ IsFiniteSet(Marks(Drain[b].texts))
  /\ TextCodes(Drain[b].texts) + Codes(Drain[b].rest) = Codes(b)

LEMMA NoCodeInBeats == Codes(<<>>) = 0 /\ Codes(<<"hello">>) = 0 /\ Codes(<<"beat">>) = 0
<1>1. Positions(<<>>, "code") = {} /\ Positions(<<"hello">>, "code") = {} /\ Positions(<<"beat">>, "code") = {}
  BY DEF Positions
<1> QED
  BY <1>1, FS_EmptySet, Zenon DEF Codes

\* A round passes the codes of its line on, or there are none in it.
LEMMA RoundKeepsCodes ==
  ASSUME NEW b \in Seq(Byte), LineLength(b) # 0, Kept(After(b)),
         Drain[b] = Joined(b, Drain[After(b)])
  PROVE  Kept(b)
<1> DEFINE d == Drain[After(b)]
           own == IF IsText(Line(b)) THEN <<Text(Line(b))>> ELSE <<>>
<1>1. d \in Drained /\ IsFiniteSet(Marks(d.texts)) /\ TextCodes(d.texts) + Codes(d.rest) = Codes(After(b))
  BY DEF Kept
<1>2. Drain[b] \in Drained /\ Drain[b].texts = own \o d.texts /\ Drain[b].rest = d.rest
  <2> HIDE DEF d
  <2>1. Drain[b] = Joined(b, d)
    BY DEF d
  <2>2. Joined(b, d) \in Drained
    BY <1>1, JoinedType
  <2>3. Joined(b, d).texts = own \o d.texts /\ Joined(b, d).rest = d.rest
    BY DEF Joined
  <2> HIDE DEF own
  <2> QED
    BY <2>1, <2>2, <2>3
<1>3. own \in Seq(Seq(Byte)) /\ IsFiniteSet(Marks(own)) /\ TextCodes(own) = Codes(Line(b))
  <2>0. Text(Line(b)) \in Seq(Byte) /\ Codes(Text(Line(b))) = Codes(Line(b))
    BY RoundShortens, TextKeepsCodes
  <2>1. CASE IsText(Line(b))
    BY <2>0, <2>1, MarksOfOne
  <2>2. CASE ~IsText(Line(b))
    <3>1. Codes(Text(Line(b))) = 0
      BY <2>2, NoCodeInBeats DEF IsText, IsBeat
    <3>2. own = <<>> /\ Codes(Line(b)) = 0
      BY <2>0, <2>2, <3>1
    <3>3. <<>> \in Seq(Seq(Byte)) /\ IsFiniteSet(Marks(<<>>)) /\ TextCodes(<<>>) = 0
      BY MarksOfNone, FS_EmptySet, Zenon, EmptySeq
    <3> QED
      BY <3>2, <3>3, Zenon
  <2> QED
    BY <2>1, <2>2
<1>4. Codes(b) = Codes(Line(b)) + Codes(After(b))
  BY RoundShortens, CodesConcat
<1>5. IsFiniteSet(Marks(own \o d.texts)) /\ TextCodes(own \o d.texts) = TextCodes(own) + TextCodes(d.texts)
  <2>1. d.texts \in Seq(Seq(Byte))
    BY <1>1 DEF Drained
  <2> HIDE DEF own, d
  <2> QED
    BY <1>1, <1>3, <2>1, MarksConcat
<1>6. /\ Codes(Line(b)) \in Nat /\ Codes(After(b)) \in Nat /\ Codes(d.rest) \in Nat
      /\ TextCodes(d.texts) \in Nat
  <2>1. d.rest \in Seq(Byte) /\ Line(b) \in Seq(Byte) /\ After(b) \in Seq(Byte)
    BY <1>1, RoundShortens DEF Drained
  <2>2. TextCodes(d.texts) = Cardinality(Marks(d.texts))
    BY DEF TextCodes, Marks
  <2> HIDE DEF d
  <2> QED
    BY <1>1, <2>1, <2>2, PositionsCount, FS_CardinalityType DEF Codes
<1> HIDE DEF own, d
<1> QED
  BY <1>1, <1>2, <1>3, <1>4, <1>5, <1>6 DEF Kept

\* For every buffer, by induction on its length.
LEMMA DrainKeepsCodes == \A b \in Seq(Byte) : Kept(b)
<1> DEFINE T == {n \in Nat : \A b \in Seq(Byte) : Len(b) = n => Kept(b)}
<1>1. ASSUME NEW n \in Nat, \A m \in Nat : m < n => m \in T PROVE n \in T
  <2> SUFFICES ASSUME NEW b \in Seq(Byte), Len(b) = n PROVE Kept(b)
    OBVIOUS
  <2>1. CASE LineLength(b) = 0
    <3>1. Drain[b] = Undrained(b)
      BY <2>1, DrainUnfolds
    <3>2. Codes(b) \in Nat
      BY PositionsCount DEF Codes
    <3>3. <<>> \in Seq(Seq(Byte)) /\ IsFiniteSet(Marks(<<>>)) /\ TextCodes(<<>>) = 0
      BY MarksOfNone, FS_EmptySet, Zenon, EmptySeq
    <3>4. Undrained(b) \in Drained /\ Undrained(b).texts = <<>> /\ Undrained(b).rest = b
      BY <3>3 DEF Undrained, Drained
    <3> QED
      BY <3>1, <3>2, <3>3, <3>4 DEF Kept
  <2>2. CASE LineLength(b) # 0
    <3>1. Drain[b] = Joined(b, Drain[After(b)])
      BY <2>2, DrainUnfolds
    <3>2. Kept(After(b))
      BY <1>1, <2>2, RoundShortens
    <3> QED
      BY <2>2, <3>1, <3>2, RoundKeepsCodes
  <2> QED
    BY <2>1, <2>2
<1>2. Nat \subseteq T
  <2> HIDE DEF T
  <2> QED
    BY <1>1, Induction
<1> QED
  BY <1>2

--------------------------------------------------------------------------------
\* The streams of the connections.

\* What a connection says is whole: no code has left it otherwise than as a text.
Whole(c) ==
  /\ wire[c] \in Seq(Byte) /\ buffer[c] \in Seq(Byte) /\ texts[c] \in Seq(Seq(Byte))
  /\ spoken[c] \in Nat /\ IsFiniteSet(Marks(texts[c]))
  /\ sock[c] \in {"none", "open"} =>
       TextCodes(texts[c]) + Codes(buffer[c]) + Codes(wire[c]) = spoken[c]

CodeInv ==
  /\ DOMAIN wire = Conn /\ DOMAIN buffer = Conn /\ DOMAIN texts = Conn /\ DOMAIN spoken = Conn
  /\ \A c \in Conn : Whole(c)

Streams == <<wire, buffer, texts, spoken>>

LEMMA SilenceIsWhole ==
  /\ <<>> \in Seq(Byte) /\ <<>> \in Seq(Seq(Byte)) /\ IsFiniteSet(Marks(<<>>)) /\ 0 \in Nat
  /\ TextCodes(<<>>) + Codes(<<>>) + Codes(<<>>) = 0
<1>1. TextCodes(<<>>) = 0 /\ Codes(<<>>) = 0 /\ IsFiniteSet(Marks(<<>>))
  BY MarksOfNone, NoCodeInBeats, FS_EmptySet, Zenon
<1>2. <<>> \in Seq(Byte) /\ <<>> \in Seq(Seq(Byte))
  BY EmptySeq
<1> QED
  BY <1>1, <1>2

LEMMA MessageCodes ==
  ASSUME NEW m \in Speech
  PROVE  Message[m] \in Seq(Byte) /\ Codes(Message[m]) = IF m = "code" THEN 1 ELSE 0
<1>1. m \in {"code", "heartbeat", "hello"}
  BY SmartCameraAssumption DEF Message
<1>2. Cardinality({1}) = 1 /\ Cardinality({}) = 0
  BY FS_Singleton, FS_EmptySet
<1>3. CASE m = "code"
  <2>1. Message[m] = <<"code", "semicolon">>
    BY <1>3 DEF Message
  <2>2. Positions(Message[m], "code") = {1} /\ Message[m] \in Seq(Byte)
    BY <2>1 DEF Positions, Byte
  <2>3. Codes(Message[m]) = 1
    BY <1>2, <2>2, Zenon DEF Codes
  <2> QED
    BY <1>3, <2>2, <2>3
<1>4. CASE m \in {"heartbeat", "hello"}
  <2>1. Message[m] = <<"beat", "crlf">> \/ Message[m] = <<"hello">>
    BY <1>4 DEF Message
  <2>2. Positions(Message[m], "code") = {} /\ Message[m] \in Seq(Byte)
    <3>1. CASE Message[m] = <<"beat", "crlf">>
      BY <3>1 DEF Positions, Byte
    <3>2. CASE Message[m] = <<"hello">>
      BY <3>2 DEF Positions, Byte
    <3> QED
      BY <2>1, <3>1, <3>2
  <2>3. Codes(Message[m]) = 0
    BY <1>2, <2>2, Zenon DEF Codes
  <2> QED
    BY <1>4, <2>2, <2>3
<1> QED
  BY <1>1, <1>3, <1>4

LEMMA InitWhole == Init => CodeInv
<1> SUFFICES ASSUME Init PROVE CodeInv
  OBVIOUS
<1>1. \A c \in Conn : wire[c] = <<>> /\ buffer[c] = <<>> /\ texts[c] = <<>> /\ spoken[c] = 0
  BY DEF Init
<1>2. DOMAIN wire = Conn /\ DOMAIN buffer = Conn /\ DOMAIN texts = Conn /\ DOMAIN spoken = Conn
  BY DEF Init
<1>3. ASSUME NEW c \in Conn PROVE Whole(c)
  BY <1>1, SilenceIsWhole, Zenon DEF Whole
<1> QED
  BY <1>2, <1>3 DEF CodeInv

\* Sockets that close, or open, with the streams left alone.
LEMMA StreamsKeep ==
  ASSUME CodeInv, UNCHANGED Streams,
         \A c \in Conn : sock'[c] \in {"none", "open"} => sock[c] \in {"none", "open"}
  PROVE  CodeInv'
  BY DEF CodeInv, Whole, Streams

\* A connection that is forgotten while its socket closes.
LEMMA ForgetKeeps ==
  ASSUME CodeInv, Shapes, NEW c \in Conn, NEW s \in {"closed", "gone"},
         sock' = [sock EXCEPT ![c] = s], Forget(c)
  PROVE  CodeInv'
<1>1. /\ DOMAIN wire' = Conn /\ DOMAIN buffer' = Conn /\ DOMAIN texts' = Conn /\ DOMAIN spoken' = Conn
      /\ wire'[c] = <<>> /\ buffer'[c] = <<>> /\ texts'[c] = <<>> /\ spoken'[c] = 0
      /\ \A b \in Conn \ {c} : /\ wire'[b] = wire[b] /\ buffer'[b] = buffer[b] /\ texts'[b] = texts[b]
                               /\ spoken'[b] = spoken[b] /\ sock'[b] = sock[b]
  BY DEF Forget, CodeInv, Shapes
<1>2. sock'[c] \notin {"none", "open"}
  BY DEF Shapes
<1>3. Whole(c)'
  BY <1>1, <1>2, SilenceIsWhole DEF Whole
<1>4. ASSUME NEW b \in Conn \ {c} PROVE Whole(b)'
  BY <1>1 DEF CodeInv, Whole
<1> QED
  BY <1>1, <1>3, <1>4 DEF CodeInv

LEMMA StopKeeps == CodeInv /\ Stop => CodeInv'
<1> SUFFICES ASSUME CodeInv, Stop PROVE CodeInv'
  OBVIOUS
<1>1. \A c \in Conn : wire'[c] = <<>> /\ buffer'[c] = <<>> /\ texts'[c] = <<>> /\ spoken'[c] = 0
  BY DEF Stop
<1>2. DOMAIN wire' = Conn /\ DOMAIN buffer' = Conn /\ DOMAIN texts' = Conn /\ DOMAIN spoken' = Conn
  BY DEF Stop
<1>3. ASSUME NEW c \in Conn PROVE Whole(c)'
  BY <1>1, SilenceIsWhole, Zenon DEF Whole
<1> QED
  BY <1>2, <1>3 DEF CodeInv

\* A message joins the wire.
LEMMA SendingKeeps ==
  ASSUME CodeInv, NEW c \in Conn, NEW m \in Speech, CameraSends(c, m)
  PROVE  CodeInv'
<1> DEFINE k == IF m = "code" THEN 1 ELSE 0
<1>1. /\ wire' = [wire EXCEPT ![c] = wire[c] \o Message[m]] /\ spoken' = [spoken EXCEPT ![c] = spoken[c] + k]
      /\ buffer' = buffer /\ texts' = texts /\ sock' = sock /\ sock[c] = "open"
  BY DEF CameraSends
<1>2. Whole(c)
  BY DEF CodeInv
<1>3. /\ wire[c] \o Message[m] \in Seq(Byte) /\ Codes(wire[c] \o Message[m]) = Codes(wire[c]) + k
      /\ spoken[c] + k \in Nat /\ Codes(wire[c]) \in Nat /\ Codes(buffer[c]) \in Nat
      /\ TextCodes(texts[c]) \in Nat
  <2>1. /\ wire[c] \in Seq(Byte) /\ Message[m] \in Seq(Byte) /\ buffer[c] \in Seq(Byte) /\ spoken[c] \in Nat
        /\ IsFiniteSet(Marks(texts[c]))
    BY <1>2, MessageCodes DEF Whole
  <2>2. Codes(wire[c]) \in Nat /\ Codes(buffer[c]) \in Nat
    BY <2>1, PositionsCount DEF Codes
  <2>3. TextCodes(texts[c]) \in Nat
    BY <2>1, FS_CardinalityType DEF TextCodes, Marks
  <2> QED
    BY <2>1, <2>2, <2>3, CodesConcat, MessageCodes, ConcatProperties
<1> HIDE DEF k
<1>4. Whole(c)'
  <2>1. /\ wire'[c] = wire[c] \o Message[m] /\ spoken'[c] = spoken[c] + k
        /\ buffer'[c] = buffer[c] /\ texts'[c] = texts[c] /\ sock'[c] = "open"
    BY <1>1 DEF CodeInv
  <2>2. TextCodes(texts[c]) + Codes(buffer[c]) + (Codes(wire[c]) + k) = spoken[c] + k
    BY <1>1, <1>2, <1>3 DEF Whole, k
  <2> QED
    BY <1>2, <1>3, <2>1, <2>2 DEF Whole
<1>5. ASSUME NEW b \in Conn \ {c} PROVE Whole(b)'
  BY <1>1 DEF CodeInv, Whole
<1> QED
  BY <1>1, <1>4, <1>5 DEF CodeInv

\* A read moves what has arrived through the buffer; what the loop takes off it is passed on.
LEMMA ReadingKeeps ==
  ASSUME CodeInv, NEW c \in Conn, OnReadyRead(c)
  PROVE  CodeInv'
<1>1. PICK n \in 1..Len(wire[c]) :
        LET d == Drain[buffer[c] \o SubSeq(wire[c], 1, n)]
        IN /\ wire' = [wire EXCEPT ![c] = SubSeq(wire[c], n + 1, Len(wire[c]))]
           /\ buffer' = [buffer EXCEPT ![c] = d.rest]
           /\ texts' = [texts EXCEPT ![c] = texts[c] \o d.texts]
  BY DEF OnReadyRead
<1> DEFINE got == SubSeq(wire[c], 1, n)
           left == SubSeq(wire[c], n + 1, Len(wire[c]))
           d == Drain[buffer[c] \o got]
<1>2. spoken' = spoken /\ sock' = sock /\ sock[c] = "open"
  BY DEF OnReadyRead
<1>3. Whole(c)
  BY DEF CodeInv
<1>4. got \in Seq(Byte) /\ left \in Seq(Byte) /\ wire[c] = got \o left
  <2>1. wire[c] \in Seq(Byte) /\ n \in 0..Len(wire[c])
    BY <1>3 DEF Whole
  <2> QED
    BY <2>1, Cut
<1>5. /\ d \in Drained /\ IsFiniteSet(Marks(d.texts))
      /\ TextCodes(d.texts) + Codes(d.rest) = Codes(buffer[c] \o got)
  <2>1. buffer[c] \o got \in Seq(Byte)
    <3> HIDE DEF got
    <3> QED
      BY <1>3, <1>4, ConcatProperties DEF Whole
  <2> QED
    BY <2>1, DrainKeepsCodes DEF Kept
<1>6. wire' = [wire EXCEPT ![c] = left] /\ buffer' = [buffer EXCEPT ![c] = d.rest]
      /\ texts' = [texts EXCEPT ![c] = texts[c] \o d.texts]
  BY <1>1
<1> HIDE DEF got, left, d
<1>7. d.texts \in Seq(Seq(Byte)) /\ d.rest \in Seq(Byte)
  BY <1>5 DEF Drained
<1>8. /\ texts[c] \o d.texts \in Seq(Seq(Byte)) /\ IsFiniteSet(Marks(texts[c] \o d.texts))
      /\ TextCodes(texts[c] \o d.texts) = TextCodes(texts[c]) + TextCodes(d.texts)
  BY <1>3, <1>5, <1>7, MarksConcat, ConcatProperties DEF Whole
<1>9. Codes(wire[c]) = Codes(got) + Codes(left) /\ Codes(buffer[c] \o got) = Codes(buffer[c]) + Codes(got)
  BY <1>3, <1>4, CodesConcat DEF Whole
<1>10. /\ Codes(got) \in Nat /\ Codes(left) \in Nat /\ Codes(buffer[c]) \in Nat /\ Codes(d.rest) \in Nat
       /\ TextCodes(texts[c]) \in Nat /\ TextCodes(d.texts) \in Nat
  <2>1. Codes(got) \in Nat /\ Codes(left) \in Nat /\ Codes(buffer[c]) \in Nat /\ Codes(d.rest) \in Nat
    BY <1>3, <1>4, <1>7, PositionsCount DEF Codes, Whole
  <2>2. TextCodes(texts[c]) \in Nat /\ TextCodes(d.texts) \in Nat
    BY <1>3, <1>5, FS_CardinalityType DEF TextCodes, Marks, Whole
  <2> QED
    BY <2>1, <2>2
<1>11. TextCodes(texts[c] \o d.texts) + Codes(d.rest) + Codes(left) = spoken[c]
  BY <1>2, <1>3, <1>5, <1>8, <1>9, <1>10 DEF Whole
<1>12. Whole(c)'
  <2>1. /\ wire'[c] = left /\ buffer'[c] = d.rest /\ texts'[c] = texts[c] \o d.texts
        /\ spoken'[c] = spoken[c]
    BY <1>2, <1>6 DEF CodeInv
  <2> QED
    BY <1>3, <1>4, <1>7, <1>8, <1>11, <2>1 DEF Whole
<1>13. ASSUME NEW b \in Conn \ {c} PROVE Whole(b)'
  BY <1>2, <1>6 DEF CodeInv, Whole
<1> QED
  BY <1>2, <1>6, <1>12, <1>13 DEF CodeInv

\* One step per event of the loop: only those of a message touch the streams of a connection
\* that stays.
LEMMA CodeKept == CodeInv /\ Shapes /\ [Next]_vars => CodeInv'
<1> SUFFICES ASSUME CodeInv, Shapes, [Next]_vars PROVE CodeInv'
  OBVIOUS
<1>1. ASSUME UNCHANGED Streams, UNCHANGED sock PROVE CodeInv'
  BY <1>1, StreamsKeep
<1>2. CASE Start \/ RunPosted \/ OnHeartbeatTimeout
  BY <1>1, <1>2 DEF Start, RunPosted, OnHeartbeatTimeout, Streams
<1>3. CASE Stop
  BY <1>3, StopKeeps
<1>4. ASSUME NEW c \in Conn, OnNewConnection(c) \/ LosePeer(c) PROVE CodeInv'
  <2>1. UNCHANGED Streams
    BY <1>4 DEF OnNewConnection, LosePeer, Streams
  <2>2. \A b \in Conn : sock'[b] \in {"none", "open"} => sock[b] \in {"none", "open"}
    BY <1>4 DEF OnNewConnection, LosePeer, Shapes
  <2> QED
    BY <2>1, <2>2, StreamsKeep
<1>5. ASSUME NEW c \in Conn, Disconnected(c) \/ Delete(c) PROVE CodeInv'
  <2>1. Forget(c) /\ \E s \in {"closed", "gone"} : sock' = [sock EXCEPT ![c] = s]
    BY <1>5 DEF Disconnected, Delete
  <2> QED
    BY <2>1, ForgetKeeps
<1>6. ASSUME NEW c \in Conn, FallSilent(c) PROVE CodeInv'
  BY <1>1, <1>6 DEF FallSilent, Streams
<1>7. ASSUME NEW c \in Conn, OnReadyRead(c) PROVE CodeInv'
  BY <1>7, ReadingKeeps
<1>8. ASSUME NEW c \in Conn, NEW m \in Speech, CameraSends(c, m) PROVE CodeInv'
  BY <1>8, SendingKeeps
<1>9. CASE UNCHANGED vars \/ UNCHANGED tcpVars \/ UNCHANGED coreVars
  BY <1>1, <1>9 DEF vars, tcpVars, coreVars, Streams
<1> QED
  BY <1>2, <1>3, <1>4, <1>5, <1>6, <1>7, <1>8, <1>9 DEF Next, Loop

--------------------------------------------------------------------------------
LEMMA SessionInvariant == Spec => [](SessionInv /\ beating \subseteq Conn)
<1> DEFINE Inv == SessionInv /\ beating \subseteq Conn
<1>1. Init => Inv
  BY InitSession DEF Init
<1>2. Inv /\ [Next]_vars => Inv'
  BY SessionKept, BeatingKept
<1> QED
  BY <1>1, <1>2, PTL DEF Spec

\* The pointers in m_sessions are those of living sessions, however sessions replace, lose and
\* outlive each other (onNewConnection(), onSessionDisconnected(), onHeartbeatTimeout()).
THEOREM NoSessionDangles == Spec => []NoDanglingSession
<1>1. SessionInv => NoDanglingSession
  BY DEF SessionInv
<1> QED
  BY <1>1, SessionInvariant, PTL

\* While the server listens, the last thing queued for the controller about an address is true
\* of it. A session that ends late may drop the next one of its address, but never unreported
\* (cameraConnected(), cameraDisconnected()).
THEOREM ReportsAreSound == Spec => []ReportsAreTrue
<1>1. SessionInv => Shapes
  BY DEF SessionInv
<1>2. Init => ReportInv
  BY InitReports
<1>3. ReportInv /\ Shapes /\ [Next]_vars => ReportInv'
  BY ReportsKept
<1>4. ReportInv => ReportsAreTrue
  BY DEF ReportInv, Truthful, Latest, ReportsAreTrue, LatestOf, IsCameraConnected
<1> QED
  BY <1>1, <1>2, <1>3, <1>4, SessionInvariant, PTL DEF Spec

\* Between the wire and the state machine no code is lost, doubled or made up, however reads
\* cut the stream and whatever messages share a line (onReadyRead(), drainReceiveBuffer(),
\* processReceivedData()).
THEOREM CodesAreKept == Spec => []NoCodeLost
<1>1. SessionInv => Shapes
  BY DEF SessionInv
<1>2. Init => CodeInv
  BY InitWhole
<1>3. CodeInv /\ Shapes /\ [Next]_vars => CodeInv'
  BY CodeKept
<1>4. CodeInv => NoCodeLost
  BY DEF CodeInv, Whole, NoCodeLost
<1> QED
  BY <1>1, <1>2, <1>3, <1>4, SessionInvariant, PTL DEF Spec
================================================================================
