------------------------------- MODULE TfminiPlus -------------------------------
(* The TFmini range finder (TfminiPlusService, TfminiPlusWorker): frames from a     *)
(* serial port, cut anywhere, are found again by their two header bytes and their    *)
(* checksum.                                                                          *)
EXTENDS SensorService

CONSTANTS
  FrameSize,  \* kFrameSize
  MaxBuffer,  \* kMaxRxBufferBytes
  MaxFrame    \* bound: frames the sensor sends

ASSUME TfminiAssumption ==
  FrameSize \in Nat /\ FrameSize > 2 /\ MaxBuffer \in Nat /\ MaxBuffer >= FrameSize /\ MaxFrame \in Nat

\* The n-th frame, by its bytes: two headers, then what is the frame's own.  Frame 0 is the
\* one the port is opened in the middle of.
Header == MaxFrame + 1
Frame(n) == [i \in 1..FrameSize |-> IF i <= 2 THEN Header ELSE n]

VARIABLES
  port,      \* whether m_serialPort is there
  wire,      \* bytes sent and not read
  buffer,    \* m_buffer
  sent,      \* how many frames the sensor sent
  distances, \* the frames of distanceUpdated()
  trimmed    \* whether trimRxBuffer() ever threw bytes away

tfminiVars == <<port, wire, buffer, sent, distances, trimmed>>

TfminiInit ==
  /\ port = FALSE /\ wire = <<>> /\ buffer = <<>> /\ sent = 0
  /\ distances = <<>> /\ trimmed = FALSE

--------------------------------------------------------------------------------
\* The service's slots change nothing but what they pass on.
TfminiStateChanged == OnWorkerStateChanged /\ UNCHANGED tfminiVars
TfminiOpenFinished ==
  /\ Hears("open") /\ opened' = Head(posted).value
  /\ UNCHANGED <<kind, phase, state, inbox, worker, tfminiVars>>
TfminiStop == StopService /\ UNCHANGED tfminiVars

--------------------------------------------------------------------------------
TfminiUnchanged == UNCHANGED <<kind, phase, state, opened, worker>>

\* startWorker() on a port that opens, perhaps in the middle of a frame, or does not.
TfminiStartWorker ==
  /\ worker = "idle" /\ Takes("start") /\ buffer' = <<>>
  /\ \/ /\ Emit(<<StateIs("Opening"), OpenIs("no"), StateIs("Failed")>>)
        /\ UNCHANGED <<port, wire>>
     \/ /\ Emit(<<StateIs("Opening"), OpenIs("yes"), StateIs("Ready")>>)
        /\ port' = TRUE /\ \E n \in 0..(FrameSize - 1) : wire' = SubSeq(Frame(0), FrameSize - n + 1, FrameSize)
  /\ TfminiUnchanged /\ UNCHANGED <<sent, distances, trimmed>>

TfminiStopWorker ==
  /\ worker = "idle" /\ Takes("stop") /\ StopWorkerDone
  /\ Emit(IF port THEN <<StateIs("Stopped")>> ELSE <<>>)
  /\ port' = FALSE /\ buffer' = <<>> /\ wire' = <<>>
  /\ UNCHANGED <<worker, sent, distances, trimmed>>

\* onSerialError(): the port stays open; bound: the next error after this one was heard.
OnSerialError ==
  /\ worker = "idle" /\ port /\ posted = <<>> /\ state # "Failed" /\ Emit(<<StateIs("Failed")>>)
  /\ TfminiUnchanged /\ UNCHANGED <<inbox, tfminiVars>>

SensorSends ==
  /\ port /\ sent < MaxFrame /\ sent' = sent + 1 /\ wire' = wire \o Frame(sent + 1)
  /\ UNCHANGED <<serviceVars, port, buffer, distances, trimmed>>

\* parseBuffer(): to the first pair of headers, a frame or a byte taken off, and again.
Pairs(b) == {i \in 1..(Len(b) - 1) : b[i] = Header /\ b[i + 1] = Header}
FirstPair(b) == CHOOSE i \in Pairs(b) : \A j \in Pairs(b) : i <= j
From(b, i) == SubSeq(b, i, Len(b))
TryParseFrame(b) == \E n \in 0..MaxFrame : SubSeq(b, 1, FrameSize) = Frame(n)

Parse[b \in Seq(0..Header)] ==
  IF Len(b) < 2 THEN [frames |-> <<>>, rest |-> b]
  ELSE IF Pairs(b) = {} THEN [frames |-> <<>>, rest |-> <<>>]
  ELSE LET f == From(b, FirstPair(b))
       IN IF Len(f) < FrameSize THEN [frames |-> <<>>, rest |-> f]
          ELSE IF ~TryParseFrame(f) THEN Parse[From(f, 2)]
          ELSE LET more == Parse[From(f, FrameSize + 1)]
               IN [frames |-> <<f[FrameSize]>> \o more.frames, rest |-> more.rest]

TrimRxBuffer(b) == IF Len(b) > MaxBuffer THEN From(b, Len(b) - MaxBuffer + 1) ELSE b

\* Mutant: what follows the frames of a read is forgotten.
ReadForgetsRest ==
  /\ worker = "idle" /\ port /\ wire # <<>>
  /\ \E n \in 1..Len(wire) :
       LET got == buffer \o SubSeq(wire, 1, n)
           p == Parse[TrimRxBuffer(got)]
       IN /\ wire' = From(wire, n + 1)
          /\ buffer' = IF p.frames = <<>> THEN p.rest ELSE <<>>
          /\ distances' = distances \o p.frames /\ trimmed' = (trimmed \/ Len(got) > MaxBuffer)
  /\ TfminiUnchanged /\ UNCHANGED <<inbox, posted, port, sent>>

\* onReadyRead(): distanceUpdated() is only passed on.
OnReadyRead ==
  /\ worker = "idle" /\ port /\ wire # <<>>
  /\ \E n \in 1..Len(wire) :
       LET got == buffer \o SubSeq(wire, 1, n)
           p == Parse[TrimRxBuffer(got)]
       IN /\ wire' = From(wire, n + 1) /\ buffer' = p.rest
          /\ distances' = distances \o p.frames /\ trimmed' = (trimmed \/ Len(got) > MaxBuffer)
  /\ TfminiUnchanged /\ UNCHANGED <<inbox, posted, port, sent>>

TfminiMain == TfminiStateChanged \/ TfminiOpenFinished \/ TfminiStop
TfminiWorker == TfminiStartWorker \/ TfminiStopWorker \/ OnSerialError \/ SensorSends \/ OnReadyRead
TfminiNext == kind = "tfmini" /\ (TfminiMain \/ TfminiWorker)

--------------------------------------------------------------------------------
\* Properties.

\* However the reads cut the stream, and wherever in a frame it begins: no frame is read twice,
\* out of order or out of pieces of two; and once one frame was read, none after it is lost
\* unless the buffer overran (parseBuffer(), trimRxBuffer()).
Increasing(s) == \A i, j \in DOMAIN s : i < j => s[i] < s[j]
FramesKept ==
  /\ Increasing(distances) /\ \A i \in DOMAIN distances : distances[i] \in 1..sent
  /\ port /\ ~trimmed /\ distances # <<>> =>
       LET last == distances[Len(distances)]
       IN /\ last - distances[1] + 1 = Len(distances)
          /\ Len(buffer) + Len(wire) = (sent - last) * FrameSize
================================================================================
