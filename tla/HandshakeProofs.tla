---------------------------- MODULE HandshakeProofs ----------------------------
(* The two facts a PLC programmer uses of the handshake, for any set of         *)
(* triggers.                                                                    *)
EXTENDS Handshake, TLAPS

JobType == job \in [trig : Trigger \cup {None}, answered : BOOLEAN]
EdgesType == held \subseteq Trigger /\ due \subseteq Trigger

LEMMA IdleType == Idle \in [trig : Trigger \cup {None}, answered : BOOLEAN]
BY DEF Idle

LEMMA LinkTyped == ASSUME link \in BOOLEAN, [HNext]_hvars PROVE link' \in BOOLEAN
<1>1. link' = link \/ link' = TRUE \/ link' = FALSE
  BY Zenon DEF HNext, hvars, Frame, Answer, ForcedRelease, Abort, Connect, Disconnect
<1> QED
  BY <1>1, Zenon

LEMMA EdgesTyped == ASSUME EdgesType, [HNext]_hvars PROVE EdgesType'
<1>1. ASSUME NEW H \in SUBSET Trigger, Frame(H) PROVE EdgesType'
  BY <1>1 DEF Frame, Raised, EdgesType
<1>2. CASE Answer \/ ForcedRelease \/ Disconnect \/ UNCHANGED hvars
  BY <1>2 DEF Answer, ForcedRelease, Disconnect, hvars, EdgesType
<1>3. CASE Abort \/ Connect
  BY <1>3 DEF Abort, Connect, EdgesType
<1> QED
  BY <1>1, <1>2, <1>3 DEF HNext

LEMMA JobTyped == ASSUME JobType, EdgesType, [HNext]_hvars PROVE JobType'
<1> USE DEF JobType
<1>1. ASSUME NEW H \in SUBSET Trigger, Frame(H) PROVE JobType'
  <2>1. Rest(H) \in {Idle, job} /\ Raised(H) \subseteq Trigger
    BY DEF Rest, Raised
  <2>2. CASE job' = Rest(H)
    BY <2>1, <2>2, IdleType
  <2>3. CASE \E t \in Raised(H), answered \in BOOLEAN :
               job' = [trig |-> t, answered |-> answered]
    BY <2>1, <2>3
  <2> QED
    BY <1>1, <2>2, <2>3 DEF Frame
<1>2. ASSUME job' \in {Idle, job, [job EXCEPT !.answered = TRUE]} PROVE JobType'
  BY <1>2, IdleType
<1>3. CASE Answer \/ ForcedRelease \/ Abort \/ Connect \/ Disconnect \/ UNCHANGED hvars
  <2>1. job' \in {Idle, job, [job EXCEPT !.answered = TRUE]}
    BY <1>3 DEF Answer, ForcedRelease, Abort, Connect, Disconnect, hvars
  <2> QED
    BY <1>2, <2>1
<1> QED
  BY <1>1, <1>3 DEF HNext

\* The members of the handshake have their types: no step of Handshake takes up
\* a trigger that does not exist.
THEOREM HandshakeTypes == HSpec => []HandshakeTypeOK
<1>1. HInit => HandshakeTypeOK
  <2> SUFFICES ASSUME HInit PROVE HandshakeTypeOK
    OBVIOUS
  <2>1. link \in BOOLEAN
    BY Zenon DEF HInit
  <2>2. held \subseteq Trigger /\ due \subseteq Trigger /\ job = Idle
    BY DEF HInit
  <2> QED
    BY <2>1, <2>2, IdleType, Zenon DEF HandshakeTypeOK
<1>2. HandshakeTypeOK /\ [HNext]_hvars => HandshakeTypeOK'
  BY LinkTyped, EdgesTyped, JobTyped, Zenon DEF HandshakeTypeOK, EdgesType, JobType
<1> QED
  BY <1>1, <1>2, PTL DEF HSpec

\* An answer is on display only while its trigger is held, whatever faults and
\* reconnections do.
THEOREM AnsweredIsHeld == HSpec => []AnsweredHeld
<1>1. HInit => AnsweredHeld
  BY DEF HInit, AnsweredHeld, Idle
<1>2. AnsweredHeld /\ HandshakeTypeOK /\ [HNext]_hvars => AnsweredHeld'
  <2> SUFFICES ASSUME AnsweredHeld, HandshakeTypeOK, [HNext]_hvars PROVE AnsweredHeld'
    OBVIOUS
  <2>0. JobType
    BY DEF HandshakeTypeOK, JobType
  <2> USE <2>0 DEF AnsweredHeld, JobType, Idle
  <2>1. ASSUME NEW H \in SUBSET Trigger, Frame(H) PROVE AnsweredHeld'
    BY <2>1 DEF Frame, Rest, Raised
  <2>2. CASE Answer
    BY <2>2 DEF Answer
  <2>3. CASE ForcedRelease
    BY <2>3 DEF ForcedRelease
  <2>4. CASE Abort
    BY <2>4 DEF Abort
  <2>5. CASE Connect
    BY <2>5 DEF Connect
  <2>6. CASE Disconnect
    BY <2>6 DEF Disconnect
  <2>7. CASE UNCHANGED hvars
    BY <2>7 DEF hvars
  <2> QED
    BY <2>1, <2>2, <2>3, <2>4, <2>5, <2>6, <2>7 DEF HNext
<1> QED
  BY HandshakeTypes, <1>1, <1>2, PTL DEF HSpec
================================================================================
