------------------------------- MODULE Handshake -------------------------------
(* What the IPC promises a PLC that raises and lowers triggers: one trigger is  *)
(* served at a time, each is served at most once for each time it is raised,    *)
(* its answer stands until the PLC lowers it, and no answer outlives its        *)
(* trigger.  FlowControl implements it (plc_protocol.h documents it).           *)
CONSTANTS
  Trigger,    \* the triggers
  None,       \* no trigger
  Forceable,  \* those an IPC that waited long enough may release itself
  Faults      \* whether tasks may be aborted and the link lost

VARIABLES
  link,  \* whether the PLC is connected
  held,  \* the triggers held in the last command area read
  due,   \* those raised and not yet served, as far as the IPC remembers them
  job    \* the trigger being served, and whether it is answered

hvars == <<link, held, due, job>>

Idle == [trig |-> None, answered |-> FALSE]

HandshakeTypeOK ==
  /\ link \in BOOLEAN
  /\ held \subseteq Trigger /\ due \subseteq Trigger
  /\ job \in [trig : Trigger \cup {None}, answered : BOOLEAN]

HInit == link = FALSE /\ held = {} /\ due = {} /\ job = Idle

\* A lowered trigger releases the job that answered it.
Rest(H) == IF job.answered /\ job.trig \notin H THEN Idle ELSE job

Raised(H) == (due \cap H) \cup (H \ held)

\* A command area is read, and at most one raised trigger is taken up; the
\* answer may be there at once.
Frame(H) ==
  /\ link
  /\ held' = H
  /\ \/ job' = Rest(H) /\ due' \subseteq Raised(H)
     \/ /\ Rest(H) = Idle
        /\ \E t \in Raised(H), answered \in BOOLEAN :
             /\ job' = [trig |-> t, answered |-> answered]
             /\ due' \subseteq Raised(H) \ {t}
  /\ UNCHANGED link

\* The job is answered; if its trigger was lowered meanwhile it is released too.
Answer ==
  /\ job.trig # None /\ ~job.answered
  /\ job' = IF link /\ job.trig \in held THEN [job EXCEPT !.answered = TRUE] ELSE Idle
  /\ UNCHANGED <<link, held, due>>

ForcedRelease ==
  /\ job.answered /\ job.trig \in Forceable
  /\ job' = Idle
  /\ UNCHANGED <<link, held, due>>

\* A fault, or the operator, ends the job; or answers it in the job's place.
Abort ==
  /\ Faults
  /\ \/ job' = Idle /\ (held' = held \/ held' = {}) /\ due' \in {due, {}}
     \/ job.trig # None /\ job.trig \in held
          /\ job' = [job EXCEPT !.answered = TRUE] /\ UNCHANGED <<held, due>>
  /\ UNCHANGED link

\* A connection starts over; a stopped IPC does not notice it.
Connect ==
  /\ ~link /\ link' = TRUE
  /\ \/ held' = {} /\ due' = {} /\ job' = Idle
     \/ Faults /\ UNCHANGED <<held, due, job>>

Disconnect ==
  /\ Faults /\ link /\ link' = FALSE
  /\ job' \in {job, Idle}
  /\ UNCHANGED <<held, due>>

HNext ==
  \/ \E H \in SUBSET Trigger : Frame(H)
  \/ Answer
  \/ ForcedRelease
  \/ Abort
  \/ Connect
  \/ Disconnect

HSpec == HInit /\ [][HNext]_hvars

\* An answer is on display only while its trigger is held.
AnsweredHeld == job.answered => job.trig \in held
================================================================================
