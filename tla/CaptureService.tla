--------------------------- MODULE CaptureService ---------------------------
(* What requestCaptureBundle() promises the state machine: bundles are numbered *)
(* in the order of the requests, one is under way at a time, and a number that  *)
(* was refused, or finished before it was returned, is never under way.  The    *)
(* capture pipeline implements it, and the state machine's model assumes it.    *)
EXTENDS Naturals

VARIABLES
  current,  \* the number of the bundle under way, 0 if there is none
  next      \* m_nextRequestId

cvars == <<current, next>>

CInit == current = 0 /\ next = 1

Begin == current = 0 /\ current' = next /\ next' = next + 1

\* A number is used up and the pipeline is idle again (or still).
Skip == current = 0 /\ next' = next + 1 /\ UNCHANGED current

\* The bundle is delivered, or dropped by stop().
Finish == current # 0 /\ current' = 0 /\ UNCHANGED next

CNext == Begin \/ Skip \/ Finish

CSpec == CInit /\ [][CNext]_cvars
================================================================================
