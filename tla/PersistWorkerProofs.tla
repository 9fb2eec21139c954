------------------------- MODULE PersistWorkerProofs -------------------------
(* That the persist worker has one thread at most, loses no segment, and has      *)
(* written all of them when stop() returns: for any number of segments, of calls  *)
(* of stop() and start(), and of threads started one after the other.             *)
EXTENDS PersistWorker, TLAPS

\* A thread at work holds a segment.
HoldsJob ==
  \A t \in Thread : thread[t].pc \in {"write", "report"} => thread[t].job \in Job

\* m_workerRunning is true while a thread lives, and only until the next stop if
\* none does.
RunningIsLive ==
  /\ \A t \in Thread : Live(t) => running
  /\ running /\ ~stopping => \E t \in Thread : Live(t)

\* A queue that is not empty has a thread that has not left its loop.
QueueHasWorker ==
  /\ queue # <<>> => \E t \in Thread : Live(t)
  /\ \A t \in Thread : thread[t].pc = "leave" => stopping /\ queue = <<>>

\* The phases of stopAndJoin(): m_worker is taken over, and joined.
StopPhases ==
  /\ main.pc \in {"notifyAll", "join", "clear"} => stopping /\ handle = NoThread
  /\ main.pc = "clear" => \A t \in Thread : ~Live(t)
  /\ main.pc \in {"free", "notifyOne"} /\ stopping => \A t \in Thread : ~Live(t)

PInv ==
  /\ TypeOK
  /\ HoldsJob
  /\ OneWorker
  /\ RunningIsLive
  /\ QueueHasWorker
  /\ StopPhases
  /\ NothingLost

--------------------------------------------------------------------------------
\* Taking the head of a queue leaves the other elements in it.
LEMMA HeadAndTail ==
  ASSUME NEW S, NEW q \in Seq(S), q # <<>>
  PROVE  /\ Head(q) \in S
         /\ Tail(q) \in Seq(S)
         /\ \A i \in DOMAIN q : q[i] = Head(q) \/ \E k \in DOMAIN Tail(q) : Tail(q)[k] = q[i]
<1>1. Len(q) \in Nat /\ Len(q) > 0 /\ DOMAIN q = 1..Len(q)
  OBVIOUS
<1>2. Head(q) = q[1] /\ Tail(q) \in Seq(S) /\ Len(Tail(q)) = Len(q) - 1
  BY <1>1
<1>3. \A k \in 1..(Len(q) - 1) : Tail(q)[k] = q[k + 1]
  BY <1>1
<1>4. DOMAIN Tail(q) = 1..(Len(q) - 1)
  BY <1>2
<1>5. ASSUME NEW i \in DOMAIN q, i # 1
      PROVE  \E k \in DOMAIN Tail(q) : Tail(q)[k] = q[i]
  <2>1. i - 1 \in DOMAIN Tail(q)
    BY <1>1, <1>4, <1>5
  <2>2. Tail(q)[i - 1] = q[i]
    BY <1>1, <1>3, <1>4, <2>1
  <2> QED BY <2>1, <2>2
<1>6. Head(q) \in S
  BY <1>1, <1>2
<1> QED BY <1>1, <1>2, <1>5, <1>6

\* Appending keeps the elements and adds one.
LEMMA Appended ==
  ASSUME NEW S, NEW q \in Seq(S), NEW x \in S
  PROVE  /\ Append(q, x) \in Seq(S)
         /\ Append(q, x) # <<>>
         /\ \A i \in DOMAIN q : i \in DOMAIN Append(q, x) /\ Append(q, x)[i] = q[i]
         /\ \E i \in DOMAIN Append(q, x) : Append(q, x)[i] = x
<1>1. Len(q) \in Nat /\ DOMAIN q = 1..Len(q)
  OBVIOUS
<1>2. Append(q, x) \in Seq(S) /\ Len(Append(q, x)) = Len(q) + 1
  OBVIOUS
<1>3. DOMAIN Append(q, x) = 1..(Len(q) + 1)
  BY <1>2
<1>4. Append(q, x)[Len(q) + 1] = x /\ \A i \in 1..Len(q) : Append(q, x)[i] = q[i]
  BY <1>1
<1>5. Append(q, x) # <<>>
  BY <1>1, <1>2
<1> QED BY <1>1, <1>2, <1>3, <1>4, <1>5

--------------------------------------------------------------------------------
LEMMA PInvInit == Init => PInv
<1> SUFFICES ASSUME Init PROVE PInv
  OBVIOUS
<1>1. \A t \in Thread : thread[t] = [pc |-> "none", job |-> NoJob] /\ ~Live(t)
  BY DEF Init, Live
<1>2. thread \in [Thread -> [pc : WorkerPc, job : Job \cup {NoJob}]]
  BY DEF Init, WorkerPc
<1>3. next \in 1..(MaxJob + 1) /\ stops \in 0..MaxStop
  BY BoundAssumption DEF Init
<1>4. main \in [pc : MainPc, joins : Thread \cup {NoThread}, reopen : BOOLEAN]
  BY DEF Init, Free, MainPc
<1>5. queue \in Seq(Job) /\ written \in Seq(Job) /\ results \in Seq(Job) /\ reported \in Seq(Job)
  BY DEF Init
<1>6. TypeOK
  BY <1>2, <1>3, <1>4, <1>5 DEF Init, TypeOK
<1>7. \A j \in Job : ~(j < next)
  BY DEF Init, Job
<1>8. HoldsJob /\ OneWorker /\ RunningIsLive /\ NothingLost
  BY <1>1, <1>7 DEF Init, HoldsJob, OneWorker, RunningIsLive, NothingLost
<1>9. QueueHasWorker /\ StopPhases
  BY <1>1 DEF Init, Free, QueueHasWorker, StopPhases
<1> QED BY <1>6, <1>8, <1>9 DEF PInv

\* A segment of a stopped worker is done at once.
LEMMA EnqueueStoppedKeeps == PInv /\ EnqueueStopped => PInv'
<1> SUFFICES ASSUME PInv, EnqueueStopped PROVE PInv'
  OBVIOUS
<1> USE DEF PInv
<1>1. next \in Job /\ next' \in 1..(MaxJob + 1) /\ done' \subseteq Job
  BY BoundAssumption DEF EnqueueStopped, TypeOK, Job
<1>2. TypeOK'
  BY <1>1 DEF EnqueueStopped, TypeOK
<1>3. NothingLost'
  <2> SUFFICES ASSUME NEW j \in Job, j < next', j \notin done'
               PROVE  j \in (Queued \cup InHand)'
    BY DEF NothingLost
  <2>1. j < next /\ j \notin done
    BY BoundAssumption DEF EnqueueStopped, TypeOK, Job
  <2> QED BY <2>1 DEF EnqueueStopped, NothingLost, Queued, InHand
<1>4. (HoldsJob /\ OneWorker /\ RunningIsLive /\ QueueHasWorker /\ StopPhases)'
  BY DEF EnqueueStopped, HoldsJob, OneWorker, RunningIsLive, QueueHasWorker, StopPhases, Live
<1> QED BY <1>2, <1>3, <1>4

\* A thread is only started when none lives.
LEMMA EnqueueKeeps == PInv /\ Enqueue => PInv'
<1> SUFFICES ASSUME PInv, Enqueue PROVE PInv'
  OBVIOUS
<1> USE DEF PInv
<1>1. next \in Job /\ next' \in 1..(MaxJob + 1) /\ queue \in Seq(Job)
  BY BoundAssumption DEF Enqueue, TypeOK, Job
<1>2. /\ queue' \in Seq(Job) /\ queue' # <<>>
      /\ Queued \cup {next} \subseteq Queued'
  BY <1>1, Appended DEF Enqueue, Queued
<1>3. main.pc = "free" /\ main'.pc = "notifyOne" /\ ~stopping /\ ~stopping'
  BY DEF Enqueue, TypeOK, MainPc
<1>4. main' \in [pc : MainPc, joins : Thread \cup {NoThread}, reopen : BOOLEAN]
  BY DEF Enqueue, TypeOK, MainPc
<1>5. PICK t \in Thread : EnsureWorkerRunning(t)
  BY DEF Enqueue
<1>6. CASE running
  <2>1. UNCHANGED <<handle, running, thread, stopping, done>>
    BY <1>5, <1>6 DEF EnsureWorkerRunning, Enqueue
  <2>2. TypeOK'
    BY <1>1, <1>2, <1>4, <2>1 DEF TypeOK, Enqueue
  <2>3. (HoldsJob /\ OneWorker /\ RunningIsLive /\ StopPhases)'
    BY <1>3, <2>1 DEF HoldsJob, OneWorker, RunningIsLive, StopPhases, Live
  <2>4. QueueHasWorker'
    BY <1>3, <1>6, <2>1 DEF QueueHasWorker, RunningIsLive, Live
  <2>5. NothingLost'
    BY <1>1, <1>2, <2>1 DEF NothingLost, InHand, Enqueue, Job, TypeOK
  <2> QED BY <2>2, <2>3, <2>4, <2>5
<1>7. CASE ~running
  <2>1. /\ thread[t].pc = "none" /\ handle' = t /\ running' = TRUE
        /\ thread' = [thread EXCEPT ![t].pc = "check"]
        /\ stopping' = stopping /\ done' = done
    BY <1>5, <1>7 DEF EnsureWorkerRunning, Enqueue, Goes
  <2>2. \A u \in Thread : ~Live(u)
    BY <1>7 DEF RunningIsLive
  <2>3. thread' \in [Thread -> [pc : WorkerPc, job : Job \cup {NoJob}]]
    BY <2>1 DEF TypeOK, WorkerPc
  <2>4. /\ thread'[t].pc = "check"
        /\ \A u \in Thread : u # t => thread'[u] = thread[u]
    BY <2>1 DEF TypeOK
  <2>5. TypeOK'
    BY <1>1, <1>2, <1>4, <2>1, <2>3 DEF TypeOK, Enqueue
  <2>6. HoldsJob'
    BY <2>4 DEF HoldsJob
  <2>7. OneWorker'
    BY <2>1, <2>2, <2>4 DEF OneWorker, Live
  <2>8. (RunningIsLive /\ QueueHasWorker)'
    BY <1>3, <2>1, <2>2, <2>4 DEF RunningIsLive, QueueHasWorker, Live
  <2>9. StopPhases'
    BY <1>3 DEF StopPhases
  <2>10. InHand' = InHand
    BY <2>1, <2>4 DEF InHand
  <2>11. NothingLost'
    BY <1>1, <1>2, <2>1, <2>10 DEF NothingLost, Enqueue, Job, TypeOK
  <2> QED BY <2>5, <2>6, <2>7, <2>8, <2>9, <2>11
<1> QED BY <1>6, <1>7

--------------------------------------------------------------------------------
\* Waking threads, and arrivals, change neither the queue nor who lives.
LEMMA WakeupsKeep ==
  ASSUME PInv, UNCHANGED <<queue, stopping, running, handle, next, done>>,
         thread' \in [Thread -> [pc : WorkerPc, job : Job \cup {NoJob}]],
         \A t \in Thread : \/ thread'[t] = thread[t]
                           \/ thread[t].pc = "asleep" /\ thread'[t].pc = "check"
                           \/ thread[t].pc = "check" /\ thread'[t].pc = "asleep"
  PROVE  (HoldsJob /\ RunningIsLive /\ QueueHasWorker /\ NothingLost)' /\ \A t \in Thread : Live(t)' <=> Live(t)
<1>1. \A t \in Thread : Live(t)' <=> Live(t)
  BY DEF Live
<1>2. (HoldsJob /\ RunningIsLive /\ QueueHasWorker)'
  BY <1>1 DEF PInv, HoldsJob, RunningIsLive, QueueHasWorker
<1>3. InHand' = InHand
  BY DEF InHand
<1>4. NothingLost'
  BY <1>3 DEF PInv, NothingLost, Queued
<1> QED BY <1>1, <1>2, <1>4

LEMMA NotifyOneKeeps == PInv /\ NotifyOne => PInv'
<1> SUFFICES ASSUME PInv, NotifyOne PROVE PInv'
  OBVIOUS
<1>1. /\ thread' \in [Thread -> [pc : WorkerPc, job : Job \cup {NoJob}]]
      /\ \A t \in Thread : \/ thread'[t] = thread[t]
                           \/ thread[t].pc = "asleep" /\ thread'[t].pc = "check"
  <2>1. thread \in [Thread -> [pc : WorkerPc, job : Job \cup {NoJob}]]
    BY DEF PInv, TypeOK
  <2>2. CASE UNCHANGED thread
    BY <2>1, <2>2
  <2>3. CASE ~UNCHANGED thread
    <3>1. PICK t \in Thread :
            thread[t].pc = "asleep" /\ thread' = [thread EXCEPT ![t].pc = "check"]
      BY <2>3 DEF NotifyOne, Goes
    <3> QED BY <2>1, <3>1 DEF WorkerPc
  <2> QED BY <2>2, <2>3
<1>2. UNCHANGED <<queue, stopping, running, handle, next, done>>
  BY DEF NotifyOne
<1>3. (HoldsJob /\ RunningIsLive /\ QueueHasWorker /\ NothingLost)' /\ \A t \in Thread : Live(t)' <=> Live(t)
  BY <1>1, <1>2, WakeupsKeep
<1>4. main.pc = "notifyOne" /\ main' = Free
  BY DEF NotifyOne
<1>5. TypeOK'
  BY <1>1, <1>4 DEF PInv, TypeOK, NotifyOne, Free, MainPc
<1>6. (OneWorker /\ StopPhases)'
  BY <1>2, <1>3, <1>4 DEF PInv, OneWorker, StopPhases, Free
<1> QED BY <1>3, <1>5, <1>6 DEF PInv

LEMMA NotifyAllKeeps == PInv /\ NotifyAll => PInv'
<1> SUFFICES ASSUME PInv, NotifyAll PROVE PInv'
  OBVIOUS
<1>1. /\ thread' \in [Thread -> [pc : WorkerPc, job : Job \cup {NoJob}]]
      /\ \A t \in Thread : \/ thread'[t] = thread[t]
                           \/ thread[t].pc = "asleep" /\ thread'[t].pc = "check"
  BY DEF PInv, NotifyAll, TypeOK, WorkerPc
<1>2. UNCHANGED <<queue, stopping, running, handle, next, done>>
  BY DEF NotifyAll
<1>3. (HoldsJob /\ RunningIsLive /\ QueueHasWorker /\ NothingLost)' /\ \A t \in Thread : Live(t)' <=> Live(t)
  BY <1>1, <1>2, WakeupsKeep
<1>4. main.pc = "notifyAll" /\ main' = [main EXCEPT !.pc = "join"]
  BY DEF NotifyAll
<1>5. TypeOK'
  BY <1>1, <1>4 DEF PInv, TypeOK, NotifyAll, MainPc
<1>6. main'.pc = "join" /\ main'.joins = main.joins
  BY <1>4 DEF PInv, TypeOK
<1>7. (OneWorker /\ StopPhases)'
  BY <1>2, <1>3, <1>4, <1>6 DEF PInv, OneWorker, StopPhases
<1> QED BY <1>3, <1>5, <1>7 DEF PInv

--------------------------------------------------------------------------------
\* stopAndJoin().
LEMMA StopWorkerKeeps ==
  ASSUME PInv, NEW reopen \in BOOLEAN, StopWorker(reopen) PROVE PInv'
<1>1. UNCHANGED <<queue, running, thread, next, done, written, results, reported>>
  BY DEF StopWorker
<1>2. /\ main.pc = "free" /\ stopping' = TRUE /\ handle' = NoThread
      /\ main' = [pc |-> "notifyAll", joins |-> handle, reopen |-> reopen]
  BY DEF StopWorker
<1>3. TypeOK'
  BY <1>1, <1>2, BoundAssumption DEF PInv, TypeOK, StopWorker, MainPc
<1>4. (HoldsJob /\ RunningIsLive /\ QueueHasWorker /\ NothingLost)'
  BY <1>1, <1>2 DEF PInv, HoldsJob, RunningIsLive, QueueHasWorker, NothingLost, Queued, InHand, Live
<1>5. (OneWorker /\ StopPhases)'
  BY <1>1, <1>2 DEF PInv, OneWorker, StopPhases, Live
<1> QED BY <1>3, <1>4, <1>5 DEF PInv

\* The only thread that can live is the one that is joined.
LEMMA JoinKeeps == PInv /\ Join => PInv'
<1> SUFFICES ASSUME PInv, Join PROVE PInv'
  OBVIOUS
<1>1. UNCHANGED <<queue, stopping, running, handle, thread, next, done>>
  BY DEF Join
<1>2. main.pc = "join" /\ main'.pc = "clear" /\ stopping /\ handle = NoThread
  BY DEF PInv, Join, StopPhases, TypeOK
<1>3. \A t \in Thread : ~Live(t)
  BY <1>2 DEF PInv, Join, OneWorker, Live, Thread, NoThread
<1>4. TypeOK'
  BY DEF PInv, TypeOK, Join, MainPc
<1>5. (HoldsJob /\ RunningIsLive /\ QueueHasWorker /\ NothingLost)'
  BY <1>1 DEF PInv, HoldsJob, RunningIsLive, QueueHasWorker, NothingLost, Queued, InHand, Live
<1>6. (OneWorker /\ StopPhases)'
  BY <1>1, <1>2, <1>3 DEF OneWorker, StopPhases, Live
<1> QED BY <1>4, <1>5, <1>6 DEF PInv

\* Without a thread the queue is empty already: clearing it loses nothing.
LEMMA ClearKeeps == PInv /\ Clear => PInv'
<1> SUFFICES ASSUME PInv, Clear PROVE PInv'
  OBVIOUS
<1>1. \A t \in Thread : ~Live(t)
  BY DEF PInv, Clear, StopPhases
<1>2. queue = <<>> /\ UNCHANGED <<queue, thread, handle, next, done>>
  BY <1>1 DEF PInv, QueueHasWorker, Clear
<1>3. running' = FALSE /\ main' = Free
  BY DEF Clear
<1>4. stopping' \in BOOLEAN
  BY DEF Clear, PInv, TypeOK
<1>5. TypeOK'
  <2>1. main' \in [pc : MainPc, joins : Thread \cup {NoThread}, reopen : BOOLEAN]
    BY <1>3 DEF Free, MainPc
  <2>2. UNCHANGED <<accept, stops, written, results, reported>>
    BY DEF Clear
  <2> QED BY <1>2, <1>3, <1>4, <2>1, <2>2 DEF PInv, TypeOK
<1>6. (HoldsJob /\ NothingLost)'
  BY <1>2 DEF PInv, HoldsJob, NothingLost, Queued, InHand
<1>7. \A t \in Thread : ~Live(t)' /\ thread'[t].pc # "leave"
  BY <1>1, <1>2 DEF Live
<1>8. (OneWorker /\ RunningIsLive /\ QueueHasWorker /\ StopPhases)'
  BY <1>2, <1>3, <1>7 DEF OneWorker, RunningIsLive, QueueHasWorker, StopPhases, Free
<1> QED BY <1>5, <1>6, <1>8 DEF PInv

LEMMA ResultArrivesKeeps == PInv /\ ResultArrives => PInv'
<1> SUFFICES ASSUME PInv, ResultArrives PROVE PInv'
  OBVIOUS
<1>1. results \in Seq(Job) /\ results # <<>> /\ reported \in Seq(Job)
  BY DEF PInv, TypeOK, ResultArrives
<1>2. results' \in Seq(Job) /\ reported' \in Seq(Job)
  BY <1>1, HeadAndTail, Appended DEF ResultArrives
<1>3. UNCHANGED <<queue, stopping, running, handle, thread, main, accept, next, stops, done, written>>
  BY DEF ResultArrives
<1>4. TypeOK'
  BY <1>2, <1>3 DEF PInv, TypeOK
<1>5. (HoldsJob /\ OneWorker /\ RunningIsLive /\ QueueHasWorker /\ StopPhases /\ NothingLost)'
  BY <1>3 DEF PInv, HoldsJob, OneWorker, RunningIsLive, QueueHasWorker, StopPhases, NothingLost,
              Queued, InHand, Live
<1> QED BY <1>4, <1>5 DEF PInv

--------------------------------------------------------------------------------
\* The worker.

\* A step of one thread moves that thread only.
LEMMA Moved ==
  ASSUME TypeOK, NEW t \in Thread, NEW pc \in WorkerPc, Goes(t, pc)
  PROVE  /\ thread' \in [Thread -> [pc : WorkerPc, job : Job \cup {NoJob}]]
         /\ thread'[t].pc = pc /\ thread'[t].job = thread[t].job
         /\ \A u \in Thread : u # t => thread'[u] = thread[u]
BY DEF TypeOK, Goes

LEMMA LeaveLoopKeeps == ASSUME PInv, NEW t \in Thread, LeaveLoop(t) PROVE PInv'
<1>1. thread[t].pc = "check" /\ stopping /\ queue = <<>> /\ Goes(t, "leave")
  BY DEF LeaveLoop
<1>2. UNCHANGED <<queue, stopping, running, handle, main, accept, next, stops,
                  done, written, results, reported>>
  BY DEF LeaveLoop
<1>3. /\ thread' \in [Thread -> [pc : WorkerPc, job : Job \cup {NoJob}]]
      /\ thread'[t].pc = "leave"
      /\ \A u \in Thread : u # t => thread'[u] = thread[u]
  BY <1>1, Moved DEF PInv, WorkerPc
<1>4. \A u \in Thread : Live(u)' <=> Live(u)
  BY <1>1, <1>3 DEF Live
<1>5. TypeOK'
  BY <1>2, <1>3 DEF PInv, TypeOK
<1>6. (HoldsJob /\ OneWorker /\ RunningIsLive /\ StopPhases)'
  BY <1>2, <1>3, <1>4 DEF PInv, HoldsJob, OneWorker, RunningIsLive, StopPhases
<1>7. QueueHasWorker'
  BY <1>1, <1>2 DEF QueueHasWorker
<1>8. InHand' = InHand
  BY <1>1, <1>3 DEF InHand
<1>9. NothingLost'
  BY <1>2, <1>8 DEF PInv, NothingLost, Queued
<1> QED BY <1>5, <1>6, <1>7, <1>9 DEF PInv

\* The segment goes from the queue into the thread's hands.
LEMMA TakeJobKeeps == ASSUME PInv, NEW t \in Thread, TakeJob(t) PROVE PInv'
<1>1. /\ thread[t].pc = "check" /\ queue # <<>> /\ queue' = Tail(queue)
      /\ thread' = [thread EXCEPT ![t] = [pc |-> "write", job |-> Head(queue)]]
  BY DEF TakeJob
<1>2. UNCHANGED <<stopping, running, handle, main, accept, next, stops,
                  done, written, results, reported>>
  BY DEF TakeJob
<1>3. /\ Head(queue) \in Job /\ queue' \in Seq(Job)
      /\ \A i \in DOMAIN queue : queue[i] = Head(queue) \/ queue[i] \in Queued'
  BY <1>1, HeadAndTail DEF PInv, TypeOK, Queued
<1>4. /\ thread' \in [Thread -> [pc : WorkerPc, job : Job \cup {NoJob}]]
      /\ thread'[t] = [pc |-> "write", job |-> Head(queue)]
      /\ \A u \in Thread : u # t => thread'[u] = thread[u]
  BY <1>1, <1>3 DEF PInv, TypeOK, WorkerPc
<1>5. \A u \in Thread : Live(u)' <=> Live(u)
  BY <1>1, <1>4 DEF Live
<1>6. Live(t) /\ Live(t)'
  BY <1>1, <1>5 DEF Live
<1>7. TypeOK'
  BY <1>2, <1>3, <1>4 DEF PInv, TypeOK
<1>8. (HoldsJob /\ OneWorker /\ RunningIsLive /\ StopPhases)'
  BY <1>2, <1>3, <1>4, <1>5 DEF PInv, HoldsJob, OneWorker, RunningIsLive, StopPhases
<1>9. QueueHasWorker'
  BY <1>1, <1>4, <1>6 DEF PInv, QueueHasWorker, OneWorker, Live
<1>10. InHand \cup {Head(queue)} \subseteq InHand'
  BY <1>1, <1>4 DEF InHand
<1>11. Queued \subseteq Queued' \cup {Head(queue)}
  BY <1>3 DEF Queued
<1>12. NothingLost'
  BY <1>2, <1>10, <1>11 DEF PInv, NothingLost
<1> QED BY <1>7, <1>8, <1>9, <1>12 DEF PInv

LEMMA SleepKeeps ==
  ASSUME PInv, NEW t \in Thread, Sleep(t) \/ SpuriousWakeup(t) PROVE PInv'
<1>1. UNCHANGED <<queue, stopping, running, handle, main, accept, next, stops,
                  done, written, results, reported>>
  BY DEF Sleep, SpuriousWakeup
<1>2. \/ thread[t].pc = "check" /\ Goes(t, "asleep")
      \/ thread[t].pc = "asleep" /\ Goes(t, "check")
  BY DEF Sleep, SpuriousWakeup
<1>3. /\ thread' \in [Thread -> [pc : WorkerPc, job : Job \cup {NoJob}]]
      /\ \A u \in Thread : \/ thread'[u] = thread[u]
                           \/ thread[u].pc = "asleep" /\ thread'[u].pc = "check"
                           \/ thread[u].pc = "check" /\ thread'[u].pc = "asleep"
  BY <1>2, Moved DEF PInv, WorkerPc
<1>4. (HoldsJob /\ RunningIsLive /\ QueueHasWorker /\ NothingLost)' /\ \A u \in Thread : Live(u)' <=> Live(u)
  BY <1>1, <1>3, WakeupsKeep
<1>5. (TypeOK /\ OneWorker /\ StopPhases)'
  BY <1>1, <1>3, <1>4 DEF PInv, TypeOK, OneWorker, StopPhases
<1> QED BY <1>4, <1>5 DEF PInv

\* The segment leaves the thread's hands with its completion set.
LEMMA WriteSegmentKeeps == ASSUME PInv, NEW t \in Thread, WriteSegment(t) PROVE PInv'
<1>1. /\ thread[t].pc = "write" /\ Goes(t, "report")
      /\ written' = Append(written, thread[t].job) /\ done' = done \cup {thread[t].job}
  BY DEF WriteSegment
<1>2. UNCHANGED <<queue, stopping, running, handle, main, accept, next, stops, results, reported>>
  BY DEF WriteSegment
<1>3. thread[t].job \in Job
  BY <1>1 DEF PInv, HoldsJob
<1>4. /\ thread' \in [Thread -> [pc : WorkerPc, job : Job \cup {NoJob}]]
      /\ thread'[t].pc = "report" /\ thread'[t].job = thread[t].job
      /\ \A u \in Thread : u # t => thread'[u] = thread[u]
  BY <1>1, Moved DEF PInv, WorkerPc
<1>5. written' \in Seq(Job)
  BY <1>1, <1>3, Appended DEF PInv, TypeOK
<1>6. \A u \in Thread : Live(u)' <=> Live(u)
  BY <1>1, <1>4 DEF Live
<1>7. TypeOK'
  BY <1>1, <1>2, <1>3, <1>4, <1>5 DEF PInv, TypeOK
<1>8. (HoldsJob /\ OneWorker /\ RunningIsLive /\ QueueHasWorker /\ StopPhases)'
  BY <1>2, <1>3, <1>4, <1>6 DEF PInv, HoldsJob, OneWorker, RunningIsLive, QueueHasWorker, StopPhases
<1>9. InHand \subseteq InHand' \cup {thread[t].job}
  BY <1>4 DEF InHand
<1>10. NothingLost'
  BY <1>1, <1>2, <1>9 DEF PInv, NothingLost, Queued
<1> QED BY <1>7, <1>8, <1>10 DEF PInv

LEMMA PostResultKeeps == ASSUME PInv, NEW t \in Thread, PostResult(t) PROVE PInv'
<1>1. /\ thread[t].pc = "report" /\ results' = Append(results, thread[t].job)
      /\ thread' = [thread EXCEPT ![t] = [pc |-> "check", job |-> NoJob]]
  BY DEF PostResult
<1>2. UNCHANGED <<queue, stopping, running, handle, main, accept, next, stops, done, written, reported>>
  BY DEF PostResult
<1>3. thread[t].job \in Job
  BY <1>1 DEF PInv, HoldsJob
<1>4. /\ thread' \in [Thread -> [pc : WorkerPc, job : Job \cup {NoJob}]]
      /\ thread'[t] = [pc |-> "check", job |-> NoJob]
      /\ \A u \in Thread : u # t => thread'[u] = thread[u]
  BY <1>1 DEF PInv, TypeOK, WorkerPc
<1>5. results' \in Seq(Job)
  BY <1>1, <1>3, Appended DEF PInv, TypeOK
<1>6. \A u \in Thread : Live(u)' <=> Live(u)
  BY <1>1, <1>4 DEF Live
<1>7. TypeOK'
  BY <1>2, <1>4, <1>5 DEF PInv, TypeOK
<1>8. (HoldsJob /\ OneWorker /\ RunningIsLive /\ QueueHasWorker /\ StopPhases)'
  BY <1>2, <1>4, <1>6 DEF PInv, HoldsJob, OneWorker, RunningIsLive, QueueHasWorker, StopPhases
<1>9. InHand' = InHand
  BY <1>1, <1>4 DEF InHand
<1>10. NothingLost'
  BY <1>2, <1>9 DEF PInv, NothingLost, Queued
<1> QED BY <1>7, <1>8, <1>10 DEF PInv

\* A thread ends with an empty queue, and was the only one.
LEMMA EndThreadKeeps == ASSUME PInv, NEW t \in Thread, EndThread(t) PROVE PInv'
<1>1. thread[t].pc = "leave" /\ running' = FALSE /\ Goes(t, "ended")
  BY DEF EndThread
<1>2. UNCHANGED <<queue, stopping, handle, main, accept, next, stops, done, written, results, reported>>
  BY DEF EndThread
<1>3. queue = <<>> /\ Live(t)
  BY <1>1 DEF PInv, QueueHasWorker, Live
<1>4. /\ thread' \in [Thread -> [pc : WorkerPc, job : Job \cup {NoJob}]]
      /\ thread'[t].pc = "ended"
      /\ \A u \in Thread : u # t => thread'[u] = thread[u]
  BY <1>1, Moved DEF PInv, WorkerPc
<1>5. \A u \in Thread : ~Live(u)'
  BY <1>3, <1>4 DEF PInv, OneWorker, Live
<1>6. TypeOK'
  BY <1>1, <1>2, <1>4 DEF PInv, TypeOK
<1>7. (OneWorker /\ RunningIsLive /\ StopPhases)'
  BY <1>1, <1>2, <1>5 DEF PInv, OneWorker, RunningIsLive, StopPhases
<1>8. (HoldsJob /\ QueueHasWorker)'
  BY <1>2, <1>3, <1>4 DEF PInv, HoldsJob, QueueHasWorker
<1>9. InHand' = InHand
  BY <1>1, <1>4 DEF InHand
<1>10. NothingLost'
  BY <1>2, <1>9 DEF PInv, NothingLost, Queued
<1> QED BY <1>6, <1>7, <1>8, <1>10 DEF PInv

--------------------------------------------------------------------------------
\* Every step keeps the invariant.
LEMMA PInvStep == PInv /\ [Next]_vars => PInv'
<1> SUFFICES ASSUME PInv, [Next]_vars PROVE PInv'
  OBVIOUS
<1>1. CASE EnqueueStopped
  BY <1>1, EnqueueStoppedKeeps
<1>2. CASE Enqueue
  BY <1>2, EnqueueKeeps
<1>3. CASE \E reopen \in BOOLEAN : StopWorker(reopen)
  BY <1>3, StopWorkerKeeps
<1>4. CASE MainStep
  BY <1>4, NotifyOneKeeps, NotifyAllKeeps, JoinKeeps, ClearKeeps, ResultArrivesKeeps DEF MainStep
<1>5. ASSUME NEW t \in Thread, WorkerLoop(t) \/ SpuriousWakeup(t) PROVE PInv'
  BY <1>5, LeaveLoopKeeps, TakeJobKeeps, SleepKeeps, WriteSegmentKeeps, PostResultKeeps,
     EndThreadKeeps DEF WorkerLoop
<1>6. CASE UNCHANGED vars
  BY <1>6 DEF vars, PInv, TypeOK, HoldsJob, OneWorker, RunningIsLive, QueueHasWorker, StopPhases,
              NothingLost, Queued, InHand, Live
<1> QED BY <1>1, <1>2, <1>3, <1>4, <1>5, <1>6 DEF Next

\* The invariant of the worker, its queue and stopAndJoin() holds in every reachable
\* state: m_workerRunning tells whether a thread lives, a queue that is not empty has
\* one, and a stopped worker has none.
THEOREM WorkerInvariance == Spec => []PInv
BY PInvInit, PInvStep, PTL DEF Spec

\* The variables of the worker have their types.
THEOREM WorkerTypes == Spec => []TypeOK
<1>1. PInv => TypeOK
  BY DEF PInv
<1> QED BY <1>1, WorkerInvariance, PTL

\* At most one thread ever works, and m_worker is never assigned over a thread that
\* has not been joined.
THEOREM AtMostOneWorker == Spec => []OneWorker
<1>1. PInv => OneWorker
  BY DEF PInv
<1> QED BY <1>1, WorkerInvariance, PTL

\* No segment handed over is lost, whenever the worker is stopped and restarted.
THEOREM NoSegmentLost == Spec => []NothingLost
<1>1. PInv => NothingLost
  BY DEF PInv
<1> QED BY <1>1, WorkerInvariance, PTL

\* When stop() has returned every segment is on disk and no thread is left.
THEOREM StopLeavesNothing == Spec => []StopDrains
<1>1. PInv => StopDrains
  <2> SUFFICES ASSUME PInv, main.pc = "free", stopping
               PROVE  (\A t \in Thread : ~Live(t)) /\ \A j \in Job : j < next => j \in done
    BY DEF StopDrains
  <2>1. \A t \in Thread : ~Live(t)
    BY DEF PInv, StopPhases
  <2>2. queue = <<>>
    BY <2>1 DEF PInv, QueueHasWorker
  <2>3. Queued = {} /\ InHand = {}
    BY <2>1, <2>2 DEF Queued, InHand, Live
  <2> QED BY <2>1, <2>3 DEF PInv, NothingLost
<1> QED BY <1>1, WorkerInvariance, PTL
================================================================================
