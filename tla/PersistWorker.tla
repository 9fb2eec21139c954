---------------------------- MODULE PersistWorker ----------------------------
(* ScanSegmentPersistWorker: the main thread hands scan segments to a thread that *)
(* writes them to disk, stops it and starts it again.  A step is one critical     *)
(* section of m_mutex, or what a thread does between two of them.                 *)
(*                                                                                *)
(* The capture workers of the CoaXPress cameras and the pose worker of the vision *)
(* pipeline are built in the same way.                                            *)
EXTENDS Naturals, Sequences, FiniteSets

CONSTANTS
  MaxJob,  \* bound: segments handed over
  MaxStop  \* bound: calls of stop() and start() of the state machine

ASSUME BoundAssumption == MaxJob \in Nat /\ MaxStop \in Nat

VARIABLES
  queue,     \* m_queue
  stopping,  \* m_stopping
  running,   \* m_workerRunning
  handle,    \* m_worker: the thread it names, or NoThread
  thread,    \* the threads: where each is in workerLoop(), and with which job
  main,      \* the main thread: where it is in enqueue(), stopAndJoin(), restart()
  accept,    \* m_persistAcceptResults
  next,      \* the number of the next segment
  stops,     \* how often the worker was stopped or restarted
  done,      \* the segments whose completion is set
  written,   \* the segments written, in order
  results,   \* results posted to the main thread
  reported   \* results that reached the state machine

vars == <<queue, stopping, running, handle, thread, main, accept, next, stops,
          done, written, results, reported>>

\* Each stop ends one thread at most, and the next segment starts another.
Thread == 1..(MaxStop + 1)
NoThread == 0
Job == 1..MaxJob
NoJob == 0

WorkerPc == {"none", "check", "asleep", "write", "report", "leave", "ended"}
MainPc == {"free", "notifyOne", "notifyAll", "join", "clear"}
Free == [pc |-> "free", joins |-> NoThread, reopen |-> FALSE]

Live(t) == thread[t].pc \notin {"none", "ended"}
Goes(t, pc) == thread' = [thread EXCEPT ![t].pc = pc]

--------------------------------------------------------------------------------
\* The main thread.

\* Mutant: a thread is started for every segment.
StartAnotherThread(t) ==
  /\ thread[t].pc = "none" /\ handle' = t /\ running' = TRUE
  /\ Goes(t, "check")

EnsureWorkerRunning(t) ==
  IF running THEN UNCHANGED <<handle, running, thread>>
  ELSE /\ thread[t].pc = "none" /\ handle' = t /\ running' = TRUE
       /\ Goes(t, "check")

\* A stopped worker drops the segment and sets its completion at once.
EnqueueStopped ==
  /\ main.pc = "free" /\ next <= MaxJob
  /\ stopping
  /\ next' = next + 1
  /\ done' = done \cup {next}
  /\ UNCHANGED <<queue, stopping, running, handle, thread, main, accept, stops,
                 written, results, reported>>

Enqueue ==
  /\ main.pc = "free" /\ next <= MaxJob
  /\ ~stopping
  /\ next' = next + 1
  /\ queue' = Append(queue, next)
  /\ \E t \in Thread : EnsureWorkerRunning(t)
  /\ main' = [main EXCEPT !.pc = "notifyOne"]
  /\ UNCHANGED <<stopping, accept, stops, done, written, results, reported>>

\* Mutant: nobody is told.
NotifyNobody ==
  /\ main.pc = "notifyOne"
  /\ main' = Free
  /\ UNCHANGED <<queue, stopping, running, handle, thread, accept, next, stops,
                 done, written, results, reported>>

NotifyOne ==
  /\ main.pc = "notifyOne"
  /\ main' = Free
  /\ IF \E t \in Thread : thread[t].pc = "asleep"
     THEN \E t \in Thread : thread[t].pc = "asleep" /\ Goes(t, "check")
     ELSE UNCHANGED thread
  /\ UNCHANGED <<queue, stopping, running, handle, accept, next, stops,
                 done, written, results, reported>>

\* stop() and start() of the state machine set the gate first; both stop and join
\* the worker, start() lets it work again.
StopWorker(reopen) ==
  /\ main.pc = "free" /\ stops < MaxStop
  /\ stops' = stops + 1
  /\ accept' = reopen
  /\ stopping' = TRUE
  /\ handle' = NoThread
  /\ main' = [pc |-> "notifyAll", joins |-> handle, reopen |-> reopen]
  /\ UNCHANGED <<queue, running, thread, next, done, written, results, reported>>

\* Mutant: the sleeping thread is not told.
StopQuietly ==
  /\ main.pc = "notifyAll"
  /\ main' = [main EXCEPT !.pc = "join"]
  /\ UNCHANGED <<queue, stopping, running, handle, thread, accept, next, stops,
                 done, written, results, reported>>

NotifyAll ==
  /\ main.pc = "notifyAll"
  /\ main' = [main EXCEPT !.pc = "join"]
  /\ thread' = [t \in Thread |-> IF thread[t].pc = "asleep"
                                 THEN [thread[t] EXCEPT !.pc = "check"] ELSE thread[t]]
  /\ UNCHANGED <<queue, stopping, running, handle, accept, next, stops,
                 done, written, results, reported>>

Join ==
  /\ main.pc = "join"
  /\ main.joins # NoThread => thread[main.joins].pc = "ended"
  /\ main' = [main EXCEPT !.pc = "clear"]
  /\ UNCHANGED <<queue, stopping, running, handle, thread, accept, next, stops,
                 done, written, results, reported>>

\* The end of stopAndJoin(), and of restart() with it: no other thread is left that
\* could run between the two.
Clear ==
  /\ main.pc = "clear"
  /\ queue' = <<>>
  /\ running' = FALSE
  /\ stopping' = ~main.reopen
  /\ main' = Free
  /\ UNCHANGED <<handle, thread, accept, next, stops, done, written, results, reported>>

\* The result of a segment reaches the state machine, unless it is stopped.
ResultArrives ==
  /\ main.pc = "free" /\ results # <<>>
  /\ results' = Tail(results)
  /\ reported' = IF accept THEN Append(reported, Head(results)) ELSE reported
  /\ UNCHANGED <<queue, stopping, running, handle, thread, main, accept, next, stops,
                 done, written>>

--------------------------------------------------------------------------------
\* The worker threads.

\* Mutant: a stopped worker leaves its queue.
LeaveQueue(t) ==
  /\ thread[t].pc = "check" /\ stopping
  /\ Goes(t, "leave")
  /\ UNCHANGED <<queue, stopping, running, handle, main, accept, next, stops,
                 done, written, results, reported>>

\* The predicate of the wait, evaluated under the lock: the worker leaves only when
\* it is stopped and has nothing left to write.
LeaveLoop(t) ==
  /\ thread[t].pc = "check" /\ stopping /\ queue = <<>>
  /\ Goes(t, "leave")
  /\ UNCHANGED <<queue, stopping, running, handle, main, accept, next, stops,
                 done, written, results, reported>>

TakeJob(t) ==
  /\ thread[t].pc = "check" /\ queue # <<>>
  /\ thread' = [thread EXCEPT ![t] = [pc |-> "write", job |-> Head(queue)]]
  /\ queue' = Tail(queue)
  /\ UNCHANGED <<stopping, running, handle, main, accept, next, stops,
                 done, written, results, reported>>

Sleep(t) ==
  /\ thread[t].pc = "check" /\ ~stopping /\ queue = <<>>
  /\ Goes(t, "asleep")
  /\ UNCHANGED <<queue, stopping, running, handle, main, accept, next, stops,
                 done, written, results, reported>>

\* A condition variable may wake without a notification.
SpuriousWakeup(t) ==
  /\ thread[t].pc = "asleep"
  /\ Goes(t, "check")
  /\ UNCHANGED <<queue, stopping, running, handle, main, accept, next, stops,
                 done, written, results, reported>>

\* Well written or not, the completion is set before the result is posted.
WriteSegment(t) ==
  /\ thread[t].pc = "write"
  /\ Goes(t, "report")
  /\ written' = Append(written, thread[t].job)
  /\ done' = done \cup {thread[t].job}
  /\ UNCHANGED <<queue, stopping, running, handle, main, accept, next, stops,
                 results, reported>>

PostResult(t) ==
  /\ thread[t].pc = "report"
  /\ thread' = [thread EXCEPT ![t] = [pc |-> "check", job |-> NoJob]]
  /\ results' = Append(results, thread[t].job)
  /\ UNCHANGED <<queue, stopping, running, handle, main, accept, next, stops,
                 done, written, reported>>

EndThread(t) ==
  /\ thread[t].pc = "leave"
  /\ running' = FALSE
  /\ Goes(t, "ended")
  /\ UNCHANGED <<queue, stopping, handle, main, accept, next, stops,
                 done, written, results, reported>>

WorkerLoop(t) ==
  \/ LeaveLoop(t)
  \/ TakeJob(t)
  \/ Sleep(t)
  \/ WriteSegment(t)
  \/ PostResult(t)
  \/ EndThread(t)

--------------------------------------------------------------------------------
Init ==
  /\ queue = <<>> /\ stopping = FALSE /\ running = FALSE /\ handle = NoThread
  /\ thread = [t \in Thread |-> [pc |-> "none", job |-> NoJob]]
  /\ main = Free /\ accept = TRUE /\ next = 1 /\ stops = 0
  /\ done = {} /\ written = <<>> /\ results = <<>> /\ reported = <<>>

MainStep == NotifyOne \/ NotifyAll \/ Join \/ Clear \/ ResultArrives

Next ==
  \/ EnqueueStopped
  \/ Enqueue
  \/ \E reopen \in BOOLEAN : StopWorker(reopen)
  \/ MainStep
  \/ \E t \in Thread : WorkerLoop(t) \/ SpuriousWakeup(t)

Spec == Init /\ [][Next]_vars

\* Writing a segment ends, and both threads are scheduled.
FairSpec ==
  /\ Spec
  /\ WF_vars(MainStep)
  /\ \A t \in Thread : WF_vars(WorkerLoop(t))

--------------------------------------------------------------------------------
\* Properties.

\* The segments that are queued, or in a thread's hands and not written yet.
InHand == {thread[t].job : t \in {u \in Thread : thread[u].pc = "write"}}
Queued == {queue[i] : i \in DOMAIN queue}

\* The types of the variables.
TypeOK ==
  /\ queue \in Seq(Job) /\ written \in Seq(Job) /\ results \in Seq(Job) /\ reported \in Seq(Job)
  /\ stopping \in BOOLEAN /\ running \in BOOLEAN /\ accept \in BOOLEAN
  /\ handle \in Thread \cup {NoThread}
  /\ thread \in [Thread -> [pc : WorkerPc, job : Job \cup {NoJob}]]
  /\ main \in [pc : MainPc, joins : Thread \cup {NoThread}, reopen : BOOLEAN]
  /\ next \in 1..(MaxJob + 1) /\ stops \in 0..MaxStop /\ done \subseteq Job

\* At most one thread works, and m_worker names it until stopAndJoin() takes it
\* over: assigning another thread to m_worker would end the program.
OneWorker ==
  \A t \in Thread : Live(t) =>
    /\ handle = t \/ (main.pc \in {"notifyAll", "join"} /\ main.joins = t)
    /\ \A u \in Thread : Live(u) => u = t

\* Nothing is lost: a segment handed over whose completion is not set is queued or
\* being written, although stopAndJoin() clears the queue in the end.
NothingLost == \A j \in Job : j < next /\ j \notin done => j \in Queued \cup InHand

\* When stop() has returned, every segment is on disk and no thread touches the
\* state machine any more.
StopDrains ==
  main.pc = "free" /\ stopping => /\ \A t \in Thread : ~Live(t)
                                  /\ \A j \in Job : j < next => j \in done

\* Every completion is set: the solve that waits for it goes on.
CompletionsSet == \A j \in Job : next > j ~> j \in done

\* stop() and start() return: the main thread never waits for a thread that sleeps.
StopReturns == main.pc = "join" ~> main.pc = "free"
================================================================================
