-------------------------- MODULE VisionPipelineProofs --------------------------
(* The capture pipeline, for any cameras, requests and bounds: a bundle holds the   *)
(* pictures that were taken for it, a stopped pipeline is silent, and the pipeline   *)
(* keeps the promise the state machine relies on.                                     *)
EXTENDS VisionPipeline, TLAPS

Positive == Nat \ {0}

Bundle == [rid : Nat, cam : Camera \cup {NoBundle.cam}, use : SUBSET Channel,
           done : SUBSET Channel, good : SUBSET Channel, mech : Nat, by : Nat, asked : BOOLEAN]

Pipeline == [open : BOOLEAN, pend : Bundle, processing : Nat, next : Positive,
             jobs : [Cxp -> Seq(Nat)], lbJobs : Seq(Nat), delivered : Seq(Nat)]

Picture == [by : Nat, ok : BOOLEAN]

\* A pipeline without a pending bundle has forgotten the last one; a stopped one has none,
\* and one with a pending bundle is not processing another.
Tidy(p) ==
  /\ p \in Pipeline
  /\ p.pend.rid = 0 => p.pend = NoBundle
  /\ ~p.open => p.pend.rid = 0
  /\ p.pend.rid # 0 => p.processing = 0

\* Each of A and B was asked at most once, for the pending bundle, and does not answer again.
\* po: the results on their way.
AskedOnce(p, po) ==
  \A x \in Cxp :
    /\ \A i \in 1..Len(p.jobs[x]) : p.jobs[x][i] = p.pend.rid
    /\ \A i \in 1..Len(po[x]) : po[x][i].by = p.pend.rid
    /\ Len(p.jobs[x]) + Len(po[x]) <= 1
    /\ p.pend.rid = 0 \/ ~(Cxp \subseteq p.pend.use) \/ x \in p.pend.done
         => Len(p.jobs[x]) = 0 /\ Len(po[x]) = 0

\* A and B have not been asked.
Unasked(p, po) ==
  /\ ~p.pend.asked
  /\ \A x \in Cxp : Len(p.jobs[x]) = 0 /\ Len(po[x]) = 0 /\ x \notin p.pend.done

\* Between its depth picture and the end of its delay, and before, a bundle has asked neither
\* A nor B: the delay of an open pipeline is the pending bundle's.
DelayFirst(p, po, d) ==
  /\ d # {} => p.pend.rid # 0 /\ d = {p.pend.rid} /\ "mech" \in p.pend.done /\ Unasked(p, po)
  /\ p.pend.rid # 0 /\ "mech" \in p.pend.use \ p.pend.done => d = {} /\ Unasked(p, po)

\* What a pipeline does to its bundle between its depth picture and its end: the bundle stays
\* what it is but for the channels that are done, or has ended.
Continues(p, q) ==
  /\ q.open = p.open /\ q.next = p.next
  /\ p.pend.rid = 0 => q = p
  /\ \/ q.pend = NoBundle /\ q.processing \in {0, p.pend.rid}
     \/ /\ q.pend.rid = p.pend.rid /\ q.pend.cam = p.pend.cam /\ q.pend.mech = p.pend.mech
        /\ q.pend.by = p.pend.by /\ q.pend.use = p.pend.use /\ q.processing = p.processing
        /\ "mech" \in q.pend.done <=> "mech" \in p.pend.done

--------------------------------------------------------------------------------
\* The pipeline's functions.

LEMMA NoBundleIsOne ==
  /\ NoBundle \in Bundle /\ NoBundle.rid = 0 /\ NoBundle.use = {} /\ NoBundle.done = {}
  /\ NoBundle.mech = 0 /\ NoBundle.asked = FALSE
  BY DEF NoBundle, Bundle

LEMMA FinishKinds ==
  ASSUME NEW p \in Pipeline
  PROVE  LET q == FinishBundleIfReady(p)
         IN \/ q = p
            \/ /\ p.pend.rid # 0 /\ p.pend.use \subseteq p.pend.done
               /\ q \in Pipeline /\ q.pend = NoBundle /\ q.processing \in {0, p.pend.rid}
               /\ q.open = p.open /\ q.next = p.next /\ q.jobs = p.jobs
<1> USE NoBundleIsOne
<1> DEFINE q == [p EXCEPT !.pend = NoBundle]
<1>1. CASE p.pend.rid = 0 \/ ~(p.pend.use \subseteq p.pend.done)
  BY <1>1 DEF FinishBundleIfReady
<1>2. /\ p.pend.rid \in Nat /\ p.lbJobs \in Seq(Nat) /\ p.delivered \in Seq(Nat)
      /\ q \in Pipeline /\ q.pend = NoBundle /\ q.lbJobs = p.lbJobs /\ q.delivered = p.delivered
      /\ q.open = p.open /\ q.next = p.next /\ q.jobs = p.jobs
  BY DEF Pipeline, Bundle
<1> HIDE DEF q
<1>3. CASE p.pend.rid # 0 /\ p.pend.use \subseteq p.pend.done /\ Cxp \subseteq p.pend.use \cap p.pend.good
  <2>1. FinishBundleIfReady(p) = [q EXCEPT !.processing = p.pend.rid, !.lbJobs = Append(@, p.pend.rid)]
    BY <1>3, <1>2 DEF FinishBundleIfReady, q
  <2>2. Append(q.lbJobs, p.pend.rid) \in Seq(Nat)
    BY <1>2
  <2> DEFINE r == [q EXCEPT !.processing = p.pend.rid, !.lbJobs = Append(@, p.pend.rid)]
  <2>3. /\ r \in Pipeline /\ r.pend = q.pend /\ r.processing = p.pend.rid /\ r.open = q.open
        /\ r.next = q.next /\ r.jobs = q.jobs
    BY <1>2, <2>2 DEF Pipeline
  <2> QED
    BY <1>2, <1>3, <2>1, <2>3
<1>4. CASE p.pend.rid # 0 /\ p.pend.use \subseteq p.pend.done /\ ~(Cxp \subseteq p.pend.use \cap p.pend.good)
  <2>1. FinishBundleIfReady(p) = [q EXCEPT !.processing = 0, !.delivered = Append(@, p.pend.rid)]
    BY <1>4, <1>2 DEF FinishBundleIfReady, EmitBundleFinished, q
  <2>2. Append(q.delivered, p.pend.rid) \in Seq(Nat)
    BY <1>2
  <2> DEFINE r == [q EXCEPT !.processing = 0, !.delivered = Append(@, p.pend.rid)]
  <2>3. /\ r \in Pipeline /\ r.pend = q.pend /\ r.processing = 0 /\ r.open = q.open
        /\ r.next = q.next /\ r.jobs = q.jobs
    BY <1>2, <2>2 DEF Pipeline
  <2> QED
    BY <1>2, <1>4, <2>1, <2>3
<1> QED
  BY <1>1, <1>3, <1>4

\* A bundle that ends leaves no picture on its way.
LEMMA FinishKeeps ==
  ASSUME NEW p, Tidy(p), NEW po, AskedOnce(p, po)
  PROVE  LET q == FinishBundleIfReady(p) IN Tidy(q) /\ AskedOnce(q, po)
<1> DEFINE q == FinishBundleIfReady(p)
<1>1. CASE q = p
  BY <1>1
<1>2. CASE q # p
  <2>1. /\ p.pend.rid # 0 /\ p.pend.use \subseteq p.pend.done
        /\ q \in Pipeline /\ q.pend = NoBundle /\ q.open = p.open /\ q.jobs = p.jobs
    BY <1>2, FinishKinds DEF Tidy
  <2> HIDE DEF q
  <2>2. Tidy(q)
    BY <2>1, NoBundleIsOne DEF Tidy
  <2>3. \A x \in Cxp : Len(q.jobs[x]) = 0 /\ Len(po[x]) = 0
    BY <2>1 DEF AskedOnce
  <2>4. AskedOnce(q, po)
    <3> SUFFICES ASSUME NEW x \in Cxp
                 PROVE  /\ \A i \in 1..Len(q.jobs[x]) : q.jobs[x][i] = q.pend.rid
                        /\ \A i \in 1..Len(po[x]) : po[x][i].by = q.pend.rid
                        /\ Len(q.jobs[x]) + Len(po[x]) <= 1
      BY <2>3 DEF AskedOnce
    <3>1. Len(q.jobs[x]) = 0 /\ Len(po[x]) = 0
      BY <2>3
    <3> QED
      BY <3>1
  <2> QED
    BY <2>2, <2>4 DEF q
<1> QED
  BY <1>1, <1>2

LEMMA FinishContinues == ASSUME NEW p \in Pipeline PROVE Continues(p, FinishBundleIfReady(p))
  BY FinishKinds DEF Continues

LEMMA ContinuesOn ==
  ASSUME NEW p, NEW q, NEW r, Tidy(p), Tidy(q), Continues(p, q), Continues(q, r)
  PROVE  Continues(p, r)
  BY NoBundleIsOne DEF Continues, Tidy

\* A and B are asked, or refuse.
LEMMA HikCaptureKeeps ==
  ASSUME NEW p, Tidy(p), NEW po, AskedOnce(p, po), p.pend.rid # 0 => Unasked(p, po),
         NEW refused \in SUBSET Cxp
  PROVE  LET q == StartPendingHikCapture(p, refused)
         IN Tidy(q) /\ AskedOnce(q, po) /\ Continues(p, q)
<1> DEFINE s == [p EXCEPT !.pend.asked = "A" \notin refused, !.pend.done = @ \cup refused,
                     !.jobs = [x \in Cxp |-> IF x \in refused THEN @[x] ELSE Append(@[x], p.pend.rid)]]
<1>1. CASE p.pend.rid = 0 \/ ~(Cxp \subseteq p.pend.use) \/ p.pend.asked
  BY <1>1 DEF StartPendingHikCapture, Continues
<1>2. CASE p.pend.rid # 0 /\ Cxp \subseteq p.pend.use /\ ~p.pend.asked
  <2>1. \A x \in Cxp : p.jobs[x] \in Seq(Nat) /\ p.pend.rid \in Nat
    BY DEF Tidy, Pipeline, Bundle
  <2>2. [x \in Cxp |-> IF x \in refused THEN p.jobs[x] ELSE Append(p.jobs[x], p.pend.rid)]
          \in [Cxp -> Seq(Nat)]
    BY <2>1
  <2>3. Cxp \subseteq Channel
    BY DEF Channel
  <2>4. /\ s \in Pipeline /\ s.pend.rid = p.pend.rid /\ s.pend.use = p.pend.use
        /\ s.pend.done = p.pend.done \cup refused /\ s.open = p.open /\ s.next = p.next
        /\ s.processing = p.processing /\ s.pend.cam = p.pend.cam /\ s.pend.mech = p.pend.mech
        /\ s.pend.by = p.pend.by
        /\ s.jobs = [x \in Cxp |-> IF x \in refused THEN p.jobs[x] ELSE Append(p.jobs[x], p.pend.rid)]
    BY <2>2, <2>3 DEF Tidy, Pipeline, Bundle
  <2> HIDE DEF s
  <2>5. Tidy(s)
    BY <1>2, <2>4 DEF Tidy
  <2>6. Continues(p, s)
    BY <1>2, <2>4 DEF Continues, Cxp
  <2>7. AskedOnce(s, po)
    <3> SUFFICES ASSUME NEW x \in Cxp
                 PROVE  /\ \A i \in 1..Len(s.jobs[x]) : s.jobs[x][i] = s.pend.rid
                        /\ \A i \in 1..Len(po[x]) : po[x][i].by = s.pend.rid
                        /\ Len(s.jobs[x]) + Len(po[x]) <= 1
                        /\ s.pend.rid = 0 \/ ~(Cxp \subseteq s.pend.use) \/ x \in s.pend.done
                             => Len(s.jobs[x]) = 0 /\ Len(po[x]) = 0
      BY DEF AskedOnce
    <3>1. Len(p.jobs[x]) = 0 /\ Len(po[x]) = 0 /\ x \notin p.pend.done
      BY <1>2 DEF Unasked
    <3>2. CASE x \in refused
      <4>1. s.jobs[x] = p.jobs[x]
        BY <2>4, <3>2
      <4> QED
        BY <3>1, <4>1
    <3>3. CASE x \notin refused
      <4>1. s.jobs[x] = Append(p.jobs[x], p.pend.rid)
        BY <2>4, <3>3
      <4>2. Len(s.jobs[x]) = 1 /\ s.jobs[x][1] = p.pend.rid
        BY <2>1, <3>1, <4>1
      <4>3. x \notin s.pend.done
        BY <2>4, <3>1, <3>3
      <4> QED
        BY <1>2, <2>4, <3>1, <4>2, <4>3
    <3> QED
      BY <3>2, <3>3
  <2>8. StartPendingHikCapture(p, refused)
          = IF Cxp \subseteq s.pend.done THEN FinishBundleIfReady(s) ELSE s
    BY <1>2 DEF StartPendingHikCapture, s
  <2>9. CASE Cxp \subseteq s.pend.done
    BY <2>4, <2>5, <2>6, <2>7, <2>8, <2>9, FinishKeeps, FinishContinues, ContinuesOn
  <2>10. CASE ~(Cxp \subseteq s.pend.done)
    BY <2>5, <2>6, <2>7, <2>8, <2>10
  <2> QED
    BY <2>9, <2>10
<1> QED
  BY <1>1, <1>2

\* The smart camera is triggered.
LEMMA HikCameraCKeeps ==
  ASSUME NEW p, Tidy(p), NEW po, AskedOnce(p, po)
  PROVE  LET q == StartPendingHikCameraCCapture(p)
         IN Tidy(q) /\ AskedOnce(q, po) /\ Continues(p, q)
<1> DEFINE s == [p EXCEPT !.pend.done = @ \cup {"smart"}]
<1>1. CASE p.pend.rid = 0 \/ "smart" \notin p.pend.use \ p.pend.done
  BY <1>1 DEF StartPendingHikCameraCCapture, Continues
<1>2. CASE p.pend.rid # 0 /\ "smart" \in p.pend.use \ p.pend.done
  <2>1. "smart" \in Channel
    BY DEF Channel
  <2>2. /\ s \in Pipeline /\ s.pend.rid = p.pend.rid /\ s.pend.use = p.pend.use
        /\ s.pend.done = p.pend.done \cup {"smart"} /\ s.open = p.open /\ s.next = p.next
        /\ s.processing = p.processing /\ s.pend.cam = p.pend.cam /\ s.pend.mech = p.pend.mech
        /\ s.pend.by = p.pend.by /\ s.jobs = p.jobs
    BY <2>1 DEF Tidy, Pipeline, Bundle
  <2> HIDE DEF s
  <2>3. Tidy(s) /\ Continues(p, s)
    BY <1>2, <2>2 DEF Tidy, Continues
  <2>4. AskedOnce(s, po)
    BY <2>2 DEF AskedOnce, Cxp
  <2>5. StartPendingHikCameraCCapture(p) = FinishBundleIfReady(s)
    BY <1>2 DEF StartPendingHikCameraCCapture, s
  <2> QED
    BY <2>2, <2>3, <2>4, <2>5, FinishKeeps, FinishContinues, ContinuesOn
<1> QED
  BY <1>1, <1>2

LEMMA StartKeeps ==
  ASSUME NEW p, Tidy(p), NEW po, AskedOnce(p, po), p.pend.rid # 0 => Unasked(p, po),
         NEW refused \in SUBSET Cxp
  PROVE  LET q == StartHikChannels(p, refused)
         IN Tidy(q) /\ AskedOnce(q, po) /\ Continues(p, q)
<1> DEFINE r == StartPendingHikCapture(p, refused)
           q == StartPendingHikCameraCCapture(r)
<1>1. Tidy(r) /\ AskedOnce(r, po) /\ Continues(p, r)
  BY HikCaptureKeeps
<1>2. StartHikChannels(p, refused)
        = IF q.pend.use \subseteq {"mech"} THEN FinishBundleIfReady(q) ELSE q
  BY DEF StartHikChannels
<1> HIDE DEF r
<1>3. Tidy(q) /\ AskedOnce(q, po) /\ Continues(r, q)
  BY <1>1, HikCameraCKeeps
<1> HIDE DEF q
<1>4. Continues(p, q)
  BY <1>1, <1>3, ContinuesOn
<1>5. LET f == FinishBundleIfReady(q) IN Tidy(f) /\ AskedOnce(f, po) /\ Continues(p, f)
  <2>1. q \in Pipeline
    BY <1>3 DEF Tidy
  <2> QED
    BY <1>3, <1>4, <2>1, FinishKeeps, FinishContinues, ContinuesOn
<1> QED
  BY <1>2, <1>3, <1>4, <1>5

--------------------------------------------------------------------------------
\* Where a capture of a depth camera is: asked for, performed, answered, or passed on.  M is
\* the set of entries that are about it.

Once(q, M) == \A i, j \in 1..Len(q) : q[i] \in M /\ q[j] \in M => i = j
Absent(q, M) == \A i \in 1..Len(q) : q[i] \notin M

LEMMA AppendedOnce ==
  ASSUME NEW T, NEW q \in Seq(T), NEW e \in T, NEW M
  PROVE  /\ Append(q, e) \in Seq(T)
         /\ Once(q, M) /\ (Absent(q, M) \/ e \notin M) => Once(Append(q, e), M)
         /\ Absent(q, M) /\ e \notin M => Absent(Append(q, e), M)
  BY DEF Once, Absent

LEMMA TakenOnce ==
  ASSUME NEW T, NEW q \in Seq(T), q # <<>>, NEW M
  PROVE  /\ Head(q) \in T /\ Tail(q) \in Seq(T)
         /\ Once(q, M) => Once(Tail(q), M)
         /\ Once(q, M) /\ Head(q) \in M => Absent(Tail(q), M)
         /\ Absent(q, M) => Absent(Tail(q), M) /\ Head(q) \notin M
<1>1. /\ Head(q) \in T /\ Tail(q) \in Seq(T) /\ Head(q) = q[1] /\ 1 \in 1..Len(q)
      /\ \A i \in 1..Len(Tail(q)) : i + 1 \in 1..Len(q) /\ Tail(q)[i] = q[i + 1] /\ i + 1 # 1
  OBVIOUS
<1>2. ASSUME Once(q, M) PROVE Once(Tail(q), M)
  <2> SUFFICES ASSUME NEW i \in 1..Len(Tail(q)), NEW j \in 1..Len(Tail(q)),
                      Tail(q)[i] \in M, Tail(q)[j] \in M
               PROVE  i = j
    BY DEF Once
  <2>1. i + 1 = j + 1
    BY <1>1, <1>2 DEF Once
  <2> QED
    BY <2>1
<1>3. ASSUME Once(q, M), Head(q) \in M PROVE Absent(Tail(q), M)
  BY <1>1, <1>3 DEF Once, Absent
<1>4. ASSUME Absent(q, M) PROVE Absent(Tail(q), M) /\ Head(q) \notin M
  BY <1>1, <1>4 DEF Absent
<1> QED
  BY <1>1, <1>2, <1>3, <1>4

LEMMA EmittedOnce ==
  ASSUME NEW T, NEW q \in Seq(T), NEW s \in Seq(T), NEW M, Absent(s, M)
  PROVE  /\ q \o s \in Seq(T)
         /\ Once(q, M) => Once(q \o s, M)
         /\ Absent(q, M) => Absent(q \o s, M)
<1>1. /\ q \o s \in Seq(T)
      /\ \A i \in 1..Len(q \o s) : (q \o s)[i] \in M => i \in 1..Len(q) /\ (q \o s)[i] = q[i]
  BY DEF Absent
<1> QED
  BY <1>1 DEF Once, Absent

State == {"ready", "capturing", "offline"}
Called == {RefreshStatus} \cup [id : Positive, by : Nat]
Job == {NoJob} \cup [id : Positive, by : Nat, ended : BOOLEAN]
Announced == [kind : {"state"}, state : State] \cup {Fatal}
Answered == [kind : {"done"}, id : Positive, by : Nat]
Signal == Announced \cup Answered
Result == [cam : Camera, id : Positive, by : Nat]

MechTyped ==
  /\ service \in [Camera -> [busy : BOOLEAN, state : State, next : Positive]]
  /\ calls \in [Camera -> Seq(Called)]
  /\ worker \in [Camera -> [connected : BOOLEAN, state : State, job : Job]]
  /\ signals \in [Camera -> Seq(Signal)]
  /\ mechResults \in Seq(Result)

\* The entries about capture n of camera c, asked for by a bundle of B.
CallOf(n, B) == [id : {n}, by : B]
AnswerOf(n, B) == [kind : {"done"}, id : {n}, by : B]
ResultOf(c, n, B) == [cam : {c}, id : {n}, by : B]
Performs(c, n, B) == worker[c].job.id = n /\ worker[c].job.by \in B

\* No such capture is under way.
Gone(c, n, B) ==
  /\ Absent(calls[c], CallOf(n, B)) /\ ~Performs(c, n, B)
  /\ Absent(signals[c], AnswerOf(n, B)) /\ Absent(mechResults, ResultOf(c, n, B))

\* A capture is in one place at a time, and the later places empty while it is in an earlier one.
InOnePlace(c, n) ==
  /\ Once(calls[c], CallOf(n, Nat)) /\ Once(signals[c], AnswerOf(n, Nat))
  /\ Once(mechResults, ResultOf(c, n, Nat))
  /\ \/ Absent(calls[c], CallOf(n, Nat))
     \/ /\ ~Performs(c, n, Nat) /\ Absent(signals[c], AnswerOf(n, Nat))
        /\ Absent(mechResults, ResultOf(c, n, Nat))
  /\ Performs(c, n, Nat)
       => Absent(signals[c], AnswerOf(n, Nat)) /\ Absent(mechResults, ResultOf(c, n, Nat))
  /\ \/ Absent(signals[c], AnswerOf(n, Nat))
     \/ Absent(mechResults, ResultOf(c, n, Nat))

\* A number is given to one capture.
NumberedOnce ==
  \A c \in Camera : \A n \in Positive :
    /\ InOnePlace(c, n)
    /\ n >= service[c].next => Gone(c, n, Nat)

--------------------------------------------------------------------------------
\* The worker's steps.

LEMMA KindsOfSignal ==
  ASSUME NEW B, NEW n
  PROVE  /\ \A s \in Announced : s \notin AnswerOf(n, B)
         /\ \A state \in State : Says(state) \in Announced
         /\ Fatal \in Announced /\ RefreshStatus \in Called
         /\ n # 0 => RefreshStatus \notin CallOf(n, B)
  BY DEF Announced, AnswerOf, Says, Fatal, RefreshStatus, CallOf, Called

LEMMA AnnouncedOnly ==
  ASSUME NEW s \in Seq(Announced), NEW n, NEW B
  PROVE  s \in Seq(Signal) /\ Absent(s, AnswerOf(n, B))
<1>1. \A i \in 1..Len(s) : s[i] \in Announced
  OBVIOUS
<1> QED
  BY <1>1, KindsOfSignal DEF Absent, Signal

LEMMA JobOfNobody == NoJob \in Job /\ NoJob.id = 0 /\ NoJob.by = 0 /\ NoJob.ended = FALSE
  BY DEF NoJob, Job

\* What becomes of one camera's queues and job in a step of its worker.
Refreshed(c) ==
  /\ calls[c] # <<>> /\ Head(calls[c]) = RefreshStatus /\ calls'[c] = Tail(calls[c])
  /\ worker'[c].job = worker[c].job
  /\ \E s \in Seq(Announced) : signals'[c] = signals[c] \o s

Begun(c) ==
  /\ calls[c] # <<>> /\ Head(calls[c]) \in [id : Positive, by : Nat]
  /\ calls'[c] = Tail(calls[c])
  /\ worker[c].job = NoJob
  /\ worker'[c].job = [id |-> Head(calls[c]).id, by |-> Head(calls[c]).by, ended |-> FALSE]
  /\ \E s \in Seq(Announced) : signals'[c] = signals[c] \o s

Refused(c) ==
  /\ calls[c] # <<>> /\ Head(calls[c]) \in [id : Positive, by : Nat]
  /\ calls'[c] = Tail(calls[c])
  /\ worker[c].job = NoJob /\ worker'[c].job = NoJob
  /\ \E s \in Seq(Announced) : signals'[c] = Append(signals[c] \o s, Done(Head(calls[c])))

Ended(c) ==
  /\ calls'[c] = calls[c]
  /\ worker'[c].job.id = worker[c].job.id /\ worker'[c].job.by = worker[c].job.by
  /\ worker'[c].job \in Job
  /\ \E s \in Seq(Announced) : signals'[c] = signals[c] \o s

Delivered(c) ==
  /\ calls'[c] = calls[c]
  /\ worker[c].job \in [id : Positive, by : Nat, ended : BOOLEAN] /\ worker'[c].job = NoJob
  /\ signals'[c] = Append(signals[c], Done(worker[c].job))

LEMMA EmitFacts ==
  ASSUME MechTyped, NEW c \in Camera, NEW s \in Seq(Signal), Emit(c, s)
  PROVE  /\ signals' \in [Camera -> Seq(Signal)] /\ signals'[c] = signals[c] \o s
         /\ \A d \in Camera \ {c} : signals'[d] = signals[d]
<1>1. signals[c] \o s \in Seq(Signal)
  BY DEF MechTyped
<1> QED
  BY <1>1 DEF Emit, MechTyped

LEMMA TakeFacts ==
  ASSUME MechTyped, NEW c \in Camera, calls[c] # <<>>, Take(c)
  PROVE  /\ calls' \in [Camera -> Seq(Called)] /\ calls'[c] = Tail(calls[c])
         /\ \A d \in Camera \ {c} : calls'[d] = calls[d]
<1>1. Tail(calls[c]) \in Seq(Called)
  BY DEF MechTyped
<1> QED
  BY <1>1 DEF Take, MechTyped

LEMMA WorkerKinds ==
  ASSUME MechTyped, NEW c \in Camera, WorkerSteps(c), mechResults' = mechResults
  PROVE  /\ MechTyped' /\ service' = service
         /\ Refreshed(c) \/ Begun(c) \/ Refused(c) \/ Ended(c) \/ Delivered(c)
         /\ \A d \in Camera \ {c} :
              calls'[d] = calls[d] /\ worker'[d] = worker[d] /\ signals'[d] = signals[d]
<1> DEFINE Others == \A d \in Camera \ {c} :
                       calls'[d] = calls[d] /\ worker'[d] = worker[d] /\ signals'[d] = signals[d]
           Quietly == \E s \in Seq(Announced) : signals'[c] = signals[c] \o s
           Still == signals' \in [Camera -> Seq(Signal)] /\ \A d \in Camera \ {c} : signals'[d] = signals[d]
<1>1. /\ calls[c] \in Seq(Called) /\ signals[c] \in Seq(Signal) /\ worker[c].job \in Job
      /\ worker[c] \in [connected : BOOLEAN, state : State, job : Job]
      /\ "ready" \in State /\ "offline" \in State /\ "capturing" \in State /\ worker[c].state \in State
  BY DEF MechTyped, State
<1>2. ASSUME NEW s \in Seq(Announced), Emit(c, s) PROVE Quietly /\ Still
  <2>1. s \in Seq(Signal)
    BY AnnouncedOnly
  <2> QED
    BY <1>2, <2>1, EmitFacts
<1>3. /\ \A a \in Announced : <<a>> \in Seq(Announced)
      /\ \A a, b \in Announced : <<a, b>> \in Seq(Announced)
      /\ \A a \in Announced, s \in Seq(Announced) : <<a>> \o s \in Seq(Announced)
  OBVIOUS
<1>4. \A x \in State : Says(x) \in Announced
  BY KindsOfSignal
<1>5. Fatal \in Announced
  BY KindsOfSignal
<1> HIDE DEF Others, Quietly, Still
<1>6. CASE WorkerRefreshes(c)
  <2>1. /\ calls[c] # <<>> /\ Head(calls[c]) = RefreshStatus /\ Take(c) /\ service' = service
    BY <1>6 DEF WorkerRefreshes
  <2>2. \E s \in Seq(Announced) : Emit(c, s)
    BY <1>1, <1>3, <1>4, <1>6 DEF WorkerRefreshes
  <2>3. \E w \in [connected : BOOLEAN, state : State, job : Job] :
          w.job = worker[c].job /\ worker' = [worker EXCEPT ![c] = w]
    <3>1. CASE worker' = worker
      <4>1. worker' = [worker EXCEPT ![c] = worker[c]]
        BY <3>1 DEF MechTyped
      <4> QED
        BY <1>1, <4>1
    <3>2. CASE worker' = [worker EXCEPT ![c].connected = TRUE, ![c].state = "ready"]
      <4>1. worker' = [worker EXCEPT ![c] = [@ EXCEPT !.connected = TRUE, !.state = "ready"]]
        BY <3>2 DEF MechTyped
      <4> QED
        BY <1>1, <4>1
    <3>3. CASE \E still \in {FALSE, worker[c].connected} :
                 worker' = [worker EXCEPT ![c].connected = still, ![c].state = "offline"]
      <4> PICK still \in {FALSE, worker[c].connected} :
                 worker' = [worker EXCEPT ![c].connected = still, ![c].state = "offline"]
        BY <3>3
      <4>1. worker' = [worker EXCEPT ![c] = [@ EXCEPT !.connected = still, !.state = "offline"]]
        BY DEF MechTyped
      <4>2. still \in BOOLEAN
        BY <1>1
      <4> QED
        BY <1>1, <4>1, <4>2
    <3> QED
      BY <1>6, <3>1, <3>2, <3>3 DEF WorkerRefreshes
  <2>4. /\ worker' \in [Camera -> [connected : BOOLEAN, state : State, job : Job]]
        /\ worker'[c].job = worker[c].job /\ \A d \in Camera \ {c} : worker'[d] = worker[d]
    BY <2>3 DEF MechTyped
  <2> QED
    BY <1>2, <2>1, <2>2, <2>4, TakeFacts DEF MechTyped, Refreshed, Quietly, Still
<1>7. CASE WorkerBegins(c)
  <2> DEFINE k == Head(calls[c])
             job == [id |-> k.id, by |-> k.by, ended |-> FALSE]
  <2>1. calls[c] # <<>> /\ k \in [id : Positive, by : Nat] /\ Take(c) /\ service' = service
    BY <1>1, <1>7 DEF WorkerBegins, Called
  <2>2. \E s \in Seq(Announced) : Emit(c, s)
    <3>1. CASE worker[c].connected
      <4>1. <<Says("capturing")>> \in Seq(Announced)
        BY <1>1, <1>3, <1>4
      <4>2. <<>> \o <<Says("capturing")>> \in Seq(Announced)
        BY <4>1
      <4> QED
        BY <1>7, <3>1, <4>2 DEF WorkerBegins
    <3>2. CASE ~worker[c].connected
      <4>1. <<Says("offline")>> \o <<Says("capturing")>> \in Seq(Announced)
        BY <1>1, <1>3, <1>4
      <4> QED
        BY <1>7, <3>2, <4>1 DEF WorkerBegins
    <3> QED
      BY <3>1, <3>2
  <2>3. job \in Job
    BY <2>1 DEF Job
  <2>4. /\ worker' = [worker EXCEPT ![c] = [connected |-> TRUE, state |-> "capturing", job |-> job]]
        /\ worker[c].job = NoJob
    BY <1>7 DEF WorkerBegins, SdkFree
  <2>5. /\ worker' \in [Camera -> [connected : BOOLEAN, state : State, job : Job]]
        /\ worker'[c].job = job /\ \A d \in Camera \ {c} : worker'[d] = worker[d]
    BY <1>1, <2>3, <2>4 DEF MechTyped
  <2> QED
    BY <1>2, <2>1, <2>2, <2>4, <2>5, TakeFacts DEF MechTyped, Begun, Quietly, Still
<1>8. CASE WorkerRefuses(c)
  <2> DEFINE k == Head(calls[c])
  <2>1. /\ calls[c] # <<>> /\ k \in [id : Positive, by : Nat] /\ Take(c) /\ service' = service
        /\ worker[c].job = NoJob
    BY <1>1, <1>8 DEF WorkerRefuses, Called, SdkFree
  <2>2. Done(k) \in Signal /\ Says("offline") \in Signal
    BY <1>1, <1>4, <2>1 DEF Done, Answered, Signal
  <2>3. /\ worker' \in [Camera -> [connected : BOOLEAN, state : State, job : Job]]
        /\ worker'[c].job = worker[c].job /\ \A d \in Camera \ {c} : worker'[d] = worker[d]
    BY <1>1, <1>8 DEF WorkerRefuses, MechTyped
  <2>4. Emit(c, <<Done(k)>>) \/ Emit(c, <<Says("offline"), Done(k)>>)
    BY <1>8 DEF WorkerRefuses
  <2> HIDE DEF k
  <2>5. /\ signals' \in [Camera -> Seq(Signal)]
        /\ \A d \in Camera \ {c} : signals'[d] = signals[d]
        /\ signals'[c] \in {signals[c] \o <<Done(k)>>, signals[c] \o <<Says("offline"), Done(k)>>}
    <3>1. <<Done(k)>> \in Seq(Signal) /\ <<Says("offline"), Done(k)>> \in Seq(Signal)
      BY <2>2
    <3> QED
      BY <2>4, <3>1, EmitFacts
  <2>6. /\ signals[c] \o <<Done(k)>> = Append(signals[c] \o <<>>, Done(k))
        /\ signals[c] \o <<Says("offline"), Done(k)>> = Append(signals[c] \o <<Says("offline")>>, Done(k))
    BY <1>1, <2>2
  <2>7. <<>> \in Seq(Announced) /\ <<Says("offline")>> \in Seq(Announced)
    BY <1>1, <1>3, <1>4
  <2>8. \E s \in Seq(Announced) : signals'[c] = Append(signals[c] \o s, Done(k))
    BY <2>5, <2>6, <2>7
  <2> QED
    BY <2>1, <2>3, <2>5, <2>8, TakeFacts DEF MechTyped, Refused, k
<1>9. CASE WorkerEnds(c)
  <2>1. calls' = calls /\ service' = service /\ worker[c].job # NoJob
    BY <1>9 DEF WorkerEnds
  <2>2. \E s \in Seq(Announced) : Emit(c, s)
    <3>1. CASE Emit(c, <<Says("ready")>>)
      BY <1>1, <1>3, <1>4, <3>1
    <3>2. CASE \E rest \in {<<>>, <<Fatal>>} : Emit(c, <<Says("offline")>> \o rest)
      <4>1. \A rest \in {<<>>, <<Fatal>>} : <<Says("offline")>> \o rest \in Seq(Announced)
        <5>1. <<>> \in Seq(Announced) /\ <<Fatal>> \in Seq(Announced) /\ Says("offline") \in Announced
          BY <1>1, <1>3, <1>4, <1>5
        <5> QED
          BY <1>3, <5>1
      <4> QED
        BY <3>2, <4>1
    <3> QED
      BY <1>9, <3>1, <3>2 DEF WorkerEnds
  <2>3. worker[c].job \in [id : Positive, by : Nat, ended : BOOLEAN]
    BY <1>1, <2>1 DEF Job
  <2> DEFINE job == [worker[c].job EXCEPT !.ended = TRUE]
  <2>4. job \in Job /\ job.id = worker[c].job.id /\ job.by = worker[c].job.by
    BY <2>3 DEF Job
  <2>5. \/ worker' = [worker EXCEPT ![c] = [@ EXCEPT !.state = "ready", !.job = job]]
        \/ worker' = [worker EXCEPT ![c] = [@ EXCEPT !.state = "offline", !.connected = FALSE, !.job = job]]
    BY <1>9, <1>1 DEF WorkerEnds, MechTyped
  <2> HIDE DEF job
  <2>6. /\ worker' \in [Camera -> [connected : BOOLEAN, state : State, job : Job]]
        /\ worker'[c].job = job /\ \A d \in Camera \ {c} : worker'[d] = worker[d]
    <3>1. \E w \in [connected : BOOLEAN, state : State, job : Job] :
            w.job = job /\ worker' = [worker EXCEPT ![c] = w]
      <4>1. CASE worker' = [worker EXCEPT ![c] = [@ EXCEPT !.state = "ready", !.job = job]]
        BY <1>1, <2>4, <4>1
      <4>2. CASE worker' = [worker EXCEPT ![c] = [@ EXCEPT !.state = "offline", !.connected = FALSE, !.job = job]]
        BY <1>1, <2>4, <4>2
      <4> QED
        BY <2>5, <4>1, <4>2
    <3> QED
      BY <3>1 DEF MechTyped
  <2> QED
    BY <1>2, <2>1, <2>2, <2>4, <2>6 DEF MechTyped, Ended, Quietly, Still
<1>10. CASE WorkerAnswers(c)
  <2> DEFINE k == worker[c].job
  <2>1. calls' = calls /\ service' = service /\ k \in [id : Positive, by : Nat, ended : BOOLEAN]
    BY <1>1, <1>10, JobOfNobody DEF WorkerAnswers, Job
  <2>2. Done(k) \in Signal
    BY <2>1 DEF Done, Answered, Signal
  <2>3. Emit(c, <<Done(k)>>) /\ worker' = [worker EXCEPT ![c].job = NoJob]
    BY <1>10 DEF WorkerAnswers
  <2>4. /\ worker' \in [Camera -> [connected : BOOLEAN, state : State, job : Job]]
        /\ worker'[c].job = NoJob /\ \A d \in Camera \ {c} : worker'[d] = worker[d]
    BY <1>1, <2>3, JobOfNobody DEF MechTyped
  <2> HIDE DEF k
  <2>5. /\ signals' \in [Camera -> Seq(Signal)]
        /\ \A d \in Camera \ {c} : signals'[d] = signals[d]
        /\ signals'[c] = signals[c] \o <<Done(k)>>
    <3>1. <<Done(k)>> \in Seq(Signal)
      BY <2>2
    <3> QED
      BY <2>3, <3>1, EmitFacts
  <2>6. signals[c] \o <<Done(k)>> = Append(signals[c], Done(k))
    BY <1>1, <2>2
  <2> QED
    BY <2>1, <2>4, <2>5, <2>6 DEF MechTyped, Delivered, k
<1> QED
  BY <1>6, <1>7, <1>8, <1>9, <1>10 DEF WorkerSteps

LEMMA EmittedKeeps ==
  ASSUME NEW q \in Seq(Signal), NEW s \in Seq(Announced), NEW n, NEW B
  PROVE  /\ q \o s \in Seq(Signal)
         /\ Once(q, AnswerOf(n, B)) => Once(q \o s, AnswerOf(n, B))
         /\ Absent(q, AnswerOf(n, B)) => Absent(q \o s, AnswerOf(n, B))
<1>1. s \in Seq(Signal) /\ Absent(s, AnswerOf(n, B))
  BY AnnouncedOnly
<1> HIDE DEF Signal
<1> QED
  BY <1>1, EmittedOnce

LEMMA AnswersItsCall ==
  ASSUME NEW k, k.id \in Positive, k.by \in Nat, NEW n, NEW B
  PROVE  Done(k) \in Signal /\ (Done(k) \in AnswerOf(n, B) <=> k.id = n /\ k.by \in B)
  BY DEF Done, AnswerOf, Answered, Signal

LEMMA CallsItself ==
  ASSUME NEW k \in [id : Positive, by : Nat], NEW n, NEW B
  PROVE  k \in CallOf(n, B) <=> k.id = n /\ k.by \in B
  BY DEF CallOf

\* A worker's step takes a capture on: it is in one place still, and none appears.
LEMMA WorkerMoves ==
  ASSUME MechTyped, NEW c \in Camera, WorkerSteps(c), mechResults' = mechResults
  PROVE  /\ \A d \in Camera, n \in Positive : \A B \in SUBSET Nat : Gone(d, n, B) => Gone(d, n, B)'
         /\ \A d \in Camera, n \in Positive : InOnePlace(d, n) => InOnePlace(d, n)'
<1>0. /\ Refreshed(c) \/ Begun(c) \/ Refused(c) \/ Ended(c) \/ Delivered(c)
      /\ \A d \in Camera \ {c} :
           calls'[d] = calls[d] /\ worker'[d] = worker[d] /\ signals'[d] = signals[d]
  BY WorkerKinds
<1>1. calls[c] \in Seq(Called) /\ signals[c] \in Seq(Signal) /\ worker[c].job \in Job
  BY DEF MechTyped
<1>2. ASSUME NEW d \in Camera \ {c}, NEW n \in Positive
      PROVE  /\ \A B \in SUBSET Nat : Gone(d, n, B) => Gone(d, n, B)'
             /\ InOnePlace(d, n) => InOnePlace(d, n)'
  BY <1>0 DEF Gone, InOnePlace, Performs
<1>3. ASSUME NEW n \in Positive, NEW B \in SUBSET Nat, Gone(c, n, B)
      PROVE  Gone(c, n, B)'
  <2> USE DEF Gone, Performs
  <2> HIDE DEF Called, Signal
  <2>1. n # 0
    BY DEF Positive
  <2>2. CASE Refreshed(c)
    BY <1>1, <1>3, <2>2, TakenOnce, EmittedKeeps DEF Refreshed
  <2>3. CASE Begun(c)
    BY <1>1, <1>3, <2>3, TakenOnce, EmittedKeeps, CallsItself DEF Begun
  <2>4. CASE Refused(c)
    <3> DEFINE k == Head(calls[c])
    <3>1. PICK s \in Seq(Announced) : signals'[c] = Append(signals[c] \o s, Done(k))
      BY <2>4 DEF Refused
    <3>2. k \in [id : Positive, by : Nat] /\ calls'[c] = Tail(calls[c]) /\ calls[c] # <<>>
      BY <2>4 DEF Refused
    <3>3. Absent(Tail(calls[c]), CallOf(n, B)) /\ k \notin CallOf(n, B)
      BY <1>1, <1>3, <3>2, TakenOnce
    <3>4. Done(k) \in Signal /\ Done(k) \notin AnswerOf(n, B)
      BY <3>2, <3>3, AnswersItsCall, CallsItself
    <3>5. signals[c] \o s \in Seq(Signal) /\ Absent(signals[c] \o s, AnswerOf(n, B))
      BY <1>1, <1>3, EmittedKeeps
    <3>6. Absent(signals'[c], AnswerOf(n, B))
      BY <3>1, <3>4, <3>5, AppendedOnce
    <3> QED
      BY <1>3, <2>4, <3>2, <3>3, <3>6 DEF Refused
  <2>5. CASE Ended(c)
    BY <1>1, <1>3, <2>5, EmittedKeeps DEF Ended
  <2>6. CASE Delivered(c)
    BY <1>1, <1>3, <2>1, <2>6, AppendedOnce, AnswersItsCall, JobOfNobody DEF Delivered
  <2> QED
    BY <1>0, <2>2, <2>3, <2>4, <2>5, <2>6
<1>4. ASSUME NEW n \in Positive, InOnePlace(c, n)
      PROVE  InOnePlace(c, n)'
  <2> USE DEF InOnePlace, Performs
  <2> HIDE DEF Called, Signal
  <2>1. n # 0
    BY DEF Positive
  <2>2. CASE Refreshed(c)
    BY <1>1, <1>4, <2>2, TakenOnce, EmittedKeeps DEF Refreshed
  <2>3. CASE Begun(c)
    BY <1>1, <1>4, <2>3, TakenOnce, EmittedKeeps, CallsItself DEF Begun
  <2>4. CASE Refused(c)
    <3> DEFINE k == Head(calls[c])
    <3>1. PICK s \in Seq(Announced) : signals'[c] = Append(signals[c] \o s, Done(k))
      BY <2>4 DEF Refused
    <3>2. k \in [id : Positive, by : Nat] /\ calls'[c] = Tail(calls[c]) /\ calls[c] # <<>>
      BY <2>4 DEF Refused
    <3>3. /\ Once(Tail(calls[c]), CallOf(n, Nat))
          /\ k \in CallOf(n, Nat) => Absent(Tail(calls[c]), CallOf(n, Nat))
          /\ Absent(calls[c], CallOf(n, Nat))
               => k \notin CallOf(n, Nat) /\ Absent(Tail(calls[c]), CallOf(n, Nat))
      BY <1>1, <1>4, <3>2, TakenOnce
    <3>4. Done(k) \in Signal /\ (Done(k) \in AnswerOf(n, Nat) <=> k \in CallOf(n, Nat))
      BY <3>2, <3>3, AnswersItsCall, CallsItself
    <3>5. /\ signals[c] \o s \in Seq(Signal) /\ Once(signals[c] \o s, AnswerOf(n, Nat))
          /\ Absent(signals[c], AnswerOf(n, Nat)) => Absent(signals[c] \o s, AnswerOf(n, Nat))
      BY <1>1, <1>4, EmittedKeeps
    <3>6. worker[c].job = NoJob /\ worker'[c].job = NoJob /\ mechResults' = mechResults
      BY <2>4 DEF Refused
    <3>7. CASE k \in CallOf(n, Nat)
      <4>1. Absent(signals[c], AnswerOf(n, Nat)) /\ Absent(mechResults, ResultOf(c, n, Nat))
        BY <1>4, <3>3, <3>7
      <4>2. Once(signals'[c], AnswerOf(n, Nat))
        BY <3>1, <3>4, <3>5, <4>1, AppendedOnce
      <4> QED
        BY <1>4, <2>1, <3>2, <3>3, <3>6, <3>7, <4>1, <4>2, JobOfNobody
    <3>8. CASE k \notin CallOf(n, Nat)
      <4>1. /\ Once(signals'[c], AnswerOf(n, Nat))
            /\ Absent(signals[c], AnswerOf(n, Nat)) => Absent(signals'[c], AnswerOf(n, Nat))
        BY <3>1, <3>4, <3>5, <3>8, AppendedOnce
      <4> QED
        BY <1>4, <2>1, <3>2, <3>3, <3>6, <3>8, <4>1, JobOfNobody
    <3> QED
      BY <3>7, <3>8
  <2>5. CASE Ended(c)
    BY <1>1, <1>4, <2>5, EmittedKeeps DEF Ended
  <2>6. CASE Delivered(c)
    BY <1>1, <1>4, <2>1, <2>6, AppendedOnce, AnswersItsCall, JobOfNobody DEF Delivered
  <2> QED
    BY <1>0, <2>2, <2>3, <2>4, <2>5, <2>6
<1> QED
  BY <1>2, <1>3, <1>4

--------------------------------------------------------------------------------
\* The other steps of the depth cameras.

\* What a step keeps if it moves captures on without asking for one.
Moves ==
  /\ MechTyped' /\ NumberedOnce'
  /\ \A d \in Camera : service'[d].next >= service[d].next
  /\ \A d \in Camera, n \in Positive : \A B \in SUBSET Nat :
       n < service[d].next /\ Gone(d, n, B) => Gone(d, n, B)'

LEMMA NextIsNumber == MechTyped => \A d \in Camera : service[d].next \in Positive
  BY DEF MechTyped

LEMMA WorkerStepMoves ==
  ASSUME MechTyped, NumberedOnce, NEW c \in Camera, WorkerSteps(c), mechResults' = mechResults
  PROVE  Moves
<1>1. MechTyped' /\ service' = service
  BY WorkerKinds
<1>2. Nat \in SUBSET Nat
  OBVIOUS
<1>3. \A d \in Camera : service'[d].next \in Nat
  BY <1>1, NextIsNumber DEF Positive
<1> QED
  BY <1>1, <1>2, <1>3, WorkerMoves DEF Moves, NumberedOnce

\* A number that was not given yet is given.
LEMMA RequestMoves ==
  ASSUME MechTyped, NumberedOnce, NEW c \in Camera, NEW by \in Nat, RequestCapture(c, by),
         mechResults' = mechResults
  PROVE  /\ Moves
         /\ service[c].next \in Positive /\ service'[c].next > service[c].next
         /\ \A n \in Positive : n = service[c].next => Gone(c, n, Nat \ {by})'
<1> DEFINE m == service[c].next
           k == [id |-> m, by |-> by]
<1>1. m \in Positive /\ k \in [id : Positive, by : Nat] /\ k \in Called
  BY DEF MechTyped, Called
<1>2. calls[c] \in Seq(Called) /\ Append(calls[c], k) \in Seq(Called)
  BY <1>1 DEF MechTyped
<1>3. /\ calls' = [calls EXCEPT ![c] = Append(calls[c], k)]
      /\ service' = [service EXCEPT ![c].busy = TRUE, ![c].next = m + 1]
      /\ UNCHANGED <<worker, signals, mechResults>>
  BY DEF RequestCapture
<1>4. /\ calls' \in [Camera -> Seq(Called)] /\ calls'[c] = Append(calls[c], k)
      /\ \A d \in Camera \ {c} : calls'[d] = calls[d]
  BY <1>2, <1>3 DEF MechTyped
<1>5. /\ service' \in [Camera -> [busy : BOOLEAN, state : State, next : Positive]]
      /\ service'[c].next = m + 1 /\ \A d \in Camera \ {c} : service'[d] = service[d]
  <2>1. m + 1 \in Positive
    BY <1>1 DEF Positive
  <2> QED
    BY <1>3, <2>1 DEF MechTyped
<1>6. MechTyped'
  BY <1>3, <1>4, <1>5 DEF MechTyped
<1> HIDE DEF m
<1>7. /\ Gone(c, m, Nat) /\ \A d \in Camera, n \in Positive : InOnePlace(d, n)
  <2>1. m >= m
    BY <1>1 DEF Positive
  <2> QED
    BY <1>1, <2>1 DEF NumberedOnce, m
<1>8. ASSUME NEW d \in Camera, NEW n \in Positive, NEW B \in SUBSET Nat, Gone(d, n, B),
             d # c \/ n # m \/ by \notin B
      PROVE  Gone(d, n, B)'
  <2>1. CASE d # c
    BY <1>3, <1>4, <1>8, <2>1 DEF Gone, Performs
  <2>2. CASE d = c
    <3>1. k \notin CallOf(n, B)
      BY <1>1, <1>8, <2>2, CallsItself
    <3>2. Absent(calls'[c], CallOf(n, B))
      BY <1>1, <1>2, <1>4, <1>8, <2>2, <3>1, AppendedOnce DEF Gone
    <3> QED
      BY <1>3, <1>8, <2>2, <3>2 DEF Gone, Performs
  <2> QED
    BY <2>1, <2>2
<1>9. ASSUME NEW d \in Camera, NEW n \in Positive
      PROVE  InOnePlace(d, n)'
  <2>1. CASE d # c
    BY <1>3, <1>4, <1>7, <2>1 DEF InOnePlace, Performs
  <2>2. CASE d = c /\ n # m
    <3>1. k \notin CallOf(n, Nat)
      BY <1>1, <2>2, CallsItself
    <3>2. /\ Once(calls[c], CallOf(n, Nat)) => Once(calls'[c], CallOf(n, Nat))
          /\ Absent(calls[c], CallOf(n, Nat)) => Absent(calls'[c], CallOf(n, Nat))
      BY <1>1, <1>2, <1>4, <3>1, AppendedOnce
    <3> QED
      BY <1>3, <1>7, <2>2, <3>2 DEF InOnePlace, Performs
  <2>3. CASE d = c /\ n = m
    <3>1. Once(calls[c], CallOf(n, Nat)) /\ Absent(calls[c], CallOf(n, Nat))
      BY <1>7, <2>3 DEF InOnePlace, Gone
    <3>2. Once(calls'[c], CallOf(n, Nat))
      BY <1>1, <1>2, <1>4, <3>1, AppendedOnce
    <3> QED
      BY <1>3, <1>7, <2>3, <3>2 DEF InOnePlace, Performs, Gone
  <2> QED
    BY <2>1, <2>2, <2>3
<1>10. NumberedOnce'
  <2> SUFFICES ASSUME NEW d \in Camera, NEW n \in Positive, n >= service'[d].next
               PROVE  Gone(d, n, Nat)'
    BY <1>9 DEF NumberedOnce
  <2>1. n >= service[d].next /\ (d = c => n # m)
    <3>1. CASE d = c
      BY <1>1, <1>5, <3>1 DEF m, Positive
    <3>2. CASE d # c
      BY <1>5, <3>2
    <3> QED
      BY <3>1, <3>2
  <2>2. Gone(d, n, Nat)
    BY <2>1 DEF NumberedOnce
  <2> QED
    BY <1>8, <2>1, <2>2
<1>11. \A d \in Camera : service'[d].next >= service[d].next
  <2> TAKE d \in Camera
  <2>1. service[d].next \in Nat
    BY NextIsNumber DEF Positive
  <2>2. CASE d = c
    BY <1>5, <2>1, <2>2 DEF m
  <2>3. CASE d # c
    BY <1>5, <2>1, <2>3
  <2> QED
    BY <2>2, <2>3
<1>12. ASSUME NEW n \in Positive, n = m PROVE Gone(c, n, Nat \ {by})'
  <2> DEFINE others == Nat \ {by}
  <2>1. others \in SUBSET Nat /\ by \notin others
    OBVIOUS
  <2>2. Gone(c, n, others)
    BY <1>7, <1>12 DEF Gone, Absent, CallOf, AnswerOf, ResultOf, Performs
  <2> HIDE DEF others
  <2>3. Gone(c, n, others)'
    BY <1>8, <2>1, <2>2
  <2> QED
    BY <2>3 DEF others
<1>13. Moves
  <2> SUFFICES ASSUME NEW d \in Camera, NEW n \in Positive, NEW B \in SUBSET Nat,
                      n < service[d].next, Gone(d, n, B)
               PROVE  Gone(d, n, B)'
    BY <1>6, <1>10, <1>11 DEF Moves
  <2>1. d # c \/ n # m
    BY <1>1 DEF m, Positive
  <2> QED
    BY <1>8, <2>1
<1>14. m + 1 > m
  BY <1>1 DEF Positive
<1> QED
  BY <1>1, <1>5, <1>12, <1>13, <1>14 DEF m

LEMMA RefreshMoves ==
  ASSUME MechTyped, NumberedOnce, NEW c \in Camera, RequestRefreshStatus(c), mechResults' = mechResults
  PROVE  Moves
<1>1. calls[c] \in Seq(Called) /\ RefreshStatus \in Called
  BY KindsOfSignal DEF MechTyped
<1>2. /\ calls' = [calls EXCEPT ![c] = Append(calls[c], RefreshStatus)]
      /\ UNCHANGED <<service, worker, signals, mechResults>>
  BY DEF RequestRefreshStatus
<1>3. /\ calls' \in [Camera -> Seq(Called)] /\ calls'[c] = Append(calls[c], RefreshStatus)
      /\ \A d \in Camera \ {c} : calls'[d] = calls[d]
  <2>1. Append(calls[c], RefreshStatus) \in Seq(Called)
    BY <1>1
  <2> QED
    BY <1>2, <2>1 DEF MechTyped
<1>4. MechTyped'
  BY <1>2, <1>3 DEF MechTyped
<1>5. ASSUME NEW n \in Positive, NEW B
      PROVE  /\ Once(calls[c], CallOf(n, B)) => Once(calls'[c], CallOf(n, B))
             /\ Absent(calls[c], CallOf(n, B)) => Absent(calls'[c], CallOf(n, B))
  <2>1. RefreshStatus \notin CallOf(n, B)
    BY KindsOfSignal DEF Positive
  <2> HIDE DEF Called
  <2> QED
    BY <1>1, <1>3, <2>1, AppendedOnce
<1>6. ASSUME NEW d \in Camera, NEW n \in Positive
      PROVE  /\ InOnePlace(d, n) => InOnePlace(d, n)'
             /\ \A B \in SUBSET Nat : Gone(d, n, B) => Gone(d, n, B)'
  BY <1>2, <1>3, <1>5 DEF InOnePlace, Gone, Performs
<1>7. \A d \in Camera : service'[d].next = service[d].next /\ service[d].next \in Nat
  BY <1>2, NextIsNumber DEF Positive
<1>8. Nat \in SUBSET Nat
  OBVIOUS
<1> QED
  BY <1>4, <1>6, <1>7, <1>8 DEF Moves, NumberedOnce

\* A service passes an answer on.
LEMMA SignalMoves ==
  ASSUME MechTyped, NumberedOnce, NEW c \in Camera, MechSignal(c)
  PROVE  Moves
<1> DEFINE e == Head(signals[c])
           res == [cam |-> c, id |-> e.id, by |-> e.by]
<1>1. /\ signals[c] \in Seq(Signal) /\ signals[c] # <<>> /\ e \in Signal
      /\ signals' = [signals EXCEPT ![c] = Tail(signals[c])] /\ UNCHANGED <<calls, worker>>
      /\ mechResults' = IF e.kind = "done" THEN Append(mechResults, res) ELSE mechResults
  <2>1. signals[c] \in Seq(Signal) /\ signals[c] # <<>>
    BY DEF MechTyped, MechSignal, ServiceHears
  <2> HIDE DEF Signal
  <2>2. e \in Signal
    BY <2>1
  <2> QED
    BY <2>1, <2>2 DEF MechSignal, ServiceHears
<1>2. /\ signals' \in [Camera -> Seq(Signal)] /\ signals'[c] = Tail(signals[c])
      /\ \A d \in Camera \ {c} : signals'[d] = signals[d]
  <2>1. Tail(signals[c]) \in Seq(Signal)
    BY <1>1
  <2> QED
    BY <1>1, <2>1 DEF MechTyped
<1>3. \/ e.kind = "done" /\ e \in Answered
      \/ e.kind # "done" /\ e \in Announced
  BY <1>1 DEF Signal, Answered, Announced, Fatal
<1>4. e.kind = "state" => e.state \in State
  BY <1>1 DEF Signal, Answered, Announced, Fatal
<1> HIDE DEF e
<1>5. /\ service' \in [Camera -> [busy : BOOLEAN, state : State, next : Positive]]
      /\ \A d \in Camera : service'[d].next = service[d].next
  <2>1. CASE e.kind = "state"
    <3>1. service' = [service EXCEPT ![c].state = e.state,
                                     ![c].busy = service[c].busy /\ e.state = "capturing"]
      BY <2>1 DEF MechSignal, ServiceHears, e, MechTyped
    <3> QED
      BY <1>4, <2>1, <3>1 DEF MechTyped
  <2>2. CASE e.kind # "state"
    <3>1. service' = [service EXCEPT ![c].busy = FALSE]
      BY <2>2 DEF MechSignal, ServiceHears, e
    <3> QED
      BY <3>1 DEF MechTyped
  <2> QED
    BY <2>1, <2>2
<1>6. e \in Answered => res \in Result
  BY DEF Answered, Result
<1>7. mechResults \in Seq(Result)
  BY DEF MechTyped
<1>8. MechTyped'
  <2>1. mechResults' \in Seq(Result)
    BY <1>1, <1>3, <1>6, <1>7
  <2> QED
    BY <1>1, <1>2, <1>5, <2>1 DEF MechTyped
<1>9. ASSUME NEW d \in Camera, NEW n \in Positive, NEW B \in SUBSET Nat
      PROVE  /\ e \in Announced => e \notin AnswerOf(n, B)
             /\ e \in Answered => (res \in ResultOf(d, n, B) <=> d = c /\ e \in AnswerOf(n, B))
  BY KindsOfSignal DEF AnswerOf, ResultOf, Answered
<1> HIDE DEF res
<1>10. ASSUME NEW d \in Camera, NEW n \in Positive, NEW B \in SUBSET Nat
       PROVE  /\ Once(signals[c], AnswerOf(n, B)) => Once(signals'[c], AnswerOf(n, B))
              /\ Absent(signals[c], AnswerOf(n, B))
                   => Absent(signals'[c], AnswerOf(n, B)) /\ e \notin AnswerOf(n, B)
              /\ Once(signals[c], AnswerOf(n, B)) /\ e \in AnswerOf(n, B)
                   => Absent(signals'[c], AnswerOf(n, B))
              /\ Once(mechResults, ResultOf(d, n, B))
                   /\ (Absent(mechResults, ResultOf(d, n, B)) \/ d # c \/ e \notin AnswerOf(n, B))
                   => Once(mechResults', ResultOf(d, n, B))
              /\ Absent(mechResults, ResultOf(d, n, B)) /\ (d # c \/ e \notin AnswerOf(n, B))
                   => Absent(mechResults', ResultOf(d, n, B))
  <2> HIDE DEF Signal, Result
  <2>1. /\ Once(signals[c], AnswerOf(n, B)) => Once(signals'[c], AnswerOf(n, B))
        /\ Absent(signals[c], AnswerOf(n, B))
             => Absent(signals'[c], AnswerOf(n, B)) /\ e \notin AnswerOf(n, B)
        /\ Once(signals[c], AnswerOf(n, B)) /\ e \in AnswerOf(n, B)
             => Absent(signals'[c], AnswerOf(n, B))
    BY <1>1, <1>2, TakenOnce DEF e
  <2>2. CASE e.kind # "done"
    BY <1>1, <1>3, <1>9, <2>1, <2>2
  <2>3. CASE e.kind = "done"
    <3> QED
      BY <1>1, <1>3, <1>6, <1>7, <1>9, <2>1, <2>3, AppendedOnce
  <2> QED
    BY <2>2, <2>3
<1>11. ASSUME NEW d \in Camera, NEW n \in Positive, NEW B \in SUBSET Nat, Gone(d, n, B)
       PROVE  Gone(d, n, B)'
  <2>1. d = c => e \notin AnswerOf(n, B)
    BY <1>10, <1>11 DEF Gone
  <2> QED
    BY <1>1, <1>2, <1>10, <1>11, <2>1 DEF Gone, Performs
<1>12. ASSUME NEW d \in Camera, NEW n \in Positive, InOnePlace(d, n)
       PROVE  InOnePlace(d, n)'
  <2>1. Nat \in SUBSET Nat
    OBVIOUS
  <2>2. calls'[d] = calls[d] /\ worker'[d] = worker[d]
    BY <1>1
  <2>3. CASE d # c
    BY <1>2, <1>10, <1>12, <2>1, <2>2, <2>3 DEF InOnePlace, Performs
  <2>4. CASE d = c /\ e \notin AnswerOf(n, Nat)
    BY <1>10, <1>12, <2>1, <2>2, <2>4 DEF InOnePlace, Performs
  <2>5. CASE d = c /\ e \in AnswerOf(n, Nat)
    BY <1>10, <1>12, <2>1, <2>2, <2>5 DEF InOnePlace, Performs
  <2> QED
    BY <2>3, <2>4, <2>5
<1>13. \A d \in Camera : service[d].next \in Nat
  BY NextIsNumber DEF Positive
<1>14. Nat \in SUBSET Nat
  OBVIOUS
<1> QED
  BY <1>5, <1>8, <1>11, <1>12, <1>13, <1>14 DEF Moves, NumberedOnce

\* The pipeline takes a result.
LEMMA ResultMoves ==
  ASSUME MechTyped, NumberedOnce, mechResults # <<>>, mechResults' = Tail(mechResults), UNCHANGED mechVars
  PROVE  /\ Moves /\ Head(mechResults) \in Result
         /\ \A d \in Camera, n \in Positive :
              Head(mechResults) \in ResultOf(d, n, Nat) => Gone(d, n, Nat)'
<1>1. mechResults \in Seq(Result)
  BY DEF MechTyped
<1>2. Head(mechResults) \in Result /\ mechResults' \in Seq(Result)
  BY <1>1
<1>3. MechTyped' /\ UNCHANGED <<service, calls, worker, signals>>
  BY <1>2 DEF MechTyped, mechVars
<1>4. ASSUME NEW d \in Camera, NEW n \in Positive, NEW B \in SUBSET Nat
      PROVE  /\ Once(mechResults, ResultOf(d, n, B)) => Once(mechResults', ResultOf(d, n, B))
             /\ Absent(mechResults, ResultOf(d, n, B))
                  => Absent(mechResults', ResultOf(d, n, B)) /\ Head(mechResults) \notin ResultOf(d, n, B)
             /\ Once(mechResults, ResultOf(d, n, B)) /\ Head(mechResults) \in ResultOf(d, n, B)
                  => Absent(mechResults', ResultOf(d, n, B))
  <2> HIDE DEF Result
  <2> QED
    BY <1>1, TakenOnce
<1>5. Nat \in SUBSET Nat
  OBVIOUS
<1>6. ASSUME NEW d \in Camera, NEW n \in Positive
      PROVE  /\ \A B \in SUBSET Nat : Gone(d, n, B) => Gone(d, n, B)'
             /\ InOnePlace(d, n)'
             /\ Head(mechResults) \in ResultOf(d, n, Nat) => Gone(d, n, Nat)'
  <2>1. InOnePlace(d, n)
    BY DEF NumberedOnce
  <2>2. \A B \in SUBSET Nat : Gone(d, n, B) => Gone(d, n, B)'
    BY <1>3, <1>4 DEF Gone, Performs
  <2>3. InOnePlace(d, n)'
    BY <1>3, <1>4, <1>5, <2>1 DEF InOnePlace, Performs
  <2>4. ASSUME Head(mechResults) \in ResultOf(d, n, Nat) PROVE Gone(d, n, Nat)'
    <3>1. ~Absent(mechResults, ResultOf(d, n, Nat)) /\ Absent(mechResults', ResultOf(d, n, Nat))
      BY <1>4, <1>5, <2>1, <2>4 DEF InOnePlace
    <3> QED
      BY <1>3, <2>1, <3>1 DEF InOnePlace, Gone, Performs
  <2> QED
    BY <2>2, <2>3, <2>4
<1>7. \A d \in Camera : service[d].next \in Nat
  BY NextIsNumber DEF Positive
<1> QED
  BY <1>2, <1>3, <1>5, <1>6, <1>7 DEF Moves, NumberedOnce

--------------------------------------------------------------------------------
\* The bundle and its depth picture.

\* The capture of bundle b is asked for by nobody else, and is nowhere any more once b has
\* its picture.
Own(b) ==
  /\ b.mech = 0 => "mech" \notin b.done
  /\ b.mech # 0 =>
       /\ b.cam \in Camera /\ "mech" \in b.use /\ b.mech < service[b.cam].next
       /\ Gone(b.cam, b.mech, Nat \ {b.rid})
       /\ "mech" \in b.done => b.by = b.rid /\ Gone(b.cam, b.mech, Nat)

OwnCapture == \A b \in Bundle : b = pipe.pend => Own(b)

PipelineInv ==
  /\ MechTyped /\ NumberedOnce /\ Tidy(pipe) /\ OwnCapture
  /\ poses \in [Cxp -> Seq(Picture)] /\ lbResults \in Seq(Nat)
  /\ pipe.open => AskedOnce(pipe, poses) /\ DelayFirst(pipe, poses, delays)

LEMMA OwnMoves ==
  ASSUME MechTyped, Moves, NEW b \in Bundle, Own(b)
  PROVE  Own(b)'
<1>1. CASE b.mech = 0
  BY <1>1 DEF Own
<1>2. CASE b.mech # 0
  <2>1. b.mech \in Positive /\ b.cam \in Camera
    BY <1>2 DEF Own, Bundle, Positive
  <2>2. service'[b.cam].next >= service[b.cam].next /\ b.mech < service[b.cam].next
    BY <1>2, <2>1 DEF Moves, Own
  <2>3. service'[b.cam].next \in Nat /\ service[b.cam].next \in Nat /\ b.mech \in Nat
    BY <2>1 DEF Moves, MechTyped, Positive
  <2>4. b.mech < service'[b.cam].next
    BY <2>2, <2>3
  <2>5. ASSUME NEW B \in SUBSET Nat, Gone(b.cam, b.mech, B) PROVE Gone(b.cam, b.mech, B)'
    BY <2>1, <2>2, <2>5 DEF Moves
  <2>6. Gone(b.cam, b.mech, Nat \ {b.rid})'
    <3> DEFINE others == Nat \ {b.rid}
    <3>1. others \in SUBSET Nat /\ Gone(b.cam, b.mech, others)
      BY <1>2 DEF Own
    <3> HIDE DEF others
    <3>2. Gone(b.cam, b.mech, others)'
      BY <2>5, <3>1
    <3> QED
      BY <3>2 DEF others
  <2>7. "mech" \in b.done => b.by = b.rid /\ Gone(b.cam, b.mech, Nat)'
    <3>1. Nat \in SUBSET Nat
      OBVIOUS
    <3> QED
      BY <1>2, <2>5, <3>1 DEF Own
  <2> QED
    BY <1>2, <2>1, <2>4, <2>6, <2>7 DEF Own
<1> QED
  BY <1>1, <1>2

LEMMA StillMoves ==
  ASSUME MechTyped, NumberedOnce, UNCHANGED mechVars, mechResults' = mechResults
  PROVE  Moves
<1>1. UNCHANGED <<service, calls, worker, signals, mechResults>>
  BY DEF mechVars
<1>2. \A d \in Camera : service[d].next \in Nat
  BY NextIsNumber DEF Positive
<1> QED
  BY <1>1, <1>2 DEF Moves, MechTyped, NumberedOnce, InOnePlace, Gone, Performs

\* A step in which the bundle, if it stays, stays the one it was.
LEMMA BundleStays ==
  ASSUME PipelineInv, Moves, Continues(pipe, pipe') \/ pipe'.pend = pipe.pend \/ pipe'.pend = NoBundle
  PROVE  OwnCapture'
<1> SUFFICES ASSUME NEW b \in Bundle, b = pipe'.pend PROVE Own(b)'
  BY DEF OwnCapture
<1>1. \E a \in Bundle : a = pipe.pend
  BY DEF PipelineInv, Tidy, Pipeline
<1>2. PICK a \in Bundle : a = pipe.pend
  BY <1>1
<1>3. Own(a)
  BY <1>2 DEF PipelineInv, OwnCapture
<1>4. \/ b = NoBundle \/ b = a
      \/ /\ b.rid = a.rid /\ b.cam = a.cam /\ b.mech = a.mech /\ b.by = a.by /\ b.use = a.use
         /\ "mech" \in b.done <=> "mech" \in a.done
  BY <1>2 DEF Continues
<1>5. Own(b)
  BY <1>3, <1>4, NoBundleIsOne DEF Own
<1> QED
  BY <1>5, OwnMoves DEF PipelineInv

LEMMA PipelineInit == Init => PipelineInv
<1> SUFFICES ASSUME Init PROVE PipelineInv
  OBVIOUS
<1>1. PICK online \in [Camera -> BOOLEAN] :
        /\ service = [c \in Camera |-> [busy |-> FALSE, state |-> IF online[c] THEN "ready" ELSE "offline", next |-> 1]]
        /\ worker = [c \in Camera |-> [connected |-> online[c],
                       state |-> IF online[c] THEN "ready" ELSE "offline", job |-> NoJob]]
  BY DEF Init, MechInit
<1>2. /\ calls = [c \in Camera |-> <<>>] /\ signals = [c \in Camera |-> <<>>] /\ mechResults = <<>>
  BY DEF Init, MechInit
<1>3. MechTyped
  BY <1>1, <1>2, JobOfNobody DEF MechTyped, State, Positive
<1>4. ASSUME NEW c \in Camera, NEW n \in Positive PROVE InOnePlace(c, n) /\ Gone(c, n, Nat)
  BY <1>1, <1>2, JobOfNobody DEF InOnePlace, Gone, Performs, Once, Absent, Positive
<1>5. pipe = [open |-> TRUE, pend |-> NoBundle, processing |-> 0, next |-> 1,
              jobs |-> [x \in Cxp |-> <<>>], lbJobs |-> <<>>, delivered |-> <<>>]
  BY DEF Init
<1>6. Tidy(pipe) /\ pipe.pend = NoBundle /\ \A x \in Cxp : Len(pipe.jobs[x]) = 0
  BY <1>5, NoBundleIsOne DEF Tidy, Pipeline, Positive
<1>7. \A x \in Cxp : poses[x] = <<>>
  BY DEF Init
<1>8. AskedOnce(pipe, poses)
  BY <1>5, <1>6, <1>7 DEF AskedOnce
<1>9. DelayFirst(pipe, poses, delays)
  BY <1>6, NoBundleIsOne DEF Init, DelayFirst
<1>10. OwnCapture
  BY <1>6, NoBundleIsOne DEF OwnCapture, Own
<1>11. poses \in [Cxp -> Seq(Picture)] /\ lbResults \in Seq(Nat)
  BY DEF Init
<1> QED
  BY <1>3, <1>4, <1>6, <1>8, <1>9, <1>10, <1>11 DEF PipelineInv, NumberedOnce

--------------------------------------------------------------------------------
\* The steps of the pipeline.

\* A new bundle finds no picture and no delay on its way.
LEMMA NewBundle ==
  ASSUME PipelineInv, Idle(pipe), NEW r \in Request, NEW m \in Nat
  PROVE  LET q == [Numbered EXCEPT !.pend = Pending(r, m)]
         IN /\ Tidy(q) /\ AskedOnce(q, poses) /\ Unasked(q, poses) /\ delays = {}
            /\ q.open /\ q.next = pipe.next + 1 /\ q.processing = 0 /\ q.pend = Pending(r, m)
            /\ q.pend \in Bundle /\ q.pend.rid = pipe.next /\ q.pend.cam = r.cam /\ q.pend.use = r.use
            /\ q.pend.mech = m /\ q.pend.done = {} /\ pipe.next \in Positive
            /\ r.cam \in Camera
<1> DEFINE b == Pending(r, m)
           q == [Numbered EXCEPT !.pend = b]
<1>1. pipe \in Pipeline /\ pipe.open /\ pipe.pend.rid = 0 /\ pipe.processing = 0 /\ pipe.next \in Positive
  BY DEF PipelineInv, Tidy, Idle, Pipeline
<1>2. r.cam \in Camera /\ r.use \in SUBSET Channel
  BY RequestAssumption
<1>3. /\ b \in Bundle /\ b.rid = pipe.next /\ b.cam = r.cam /\ b.use = r.use /\ b.mech = m
      /\ b.done = {} /\ b.asked = FALSE
  BY <1>1, <1>2, NoBundleIsOne DEF Pending, Bundle, Positive
<1> HIDE DEF b
<1>4. /\ q \in Pipeline /\ q.pend = b /\ q.open /\ q.next = pipe.next + 1 /\ q.processing = 0
      /\ q.jobs = pipe.jobs
  <2>1. pipe.next + 1 \in Positive
    BY <1>1 DEF Positive
  <2> QED
    BY <1>1, <1>3, <2>1 DEF Numbered, Pipeline
<1> HIDE DEF q
<1>5. Tidy(q)
  BY <1>1, <1>3, <1>4 DEF Tidy, Positive
<1>6. \A x \in Cxp : Len(q.jobs[x]) = 0 /\ Len(poses[x]) = 0
  BY <1>1, <1>4 DEF PipelineInv, AskedOnce
<1>7. Unasked(q, poses)
  BY <1>3, <1>4, <1>6 DEF Unasked
<1>8. AskedOnce(q, poses)
  <2> SUFFICES ASSUME NEW x \in Cxp
               PROVE  /\ \A i \in 1..Len(q.jobs[x]) : q.jobs[x][i] = q.pend.rid
                      /\ \A i \in 1..Len(poses[x]) : poses[x][i].by = q.pend.rid
                      /\ Len(q.jobs[x]) + Len(poses[x]) <= 1
    BY <1>6 DEF AskedOnce
  <2>1. Len(q.jobs[x]) = 0 /\ Len(poses[x]) = 0
    BY <1>6
  <2> QED
    BY <2>1
<1>9. delays = {}
  BY <1>1 DEF PipelineInv, DelayFirst
<1> QED
  BY <1>1, <1>2, <1>3, <1>4, <1>5, <1>7, <1>8, <1>9 DEF q, b

LEMMA BundleWithDepthKeeps == PipelineInv /\ (\E r \in Request : BundleWithDepth(r)) => PipelineInv'
<1> SUFFICES ASSUME PipelineInv, NEW r \in Request, BundleWithDepth(r) PROVE PipelineInv'
  OBVIOUS
<1> DEFINE m == service[r.cam].next
           q == [Numbered EXCEPT !.pend = Pending(r, m)]
<1>1. /\ Idle(pipe) /\ "mech" \in r.use /\ RequestCapture(r.cam, pipe.next) /\ pipe' = q
      /\ UNCHANGED <<delays, mechResults, poses, lbResults>>
  BY DEF BundleWithDepth
<1>2. r.cam \in Camera
  BY RequestAssumption
<1>3. m \in Positive
  BY <1>2, NextIsNumber DEF PipelineInv
<1>4. /\ Tidy(q) /\ AskedOnce(q, poses) /\ Unasked(q, poses) /\ delays = {}
      /\ q.pend \in Bundle /\ q.pend.rid = pipe.next /\ q.pend.cam = r.cam /\ q.pend.use = r.use
      /\ q.pend.mech = m /\ q.pend.done = {} /\ pipe.next \in Positive
  BY <1>1, <1>3, NewBundle DEF Positive
<1> HIDE DEF q
<1>5. PICK rid \in Nat : rid = pipe.next
  BY <1>4 DEF Positive
<1>6. PICK c \in Camera : c = r.cam
  BY <1>2
<1>7. /\ Moves /\ service'[c].next > m
      /\ \A n \in Positive : n = service[c].next => Gone(c, n, Nat \ {rid})'
  <2>1. RequestCapture(c, rid)
    BY <1>1, <1>5, <1>6
  <2> QED
    BY <1>1, <1>6, <2>1, RequestMoves DEF PipelineInv
<1>8. OwnCapture'
  <2> SUFFICES ASSUME NEW b \in Bundle, b = q.pend PROVE Own(b)'
    BY <1>1 DEF OwnCapture
  <2>1. b.mech \in Positive /\ b.mech = m /\ b.cam = c /\ b.rid = rid /\ b.done = {} /\ b.use = r.use
    BY <1>3, <1>4, <1>5, <1>6
  <2>2. Gone(c, b.mech, Nat \ {rid})'
    BY <1>6, <1>7, <2>1
  <2>3. b.mech < service'[c].next
    <3>1. service'[c].next \in Nat /\ b.mech \in Nat /\ service'[c].next > b.mech
      BY <1>7, <2>1 DEF Moves, MechTyped, Positive
    <3> QED
      BY <3>1
  <2> QED
    BY <1>1, <2>1, <2>2, <2>3 DEF Own, Positive
<1>9. DelayFirst(q, poses, delays)
  BY <1>4 DEF DelayFirst
<1> QED
  BY <1>1, <1>4, <1>7, <1>8, <1>9 DEF PipelineInv, Moves

LEMMA BundleRejectedKeeps == PipelineInv /\ (\E r \in Request : BundleRejected(r)) => PipelineInv'
<1> SUFFICES ASSUME PipelineInv, NEW r \in Request, BundleRejected(r) PROVE PipelineInv'
  OBVIOUS
<1>1. pipe' = [pipe EXCEPT !.next = @ + 1] /\ UNCHANGED <<mechVars, delays, mechResults, poses, lbResults>>
  BY DEF BundleRejected, Numbered
<1>2. Moves
  BY <1>1, StillMoves DEF PipelineInv
<1>3. /\ pipe' \in Pipeline /\ pipe'.pend = pipe.pend /\ pipe'.open = pipe.open
      /\ pipe'.processing = pipe.processing /\ pipe'.jobs = pipe.jobs
  <2>1. pipe.next + 1 \in Positive
    BY DEF PipelineInv, Tidy, Pipeline, Positive
  <2> QED
    BY <1>1, <2>1 DEF PipelineInv, Tidy, Pipeline
<1>4. OwnCapture'
  BY <1>2, <1>3, BundleStays
<1>5. Tidy(pipe')
  BY <1>3 DEF PipelineInv, Tidy
<1>6. pipe'.open => AskedOnce(pipe', poses) /\ DelayFirst(pipe', poses, delays)
  BY <1>3 DEF PipelineInv, AskedOnce, DelayFirst, Unasked
<1> QED
  BY <1>1, <1>2, <1>4, <1>5, <1>6 DEF PipelineInv, Moves

LEMMA BundleWithoutDepthKeeps ==
  PipelineInv /\ (\E r \in Request : BundleWithoutDepth(r)) => PipelineInv'
<1> SUFFICES ASSUME PipelineInv, NEW r \in Request, BundleWithoutDepth(r) PROVE PipelineInv'
  OBVIOUS
<1> DEFINE q == [Numbered EXCEPT !.pend = Pending(r, 0)]
<1>1. PICK refused \in SUBSET Cxp : pipe' = StartHikChannels(q, refused)
  BY DEF BundleWithoutDepth
<1>2. /\ Idle(pipe) /\ "mech" \notin r.use
      /\ UNCHANGED <<mechVars, delays, mechResults, poses, lbResults>>
  BY DEF BundleWithoutDepth
<1>3. /\ Tidy(q) /\ AskedOnce(q, poses) /\ Unasked(q, poses) /\ delays = {}
      /\ q.pend \in Bundle /\ q.pend.use = r.use /\ q.pend.mech = 0 /\ q.pend.done = {}
      /\ q.pend.rid = pipe.next /\ pipe.next \in Positive
  BY <1>2, NewBundle
<1> HIDE DEF q
<1>4. Tidy(pipe') /\ AskedOnce(pipe', poses) /\ Continues(q, pipe')
  BY <1>1, <1>3, StartKeeps
<1>5. Moves
  BY <1>2, StillMoves DEF PipelineInv
<1>6. /\ pipe'.pend.mech = 0 /\ "mech" \notin pipe'.pend.done
      /\ pipe'.pend.rid = 0 \/ "mech" \notin pipe'.pend.use
  BY <1>2, <1>3, <1>4, NoBundleIsOne DEF Continues
<1>7. OwnCapture'
  BY <1>6 DEF OwnCapture, Own
<1>8. DelayFirst(pipe', poses, delays)
  BY <1>3, <1>6 DEF DelayFirst
<1> QED
  BY <1>2, <1>4, <1>5, <1>7, <1>8 DEF PipelineInv, Moves

\* What only the depth cameras notice.
LEMMA OnlyCameras ==
  ASSUME PipelineInv, Moves, UNCHANGED <<pipe, delays, poses, lbResults>>
  PROVE  PipelineInv'
<1>1. OwnCapture'
  BY BundleStays
<1> QED
  BY <1>1 DEF PipelineInv, Moves

LEMMA CamerasKeep ==
  ASSUME PipelineInv, NEW c \in Camera, HmiCapture(c) \/ HmiRefresh(c) \/ MechSignal(c) \/ MechWorker(c)
  PROVE  PipelineInv'
<1>1. CASE HmiCapture(c)
  BY <1>1, RequestMoves, OnlyCameras DEF HmiCapture, PipelineInv
<1>2. CASE HmiRefresh(c)
  BY <1>2, RefreshMoves, OnlyCameras DEF HmiRefresh, PipelineInv
<1>3. CASE MechSignal(c)
  <2>1. Moves
    BY <1>3, SignalMoves DEF PipelineInv
  <2> QED
    BY <1>3, <2>1, OnlyCameras DEF MechSignal
<1>4. CASE MechWorker(c)
  BY <1>4, WorkerStepMoves, OnlyCameras DEF MechWorker, PipelineInv
<1> QED
  BY <1>1, <1>2, <1>3, <1>4

LEMMA MechResultKeeps == PipelineInv /\ MechResult => PipelineInv'
<1> SUFFICES ASSUME PipelineInv, MechResult PROVE PipelineInv'
  OBVIOUS
<1> DEFINE e == Head(mechResults)
<1>1. /\ mechResults # <<>> /\ mechResults' = Tail(mechResults)
      /\ UNCHANGED <<mechVars, poses, lbResults>>
      /\ pipe' = OnMechEyeCaptureFinished(pipe, e)
      /\ delays' = IF MyCapture(pipe, e) THEN delays \cup {pipe.pend.rid} ELSE delays
  BY DEF MechResult
<1>2. /\ Moves /\ e \in Result
      /\ \A d \in Camera, n \in Positive : e \in ResultOf(d, n, Nat) => Gone(d, n, Nat)'
  BY <1>1, ResultMoves DEF PipelineInv
<1> HIDE DEF e
<1>3. CASE ~MyCapture(pipe, e)
  <2>1. pipe' = pipe /\ delays' = delays
    BY <1>1, <1>3 DEF OnMechEyeCaptureFinished
  <2> QED
    BY <1>1, <1>2, <2>1, OnlyCameras
<1>4. CASE MyCapture(pipe, e)
  <2>1. pipe' = [pipe EXCEPT !.pend.done = @ \cup {"mech"}, !.pend.by = e.by]
    BY <1>1, <1>4 DEF OnMechEyeCaptureFinished
  <2>2. /\ pipe.pend.rid # 0 /\ e.id = pipe.pend.mech /\ e.cam = pipe.pend.cam
        /\ e.id \in Positive /\ e.by \in Nat /\ e.cam \in Camera /\ pipe.pend \in Bundle
    BY <1>2, <1>4 DEF MyCapture, Result, PipelineInv, Tidy, Pipeline
  <2>3. /\ pipe' \in Pipeline /\ pipe'.open = pipe.open /\ pipe'.processing = pipe.processing
        /\ pipe'.jobs = pipe.jobs
        /\ pipe'.pend.done = pipe.pend.done \cup {"mech"} /\ pipe'.pend.by = e.by
        /\ pipe'.pend.rid = pipe.pend.rid /\ pipe'.pend.cam = pipe.pend.cam
        /\ pipe'.pend.mech = pipe.pend.mech /\ pipe'.pend.use = pipe.pend.use
        /\ pipe'.pend.asked = pipe.pend.asked
    <3>1. "mech" \in Channel
      BY DEF Channel
    <3> QED
      BY <2>1, <2>2, <3>1 DEF PipelineInv, Tidy, Pipeline, Bundle
  <2>4. PICK a \in Bundle : a = pipe.pend
    BY <2>2
  <2>5. Own(a)
    BY <2>4 DEF PipelineInv, OwnCapture
  <2>6. a.mech \in Positive /\ a.cam \in Camera /\ e \in ResultOf(a.cam, a.mech, Nat)
    BY <1>2, <2>2, <2>4 DEF Result, ResultOf
  <2>7. Gone(a.cam, a.mech, Nat)'
    BY <1>2, <2>6
  <2>8. "mech" \in a.use /\ "mech" \notin a.done /\ e.by = a.rid
    <3>1. /\ "mech" \in a.use /\ Gone(a.cam, a.mech, Nat \ {a.rid})
          /\ "mech" \in a.done => Gone(a.cam, a.mech, Nat)
      BY <2>5, <2>6 DEF Own, Positive
    <3>2. \E i \in 1..Len(mechResults) : mechResults[i] = e
      BY <1>1 DEF e, PipelineInv, MechTyped
    <3>3. e \in ResultOf(a.cam, a.mech, Nat \ {a.rid}) <=> e.by # a.rid
      BY <2>6 DEF ResultOf
    <3>4. /\ e \notin ResultOf(a.cam, a.mech, Nat \ {a.rid})
          /\ "mech" \in a.done => e \notin ResultOf(a.cam, a.mech, Nat)
      BY <3>1, <3>2 DEF Gone, Absent
    <3> QED
      BY <2>6, <3>1, <3>3, <3>4
  <2>9. OwnCapture'
    <3> SUFFICES ASSUME NEW b \in Bundle, b = pipe'.pend PROVE Own(b)'
      BY DEF OwnCapture
    <3>1. Own(a)'
      BY <1>2, <2>5, OwnMoves DEF PipelineInv
    <3>2. b.cam = a.cam /\ b.mech = a.mech /\ b.rid = a.rid /\ b.use = a.use /\ b.by = b.rid
      BY <2>3, <2>4, <2>8
    <3> QED
      BY <2>6, <2>7, <3>1, <3>2 DEF Own, Positive
  <2>10. Tidy(pipe')
    BY <2>2, <2>3 DEF PipelineInv, Tidy
  <2>11. pipe.open /\ AskedOnce(pipe, poses) /\ DelayFirst(pipe, poses, delays)
    BY <2>2 DEF PipelineInv, Tidy
  <2>12. Unasked(pipe, poses) /\ delays = {}
    BY <2>2, <2>4, <2>8, <2>11 DEF DelayFirst
  <2>13. Unasked(pipe', poses)
    BY <2>3, <2>12 DEF Unasked, Cxp
  <2>14. AskedOnce(pipe', poses)
    BY <2>3, <2>11 DEF AskedOnce, Cxp
  <2>15. delays' = {pipe'.pend.rid} /\ "mech" \in pipe'.pend.done /\ pipe'.pend.rid # 0
    BY <1>1, <1>4, <2>2, <2>3, <2>12
  <2>16. DelayFirst(pipe', poses, delays')
    BY <2>13, <2>15 DEF DelayFirst
  <2> QED
    BY <1>1, <1>2, <2>9, <2>10, <2>14, <2>16 DEF PipelineInv, Moves
<1> QED
  BY <1>3, <1>4

LEMMA DelayOverKeeps == PipelineInv /\ DelayOver => PipelineInv'
<1> SUFFICES ASSUME PipelineInv, DelayOver PROVE PipelineInv'
  OBVIOUS
<1>1. PICK n \in delays : delays' = delays \ {n}
  BY DEF DelayOver
<1>2. PICK refused \in SUBSET Cxp : pipe' = StartHikChannels(pipe, refused)
  BY DEF DelayOver
<1>3. UNCHANGED <<mechVars, mechResults, poses, lbResults>>
  BY DEF DelayOver
<1>4. Moves
  BY <1>3, StillMoves DEF PipelineInv
<1>5. CASE pipe.open
  <2>1. /\ Tidy(pipe) /\ AskedOnce(pipe, poses) /\ pipe.pend.rid # 0 /\ delays = {pipe.pend.rid}
        /\ "mech" \in pipe.pend.done /\ Unasked(pipe, poses)
    BY <1>1, <1>5 DEF PipelineInv, DelayFirst
  <2>2. Tidy(pipe') /\ AskedOnce(pipe', poses) /\ Continues(pipe, pipe')
    BY <1>2, <2>1, StartKeeps
  <2>3. OwnCapture'
    BY <1>4, <2>2, BundleStays
  <2>4. DelayFirst(pipe', poses, delays')
    <3>1. delays' = {}
      BY <1>1, <2>1
    <3>2. pipe'.pend.rid = 0 \/ "mech" \in pipe'.pend.done
      BY <2>1, <2>2, NoBundleIsOne DEF Continues
    <3> QED
      BY <3>1, <3>2 DEF DelayFirst
  <2> QED
    BY <1>3, <1>4, <2>2, <2>3, <2>4 DEF PipelineInv, Moves
<1>6. CASE ~pipe.open
  <2>1. pipe.pend.rid = 0
    BY <1>6 DEF PipelineInv, Tidy
  <2>2. pipe' = pipe
    <3>1. StartPendingHikCapture(pipe, refused) = pipe
      BY <2>1 DEF StartPendingHikCapture
    <3>2. StartPendingHikCameraCCapture(pipe) = pipe
      BY <2>1 DEF StartPendingHikCameraCCapture
    <3>3. FinishBundleIfReady(pipe) = pipe
      BY <2>1 DEF FinishBundleIfReady
    <3> QED
      BY <1>2, <3>1, <3>2, <3>3 DEF StartHikChannels
  <2>3. OwnCapture'
    BY <1>4, <2>2, BundleStays
  <2> QED
    BY <1>3, <1>4, <1>6, <2>2, <2>3 DEF PipelineInv, Moves
<1> QED
  BY <1>5, <1>6

\* The steps that leave the depth cameras and the bundle alone.
LEMMA BundleAlone ==
  ASSUME PipelineInv, UNCHANGED <<mechVars, mechResults, delays>>, Tidy(pipe'),
         pipe'.pend = pipe.pend, pipe'.open = pipe.open,
         poses' \in [Cxp -> Seq(Picture)], lbResults' \in Seq(Nat),
         pipe.open => AskedOnce(pipe', poses') /\ DelayFirst(pipe', poses', delays)
  PROVE  PipelineInv'
<1>1. Moves
  BY StillMoves DEF PipelineInv
<1>2. OwnCapture'
  BY <1>1, BundleStays
<1> QED
  BY <1>1, <1>2 DEF PipelineInv, Moves

LEMMA OneOfTwo ==
  ASSUME NEW a \in Nat, NEW b \in Nat, a + b <= 1
  PROVE  (a >= 1 => a = 1 /\ b = 0) /\ (b >= 1 => a = 0 /\ b = 1)
  OBVIOUS

LEMMA CxpCapturedKeeps == PipelineInv /\ (\E x \in Cxp : CxpCaptured(x)) => PipelineInv'
<1> SUFFICES ASSUME PipelineInv, NEW x \in Cxp, CxpCaptured(x) PROVE PipelineInv'
  OBVIOUS
<1> DEFINE j == Head(pipe.jobs[x])
<1>1. PICK ok \in BOOLEAN : poses' = [poses EXCEPT ![x] = Append(@, [by |-> j, ok |-> ok])]
  BY DEF CxpCaptured
<1>2. /\ pipe.jobs[x] # <<>> /\ pipe' = [pipe EXCEPT !.jobs[x] = Tail(@)]
      /\ UNCHANGED <<mechVars, mechResults, delays, lbResults>>
  BY DEF CxpCaptured
<1>3. /\ pipe.jobs[x] \in Seq(Nat) /\ poses[x] \in Seq(Picture) /\ pipe \in Pipeline
      /\ pipe.jobs \in [Cxp -> Seq(Nat)] /\ poses \in [Cxp -> Seq(Picture)]
  BY DEF PipelineInv, Tidy, Pipeline
<1>4. /\ j \in Nat /\ j = pipe.jobs[x][1] /\ Len(pipe.jobs[x]) >= 1 /\ Tail(pipe.jobs[x]) \in Seq(Nat)
      /\ Len(Tail(pipe.jobs[x])) = Len(pipe.jobs[x]) - 1
  BY <1>2, <1>3
<1>5. [by |-> j, ok |-> ok] \in Picture
  BY <1>4 DEF Picture
<1>6. /\ poses' \in [Cxp -> Seq(Picture)] /\ poses'[x] = Append(poses[x], [by |-> j, ok |-> ok])
      /\ \A y \in Cxp \ {x} : poses'[y] = poses[y]
  BY <1>1, <1>3, <1>5
<1>7. /\ pipe' \in Pipeline /\ pipe'.pend = pipe.pend /\ pipe'.open = pipe.open
      /\ pipe'.processing = pipe.processing
      /\ pipe'.jobs = [pipe.jobs EXCEPT ![x] = Tail(@)]
  BY <1>2, <1>3, <1>4 DEF Pipeline
<1>8. pipe'.jobs[x] = Tail(pipe.jobs[x]) /\ \A y \in Cxp \ {x} : pipe'.jobs[y] = pipe.jobs[y]
  BY <1>3, <1>7
<1>9. Tidy(pipe')
  BY <1>7 DEF PipelineInv, Tidy
<1>10. ASSUME pipe.open PROVE AskedOnce(pipe', poses') /\ DelayFirst(pipe', poses', delays)
  <2>1. AskedOnce(pipe, poses) /\ DelayFirst(pipe, poses, delays)
    BY <1>10 DEF PipelineInv
  <2>2. /\ pipe.jobs[x][1] = pipe.pend.rid /\ Len(pipe.jobs[x]) = 1 /\ Len(poses[x]) = 0
        /\ pipe.pend.rid # 0 /\ Cxp \subseteq pipe.pend.use /\ x \notin pipe.pend.done
    <3>1. /\ \A i \in 1..Len(pipe.jobs[x]) : pipe.jobs[x][i] = pipe.pend.rid
          /\ Len(pipe.jobs[x]) + Len(poses[x]) <= 1
          /\ pipe.pend.rid = 0 \/ ~(Cxp \subseteq pipe.pend.use) \/ x \in pipe.pend.done
               => Len(pipe.jobs[x]) = 0
      BY <2>1 DEF AskedOnce
    <3>2. Len(pipe.jobs[x]) \in Nat /\ Len(poses[x]) \in Nat /\ Len(pipe.jobs[x]) >= 1
      BY <1>3, <1>4
    <3>3. Len(pipe.jobs[x]) = 1 /\ Len(poses[x]) = 0
      <4>1. Len(pipe.jobs[x]) + Len(poses[x]) <= 1
        BY <3>1
      <4> QED
        BY <3>2, <4>1, OneOfTwo
    <3>4. pipe.jobs[x][1] = pipe.pend.rid
      BY <3>1, <3>3
    <3> QED
      BY <3>1, <3>3, <3>4
  <2>3. /\ Len(pipe'.jobs[x]) = 0 /\ Len(poses'[x]) = 1
        /\ \A i \in 1..Len(poses'[x]) : poses'[x][i].by = pipe.pend.rid
    BY <1>3, <1>4, <1>5, <1>6, <1>8, <2>2
  <2>4. AskedOnce(pipe', poses')
    <3> SUFFICES ASSUME NEW y \in Cxp
                 PROVE  /\ \A i \in 1..Len(pipe'.jobs[y]) : pipe'.jobs[y][i] = pipe'.pend.rid
                        /\ \A i \in 1..Len(poses'[y]) : poses'[y][i].by = pipe'.pend.rid
                        /\ Len(pipe'.jobs[y]) + Len(poses'[y]) <= 1
                        /\ pipe'.pend.rid = 0 \/ ~(Cxp \subseteq pipe'.pend.use) \/ y \in pipe'.pend.done
                             => Len(pipe'.jobs[y]) = 0 /\ Len(poses'[y]) = 0
      BY DEF AskedOnce
    <3>1. CASE y = x
      <4>1. Len(pipe'.jobs[y]) = 0 /\ Len(poses'[y]) = 1
        BY <2>3, <3>1
      <4>2. /\ pipe'.pend.rid # 0 /\ Cxp \subseteq pipe'.pend.use /\ y \notin pipe'.pend.done
            /\ \A i \in 1..Len(poses'[y]) : poses'[y][i].by = pipe'.pend.rid
        BY <1>7, <2>2, <2>3, <3>1
      <4> QED
        BY <4>1, <4>2
    <3>2. CASE y # x
      <4>1. pipe'.jobs[y] = pipe.jobs[y] /\ poses'[y] = poses[y] /\ pipe'.pend = pipe.pend
        BY <1>6, <1>7, <1>8, <3>2
      <4> QED
        BY <2>1, <4>1 DEF AskedOnce
    <3> QED
      BY <3>1, <3>2
  <2>5. ~Unasked(pipe, poses)
    BY <2>2 DEF Unasked
  <2>6. DelayFirst(pipe', poses', delays)
    BY <1>7, <2>1, <2>5 DEF DelayFirst
  <2> QED
    BY <2>4, <2>6
<1>11. lbResults' \in Seq(Nat)
  BY <1>2 DEF PipelineInv
<1> QED
  BY <1>2, <1>6, <1>7, <1>9, <1>10, <1>11, BundleAlone

\* A result of A or B is the pending bundle's, if the pipeline is open.
LEMMA PoseCapturedKeeps == PipelineInv /\ (\E x \in Cxp : PoseCaptured(x)) => PipelineInv'
<1> SUFFICES ASSUME PipelineInv, NEW x \in Cxp, PoseCaptured(x) PROVE PipelineInv'
  OBVIOUS
<1> DEFINE ok == Head(poses[x]).ok
           q == [pipe EXCEPT !.pend.done = @ \cup {x}, !.pend.good = IF ok THEN @ \cup {x} ELSE @ \ {x}]
<1>1. /\ poses[x] # <<>> /\ poses' = [poses EXCEPT ![x] = Tail(@)]
      /\ UNCHANGED <<mechVars, mechResults, delays, lbResults>>
      /\ pipe' = OnHikPoseCaptureFinished(pipe, x, ok)
  BY DEF PoseCaptured
<1>2. /\ poses[x] \in Seq(Picture) /\ poses \in [Cxp -> Seq(Picture)] /\ pipe \in Pipeline
      /\ pipe.pend \in Bundle
  BY DEF PipelineInv, Tidy, Pipeline
<1>3. Len(poses[x]) >= 1 /\ Tail(poses[x]) \in Seq(Picture) /\ Len(Tail(poses[x])) = Len(poses[x]) - 1
  BY <1>1, <1>2
<1>4. /\ poses' \in [Cxp -> Seq(Picture)] /\ poses'[x] = Tail(poses[x])
      /\ \A y \in Cxp \ {x} : poses'[y] = poses[y]
  BY <1>1, <1>2, <1>3
<1>5. Moves
  BY <1>1, StillMoves DEF PipelineInv
<1>6. CASE ~pipe.open
  <2>1. pipe' = pipe
    BY <1>1, <1>6 DEF OnHikPoseCaptureFinished, PipelineInv, Tidy
  <2>2. OwnCapture'
    BY <1>5, <2>1, BundleStays
  <2> QED
    BY <1>1, <1>4, <1>5, <1>6, <2>1, <2>2 DEF PipelineInv, Moves
<1>7. CASE pipe.open
  <2>1. AskedOnce(pipe, poses) /\ DelayFirst(pipe, poses, delays)
    BY <1>7 DEF PipelineInv
  <2>2. /\ Len(pipe.jobs[x]) = 0 /\ Len(poses[x]) = 1 /\ pipe.pend.rid # 0
        /\ Cxp \subseteq pipe.pend.use /\ x \notin pipe.pend.done
    <3>1. pipe.jobs[x] \in Seq(Nat)
      BY <1>2 DEF Pipeline
    <3>2. Len(pipe.jobs[x]) \in Nat /\ Len(poses[x]) \in Nat
      BY <1>2, <3>1
    <3>3. /\ Len(pipe.jobs[x]) + Len(poses[x]) <= 1
          /\ pipe.pend.rid = 0 \/ ~(Cxp \subseteq pipe.pend.use) \/ x \in pipe.pend.done
               => Len(poses[x]) = 0
      BY <2>1 DEF AskedOnce
    <3>4. Len(pipe.jobs[x]) + Len(poses[x]) <= 1
      BY <3>3
    <3>5. Len(poses[x]) = 1 /\ Len(pipe.jobs[x]) = 0
      BY <1>3, <3>2, <3>4, OneOfTwo
    <3> QED
      BY <3>3, <3>5
  <2> HIDE DEF ok
  <2>3. /\ q \in Pipeline /\ q.pend.rid = pipe.pend.rid /\ q.pend.use = pipe.pend.use
        /\ q.pend.done = pipe.pend.done \cup {x} /\ q.open = pipe.open /\ q.next = pipe.next
        /\ q.processing = pipe.processing /\ q.pend.cam = pipe.pend.cam
        /\ q.pend.mech = pipe.pend.mech /\ q.pend.by = pipe.pend.by /\ q.jobs = pipe.jobs
    <3>1. x \in Channel
      BY DEF Channel
    <3> QED
      BY <1>2, <3>1 DEF Pipeline, Bundle
  <2>4. pipe' = FinishBundleIfReady(q)
    BY <1>1, <2>2 DEF OnHikPoseCaptureFinished
  <2> HIDE DEF q
  <2>5. Tidy(q) /\ Continues(pipe, q)
    BY <2>2, <2>3 DEF PipelineInv, Tidy, Continues, Cxp
  <2>6. Len(poses'[x]) = 0
    BY <1>3, <1>4, <2>2
  <2>7. AskedOnce(q, poses')
    <3> SUFFICES ASSUME NEW y \in Cxp
                 PROVE  /\ \A i \in 1..Len(q.jobs[y]) : q.jobs[y][i] = q.pend.rid
                        /\ \A i \in 1..Len(poses'[y]) : poses'[y][i].by = q.pend.rid
                        /\ Len(q.jobs[y]) + Len(poses'[y]) <= 1
                        /\ q.pend.rid = 0 \/ ~(Cxp \subseteq q.pend.use) \/ y \in q.pend.done
                             => Len(q.jobs[y]) = 0 /\ Len(poses'[y]) = 0
      BY DEF AskedOnce
    <3>1. CASE y = x
      <4>1. Len(q.jobs[y]) = 0 /\ Len(poses'[y]) = 0
        BY <2>2, <2>3, <2>6, <3>1
      <4> QED
        BY <4>1
    <3>2. CASE y # x
      <4>1. /\ q.jobs[y] = pipe.jobs[y] /\ poses'[y] = poses[y] /\ q.pend.rid = pipe.pend.rid
            /\ q.pend.use = pipe.pend.use /\ (y \in q.pend.done <=> y \in pipe.pend.done)
        BY <1>4, <2>3, <3>2
      <4> QED
        BY <2>1, <4>1 DEF AskedOnce
    <3> QED
      BY <3>1, <3>2
  <2>8. Tidy(pipe') /\ AskedOnce(pipe', poses') /\ Continues(pipe, pipe')
    BY <2>3, <2>4, <2>5, <2>7, FinishKeeps, FinishContinues, ContinuesOn DEF PipelineInv
  <2>9. OwnCapture'
    BY <1>5, <2>8, BundleStays
  <2>10. DelayFirst(pipe', poses', delays)
    <3>1. ~Unasked(pipe, poses)
      BY <2>2 DEF Unasked
    <3>2. delays = {} /\ ("mech" \in pipe.pend.use => "mech" \in pipe.pend.done)
      BY <2>1, <2>2, <3>1 DEF DelayFirst
    <3>3. pipe'.pend.rid = 0 \/ ("mech" \in pipe'.pend.use => "mech" \in pipe'.pend.done)
      BY <2>8, <3>2, NoBundleIsOne DEF Continues
    <3> QED
      BY <3>2, <3>3 DEF DelayFirst
  <2> QED
    BY <1>1, <1>4, <1>5, <2>8, <2>9, <2>10 DEF PipelineInv, Moves
<1> QED
  BY <1>6, <1>7

LEMMA LbDetectedKeeps == PipelineInv /\ LbDetected => PipelineInv'
<1> SUFFICES ASSUME PipelineInv, LbDetected PROVE PipelineInv'
  OBVIOUS
<1>1. /\ pipe.lbJobs # <<>> /\ pipe' = [pipe EXCEPT !.lbJobs = Tail(@)]
      /\ lbResults' = Append(lbResults, Head(pipe.lbJobs))
      /\ UNCHANGED <<mechVars, delays, mechResults, poses>>
  BY DEF LbDetected
<1>2. pipe \in Pipeline /\ pipe.lbJobs \in Seq(Nat) /\ lbResults \in Seq(Nat)
  BY DEF PipelineInv, Tidy, Pipeline
<1>3. Tail(pipe.lbJobs) \in Seq(Nat) /\ lbResults' \in Seq(Nat)
  BY <1>1, <1>2
<1>4. /\ pipe' \in Pipeline /\ pipe'.pend = pipe.pend /\ pipe'.open = pipe.open
      /\ pipe'.processing = pipe.processing /\ pipe'.jobs = pipe.jobs
  BY <1>1, <1>2, <1>3 DEF Pipeline
<1>5. Tidy(pipe')
  BY <1>4 DEF PipelineInv, Tidy
<1>6. pipe.open => AskedOnce(pipe', poses) /\ DelayFirst(pipe', poses, delays)
  BY <1>4 DEF PipelineInv, AskedOnce, DelayFirst, Unasked
<1> QED
  BY <1>1, <1>3, <1>4, <1>5, <1>6, BundleAlone DEF PipelineInv

LEMMA LbDeliveredKeeps == PipelineInv /\ LbDelivered => PipelineInv'
<1> SUFFICES ASSUME PipelineInv, LbDelivered PROVE PipelineInv'
  OBVIOUS
<1> DEFINE n == Head(lbResults)
<1>1. /\ lbResults # <<>> /\ lbResults' = Tail(lbResults)
      /\ pipe' = IF pipe.open THEN [pipe EXCEPT !.processing = 0, !.delivered = Append(@, n)] ELSE pipe
      /\ UNCHANGED <<mechVars, delays, mechResults, poses>>
  BY DEF LbDelivered, EmitBundleFinished
<1>2. pipe \in Pipeline /\ pipe.delivered \in Seq(Nat) /\ n \in Nat /\ lbResults' \in Seq(Nat)
  BY <1>1 DEF PipelineInv, Tidy, Pipeline
<1>3. Append(pipe.delivered, n) \in Seq(Nat)
  BY <1>2
<1> HIDE DEF n
<1>4. /\ pipe' \in Pipeline /\ pipe'.pend = pipe.pend /\ pipe'.open = pipe.open
      /\ pipe'.processing \in {0, pipe.processing} /\ pipe'.jobs = pipe.jobs
  BY <1>1, <1>2, <1>3 DEF Pipeline
<1>5. Tidy(pipe')
  BY <1>4 DEF PipelineInv, Tidy
<1>6. pipe.open => AskedOnce(pipe', poses) /\ DelayFirst(pipe', poses, delays)
  BY <1>4 DEF PipelineInv, AskedOnce, DelayFirst, Unasked
<1> QED
  BY <1>1, <1>2, <1>4, <1>5, <1>6, BundleAlone DEF PipelineInv

LEMMA StopKeeps == PipelineInv /\ StopPipeline => PipelineInv'
<1> SUFFICES ASSUME PipelineInv, StopPipeline PROVE PipelineInv'
  OBVIOUS
<1>1. /\ pipe' = [pipe EXCEPT !.open = FALSE, !.pend = NoBundle, !.processing = 0, !.lbJobs = <<>>]
      /\ UNCHANGED <<mechVars, delays, mechResults, poses, lbResults>>
  BY DEF StopPipeline
<1>2. Moves
  BY <1>1, StillMoves DEF PipelineInv
<1>3. /\ pipe' \in Pipeline /\ pipe'.pend = NoBundle /\ ~pipe'.open
  <2>1. pipe \in Pipeline /\ <<>> \in Seq(Nat) /\ NoBundle \in Bundle
    BY NoBundleIsOne DEF PipelineInv, Tidy
  <2> HIDE DEF NoBundle
  <2> QED
    BY <1>1, <2>1 DEF Pipeline
<1>4. OwnCapture'
  BY <1>2, <1>3, BundleStays
<1> QED
  BY <1>1, <1>2, <1>3, <1>4, NoBundleIsOne DEF PipelineInv, Moves, Tidy

LEMMA NextKeeps == PipelineInv /\ [Next]_vars => PipelineInv'
<1> SUFFICES ASSUME PipelineInv, [Next]_vars PROVE PipelineInv'
  OBVIOUS
<1>1. CASE \E r \in Request : BundleWithDepth(r) \/ BundleRejected(r) \/ BundleWithoutDepth(r)
  BY <1>1, BundleWithDepthKeeps, BundleRejectedKeeps, BundleWithoutDepthKeeps
<1>2. CASE \E c \in Camera : HmiCapture(c) \/ HmiRefresh(c) \/ MechSignal(c) \/ MechWorker(c)
  BY <1>2, CamerasKeep
<1>3. CASE MechResult
  BY <1>3, MechResultKeeps
<1>4. CASE DelayOver
  BY <1>4, DelayOverKeeps
<1>5. CASE \E x \in Cxp : CxpCaptured(x) \/ PoseCaptured(x)
  BY <1>5, CxpCapturedKeeps, PoseCapturedKeeps
<1>6. CASE LbDetected
  BY <1>6, LbDetectedKeeps
<1>7. CASE LbDelivered
  BY <1>7, LbDeliveredKeeps
<1>8. CASE StopPipeline
  BY <1>8, StopKeeps
<1>9. CASE UNCHANGED vars
  <2>1. UNCHANGED mechVars /\ UNCHANGED <<pipe, delays, mechResults, poses, lbResults>>
    BY <1>9 DEF vars, mechVars
  <2> QED
    BY <2>1, StillMoves, OnlyCameras DEF PipelineInv
<1> QED
  BY <1>1, <1>2, <1>3, <1>4, <1>5, <1>6, <1>7, <1>8, <1>9 DEF Next

\* Whatever the HMI, the cameras and a stop do in between, the invariant holds: requests are
\* answered under their own number, the pipeline forgets an ended bundle, A and B are asked
\* once per bundle, and a capture under way knows which bundle wants it (requestCaptureBundle(),
\* emitBundleFinished(), stop()).
THEOREM PipelineInvariant == Spec => []PipelineInv
  BY PipelineInit, NextKeeps, PTL DEF Spec

--------------------------------------------------------------------------------
\* The depth picture of a bundle is the one that bundle asked for, however the captures of the
\* HMI and of the two cameras interleave (onMechEyeCaptureFinished compares only numbers and
\* names).
THEOREM DepthPictureIsOwn == Spec => []OwnDepthPicture
<1>1. PipelineInv => OwnDepthPicture
  <2> SUFFICES ASSUME PipelineInv PROVE OwnDepthPicture
    OBVIOUS
  <2>1. \E b \in Bundle : b = pipe.pend
    BY DEF PipelineInv, Tidy, Pipeline
  <2> QED
    BY <2>1 DEF PipelineInv, OwnCapture, Own, OwnDepthPicture
<1> QED
  BY <1>1, PipelineInvariant, PTL

\* In an open pipeline every picture on its way from A or B was taken for the pending bundle,
\* although onHikPoseCaptureFinished compares no request numbers.
THEOREM PicturesAreOwn == Spec => []OwnPictures
<1>1. PipelineInv => OwnPictures
  <2> SUFFICES ASSUME PipelineInv, pipe.open, NEW x \in Cxp
               PROVE  /\ \A i \in DOMAIN pipe.jobs[x] : pipe.jobs[x][i] = pipe.pend.rid
                      /\ \A i \in DOMAIN poses[x] : poses[x][i].by = pipe.pend.rid
    BY DEF OwnPictures
  <2>1. pipe.jobs[x] \in Seq(Nat) /\ poses[x] \in Seq(Picture)
    BY DEF PipelineInv, Tidy, Pipeline
  <2>2. DOMAIN pipe.jobs[x] = 1..Len(pipe.jobs[x]) /\ DOMAIN poses[x] = 1..Len(poses[x])
    BY <2>1
  <2> QED
    BY <2>2 DEF PipelineInv, AskedOnce
<1> QED
  BY <1>1, PipelineInvariant, PTL

--------------------------------------------------------------------------------
\* What a step does to the promise: the number under way, the next number and what was delivered.

LEMMA ContinuesMaps ==
  ASSUME NEW p, Tidy(p), NEW q, Continues(p, q)
  PROVE  Current(q) \in {0, Current(p)} /\ q.next = p.next
  BY NoBundleIsOne DEF Continues, Tidy, Current

\* A pipeline without a pending bundle hears neither a delay nor a picture.
LEMMA NothingToContinue ==
  ASSUME NEW p, p.pend.rid = 0
  PROVE  /\ \A refused \in SUBSET Cxp : StartHikChannels(p, refused) = p
         /\ \A x \in Cxp, ok \in BOOLEAN : OnHikPoseCaptureFinished(p, x, ok) = p
         /\ \A e : OnMechEyeCaptureFinished(p, e) = p
<1>1. ASSUME NEW refused \in SUBSET Cxp PROVE StartHikChannels(p, refused) = p
  <2>1. StartPendingHikCapture(p, refused) = p
    BY DEF StartPendingHikCapture
  <2>2. StartPendingHikCameraCCapture(p) = p
    BY DEF StartPendingHikCameraCCapture
  <2>3. FinishBundleIfReady(p) = p
    BY DEF FinishBundleIfReady
  <2> QED
    BY <2>1, <2>2, <2>3 DEF StartHikChannels
<1>2. ASSUME NEW x \in Cxp, NEW ok \in BOOLEAN PROVE OnHikPoseCaptureFinished(p, x, ok) = p
  BY DEF OnHikPoseCaptureFinished
<1>3. ASSUME NEW e PROVE OnMechEyeCaptureFinished(p, e) = p
  BY DEF OnMechEyeCaptureFinished, MyCapture
<1> QED
  BY <1>1, <1>2, <1>3

LEMMA DelayOverContinues == PipelineInv /\ DelayOver => Continues(pipe, pipe')
<1> SUFFICES ASSUME PipelineInv, DelayOver PROVE Continues(pipe, pipe')
  OBVIOUS
<1>1. PICK refused \in SUBSET Cxp : pipe' = StartHikChannels(pipe, refused)
  BY DEF DelayOver
<1>2. CASE pipe.pend.rid = 0
  BY <1>1, <1>2, NothingToContinue DEF Continues
<1>3. CASE pipe.pend.rid # 0
  <2>1. pipe.open /\ delays # {}
    BY <1>3 DEF DelayOver, PipelineInv, Tidy
  <2>2. Tidy(pipe) /\ AskedOnce(pipe, poses) /\ Unasked(pipe, poses)
    BY <2>1 DEF PipelineInv, DelayFirst
  <2> QED
    BY <1>1, <2>2, StartKeeps
<1> QED
  BY <1>2, <1>3

LEMMA PoseContinues ==
  ASSUME PipelineInv, NEW x \in Cxp, PoseCaptured(x) PROVE Continues(pipe, pipe')
<1> DEFINE ok == Head(poses[x]).ok
           q == [pipe EXCEPT !.pend.done = @ \cup {x}, !.pend.good = IF ok THEN @ \cup {x} ELSE @ \ {x}]
<1>1. pipe' = OnHikPoseCaptureFinished(pipe, x, ok)
  BY DEF PoseCaptured
<1> HIDE DEF ok
<1>2. CASE pipe.pend.rid = 0 \/ ~(Cxp \subseteq pipe.pend.use)
  BY <1>1, <1>2 DEF OnHikPoseCaptureFinished, Continues
<1>3. CASE pipe.pend.rid # 0 /\ Cxp \subseteq pipe.pend.use
  <2>1. pipe' = FinishBundleIfReady(q)
    BY <1>1, <1>3 DEF OnHikPoseCaptureFinished
  <2>2. /\ q \in Pipeline /\ q.pend.rid = pipe.pend.rid /\ q.pend.use = pipe.pend.use
        /\ q.pend.done = pipe.pend.done \cup {x} /\ q.open = pipe.open /\ q.next = pipe.next
        /\ q.processing = pipe.processing /\ q.pend.cam = pipe.pend.cam
        /\ q.pend.mech = pipe.pend.mech /\ q.pend.by = pipe.pend.by
    <3>1. x \in Channel
      BY DEF Channel
    <3> QED
      BY <3>1 DEF PipelineInv, Tidy, Pipeline, Bundle
  <2> HIDE DEF q
  <2>3. Tidy(q) /\ Continues(pipe, q)
    BY <1>3, <2>2 DEF PipelineInv, Tidy, Continues, Cxp
  <2> QED
    BY <2>1, <2>2, <2>3, FinishContinues, ContinuesOn DEF PipelineInv
<1> QED
  BY <1>2, <1>3

\* The bundle goes on or ends; or a number is given out while the pipeline is idle.
GoesOn == Current(pipe') \in {0, Current(pipe)} /\ pipe'.next = pipe.next
GivenOut ==
  /\ Current(pipe) = 0 /\ Current(pipe') \in {0, pipe.next} /\ pipe'.next = pipe.next + 1

LEMMA BundlesGivenOut ==
  ASSUME PipelineInv, NEW r \in Request, BundleWithDepth(r) \/ BundleRejected(r) \/ BundleWithoutDepth(r)
  PROVE  GivenOut
<1>1. Idle(pipe)
  BY DEF BundleWithDepth, BundleRejected, BundleWithoutDepth
<1>2. Current(pipe) = 0
  BY <1>1 DEF Idle, Current
<1>3. CASE BundleRejected(r)
  <2>1. pipe' = [pipe EXCEPT !.next = @ + 1] /\ pipe \in Pipeline
    BY <1>3 DEF BundleRejected, Numbered, PipelineInv, Tidy
  <2>2. pipe'.next = pipe.next + 1 /\ pipe'.pend = pipe.pend /\ pipe'.processing = pipe.processing
    BY <2>1 DEF Pipeline
  <2> QED
    BY <1>1, <1>2, <2>2 DEF GivenOut, Idle, Current
<1>4. ASSUME NEW m \in Nat
      PROVE  LET q == [Numbered EXCEPT !.pend = Pending(r, m)]
             IN /\ Tidy(q) /\ AskedOnce(q, poses) /\ Unasked(q, poses)
                /\ q.next = pipe.next + 1 /\ Current(q) = pipe.next
  <2> DEFINE q == [Numbered EXCEPT !.pend = Pending(r, m)]
  <2>1. /\ Tidy(q) /\ AskedOnce(q, poses) /\ Unasked(q, poses) /\ q.next = pipe.next + 1
        /\ q.processing = 0 /\ q.pend.rid = pipe.next /\ pipe.next \in Positive
    BY <1>1, NewBundle
  <2> HIDE DEF q
  <2>2. Current(q) = pipe.next
    BY <2>1 DEF Current, Positive
  <2> QED
    BY <2>1, <2>2 DEF q
<1>5. CASE BundleWithDepth(r)
  <2> DEFINE m == service[r.cam].next
  <2>1. m \in Nat /\ pipe' = [Numbered EXCEPT !.pend = Pending(r, m)]
    BY <1>5, NextIsNumber, RequestAssumption DEF BundleWithDepth, PipelineInv, Positive
  <2> HIDE DEF m
  <2> QED
    BY <1>2, <1>4, <2>1 DEF GivenOut
<1>6. CASE BundleWithoutDepth(r)
  <2> DEFINE q == [Numbered EXCEPT !.pend = Pending(r, 0)]
  <2>1. PICK refused \in SUBSET Cxp : pipe' = StartHikChannels(q, refused)
    BY <1>6 DEF BundleWithoutDepth
  <2>2. /\ Tidy(q) /\ AskedOnce(q, poses) /\ Unasked(q, poses)
        /\ q.next = pipe.next + 1 /\ Current(q) = pipe.next
    BY <1>4
  <2> HIDE DEF q
  <2>3. Continues(q, pipe')
    BY <2>1, <2>2, StartKeeps
  <2>4. Current(pipe') \in {0, pipe.next} /\ pipe'.next = pipe.next + 1
    BY <2>2, <2>3, ContinuesMaps
  <2> QED
    BY <1>2, <2>4 DEF GivenOut
<1> QED
  BY <1>3, <1>5, <1>6

LEMMA StepKinds ==
  ASSUME PipelineInv, [Next]_vars
  PROVE  (GoesOn \/ GivenOut) /\ (~pipe.open => pipe'.delivered = pipe.delivered)
<1> DEFINE Goal == (GoesOn \/ GivenOut) /\ (~pipe.open => pipe'.delivered = pipe.delivered)
<1>1. pipe \in Pipeline /\ Tidy(pipe)
  BY DEF PipelineInv, Tidy
<1>2. ASSUME pipe' = pipe PROVE Goal
  BY <1>2 DEF GoesOn
<1>3. ASSUME Continues(pipe, pipe') PROVE Goal
  <2>1. GoesOn
    BY <1>1, <1>3, ContinuesMaps DEF GoesOn
  <2>2. ~pipe.open => pipe' = pipe
    BY <1>1, <1>3 DEF Continues, Tidy
  <2> QED
    BY <2>1, <2>2
<1>4. CASE \E r \in Request : BundleWithDepth(r) \/ BundleRejected(r) \/ BundleWithoutDepth(r)
  <2>1. GivenOut
    BY <1>4, BundlesGivenOut
  <2>2. pipe.open
    BY <1>4 DEF BundleWithDepth, BundleRejected, BundleWithoutDepth, Idle
  <2> QED
    BY <2>1, <2>2
<1>5. CASE \E c \in Camera : HmiCapture(c) \/ HmiRefresh(c) \/ MechSignal(c) \/ MechWorker(c)
  BY <1>2, <1>5 DEF HmiCapture, HmiRefresh, MechSignal, MechWorker
<1>6. CASE MechResult
  <2>1. pipe' = OnMechEyeCaptureFinished(pipe, Head(mechResults))
    BY <1>6 DEF MechResult
  <2>2. CASE ~MyCapture(pipe, Head(mechResults))
    BY <1>2, <2>1, <2>2 DEF OnMechEyeCaptureFinished
  <2>3. CASE MyCapture(pipe, Head(mechResults))
    <3>1. pipe' = [pipe EXCEPT !.pend.done = @ \cup {"mech"}, !.pend.by = Head(mechResults).by]
      BY <2>1, <2>3 DEF OnMechEyeCaptureFinished
    <3>2. /\ pipe'.pend.rid = pipe.pend.rid /\ pipe'.processing = pipe.processing
          /\ pipe'.next = pipe.next /\ pipe'.delivered = pipe.delivered
      BY <1>1, <3>1 DEF Pipeline, Bundle
    <3> QED
      BY <3>2 DEF GoesOn, Current
  <2> QED
    BY <2>2, <2>3
<1>7. CASE DelayOver
  BY <1>3, <1>7, DelayOverContinues
<1>8. CASE \E x \in Cxp : CxpCaptured(x)
  <2>1. PICK x \in Cxp : pipe' = [pipe EXCEPT !.jobs[x] = Tail(@)]
    BY <1>8 DEF CxpCaptured
  <2>2. /\ pipe'.pend = pipe.pend /\ pipe'.processing = pipe.processing
        /\ pipe'.next = pipe.next /\ pipe'.delivered = pipe.delivered
    BY <1>1, <2>1 DEF Pipeline
  <2> QED
    BY <2>2 DEF GoesOn, Current
<1>9. CASE \E x \in Cxp : PoseCaptured(x)
  BY <1>3, <1>9, PoseContinues
<1>10. CASE LbDetected
  <2>1. pipe' = [pipe EXCEPT !.lbJobs = Tail(@)]
    BY <1>10 DEF LbDetected
  <2>2. /\ pipe'.pend = pipe.pend /\ pipe'.processing = pipe.processing
        /\ pipe'.next = pipe.next /\ pipe'.delivered = pipe.delivered
    BY <1>1, <2>1 DEF Pipeline
  <2> QED
    BY <2>2 DEF GoesOn, Current
<1>11. CASE LbDelivered
  <2>1. CASE ~pipe.open
    BY <1>2, <1>11, <2>1 DEF LbDelivered
  <2>2. CASE pipe.open
    <3>1. pipe' = [pipe EXCEPT !.processing = 0, !.delivered = Append(@, Head(lbResults))]
      BY <1>11, <2>2 DEF LbDelivered, EmitBundleFinished
    <3>2. pipe'.pend = pipe.pend /\ pipe'.processing = 0 /\ pipe'.next = pipe.next
      BY <1>1, <3>1 DEF Pipeline
    <3> QED
      BY <2>2, <3>2 DEF GoesOn, Current
  <2> QED
    BY <2>1, <2>2
<1>12. CASE StopPipeline
  <2>1. /\ pipe' = [pipe EXCEPT !.open = FALSE, !.pend = NoBundle, !.processing = 0, !.lbJobs = <<>>]
        /\ pipe.open
    BY <1>12 DEF StopPipeline
  <2>2. pipe'.pend = NoBundle /\ pipe'.processing = 0 /\ pipe'.next = pipe.next
    BY <1>1, <2>1 DEF Pipeline
  <2> QED
    BY <2>1, <2>2, NoBundleIsOne DEF GoesOn, Current
<1>13. CASE UNCHANGED vars
  BY <1>2, <1>13 DEF vars
<1> QED
  BY <1>4, <1>5, <1>6, <1>7, <1>8, <1>9, <1>10, <1>11, <1>12, <1>13 DEF Next

--------------------------------------------------------------------------------
\* A stopped pipeline delivers nothing: neither a timer nor a picture nor a result of the pose
\* detection that is still on its way wakes it (stop(), onLbPoseDetectionFinished).
THEOREM StoppedIsSilent == Spec => SilentAfterStop
<1>1. PipelineInv /\ [Next]_vars => [~pipe.open => pipe'.delivered = pipe.delivered]_vars
  BY StepKinds
<1> QED
  BY <1>1, PipelineInvariant, PTL DEF Spec, SilentAfterStop

\* The pipeline keeps the promise the state machine relies on: bundles are numbered in the order
\* of the requests and one is under way at a time (requestCaptureBundle(), finishBundleIfReady(),
\* emitBundleFinished()).
THEOREM KeepsThePromise == Spec => ImplementsCaptureService
<1>1. Init => S!CInit
  BY NoBundleIsOne DEF Init, S!CInit, Current
<1>2. PipelineInv /\ [Next]_vars => [S!CNext]_(S!cvars)
  <2> SUFFICES ASSUME PipelineInv, [Next]_vars PROVE S!CNext \/ UNCHANGED S!cvars
    OBVIOUS
  <2>1. CASE GoesOn
    BY <2>1 DEF GoesOn, Current, S!CNext, S!Finish, S!cvars
  <2>2. CASE GivenOut
    BY <2>2 DEF GivenOut, Current, S!CNext, S!Begin, S!Skip
  <2> QED
    BY <2>1, <2>2, StepKinds
<1> QED
  BY <1>1, <1>2, PipelineInvariant, PTL DEF Spec, ImplementsCaptureService, S!CSpec
================================================================================
