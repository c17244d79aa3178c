------------------------- MODULE ImagePipelineProofs -------------------------
(***************************************************************************)
(* A verdict covers every image of its job, for any jobs, images, workers   *)
(* and faults: THEOREM VerdictsAreJustified.  The aggregator only counts;   *)
(* that a count of Total(j) means every image rests on three facts the      *)
(* invariant below keeps: the results of an entry are about images of the   *)
(* job, no two of them about the same one, and each was really published.   *)
(*                                                                          *)
(* No task is forgotten: THEOREM TasksAreAccounted.  A commit covers every  *)
(* record the worker was ever given, so the invariant says of all of them,  *)
(* but the one in work, that they are answered.                             *)
(*                                                                          *)
(* The verdict of a job is the last that is said about it: THEOREM          *)
(* VerdictsAreLast.  As long as nothing is delivered twice, a job is taken  *)
(* once, each of its tasks is published and answered once, and each result  *)
(* is counted once; so when an entry is full, no message about the job is   *)
(* left that could make the dispatcher or the aggregator speak again.       *)
(***************************************************************************)
EXTENDS ImagePipeline, CountingLemmas

\* A set of results an entry of job j may hold.
Entry(j, S) ==
    /\ S \subseteq resultLog
    /\ S \subseteq Result
    /\ \A r \in S : r.job = j
    /\ \A r, q \in S : r.lid = q.lid => r = q

\* A message that is no verdict on the images of a job.
Neutral(m) == m.status # "COMPLETED" /\ (m.status = "FAILED" => m.detail # "all_failed")

WorkerInv ==
    \A w \in Workers :
        /\ worker[w].pc \in {"process", "send"} => worker[w].task \in Task
        /\ \A m \in worker[w].late : Neutral(m)

\* Every copy to be delivered is one of a published message.
LogInv ==
    /\ resultLog \subseteq Result
    /\ unreadResults \in [Result -> Nat]
    /\ uncommittedResults \in [Result -> Nat]
    /\ \A r \in Result : unreadResults[r] > 0 \/ uncommittedResults[r] > 0
                            => r \in resultLog

EntryInv ==
    /\ collected \in [Jobs -> SUBSET Result]
    /\ \A j \in Jobs : Entry(j, collected[j])

\* A report is made of an entry with Total(j) results, some of them analyses.
AggregatorInv ==
    aggregator.pc # "idle" =>
        /\ aggregator.job \in Jobs
        /\ Entry(aggregator.job, aggregator.results)
        /\ \A l \in LidsOf(aggregator.job) : \E r \in aggregator.results : r.lid = l
        /\ aggregator.pc # "verdict" => Succeeded # {}
        /\ aggregator.pc = "close" => aggregator.job \in reports

WorkerType ==
    worker \in [Workers -> [pc: {"idle", "process", "send", "commit"},
                            task: Task \cup {Null}, ok: BOOLEAN,
                            late: SUBSET Progresses]]

Inv ==
    /\ WorkerType /\ WorkerInv
    /\ LogInv /\ EntryInv /\ AggregatorInv
    /\ VerdictJustified

----------------------------------------------------------------------------
\* The list of a job's images has at least as many entries as different lids.
LEMMA LidsFinite ==
    ASSUME NEW j \in Jobs
    PROVE  /\ IsFiniteSet(LidsOf(j))
           /\ Cardinality(LidsOf(j)) <= Total(j)
           /\ Total(j) \in Nat
<1>1. Images[j] \in Seq(Lids)
  BY PipelineAssumption
<1>2. Total(j) \in Nat /\ DOMAIN Images[j] = 1..Total(j)
  BY <1>1 DEF Total
<1>3. /\ IsFiniteSet(1..Total(j))
      /\ Cardinality(1..Total(j)) = Total(j)
  BY <1>2, FS_Interval
<1> DEFINE f == [i \in 1..Total(j) |-> Images[j][i]]
<1>4. f \in Surjection(1..Total(j), LidsOf(j))
  BY <1>2 DEF Surjection, LidsOf
<1>5. IsFiniteSet(LidsOf(j)) /\ Cardinality(LidsOf(j)) <= Cardinality(1..Total(j))
  BY <1>3, <1>4, FS_Surjection
<1> QED
  BY <1>2, <1>3, <1>5

\* An entry has no more results than its job has different images.
LEMMA EntrySize ==
    ASSUME NEW j \in Jobs, NEW S, Entry(j, S)
    PROVE  /\ {r.lid : r \in S} \subseteq LidsOf(j)
           /\ Cardinality(S) \in Nat
           /\ Cardinality(S) = Cardinality({r.lid : r \in S})
           /\ Cardinality(S) <= Cardinality(LidsOf(j))
<1> DEFINE T == {r.lid : r \in S}
           f == [r \in S |-> r.lid]
<1>1. T \subseteq LidsOf(j)
  BY DEF Entry, Result
<1>2. IsFiniteSet(T) /\ Cardinality(T) <= Cardinality(LidsOf(j))
  BY <1>1, LidsFinite, FS_Subset
<1>3. f \in Injection(S, T)
  <2>1. \A r, q \in S : r.lid = q.lid => r = q
    BY DEF Entry
  <2>2. \A r, q \in S : f[r] = f[q] => r = q
    BY <2>1
  <2>3. f \in [S -> T]
    OBVIOUS
  <2> QED
    BY <2>2, <2>3 DEF Injection, IsInjective
<1>4. f \in Surjection(S, T)
  BY DEF Surjection
<1>5. IsFiniteSet(S) /\ Cardinality(S) = Cardinality(T)
  BY <1>2, <1>3, <1>4, FS_Injection
<1> QED
  BY <1>1, <1>2, <1>5, FS_CardinalityType

\* Counting suffices: Total(j) results about different images of j leave none out.
LEMMA CountCovers ==
    ASSUME NEW j \in Jobs, NEW S, Entry(j, S), ~(Cardinality(S) < Total(j))
    PROVE  \A l \in LidsOf(j) : \E r \in S : r.lid = l
<1> DEFINE T == {r.lid : r \in S}
<1>1. /\ T \subseteq LidsOf(j)
      /\ Cardinality(S) \in Nat /\ Cardinality(S) = Cardinality(T)
      /\ Cardinality(S) <= Cardinality(LidsOf(j))
  BY EntrySize
<1>2. Cardinality(LidsOf(j)) \in Nat /\ Total(j) \in Nat
  BY LidsFinite, FS_CardinalityType
<1>3. Cardinality(T) = Cardinality(LidsOf(j))
  BY <1>1, <1>2, LidsFinite
<1>4. T = LidsOf(j)
  BY <1>1, <1>3, LidsFinite, FS_Subset
<1> QED
  BY <1>4

\* Publishing a justified message, or none, keeps every message justified as
\* long as no report and no result disappears.
LEMMA StaysJustified ==
    ASSUME VerdictJustified,
           reports \subseteq reports', resultLog \subseteq resultLog',
           NEW m,
           jobStatus' = jobStatus \cup {m} \/ jobStatus' = jobStatus,
           Justified(m)'
    PROVE  VerdictJustified'
<1>1. \A n \in jobStatus : Justified(n)'
  BY DEF VerdictJustified, Justified, Outcome
<1> QED
  BY <1>1 DEF VerdictJustified

\* An entry stays one when results are added to the topic.
LEMMA EntryMonotonic ==
    ASSUME NEW j, NEW S, Entry(j, S), resultLog \subseteq resultLog'
    PROVE  Entry(j, S)'
BY DEF Entry

\* Before the first job the aggregator has no entry to answer for.
THEOREM InvInit == Init => Inv
<1> SUFFICES ASSUME Init PROVE Inv
  OBVIOUS
<1> USE DEF Init
<1>1. WorkerType
  BY DEF WorkerType, IdleWorker
<1>2. WorkerInv
  BY DEF WorkerInv, IdleWorker
<1>3. LogInv
  BY DEF LogInv, None
<1>4. EntryInv
  BY DEF EntryInv, Entry
<1>5. AggregatorInv
  BY DEF AggregatorInv, IdleAggregator
<1>6. VerdictJustified
  BY DEF VerdictJustified
<1> QED
  BY <1>1, <1>2, <1>3, <1>4, <1>5, <1>6 DEF Inv

\* What a step changes that a verdict depends on, when it is not the
\* aggregator's: results are added, reports stay, and any message published is
\* about progress or fails the job for a reason other than its images.
Harmless ==
    /\ resultLog \subseteq resultLog'
    /\ UNCHANGED reports
    /\ \A m \in jobStatus' : m \in jobStatus \/ Neutral(m)

LEMMA HarmlessKeepsVerdicts ==
    ASSUME VerdictJustified, Harmless
    PROVE  VerdictJustified'
<1>1. \A m \in jobStatus : Justified(m)'
  BY DEF VerdictJustified, Justified, Outcome, Harmless
<1>2. \A m : Neutral(m) => Justified(m)'
  BY DEF Neutral, Justified
<1> QED
  BY <1>1, <1>2 DEF VerdictJustified, Harmless

LEMMA PublishProgress ==
    ASSUME NEW m, PublishStatus(m), Neutral(m), UNCHANGED reports, resultLog \subseteq resultLog'
    PROVE  Harmless
BY DEF PublishStatus, Harmless

----------------------------------------------------------------------------
\* The steps of the threads, grouped by what they leave alone.

\* A step that leaves results, entries and the aggregator alone.
LEMMA OtherThreads ==
    ASSUME Inv, Harmless, UNCHANGED <<resultVars, aggregateVars>>,
           WorkerType', WorkerInv'
    PROVE  Inv'
<1> USE DEF Inv, resultVars, aggregateVars
<1>1. LogInv'
  BY DEF LogInv
<1>2. EntryInv'
  BY DEF EntryInv, Entry
<1>3. AggregatorInv'
  BY DEF AggregatorInv, Entry, Succeeded
<1>4. VerdictJustified'
  BY HarmlessKeepsVerdicts
<1> QED
  BY <1>1, <1>2, <1>3, <1>4 DEF WorkerType

LEMMA DispatchSteps ==
    ASSUME Inv,
           \/ \E j \in Jobs : SubmitJob(j) \/ SubmitAgain(j)
           \/ Dispatch \/ RejoinDispatcher
    PROVE  Inv'
<1>1. UNCHANGED <<workerVars, resultVars, aggregateVars>>
  BY DEF SubmitJob, SubmitAgain, Dispatch, RejoinDispatcher, ReceiveJob, PublishTask,
         CommitJobs
<1>2. Harmless
  <2>1. ASSUME NEW j \in Jobs, ReceiveJob(j) PROVE Harmless
    <3>1. UNCHANGED reports /\ resultLog \subseteq resultLog'
      BY <1>1 DEF resultVars, aggregateVars
    <3>2. CASE PublishStatus(Failed(j, "no_images"))
      BY <3>1, <3>2, PublishProgress DEF Failed, Status, Neutral
    <3>3. CASE PublishStatus(Received(j, 0))
      BY <3>1, <3>3, PublishProgress DEF Received, Status, Neutral
    <3> QED
      BY <2>1, <3>2, <3>3 DEF ReceiveJob
  <2>2. ASSUME UNCHANGED jobStatus PROVE Harmless
    BY <1>1, <2>2 DEF Harmless, resultVars, aggregateVars
  <2> QED
    BY <2>1, <2>2 DEF SubmitJob, SubmitAgain, Dispatch, RejoinDispatcher, PublishTask,
                      CommitJobs
<1>3. WorkerType' /\ WorkerInv'
  BY <1>1 DEF Inv, WorkerType, WorkerInv, workerVars
<1> QED
  BY <1>1, <1>2, <1>3, OtherThreads

\* A worker that has sent, or not, a message on the progress of its task.
LEMMA ProgressStep ==
    ASSUME Inv, NEW w \in Workers, NEW r \in Task,
           NEW state \in {"processing", "done", "error"},
           NEW next \in [pc: {"process", "send"}, task: {r}, ok: BOOLEAN,
                        late: {worker[w].late}],
           SendProgress(w, r, state, next),
           UNCHANGED <<resultVars, aggregateVars>>
    PROVE  Inv'
<1> USE DEF Inv
<1> DEFINE m == Progress(r.job, r.lid, state)
<1>1. m \in Progresses /\ Neutral(m)
  BY DEF Task, Progresses, Progress, Status, Neutral
<1>2. \/ worker' = [worker EXCEPT ![w] = next]
      \/ worker' = [worker EXCEPT ![w] = [next EXCEPT !.late = @ \cup {m}]]
      \/ worker' = [worker EXCEPT ![w] = [IdleWorker EXCEPT !.late = worker[w].late]]
  BY DEF SendProgress, HandlerRaises
<1>3. jobStatus' = jobStatus \cup {m} \/ UNCHANGED jobStatus
  BY DEF SendProgress
<1>4. Harmless
  BY <1>1, <1>3 DEF Harmless, resultVars, aggregateVars
<1> HIDE DEF m
<1>5. WorkerType' /\ WorkerInv'
  <2>1. worker[w].late \subseteq Progresses /\ \A n \in worker[w].late : Neutral(n)
    BY DEF WorkerType, WorkerInv
  <2>2. CASE worker' = [worker EXCEPT ![w] = next]
    BY <2>1, <2>2 DEF WorkerType, WorkerInv
  <2>3. CASE worker' = [worker EXCEPT ![w] = [next EXCEPT !.late = @ \cup {m}]]
    BY <1>1, <2>1, <2>3 DEF WorkerType, WorkerInv
  <2>4. CASE worker' = [worker EXCEPT ![w] = [IdleWorker EXCEPT !.late = worker[w].late]]
    BY <2>1, <2>4 DEF WorkerType, WorkerInv, IdleWorker
  <2> QED
    BY <1>2, <2>2, <2>3, <2>4
<1> QED
  BY <1>4, <1>5, OtherThreads

LEMMA WorkerSteps ==
    ASSUME Inv, NEW w \in Workers, Work(w) \/ RejoinWorker(w)
    PROVE  Inv'
<1> USE DEF Inv
<1>1. ASSUME NEW r \in Task, TakeTask(w, r) PROVE Inv'
  BY <1>1, ProgressStep DEF TakeTask
<1>2. ASSUME ProcessImage(w) PROVE Inv'
  <2>1. PICK ok \in BOOLEAN :
           SendProgress(w, worker[w].task, IF ok THEN "done" ELSE "error",
                        [pc |-> "send", task |-> worker[w].task, ok |-> ok,
                         late |-> worker[w].late])
    BY <1>2 DEF ProcessImage
  <2>2. worker[w].task \in Task
    BY <1>2 DEF ProcessImage, WorkerInv
  <2> QED
    BY <1>2, <2>1, <2>2, ProgressStep DEF ProcessImage
<1>6. ASSUME DeliverLate(w) PROVE Inv'
  <2>1. Harmless /\ UNCHANGED <<resultVars, aggregateVars>>
    BY <1>6 DEF DeliverLate, Harmless, WorkerInv, resultVars, aggregateVars
  <2>2. WorkerType' /\ WorkerInv'
    BY <1>6 DEF DeliverLate, WorkerType, WorkerInv
  <2> QED
    BY <2>1, <2>2, OtherThreads
<1>3. ASSUME CommitTask(w) PROVE Inv'
  <2>1. Harmless /\ UNCHANGED <<resultVars, aggregateVars>>
    BY <1>3 DEF CommitTask, Harmless, resultVars, aggregateVars
  <2>2. WorkerType' /\ WorkerInv'
    BY <1>3 DEF CommitTask, IdleWorker, WorkerType, WorkerInv
  <2> QED
    BY <2>1, <2>2, OtherThreads
<1>4. ASSUME RejoinWorker(w) PROVE Inv'
  <2>1. Harmless /\ UNCHANGED <<resultVars, aggregateVars>>
    BY <1>4 DEF RejoinWorker, Harmless, resultVars, aggregateVars
  <2>2. WorkerType' /\ WorkerInv'
    BY <1>4 DEF RejoinWorker, WorkerType, WorkerInv
  <2> QED
    BY <2>1, <2>2, OtherThreads
<1>5. ASSUME SendResult(w) PROVE Inv'
  <2> DEFINE result == [job |-> worker[w].task.job, lid |-> worker[w].task.lid,
                        ok |-> worker[w].ok]
  <2>1. result \in Result
    <3>1. worker[w].task \in Task /\ worker[w].ok \in BOOLEAN
      BY <1>5 DEF SendResult, WorkerInv, WorkerType
    <3> QED
      BY <3>1 DEF Task, Result
  <2>2. UNCHANGED <<aggregateVars, jobStatus>>
    BY <1>5 DEF SendResult
  <2>3. \/ UNCHANGED resultVars
        \/ \E n \in {1, 2} : AppendResult(result, n)
    BY <1>5 DEF SendResult
  <2>4. resultLog \subseteq resultLog'
    BY <2>3 DEF AppendResult, resultVars
  <2>5. LogInv'
    BY <2>1, <2>2, <2>3 DEF LogInv, AppendResult, More, resultVars, aggregateVars
  <2>6. EntryInv'
    BY <2>2, <2>4 DEF EntryInv, Entry, aggregateVars
  <2>7. AggregatorInv'
    BY <2>2, <2>4 DEF AggregatorInv, Entry, Succeeded, aggregateVars
  <2>8. VerdictJustified'
    BY <2>2, <2>4, HarmlessKeepsVerdicts DEF Harmless, aggregateVars
  <2>9. \/ worker' = [worker EXCEPT ![w].pc = "commit"]
        \/ worker' = [worker EXCEPT ![w] = [IdleWorker EXCEPT !.late = worker[w].late]]
    BY <1>5 DEF SendResult, HandlerRaises
  <2>10. WorkerType' /\ WorkerInv'
    <3>1. CASE worker' = [worker EXCEPT ![w].pc = "commit"]
      BY <3>1 DEF WorkerType, WorkerInv
    <3>2. CASE worker' = [worker EXCEPT ![w] = [IdleWorker EXCEPT !.late = worker[w].late]]
      BY <3>2 DEF IdleWorker, WorkerType, WorkerInv
    <3> QED
      BY <2>9, <3>1, <3>2
  <2> QED
    BY <2>5, <2>6, <2>7, <2>8, <2>10 DEF WorkerType
<1> QED
  BY <1>1, <1>2, <1>3, <1>4, <1>5, <1>6 DEF Work

----------------------------------------------------------------------------
\* The steps of the aggregator thread, and the crash.

\* An ended handler leaves nothing the invariant speaks of but the verdict.
LEMMA ConcludeStep ==
    ASSUME Inv, NEW m, Conclude(m), Justified(m)',
           reports \subseteq reports',
           UNCHANGED <<workerVars, resultVars, uncommittedResults, collected>>
    PROVE  Inv'
<1> USE DEF Inv, resultVars, workerVars
<1>1. VerdictJustified'
  BY StaysJustified DEF Conclude, PublishStatus
<1>2. WorkerType' /\ WorkerInv' /\ LogInv'
  BY DEF WorkerType, WorkerInv, LogInv
<1>3. EntryInv'
  BY DEF EntryInv, Entry
<1>4. AggregatorInv'
  BY DEF Conclude, AggregatorInv, IdleAggregator
<1> QED
  BY <1>1, <1>2, <1>3, <1>4

LEMMA ReceiveStep ==
    ASSUME Inv, NEW r \in Result, ReceiveResult(r)
    PROVE  Inv'
<1> USE DEF Inv
<1> DEFINE j == r.job
           now == collected[j] \cup {r}
<1>1. /\ aggregator.pc = "idle"
      /\ unreadResults[r] > 0
      /\ j \in Jobs
      /\ UNCHANGED <<workerVars, resultLog, reports>>
  BY DEF ReceiveResult, Result
<1>2. WorkerInv' /\ WorkerType'
  BY <1>1 DEF WorkerInv, WorkerType, workerVars
<1>3. LogInv'
  <2>1. /\ unreadResults' = [unreadResults EXCEPT ![r] = @ - 1]
        /\ uncommittedResults' = [uncommittedResults EXCEPT ![r] = @ + 1]
    BY DEF ReceiveResult, Fewer, More
  <2> QED
    BY <1>1, <2>1 DEF LogInv
<1>4. Harmless
  <2>1. CASE UNCHANGED jobStatus
    BY <1>1, <2>1 DEF Harmless
  <2>2. CASE PublishStatus(Received(j, Cardinality(now)))
    BY <1>1, <2>2, PublishProgress DEF Received, Status, Neutral
  <2> QED
    BY <2>1, <2>2 DEF ReceiveResult
<1>5. VerdictJustified'
  BY <1>4, HarmlessKeepsVerdicts
<1>6. CASE Seen(r)
  <2>1. UNCHANGED <<collected, aggregator>>
    BY <1>6 DEF ReceiveResult
  <2>2. EntryInv' /\ AggregatorInv'
    BY <1>1, <2>1 DEF EntryInv, Entry, AggregatorInv
  <2> QED
    BY <1>2, <1>3, <1>5, <2>2 DEF WorkerType
<1>7. CASE ~Seen(r)
  <2>1. Entry(j, now)
    <3>1. r \in resultLog
      BY <1>1 DEF LogInv
    <3>2. Entry(j, collected[j])
      BY <1>1 DEF EntryInv
    <3>3. \A p, q \in now : p.lid = q.lid => p = q
      BY <1>7, <3>2 DEF Entry, Seen
    <3> QED
      BY <3>1, <3>2, <3>3 DEF Entry
  <2>2. CASE Cardinality(now) < Total(j)
    <3>1. collected' = [collected EXCEPT ![j] = now] /\ UNCHANGED aggregator
      BY <1>7, <2>2 DEF ReceiveResult
    <3>2. EntryInv'
      BY <1>1, <2>1, <3>1 DEF EntryInv, Entry
    <3>3. AggregatorInv'
      BY <1>1, <3>1 DEF AggregatorInv
    <3> QED
      BY <1>2, <1>3, <1>5, <3>2, <3>3 DEF WorkerType
  <2>3. CASE ~(Cardinality(now) < Total(j))
    <3>1. /\ collected' = [collected EXCEPT ![j] = {}]
          /\ aggregator' = [pc |-> "verdict", job |-> j, results |-> now]
      BY <1>7, <2>3 DEF ReceiveResult
    <3>2. EntryInv'
      BY <1>1, <3>1 DEF EntryInv, Entry
    <3>3. \A l \in LidsOf(j) : \E q \in now : q.lid = l
      BY <1>1, <2>1, <2>3, CountCovers
    <3>4. AggregatorInv'
      BY <1>1, <2>1, <3>1, <3>3 DEF AggregatorInv, Entry
    <3> QED
      BY <1>2, <1>3, <1>5, <3>2, <3>4 DEF WorkerType
  <2> QED
    BY <2>2, <2>3
<1> QED
  BY <1>6, <1>7

LEMMA ReportSteps ==
    ASSUME Inv, Report
    PROVE  Inv'
<1> USE DEF Inv
<1>1. /\ aggregator.pc # "idle"
      /\ UNCHANGED <<workerVars, resultVars, uncommittedResults, collected>>
  BY DEF Report, AllImagesFailed, StartReport, RenderReport, CloseReport, AggregatorStep
<1> PICK j \in Jobs : j = aggregator.job
  BY <1>1 DEF AggregatorInv
<1>2. /\ j = aggregator.job
      /\ Entry(j, aggregator.results)
      /\ \A l \in LidsOf(j) : \E r \in aggregator.results : r.lid = l
      /\ aggregator.pc # "verdict" => Succeeded # {}
      /\ aggregator.pc = "close" => j \in reports
  BY <1>1 DEF AggregatorInv
<1>3. /\ \A r \in aggregator.results :
           r \in resultLog' /\ r.job = j /\ r.lid \in LidsOf(j) /\ r.ok \in BOOLEAN
      /\ resultLog' = resultLog
  BY <1>1, <1>2 DEF Entry, Result, resultVars
<1>4. CASE AllImagesFailed
  <2>1. \A r \in aggregator.results : r.ok = FALSE
    BY <1>3, <1>4 DEF AllImagesFailed, Succeeded
  <2>2. \A l \in LidsOf(j) : Outcome(j, l, FALSE)'
    BY <1>2, <1>3, <2>1 DEF Outcome
  <2>3. Justified(Failed(j, "all_failed"))'
    BY <2>2 DEF Justified, Failed, Status, LidsOf
  <2> QED
    BY <1>1, <1>2, <1>4, <2>3, ConcludeStep DEF AllImagesFailed
<1>5. ASSUME NEW reason \in {"lifecycle", "pdf"}
      PROVE  Justified(Failed(j, reason))'
  BY DEF Justified, Failed, Status
<1>6. CASE StartReport
  <2>1. CASE Conclude(Failed(j, "lifecycle"))
    BY <1>1, <1>5, <1>6, <2>1, ConcludeStep DEF StartReport
  <2>2. CASE /\ PublishStatus(Status(j, "GENERATING_PDF", <<>>))
             /\ aggregator' = [aggregator EXCEPT !.pc = "render"]
    <3>1. UNCHANGED reports /\ Succeeded # {}
      BY <1>6 DEF StartReport
    <3>2. VerdictJustified'
      BY <1>3, <2>2, <3>1, PublishProgress, HarmlessKeepsVerdicts DEF Status, Neutral
    <3>3. WorkerInv' /\ LogInv' /\ EntryInv' /\ WorkerType'
      BY <1>1 DEF WorkerInv, LogInv, EntryInv, Entry, WorkerType, workerVars, resultVars
    <3>4. AggregatorInv'
      <4>1. /\ aggregator'.pc \in {"render", aggregator.pc}
            /\ aggregator'.job = j
            /\ aggregator'.results = aggregator.results
            /\ aggregator'.pc # "close" \/ aggregator.pc = "close"
        BY <2>2
      <4> QED
        BY <1>2, <1>3, <3>1, <4>1 DEF AggregatorInv, Entry, Succeeded
    <3> QED
      BY <3>2, <3>3, <3>4 DEF WorkerType
  <2> QED
    BY <1>6, <2>1, <2>2 DEF StartReport
<1>7. CASE RenderReport
  <2>1. reports \subseteq reports'
    BY <1>7 DEF RenderReport
  <2>2. CASE Conclude(Failed(j, "pdf"))
    BY <1>1, <1>5, <2>1, <2>2, ConcludeStep
  <2>3. CASE /\ reports' = reports \cup {j}
             /\ aggregator' = [aggregator EXCEPT !.pc = "close"]
             /\ UNCHANGED jobStatus
    <3>1. VerdictJustified'
      BY <1>3, <2>1, <2>3 DEF VerdictJustified, Justified, Outcome
    <3>2. WorkerInv' /\ LogInv' /\ EntryInv' /\ WorkerType'
      BY <1>1 DEF WorkerInv, LogInv, EntryInv, Entry, WorkerType, workerVars, resultVars
    <3>3. AggregatorInv'
      <4>1. aggregator.pc = "render"
        BY <1>7 DEF RenderReport, AggregatorStep
      <4>2. /\ aggregator'.job = j
            /\ aggregator'.results = aggregator.results
            /\ j \in reports'
        BY <2>3
      <4> QED
        BY <1>2, <1>3, <4>1, <4>2 DEF AggregatorInv, Entry, Succeeded
    <3> QED
      BY <3>1, <3>2, <3>3 DEF WorkerType
  <2> QED
    BY <1>7, <2>2, <2>3 DEF RenderReport
<1>8. CASE CloseReport
  <2>1. CASE Conclude(Failed(j, "lifecycle"))
    BY <1>1, <1>5, <1>8, <2>1, ConcludeStep DEF CloseReport
  <2> PICK how \in {"all", "partial"} :
             how = IF Succeeded = aggregator.results THEN "all" ELSE "partial"
    OBVIOUS
  <2>2. CASE Conclude(Status(j, "COMPLETED", how))
    <3>1. aggregator.pc = "close" /\ UNCHANGED reports
      BY <1>8 DEF CloseReport, AggregatorStep
    <3>2. \A l \in LidsOf(j) : Outcome(j, l, TRUE)' \/ Outcome(j, l, FALSE)'
      BY <1>2, <1>3 DEF Outcome
    <3>3. \E l \in LidsOf(j) : Outcome(j, l, TRUE)'
      BY <1>2, <1>3, <3>1 DEF Outcome, Succeeded
    <3>4. how = "all" => \A l \in LidsOf(j) : Outcome(j, l, TRUE)'
      BY <1>2, <1>3 DEF Outcome, Succeeded
    <3>5. how = "partial" => \E l \in LidsOf(j) : Outcome(j, l, FALSE)'
      BY <1>2, <1>3 DEF Outcome, Succeeded
    <3>6. Justified(Status(j, "COMPLETED", how))'
      <4>1. j \in reports'
        BY <1>2, <3>1
      <4>2. /\ Status(j, "COMPLETED", how).job = j
            /\ Status(j, "COMPLETED", how).status = "COMPLETED"
            /\ Status(j, "COMPLETED", how).detail = how
        BY DEF Status
      <4> QED
        BY <3>2, <3>3, <3>4, <3>5, <4>1, <4>2 DEF Justified
    <3> QED
      BY <1>1, <2>2, <3>1, <3>6, ConcludeStep
  <2> QED
    BY <1>8, <2>1, <2>2 DEF CloseReport
<1> QED
  BY <1>4, <1>6, <1>7, <1>8 DEF Report

LEMMA OffsetSteps ==
    ASSUME Inv, CommitResults \/ RejoinAggregator
    PROVE  Inv'
<1> USE DEF Inv
<1>1. UNCHANGED <<workerVars, resultLog, collected, aggregator, reports, jobStatus>>
  BY DEF CommitResults, RejoinAggregator, resultVars
<1>2. WorkerInv' /\ EntryInv' /\ AggregatorInv' /\ WorkerType'
  BY <1>1 DEF WorkerInv, EntryInv, Entry, AggregatorInv, Succeeded, WorkerType, workerVars
<1>3. LogInv'
  BY <1>1 DEF CommitResults, RejoinAggregator, LogInv, None, Both, resultVars
<1>4. VerdictJustified'
  BY <1>1, HarmlessKeepsVerdicts DEF Harmless
<1> QED
  BY <1>2, <1>3, <1>4 DEF WorkerType

LEMMA CrashStep ==
    ASSUME Inv, Crash
    PROVE  Inv'
<1> USE DEF Inv
<1>1. UNCHANGED <<resultLog, reports, jobStatus>>
  BY DEF Crash
<1>2. WorkerInv' /\ WorkerType'
  BY DEF Crash, WorkerInv, WorkerType, IdleWorker
<1>3. LogInv'
  BY <1>1 DEF Crash, LogInv, None, Both
<1>4. EntryInv' /\ AggregatorInv'
  BY DEF Crash, EntryInv, Entry, AggregatorInv, IdleAggregator
<1>5. VerdictJustified'
  BY <1>1, HarmlessKeepsVerdicts DEF Harmless
<1> QED
  BY <1>2, <1>3, <1>4, <1>5 DEF WorkerType

\* Every step, and every fault, keeps the entries and what was taken from them true
\* to the results on the topic.
THEOREM InvStep == Inv /\ [Next]_vars => Inv'
<1> SUFFICES ASSUME Inv, [Next]_vars PROVE Inv'
  OBVIOUS
<1>1. CASE \/ \E j \in Jobs : SubmitJob(j) \/ SubmitAgain(j)
          \/ Dispatch \/ RejoinDispatcher
  BY <1>1, DispatchSteps
<1>2. CASE \E w \in Workers : Work(w) \/ RejoinWorker(w)
  BY <1>2, WorkerSteps
<1>3. CASE Aggregate
  BY <1>3, ReceiveStep, ReportSteps, OffsetSteps DEF Aggregate
<1>4. CASE RejoinAggregator
  BY <1>4, OffsetSteps
<1>5. CASE Crash
  BY <1>5, CrashStep
<1>6. CASE UNCHANGED vars
  <2>1. UNCHANGED <<workerVars, resultVars, aggregateVars, jobStatus>>
    BY <1>6 DEF vars
  <2>2. Harmless /\ WorkerType' /\ WorkerInv'
    BY <2>1 DEF Harmless, Inv, WorkerType, WorkerInv, workerVars, resultVars, aggregateVars
  <2> QED
    BY <2>1, <2>2, OtherThreads
<1> QED
  BY <1>1, <1>2, <1>3, <1>4, <1>5, <1>6 DEF Next

\* A verdict speaks for every image of its job, whatever the jobs, their images,
\* the workers and the faults.
THEOREM VerdictsAreJustified == Spec => []VerdictJustified
<1>1. Inv => VerdictJustified
  BY DEF Inv
<1> QED
  BY <1>1, InvInit, InvStep, PTL DEF Spec

----------------------------------------------------------------------------
\* An entry is taken away with the result that completes it.

LEMMA EntryIncompleteStep ==
    ASSUME Inv, EntryIncomplete, [Next]_vars
    PROVE  EntryIncomplete'
<1>1. ASSUME NEW j \in Jobs PROVE \A r, q \in collected'[j] : r.lid = q.lid => r = q
  BY InvStep DEF Inv, EntryInv, Entry
<1>2. ASSUME NEW j \in Jobs
      PROVE  Cardinality(collected'[j]) < Total(j) \/ collected'[j] = {}
  <2>1. CASE UNCHANGED collected
    BY <2>1 DEF EntryIncomplete
  <2>2. CASE Crash
    BY <2>2 DEF Crash
  <2>3. ASSUME NEW r \in Result, ReceiveResult(r)
        PROVE  Cardinality(collected'[j]) < Total(j) \/ collected'[j] = {}
    <3>1. CASE UNCHANGED collected
      BY <3>1 DEF EntryIncomplete
    <3> DEFINE now == collected[r.job] \cup {r}
    <3>2. CASE /\ Cardinality(now) < Total(r.job)
               /\ collected' = [collected EXCEPT ![r.job] = now]
      BY <3>2 DEF Inv, EntryInv, EntryIncomplete
    <3>3. CASE collected' = [collected EXCEPT ![r.job] = {}]
      BY <3>3 DEF Inv, EntryInv, EntryIncomplete
    <3> QED
      BY <2>3, <3>1, <3>2, <3>3 DEF ReceiveResult, Seen
  <2>4. CASE /\ [Next]_vars /\ ~Crash
             /\ ~\E r \in Result : ReceiveResult(r)
    BY <2>4, <2>1
       DEF Next, vars, aggregateVars, SubmitJob, SubmitAgain, Dispatch, ReceiveJob,
           PublishTask, CommitJobs, RejoinDispatcher, Work, TakeTask, ProcessImage,
           SendResult, DeliverLate, CommitTask, RejoinWorker, Aggregate, Report, AllImagesFailed,
           StartReport, RenderReport, CloseReport, AggregatorStep, CommitResults,
           RejoinAggregator
  <2> QED
    BY <2>2, <2>3, <2>4
<1>3. \A r, q \in aggregator'.results : r.lid = q.lid => r = q
  <2>1. CASE aggregator'.results = aggregator.results
    BY <2>1 DEF EntryIncomplete
  <2>2. CASE aggregator' = IdleAggregator
    BY <2>2 DEF IdleAggregator
  <2>3. CASE aggregator'.pc # "idle"
    BY <2>3, InvStep DEF Inv, AggregatorInv, Entry
  <2>4. CASE Report
    <3>1. \/ aggregator' = IdleAggregator
          \/ aggregator' = [aggregator EXCEPT !.pc = "render"]
          \/ aggregator' = [aggregator EXCEPT !.pc = "close"]
      BY <2>4 DEF Report, AllImagesFailed, StartReport, RenderReport, CloseReport, Conclude
    <3>2. ASSUME NEW pc, aggregator' = [aggregator EXCEPT !.pc = pc]
          PROVE  aggregator'.results = aggregator.results
      BY <3>2
    <3> QED
      BY <2>1, <2>2, <3>1, <3>2
  <2>5. ASSUME NEW r \in Result, ReceiveResult(r)
        PROVE  \/ aggregator'.results = aggregator.results
               \/ aggregator'.pc # "idle"
    <3>1. CASE UNCHANGED aggregator
      BY <3>1
    <3>2. CASE aggregator' = [pc |-> "verdict", job |-> r.job,
                              results |-> collected[r.job] \cup {r}]
      BY <3>2
    <3> QED
      BY <2>5, <3>1, <3>2 DEF ReceiveResult
  <2>6. CASE [Next]_vars /\ ~Report /\ ~(\E r \in Result : ReceiveResult(r))
    BY <2>6, <2>1, <2>2
       DEF Next, vars, aggregateVars, SubmitJob, SubmitAgain, Dispatch, ReceiveJob,
           PublishTask, CommitJobs, RejoinDispatcher, Work, TakeTask, ProcessImage,
           SendResult, DeliverLate, CommitTask, RejoinWorker, Aggregate, CommitResults,
           RejoinAggregator, Crash
  <2> QED
    BY <2>1, <2>3, <2>4, <2>5, <2>6
<1> QED
  BY <1>1, <1>2, <1>3 DEF EntryIncomplete

\* No entry of the aggregator has two results of one image or is left full
\* (aggregator.py:82-104), for any jobs, duplicates and faults.
THEOREM EntriesStayIncomplete == Spec => []EntryIncomplete
<1>1. Init => EntryIncomplete
  BY DEF Init, EntryIncomplete, IdleAggregator
<1>2. Inv /\ EntryIncomplete /\ [Next]_vars => EntryIncomplete'
  BY EntryIncompleteStep
<1> QED
  BY <1>1, <1>2, InvInit, InvStep, PTL DEF Spec

----------------------------------------------------------------------------
\* The copies of messages.

LEMMA MoreFacts ==
    ASSUME NEW S, NEW c \in [S -> Nat], NEW r \in S, NEW n \in Nat
    PROVE  /\ More(c, r, n) \in [S -> Nat]
           /\ \A q \in S : More(c, r, n)[q] = IF q = r THEN c[q] + n ELSE c[q]
BY DEF More

LEMMA FewerFacts ==
    ASSUME NEW S, NEW c \in [S -> Nat], NEW r \in S, c[r] > 0
    PROVE  /\ Fewer(c, r) \in [S -> Nat]
           /\ \A q \in S : Fewer(c, r)[q] = IF q = r THEN c[q] - 1 ELSE c[q]
BY DEF Fewer

LEMMA BothFacts ==
    ASSUME NEW S, NEW a \in [S -> Nat], NEW b \in [S -> Nat]
    PROVE  /\ Both(a, b) \in [S -> Nat]
           /\ \A q \in S : Both(a, b)[q] = a[q] + b[q]
BY DEF Both

LEMMA NoneFacts ==
    ASSUME NEW S
    PROVE  None(S) \in [S -> Nat] /\ \A q \in S : None(S)[q] = 0
BY DEF None

----------------------------------------------------------------------------
\* What the steps do to the faults and to the topic of the tasks.

LEMMA FaultStep ==
    ASSUME [Next]_vars
    PROVE  UNCHANGED faults \/ \E kind \in Faults : Fault(kind)
<1> DEFINE Goal == UNCHANGED faults \/ \E kind \in Faults : Fault(kind)
<1>1. \A kind : Fault(kind) => Goal
  BY DEF Fault
<1>2. \A m : PublishStatus(m) => Goal
  BY <1>1 DEF PublishStatus
<1>3. \A w, r, state, next : SendProgress(w, r, state, next) => Goal
  BY <1>1 DEF SendProgress, HandlerRaises
<1> HIDE DEF Goal
<1>4. ASSUME NEW j \in Jobs, SubmitJob(j) \/ SubmitAgain(j) \/ ReceiveJob(j) PROVE Goal
  BY <1>1, <1>2, <1>4 DEF SubmitJob, SubmitAgain, ReceiveJob, Goal
<1>5. CASE PublishTask \/ CommitJobs \/ RejoinDispatcher \/ RejoinAggregator
  BY <1>1, <1>5 DEF PublishTask, CommitJobs, RejoinDispatcher, RejoinAggregator, Goal
<1>6. ASSUME NEW w \in Workers, Work(w) \/ RejoinWorker(w) PROVE Goal
  BY <1>1, <1>3, <1>6 DEF Work, TakeTask, ProcessImage, SendResult, DeliverLate, CommitTask,
       RejoinWorker, HandlerRaises, Goal
<1>7. CASE Aggregate
  BY <1>1, <1>2, <1>7 DEF Aggregate, ReceiveResult, Report, AllImagesFailed, StartReport,
       RenderReport, CloseReport, CommitResults, Conclude, Goal
<1>8. CASE Crash \/ UNCHANGED vars
  BY <1>1, <1>8 DEF Crash, vars, Goal
<1> QED
  BY <1>4, <1>5, <1>6, <1>7, <1>8 DEF Next, Dispatch, Goal

LEMMA TaskStep ==
    ASSUME [Next]_vars
    PROVE  \/ UNCHANGED <<taskLog, unreadTasks, uncommittedTasks>>
           \/ PublishTask
           \/ \E w \in Workers, r \in Task : TakeTask(w, r)
           \/ \E w \in Workers : CommitTask(w) \/ RejoinWorker(w)
           \/ Crash
<1> DEFINE Goal == UNCHANGED <<taskLog, unreadTasks, uncommittedTasks>>
<1>4. ASSUME NEW j \in Jobs, SubmitJob(j) \/ SubmitAgain(j) \/ ReceiveJob(j) PROVE Goal
  BY <1>4 DEF SubmitJob, SubmitAgain, ReceiveJob, taskVars, workerVars
<1>5. CASE CommitJobs \/ RejoinDispatcher \/ RejoinAggregator
  BY <1>5 DEF CommitJobs, RejoinDispatcher, RejoinAggregator, taskVars, workerVars
<1>6. ASSUME NEW w \in Workers, ProcessImage(w) \/ SendResult(w) \/ DeliverLate(w) PROVE Goal
  BY <1>6 DEF ProcessImage, SendResult, DeliverLate, taskVars
<1>7. CASE Aggregate
  BY <1>7 DEF Aggregate, ReceiveResult, Report, AllImagesFailed, StartReport,
       RenderReport, CloseReport, CommitResults, AggregatorStep, taskVars, workerVars
<1>8. CASE UNCHANGED vars
  BY <1>8 DEF vars, taskVars, workerVars
<1> HIDE DEF Goal
<1> QED
  BY <1>4, <1>5, <1>6, <1>7, <1>8 DEF Next, Dispatch, Work, Goal

\* The task the dispatcher publishes is about an image of its job.
DispatcherType ==
    /\ dispatcher \in [job: Jobs \cup {Null}, next: Nat]
    /\ dispatcher.job # Null => dispatcher.next \in 1..Total(dispatcher.job)
    /\ dispatcher.job = Null => dispatcher = NoDispatch

TasksType ==
    /\ taskLog \subseteq Task
    /\ unreadTasks \in [Task -> Nat]
    /\ uncommittedTasks \in [Workers -> [Task -> Nat]]

LEMMA DispatchedTask ==
    ASSUME DispatcherType, dispatcher # NoDispatch
    PROVE  /\ dispatcher.job \in Jobs
           /\ [job |-> dispatcher.job, lid |-> Images[dispatcher.job][dispatcher.next]] \in Task
<1>1. dispatcher.job \in Jobs /\ dispatcher.next \in 1..Total(dispatcher.job)
  BY DEF DispatcherType
<1> PICK j \in Jobs, i \in Nat : j = dispatcher.job /\ i = dispatcher.next
  BY <1>1 DEF DispatcherType
<1>2. Images[j] \in Seq(Lids) /\ i \in 1..Len(Images[j])
  BY <1>1, PipelineAssumption DEF Total
<1>3. Images[j][i] \in Lids /\ Images[j][i] \in LidsOf(j)
  BY <1>2 DEF LidsOf
<1>4. [job |-> j, lid |-> Images[j][i]] \in Task
  BY <1>3 DEF Task
<1> QED
  BY <1>1, <1>4

LEMMA DispatcherTypeStep ==
    ASSUME DispatcherType, [Next]_vars
    PROVE  DispatcherType'
<1>0. NoDispatch \in [job: Jobs \cup {Null}, next: Nat] /\ NoDispatch.job = Null
  BY DEF NoDispatch
<1>1. CASE dispatcher' = dispatcher
  BY <1>1 DEF DispatcherType, Total
<1>2. CASE dispatcher' = NoDispatch
  BY <1>0, <1>2 DEF DispatcherType
<1>3. ASSUME NEW j \in Jobs, ReceiveJob(j), dispatcher' # dispatcher
      PROVE  DispatcherType'
  <2>1. Images[j] # <<>> /\ dispatcher' = [job |-> j, next |-> 1]
    BY <1>3 DEF ReceiveJob
  <2>2. Images[j] \in Seq(Lids)
    BY PipelineAssumption
  <2>3. Total(j) \in Nat /\ 1 \in 1..Total(j)
    BY <2>1, <2>2 DEF Total
  <2>4. j # Null
    BY PipelineAssumption
  <2> QED
    BY <2>1, <2>3, <2>4 DEF DispatcherType, Total
<1>4. CASE PublishTask
  <2>1. CASE dispatcher' = NoDispatch
    BY <1>2, <2>1
  <2>2. CASE NextImage /\ dispatcher' # NoDispatch
    <3>1. /\ dispatcher.next < Total(dispatcher.job)
          /\ dispatcher' = [dispatcher EXCEPT !.next = @ + 1]
      BY <2>2 DEF NextImage
    <3>2. dispatcher.job \in Jobs /\ dispatcher.next \in 1..Total(dispatcher.job)
          /\ dispatcher.job # Null
      BY <1>4, DispatchedTask, PipelineAssumption DEF PublishTask, DispatcherType
    <3> PICK j \in Jobs, i \in Nat : j = dispatcher.job /\ i = dispatcher.next
      BY <3>2 DEF DispatcherType
    <3>3. Total(j) \in Nat
      BY PipelineAssumption DEF Total
    <3>4. i + 1 \in 1..Total(j)
      BY <3>1, <3>2, <3>3
    <3>5. dispatcher' = [job |-> j, next |-> i + 1]
      BY <3>1 DEF DispatcherType
    <3>6. dispatcher'.job = j /\ dispatcher'.next = i + 1
      BY <3>5
    <3> QED
      BY <3>2, <3>4, <3>5, <3>6 DEF DispatcherType, Total
  <2> QED
    BY <1>4, <2>1, <2>2 DEF PublishTask
<1>5. CASE UNCHANGED dispatcher \/ Crash \/ PublishTask \/ \E j \in Jobs : ReceiveJob(j)
  BY <1>1, <1>2, <1>3, <1>4, <1>5 DEF Crash
<1>6. ASSUME NEW w \in Workers, Work(w) \/ RejoinWorker(w) PROVE UNCHANGED dispatcher
  BY <1>6 DEF Work, TakeTask, ProcessImage, SendResult, DeliverLate, CommitTask,
       RejoinWorker, dispatchVars
<1>7. CASE Aggregate \/ RejoinAggregator
  <2>1. UNCHANGED dispatcher
    BY <1>7 DEF Aggregate, ReceiveResult, Report, AllImagesFailed, StartReport,
         RenderReport, CloseReport, CommitResults, AggregatorStep, RejoinAggregator,
         dispatchVars
  <2> QED
    BY <1>1, <2>1
<1>8. CASE \/ \E j \in Jobs : SubmitJob(j) \/ SubmitAgain(j)
           \/ CommitJobs \/ RejoinDispatcher \/ UNCHANGED vars
  <2>1. UNCHANGED dispatcher
    BY <1>8 DEF SubmitJob, SubmitAgain, CommitJobs, RejoinDispatcher, vars, dispatchVars
  <2> QED
    BY <1>1, <2>1
<1> QED
  BY <1>5, <1>1, <1>6, <1>7, <1>8 DEF Next, Dispatch

LEMMA TasksTypeStep ==
    ASSUME DispatcherType, TasksType, [Next]_vars
    PROVE  TasksType'
<1>1. CASE UNCHANGED <<taskLog, unreadTasks, uncommittedTasks>>
  BY <1>1 DEF TasksType
<1>2. CASE PublishTask
  <2> DEFINE task == [job |-> dispatcher.job,
                      lid |-> Images[dispatcher.job][dispatcher.next]]
  <2>1. task \in Task
    BY <1>2, DispatchedTask DEF PublishTask
  <2>2. UNCHANGED uncommittedTasks
    BY <1>2 DEF PublishTask, workerVars
  <2>3. UNCHANGED taskVars \/ \E n \in {1, 2} : AppendTask(task, n)
    BY <1>2 DEF PublishTask
  <2> HIDE DEF task
  <2>4. CASE UNCHANGED taskVars
    BY <2>2, <2>4 DEF TasksType, taskVars
  <2>5. ASSUME NEW n \in {1, 2}, AppendTask(task, n) PROVE TasksType'
    BY <2>1, <2>2, <2>5, MoreFacts DEF AppendTask, TasksType
  <2> QED
    BY <2>3, <2>4, <2>5
<1>3. ASSUME NEW w \in Workers, NEW r \in Task, TakeTask(w, r) PROVE TasksType'
  <2>1. /\ unreadTasks[r] > 0
        /\ unreadTasks' = Fewer(unreadTasks, r)
        /\ uncommittedTasks' = [uncommittedTasks EXCEPT ![w] = More(@, r, 1)]
        /\ UNCHANGED taskLog
    BY <1>3 DEF TakeTask
  <2>2. More(uncommittedTasks[w], r, 1) \in [Task -> Nat]
    BY MoreFacts DEF TasksType
  <2> QED
    BY <2>1, <2>2, FewerFacts DEF TasksType
<1>4. ASSUME NEW w \in Workers, CommitTask(w) PROVE TasksType'
  BY <1>4, NoneFacts DEF CommitTask, TasksType, taskVars
<1>5. ASSUME NEW w \in Workers, RejoinWorker(w) PROVE TasksType'
  BY <1>5, NoneFacts, BothFacts DEF RejoinWorker, TasksType
<1>6. CASE Crash
  <2>1. ASSUME NEW r \in Task
        PROVE  SumFunction([w \in Workers |-> uncommittedTasks[w][r]]) \in Nat
    <3> DEFINE f == [w \in Workers |-> uncommittedTasks[w][r]]
    <3>1. f \in [Workers -> Nat]
      BY DEF TasksType
    <3> HIDE DEF f
    <3>2. SumFunction(f) \in Nat
      BY <3>1, SumFacts, PipelineAssumption
    <3> QED
      BY <3>2 DEF f
  <2>2. unreadTasks' \in [Task -> Nat]
    <3> DEFINE s(r) == SumFunction([w \in Workers |-> uncommittedTasks[w][r]])
    <3>1. unreadTasks' = [r \in Task |-> unreadTasks[r] + s(r)]
      BY <1>6 DEF Crash
    <3>2. \A r \in Task : s(r) \in Nat
      BY <2>1
    <3> HIDE DEF s
    <3>3. \A r \in Task : unreadTasks[r] + s(r) \in Nat
      BY <3>2 DEF TasksType
    <3> QED
      BY <3>1, <3>3
  <2>3. uncommittedTasks' \in [Workers -> [Task -> Nat]] /\ UNCHANGED taskLog
    BY <1>6, NoneFacts DEF Crash
  <2> QED
    BY <2>2, <2>3 DEF TasksType
<1> QED
  BY <1>1, <1>2, <1>3, <1>4, <1>5, <1>6, TaskStep

JobsType ==
    /\ jobSubmitted \subseteq Jobs
    /\ unreadJobs \in [Jobs -> Nat] /\ uncommittedJobs \in [Jobs -> Nat]

AggregatorType ==
    /\ aggregator \in [pc: {"idle", "verdict", "render", "close"},
                       job: Jobs \cup {Null}, results: SUBSET Result]
    /\ reports \subseteq Jobs

FaultsType == faults \in Seq(FaultKinds) /\ Len(faults) <= MaxFaults

TypeInv ==
    /\ JobsType /\ DispatcherType /\ TasksType /\ AggregatorType /\ FaultsType

LEMMA TypeInit ==
    ASSUME Init
    PROVE  TypeInv
<1> USE DEF Init
<1>1. JobsType
  BY NoneFacts DEF JobsType
<1>2. DispatcherType
  BY DEF DispatcherType, NoDispatch
<1>3. TasksType
  BY NoneFacts DEF TasksType
<1>4. AggregatorType
  BY DEF AggregatorType, IdleAggregator
<1>5. FaultsType
  BY PipelineAssumption DEF FaultsType
<1> QED
  BY <1>1, <1>2, <1>3, <1>4, <1>5 DEF TypeInv

LEMMA JobsTypeStep ==
    ASSUME JobsType, [Next]_vars
    PROVE  JobsType'
<1> DEFINE jobVars == <<jobSubmitted, unreadJobs, uncommittedJobs>>
<1>1. CASE UNCHANGED jobVars
  BY <1>1 DEF JobsType
<1>2. ASSUME NEW j \in Jobs, SubmitJob(j) \/ SubmitAgain(j) PROVE JobsType'
  <2>1. CASE SubmitJob(j)
    BY <2>1, MoreFacts DEF SubmitJob, JobsType
  <2>2. CASE SubmitAgain(j)
    BY <2>2, MoreFacts DEF SubmitAgain, JobsType
  <2> QED
    BY <1>2, <2>1, <2>2
<1>3. ASSUME NEW j \in Jobs, ReceiveJob(j) PROVE JobsType'
  BY <1>3, MoreFacts, FewerFacts DEF ReceiveJob, JobsType
<1>4. CASE CommitJobs \/ RejoinDispatcher \/ Crash
  BY <1>4, NoneFacts, BothFacts DEF CommitJobs, RejoinDispatcher, Crash, JobsType
<1>5. CASE PublishTask
  BY <1>5, <1>1 DEF PublishTask
<1>6. ASSUME NEW w \in Workers, Work(w) \/ RejoinWorker(w) PROVE UNCHANGED jobVars
  BY <1>6 DEF Work, TakeTask, ProcessImage, SendResult, DeliverLate, CommitTask,
       RejoinWorker, dispatchVars
<1>7. CASE Aggregate \/ RejoinAggregator
  BY <1>7, <1>1 DEF Aggregate, ReceiveResult, Report, AllImagesFailed, StartReport,
       RenderReport, CloseReport, CommitResults, AggregatorStep, RejoinAggregator,
       dispatchVars
<1>8. CASE UNCHANGED vars
  BY <1>8, <1>1 DEF vars, dispatchVars
<1> HIDE DEF jobVars
<1> QED
  BY <1>1, <1>2, <1>3, <1>4, <1>5, <1>6, <1>7, <1>8 DEF Next, Dispatch

LEMMA AggregatorTypeStep ==
    ASSUME Inv, AggregatorType, [Next]_vars
    PROVE  AggregatorType'
<1>1. CASE UNCHANGED <<aggregator, reports>>
  BY <1>1 DEF AggregatorType
<1>2. ASSUME NEW r \in Result, ReceiveResult(r) PROVE AggregatorType'
  <2>1. CASE UNCHANGED <<aggregator, reports>>
    BY <2>1 DEF AggregatorType
  <2>2. CASE /\ aggregator' = [pc |-> "verdict", job |-> r.job,
                               results |-> collected[r.job] \cup {r}]
             /\ UNCHANGED reports
    <3>1. r.job \in Jobs
      BY DEF Result
    <3>2. collected[r.job] \cup {r} \subseteq Result
      BY <3>1 DEF Inv, EntryInv
    <3> QED
      BY <2>2, <3>1, <3>2 DEF AggregatorType
  <2> QED
    BY <1>2, <2>1, <2>2 DEF ReceiveResult
<1>3. CASE Report
  <2>1. \/ aggregator' = IdleAggregator
        \/ aggregator' = [aggregator EXCEPT !.pc = "render"]
        \/ aggregator' = [aggregator EXCEPT !.pc = "close"]
    BY <1>3 DEF Report, AllImagesFailed, StartReport, RenderReport, CloseReport, Conclude
  <2>2. aggregator' \in [pc: {"idle", "verdict", "render", "close"},
                         job: Jobs \cup {Null}, results: SUBSET Result]
    <3>1. CASE aggregator' = IdleAggregator
      BY <3>1 DEF IdleAggregator
    <3>2. CASE aggregator' = [aggregator EXCEPT !.pc = "render"]
      BY <3>2 DEF AggregatorType
    <3>3. CASE aggregator' = [aggregator EXCEPT !.pc = "close"]
      BY <3>3 DEF AggregatorType
    <3> QED
      BY <2>1, <3>1, <3>2, <3>3
  <2>3. reports' \subseteq reports \cup {aggregator.job}
    BY <1>3 DEF Report, AllImagesFailed, StartReport, RenderReport, CloseReport
  <2>4. aggregator.job \in Jobs
    <3>1. aggregator.pc # "idle"
      BY <1>3 DEF Report, AllImagesFailed, StartReport, RenderReport, CloseReport,
           AggregatorStep
    <3> QED
      BY <3>1 DEF Inv, AggregatorInv
  <2> QED
    BY <2>2, <2>3, <2>4 DEF AggregatorType
<1>4. CASE Crash
  BY <1>4 DEF Crash, IdleAggregator, AggregatorType
<1>5. ASSUME NEW w \in Workers, Work(w) \/ RejoinWorker(w)
      PROVE  UNCHANGED <<aggregator, reports>>
  BY <1>5 DEF Work, TakeTask, ProcessImage, SendResult, DeliverLate, CommitTask,
       RejoinWorker, aggregateVars
<1>6. CASE \/ \E j \in Jobs : SubmitJob(j) \/ SubmitAgain(j)
           \/ Dispatch \/ RejoinDispatcher
  BY <1>1, <1>6 DEF SubmitJob, SubmitAgain, Dispatch, ReceiveJob, PublishTask, CommitJobs,
     RejoinDispatcher, aggregateVars
<1>7. CASE CommitResults \/ RejoinAggregator \/ UNCHANGED vars
  BY <1>1, <1>7 DEF CommitResults, RejoinAggregator, vars, aggregateVars
<1> QED
  BY <1>1, <1>2, <1>3, <1>4, <1>5, <1>6, <1>7 DEF Next, Aggregate

\* Faults are only added, up to their bound.
LEMMA FaultsTypeStep ==
    ASSUME FaultsType, [Next]_vars
    PROVE  /\ FaultsType'
           /\ \A kinds : Happened(kinds) => Happened(kinds)'
<1>1. CASE UNCHANGED faults
  BY <1>1 DEF FaultsType, Happened
<1>2. ASSUME NEW kind \in Faults, Fault(kind)
      PROVE  /\ FaultsType'
             /\ \A kinds : Happened(kinds) => Happened(kinds)'
  <2>1. faults' = Append(faults, kind) /\ Len(faults) < MaxFaults
    BY <1>2 DEF Fault
  <2>2. kind \in FaultKinds /\ faults \in Seq(FaultKinds) /\ MaxFaults \in Nat
    BY PipelineAssumption DEF FaultsType
  <2>3. /\ faults' \in Seq(FaultKinds)
        /\ Len(faults') = Len(faults) + 1
        /\ \A i \in DOMAIN faults : i \in DOMAIN faults' /\ faults'[i] = faults[i]
    BY <2>1, <2>2
  <2> QED
    BY <2>1, <2>2, <2>3 DEF FaultsType, Happened
<1> QED
  BY <1>1, <1>2, FaultStep

LEMMA TypeStep ==
    ASSUME Inv, TypeInv, [Next]_vars
    PROVE  TypeInv'
BY JobsTypeStep, DispatcherTypeStep, TasksTypeStep, AggregatorTypeStep, FaultsTypeStep
   DEF TypeInv

\* Every variable keeps its type, however many copies of a message a restart adds
\* up: in particular no count falls below zero, and the dispatcher never points
\* past the images of its job.
THEOREM TypeCorrect == Spec => []TypeOK
<1>1. Inv /\ TypeInv => TypeOK
  BY DEF Inv, TypeInv, JobsType, DispatcherType, TasksType, WorkerType, LogInv, EntryInv,
     AggregatorType, FaultsType, TypeOK
<1>2. Init => TypeInv
  BY TypeInit
<1>3. Inv /\ TypeInv /\ [Next]_vars => TypeInv'
  BY TypeStep
<1> QED
  BY <1>1, <1>2, <1>3, InvInit, InvStep, PTL DEF Spec

----------------------------------------------------------------------------
\* No task is forgotten.

Answered(r) == \E ok \in BOOLEAN : Outcome(r.job, r.lid, ok)
Uncommitted(w, r) == uncommittedTasks[w][r] > 0

\* A result was lost, or a handler left its task behind.
ResultMissing == Happened({"lost", "send_raises"})

Accounted(r) ==
    unreadTasks[r] > 0 \/ (\E w \in Workers : Uncommitted(w, r)) \/ Answered(r)

\* What a commit of worker w covers is answered, but for the task it works on.
Held(w) ==
    /\ worker[w].pc = "commit" => Answered(worker[w].task)
    /\ \A r \in Task : Uncommitted(w, r) =>
         Answered(r) \/ (worker[w].pc # "idle" /\ worker[w].task = r)

AccountInv ==
    \/ ResultMissing
    \/ (\A r \in taskLog : Accounted(r)) /\ (\A w \in Workers : Held(w))

\* Results are only added.
LEMMA AnswersStay ==
    ASSUME [Next]_vars
    PROVE  \A r : Answered(r) => Answered(r)'
<1>1. resultLog \subseteq resultLog'
  <2>1. CASE UNCHANGED resultLog
    BY <2>1
  <2>2. ASSUME NEW j \in Jobs, SubmitJob(j) \/ SubmitAgain(j) \/ ReceiveJob(j)
        PROVE  UNCHANGED resultLog
    BY <2>2 DEF SubmitJob, SubmitAgain, ReceiveJob, resultVars
  <2>3. CASE PublishTask \/ CommitJobs \/ RejoinDispatcher \/ RejoinAggregator \/ Crash
             \/ UNCHANGED vars
    BY <2>3 DEF PublishTask, CommitJobs, RejoinDispatcher, RejoinAggregator, Crash, vars,
         resultVars
  <2>4. CASE Aggregate
    BY <2>4 DEF Aggregate, ReceiveResult, Report, AllImagesFailed, StartReport,
         RenderReport, CloseReport, CommitResults, AggregatorStep, resultVars
  <2>5. ASSUME NEW w \in Workers, Work(w) \/ RejoinWorker(w)
        PROVE  resultLog \subseteq resultLog'
    BY <2>5 DEF Work, TakeTask, ProcessImage, SendResult, AppendResult, DeliverLate,
         CommitTask, RejoinWorker, resultVars
  <2> QED
    BY <2>1, <2>2, <2>3, <2>4, <2>5 DEF Next, Dispatch
<1> QED
  BY <1>1 DEF Answered, Outcome

\* What happened is on record.
LEMMA FaultHappens ==
    ASSUME FaultsType, NEW kind, Fault(kind), NEW kinds, kind \in kinds
    PROVE  Happened(kinds)'
<1>1. faults' = Append(faults, kind) /\ faults \in Seq(FaultKinds)
      /\ kind \in FaultKinds
  BY PipelineAssumption DEF Fault, FaultsType
<1>2. Len(faults) + 1 \in DOMAIN faults' /\ faults'[Len(faults) + 1] = kind
  BY <1>1
<1> QED
  BY <1>2 DEF Happened

LEMMA MissingFault ==
    ASSUME FaultsType, NEW kind \in {"lost", "send_raises"}, Fault(kind)
    PROVE  ResultMissing'
BY FaultHappens DEF ResultMissing

\* Of a progress message that was sent, the worker goes on to the next state.
LEMMA SendProgressFacts ==
    ASSUME WorkerType, FaultsType, NEW w \in Workers, NEW r, NEW state,
           NEW next \in [pc: {"process", "send"}, task: Task, ok: BOOLEAN,
                         late: SUBSET Progresses],
           SendProgress(w, r, state, next), ~ResultMissing'
    PROVE  /\ \A v \in Workers \ {w} : worker'[v] = worker[v]
           /\ worker'[w].pc = next.pc /\ worker'[w].task = next.task
<1>1. /\ ~Fault("lost") /\ ~HandlerRaises(w)
  BY MissingFault DEF HandlerRaises
<1> DEFINE m == Progress(r.job, r.lid, state)
<1>2. \/ worker' = [worker EXCEPT ![w] = next]
      \/ worker' = [worker EXCEPT ![w] = [next EXCEPT !.late = @ \cup {m}]]
  BY <1>1 DEF SendProgress
<1> HIDE DEF m
<1>3. CASE worker' = [worker EXCEPT ![w] = next]
  BY <1>3 DEF WorkerType
<1>4. CASE worker' = [worker EXCEPT ![w] = [next EXCEPT !.late = @ \cup {m}]]
  BY <1>4 DEF WorkerType
<1> QED
  BY <1>2, <1>3, <1>4

\* A step that counts nothing down and leaves the workers alone.
LEMMA KeepsAccount ==
    ASSUME [Next]_vars, NEW r \in Task, Accounted(r),
           unreadTasks[r] > 0 => unreadTasks'[r] > 0,
           UNCHANGED uncommittedTasks
    PROVE  Accounted(r)'
BY AnswersStay DEF Accounted, Uncommitted

LEMMA KeepsHeld ==
    ASSUME [Next]_vars, NEW w \in Workers, Held(w),
           worker'[w].pc = worker[w].pc, worker'[w].task = worker[w].task,
           uncommittedTasks'[w] = uncommittedTasks[w]
    PROVE  Held(w)'
<1>1. \A r : Answered(r) => Answered(r)'
  BY AnswersStay
<1>2. \A r \in Task : Uncommitted(w, r)' => Uncommitted(w, r)
  BY DEF Uncommitted
<1> QED
  BY <1>1, <1>2 DEF Held

\* The invariants a step of the tasks starts from, when no result is missing yet.
Good == /\ Inv /\ TypeInv
        /\ \A r \in taskLog : Accounted(r)
        /\ \A w \in Workers : Held(w)

Goal == (\A r \in taskLog : Accounted(r)) /\ (\A w \in Workers : Held(w))

LEMMA AccountPublish ==
    ASSUME Good, [Next]_vars, PublishTask
    PROVE  Goal'
<1> DEFINE task == [job |-> dispatcher.job,
                    lid |-> Images[dispatcher.job][dispatcher.next]]
<1>1. task \in Task
  BY DispatchedTask DEF PublishTask, Good, TypeInv
<1>2. UNCHANGED <<worker, uncommittedTasks>>
  BY DEF PublishTask, workerVars
<1>3. UNCHANGED taskVars \/ \E n \in {1, 2} : AppendTask(task, n)
  BY DEF PublishTask
<1> HIDE DEF task
<1>4. \A w \in Workers : Held(w)'
  BY <1>2, KeepsHeld DEF Good
<1>5. ASSUME NEW r \in taskLog' PROVE Accounted(r)'
  <2>1. CASE UNCHANGED taskVars
    BY <1>2, <2>1, KeepsAccount DEF taskVars, Good, TypeInv, TasksType
  <2>2. ASSUME NEW n \in {1, 2}, AppendTask(task, n) PROVE Accounted(r)'
    <3>1. /\ taskLog' = taskLog \cup {task}
          /\ \A q \in Task :
               unreadTasks'[q] = IF q = task THEN unreadTasks[q] + n ELSE unreadTasks[q]
      BY <1>1, <2>2, MoreFacts DEF AppendTask, Good, TypeInv, TasksType
    <3>2. \A q \in Task : unreadTasks[q] \in Nat
      BY DEF Good, TypeInv, TasksType
    <3>3. CASE r = task
      BY <1>1, <3>1, <3>2, <3>3 DEF Accounted
    <3>4. CASE r # task
      <4>1. r \in Task /\ r \in taskLog /\ Accounted(r)
        BY <3>1, <3>4 DEF Good, TypeInv, TasksType
      <4> QED
        BY <1>2, <3>1, <3>2, <3>4, <4>1, KeepsAccount
    <3> QED
      BY <3>3, <3>4
  <2> QED
    BY <1>3, <2>1, <2>2
<1> QED
  BY <1>4, <1>5 DEF Goal

LEMMA AccountTake ==
    ASSUME Good, [Next]_vars, ~ResultMissing', NEW w \in Workers, NEW r \in Task,
           TakeTask(w, r)
    PROVE  Goal'
<1>0. \A q : Answered(q) => Answered(q)'
  BY AnswersStay
<1>1. /\ worker[w].pc = "idle"
      /\ unreadTasks[r] > 0
      /\ unreadTasks' = Fewer(unreadTasks, r)
      /\ uncommittedTasks' = [uncommittedTasks EXCEPT ![w] = More(@, r, 1)]
      /\ UNCHANGED taskLog
  BY DEF TakeTask
<1>2. /\ \A v \in Workers \ {w} : worker'[v] = worker[v]
      /\ worker'[w].pc = "process" /\ worker'[w].task = r
  <2> DEFINE next == [pc |-> "process", task |-> r, ok |-> FALSE, late |-> worker[w].late]
  <2>1. SendProgress(w, r, "processing", next)
    BY DEF TakeTask
  <2>2. next \in [pc: {"process", "send"}, task: Task, ok: BOOLEAN, late: SUBSET Progresses]
    BY DEF Good, Inv, WorkerType
  <2>3. next.pc = "process" /\ next.task = r
    OBVIOUS
  <2> HIDE DEF next
  <2> QED
    BY <2>1, <2>2, <2>3, SendProgressFacts DEF Good, Inv, TypeInv
<1>3. /\ uncommittedTasks[w] \in [Task -> Nat] /\ unreadTasks \in [Task -> Nat]
      /\ uncommittedTasks \in [Workers -> [Task -> Nat]]
  BY DEF Good, TypeInv, TasksType
<1>4. /\ \A q \in Task : uncommittedTasks'[w][q] =
           IF q = r THEN uncommittedTasks[w][q] + 1 ELSE uncommittedTasks[w][q]
      /\ \A v \in Workers \ {w} : uncommittedTasks'[v] = uncommittedTasks[v]
  <2> DEFINE now == More(uncommittedTasks[w], r, 1)
  <2>1. \A q \in Task : now[q] =
           IF q = r THEN uncommittedTasks[w][q] + 1 ELSE uncommittedTasks[w][q]
    BY <1>3, MoreFacts
  <2>2. uncommittedTasks' = [uncommittedTasks EXCEPT ![w] = now]
    BY <1>1
  <2> HIDE DEF now
  <2>3. uncommittedTasks'[w] = now
    BY <1>3, <2>2
  <2> QED
    BY <1>3, <2>1, <2>2, <2>3
<1>5. \A q \in Task \ {r} : unreadTasks'[q] = unreadTasks[q]
  BY <1>1, <1>3, FewerFacts
<1>6. \A q \in Task, v \in Workers :
         uncommittedTasks[v][q] \in Nat /\ (Uncommitted(v, q) => Uncommitted(v, q)')
  <2> TAKE q \in Task, v \in Workers
  <2>1. uncommittedTasks[v][q] \in Nat
    BY <1>3
  <2> QED
    BY <2>1, <1>4 DEF Uncommitted
<1>7. ASSUME NEW q \in taskLog' PROVE Accounted(q)'
  <2>1. q \in Task /\ Accounted(q)
    BY <1>1 DEF Good, TypeInv, TasksType
  <2>2. CASE q = r
    <3>1. uncommittedTasks'[w][r] > 0
      BY <1>3, <1>4
    <3> QED
      BY <2>2, <3>1 DEF Accounted, Uncommitted
  <2>3. CASE q # r
    BY <1>0, <1>5, <1>6, <2>1, <2>3 DEF Accounted
  <2> QED
    BY <2>2, <2>3
<1>8. ASSUME NEW v \in Workers PROVE Held(v)'
  <2>1. CASE v # w
    BY <2>1, <1>2, <1>4, KeepsHeld DEF Good
  <2>2. CASE v = w
    <3>1. Held(w)
      BY DEF Good
    <3>2. ASSUME NEW q \in Task, Uncommitted(w, q)', q # r PROVE Answered(q)'
      <4>1. Uncommitted(w, q)
        BY <1>4, <3>2 DEF Uncommitted
      <4> QED
        BY <1>0, <1>1, <3>1, <4>1 DEF Held
    <3> QED
      BY <1>2, <2>2, <3>2 DEF Held
  <2> QED
    BY <2>1, <2>2
<1> QED
  BY <1>7, <1>8 DEF Goal

\* The steps of a worker that move no record of the topic.
LEMMA AccountWork ==
    ASSUME Good, [Next]_vars, ~ResultMissing', NEW w \in Workers,
           ProcessImage(w) \/ SendResult(w) \/ DeliverLate(w)
    PROVE  Goal'
<1>1. UNCHANGED <<taskLog, unreadTasks, uncommittedTasks>>
  BY DEF ProcessImage, SendResult, DeliverLate, taskVars
<1>2. \A r \in taskLog' : Accounted(r)'
  BY <1>1, KeepsAccount DEF Good, TypeInv, TasksType
<1>3. CASE ProcessImage(w)
  <2>1. worker[w].pc = "process" /\ worker[w].task \in Task
    BY <1>3 DEF ProcessImage, Good, Inv, WorkerInv
  <2>2. PICK ok \in BOOLEAN :
          SendProgress(w, worker[w].task, IF ok THEN "done" ELSE "error",
                       [pc |-> "send", task |-> worker[w].task, ok |-> ok,
                        late |-> worker[w].late])
    BY <1>3 DEF ProcessImage
  <2> DEFINE next == [pc |-> "send", task |-> worker[w].task, ok |-> ok,
                      late |-> worker[w].late]
  <2>3. next \in [pc: {"process", "send"}, task: Task, ok: BOOLEAN, late: SUBSET Progresses]
    BY <2>1 DEF Good, Inv, WorkerType
  <2>4. next.pc = "send" /\ next.task = worker[w].task
    OBVIOUS
  <2>5. SendProgress(w, worker[w].task, IF ok THEN "done" ELSE "error", next)
    BY <2>2
  <2> HIDE DEF next
  <2>6. /\ \A v \in Workers \ {w} : worker'[v] = worker[v]
        /\ worker'[w].pc = "send" /\ worker'[w].task = worker[w].task
    BY <2>3, <2>4, <2>5, SendProgressFacts DEF Good, Inv, TypeInv
  <2>7. Held(w)'
    <3>1. \A r : Answered(r) => Answered(r)'
      BY AnswersStay
    <3>2. \A r \in Task : Uncommitted(w, r)' => Uncommitted(w, r)
      BY <1>1 DEF Uncommitted
    <3> QED
      BY <2>1, <2>6, <3>1, <3>2 DEF Held, Good
  <2>8. \A v \in Workers \ {w} : Held(v)'
    BY <1>1, <2>6, KeepsHeld DEF Good
  <2> QED
    BY <1>2, <2>7, <2>8 DEF Goal
<1>4. CASE SendResult(w)
  <2> DEFINE result == [job |-> worker[w].task.job, lid |-> worker[w].task.lid,
                        ok |-> worker[w].ok]
  <2>1. ~Fault("lost") /\ ~HandlerRaises(w)
    BY MissingFault DEF HandlerRaises, Good, TypeInv
  <2>2. \E n \in {1, 2} : AppendResult(result, n)
    BY <1>4, <2>1 DEF SendResult
  <2>3. worker' = [worker EXCEPT ![w].pc = "commit"]
    BY <1>4, <2>1 DEF SendResult
  <2>4. result \in resultLog'
    BY <2>2 DEF AppendResult
  <2>5. /\ \A v \in Workers \ {w} : worker'[v] = worker[v]
        /\ worker'[w].pc = "commit" /\ worker'[w].task = worker[w].task
    BY <2>3 DEF Good, Inv, WorkerType
  <2>6. worker[w].pc = "send" /\ worker[w].ok \in BOOLEAN
    BY <1>4 DEF SendResult, Good, Inv, WorkerType
  <2>7. Answered(worker[w].task)'
    <3>1. \A r, ok : /\ result \in resultLog' /\ ok \in BOOLEAN
                     /\ r.job = result.job /\ r.lid = result.lid /\ result.ok = ok
                     => Answered(r)'
      BY DEF Answered, Outcome
    <3>2. /\ result.job = worker[w].task.job /\ result.lid = worker[w].task.lid
          /\ result.ok = worker[w].ok
      OBVIOUS
    <3> HIDE DEF result
    <3>3. PICK r : r = worker[w].task
      OBVIOUS
    <3>4. Answered(r)'
      BY <2>4, <2>6, <3>1, <3>2, <3>3
    <3>5. worker'[w].task = worker[w].task
      BY <2>5
    <3> QED
      BY <3>3, <3>4, <3>5 DEF Answered
  <2>8. Held(w)'
    <3>1. \A r : Answered(r) => Answered(r)'
      BY AnswersStay
    <3>2. \A r \in Task : Uncommitted(w, r)' => Uncommitted(w, r)
      BY <1>1 DEF Uncommitted
    <3> QED
      BY <2>5, <2>6, <2>7, <3>1, <3>2 DEF Held, Good
  <2>9. \A v \in Workers \ {w} : Held(v)'
    BY <1>1, <2>5, KeepsHeld DEF Good
  <2> QED
    BY <1>2, <2>8, <2>9 DEF Goal
<1>5. CASE DeliverLate(w)
  <2>1. worker' = [worker EXCEPT ![w].late = {}]
    BY <1>5 DEF DeliverLate
  <2>2. \A v \in Workers : worker'[v].pc = worker[v].pc /\ worker'[v].task = worker[v].task
    BY <2>1 DEF Good, Inv, WorkerType
  <2>3. \A v \in Workers : Held(v)'
    BY <1>1, <2>2, KeepsHeld DEF Good
  <2> QED
    BY <1>2, <2>3 DEF Goal
<1> QED
  BY <1>3, <1>4, <1>5

\* A commit: what it covers is answered.
LEMMA AccountCommit ==
    ASSUME Good, [Next]_vars, NEW w \in Workers, CommitTask(w)
    PROVE  Goal'
<1>0. \A q : Answered(q) => Answered(q)'
  BY AnswersStay
<1>1. /\ worker[w].pc = "commit"
      /\ uncommittedTasks' = [uncommittedTasks EXCEPT ![w] = None(Task)]
      /\ worker' = [worker EXCEPT ![w] = IdleWorker]
      /\ UNCHANGED <<taskLog, unreadTasks>>
  BY DEF CommitTask, taskVars
<1>2. /\ \A q \in Task : ~Uncommitted(w, q)'
      /\ worker'[w].pc = "idle"
      /\ \A v \in Workers \ {w} :
           worker'[v] = worker[v] /\ uncommittedTasks'[v] = uncommittedTasks[v]
  BY <1>1, NoneFacts DEF Good, TypeInv, TasksType, Inv, WorkerType, IdleWorker, Uncommitted
<1>3. ASSUME NEW v \in Workers PROVE Held(v)'
  <2>1. CASE v = w
    BY <1>2, <2>1 DEF Held
  <2>2. CASE v # w
    BY <1>2, <2>2, KeepsHeld DEF Good
  <2> QED
    BY <2>1, <2>2
<1>4. ASSUME NEW r \in taskLog' PROVE Accounted(r)'
  <2>1. r \in Task /\ Accounted(r)
    BY <1>1 DEF Good, TypeInv, TasksType
  <2>2. CASE unreadTasks[r] > 0 \/ Answered(r)
    BY <1>0, <1>1, <2>2 DEF Accounted
  <2>3. ASSUME NEW v \in Workers, Uncommitted(v, r) PROVE Accounted(r)'
    <3>1. CASE v = w
      <4>1. Answered(r)
        BY <1>1, <2>1, <2>3, <3>1 DEF Good, Held
      <4> QED
        BY <1>0, <4>1 DEF Accounted
    <3>2. CASE v # w
      <4>1. Uncommitted(v, r)'
        BY <1>2, <2>3, <3>2 DEF Uncommitted
      <4> QED
        BY <4>1 DEF Accounted
    <3> QED
      BY <3>1, <3>2
  <2> QED
    BY <2>1, <2>2, <2>3 DEF Accounted
<1> QED
  BY <1>3, <1>4 DEF Goal

\* A rejoin gives back what was not committed.
LEMMA AccountRejoin ==
    ASSUME Good, [Next]_vars, NEW w \in Workers, RejoinWorker(w)
    PROVE  Goal'
<1>0. \A q : Answered(q) => Answered(q)'
  BY AnswersStay
<1>1. /\ unreadTasks' = Both(unreadTasks, uncommittedTasks[w])
      /\ uncommittedTasks' = [uncommittedTasks EXCEPT ![w] = None(Task)]
      /\ UNCHANGED <<taskLog, worker>>
  BY DEF RejoinWorker
<1>2. /\ unreadTasks \in [Task -> Nat] /\ uncommittedTasks[w] \in [Task -> Nat]
      /\ uncommittedTasks \in [Workers -> [Task -> Nat]]
  BY DEF Good, TypeInv, TasksType
<1>3. \A q \in Task : unreadTasks'[q] = unreadTasks[q] + uncommittedTasks[w][q]
  BY <1>1, <1>2, BothFacts
<1>4. \A q \in Task : unreadTasks[q] > 0 \/ Uncommitted(w, q) => unreadTasks'[q] > 0
  <2> TAKE q \in Task
  <2>1. unreadTasks[q] \in Nat /\ uncommittedTasks[w][q] \in Nat
    BY <1>2
  <2> QED
    BY <1>3, <2>1 DEF Uncommitted
<1>5. /\ \A q \in Task : ~Uncommitted(w, q)'
      /\ \A v \in Workers \ {w} : uncommittedTasks'[v] = uncommittedTasks[v]
  BY <1>1, <1>2, NoneFacts DEF Uncommitted
<1>6. ASSUME NEW v \in Workers PROVE Held(v)'
  <2>1. CASE v = w
    BY <1>0, <1>1, <1>5, <2>1 DEF Held, Good
  <2>2. CASE v # w
    BY <1>1, <1>5, <2>2, KeepsHeld DEF Good
  <2> QED
    BY <2>1, <2>2
<1>7. ASSUME NEW r \in taskLog' PROVE Accounted(r)'
  <2>1. r \in Task /\ Accounted(r)
    BY <1>1 DEF Good, TypeInv, TasksType
  <2>2. CASE unreadTasks[r] > 0 \/ Answered(r) \/ Uncommitted(w, r)
    BY <1>0, <1>4, <2>1, <2>2 DEF Accounted
  <2>3. ASSUME NEW v \in Workers \ {w}, Uncommitted(v, r) PROVE Accounted(r)'
    <3>1. Uncommitted(v, r)'
      BY <1>5, <2>3 DEF Uncommitted
    <3> QED
      BY <3>1 DEF Accounted
  <2> QED
    BY <2>1, <2>2, <2>3 DEF Accounted
<1> QED
  BY <1>6, <1>7 DEF Goal

\* A restart gives back what no worker committed.
LEMMA AccountCrash ==
    ASSUME Good, [Next]_vars, Crash
    PROVE  Goal'
<1>0. \A q : Answered(q) => Answered(q)'
  BY AnswersStay
<1> DEFINE s(r) == SumFunction([w \in Workers |-> uncommittedTasks[w][r]])
<1>1. /\ unreadTasks' = [r \in Task |-> unreadTasks[r] + s(r)]
      /\ uncommittedTasks' = [w \in Workers |-> None(Task)]
      /\ worker' = [w \in Workers |-> IdleWorker]
      /\ UNCHANGED taskLog
  BY DEF Crash
<1>2. ASSUME NEW r \in Task
      PROVE  s(r) \in Nat /\ \A w \in Workers : uncommittedTasks[w][r] <= s(r)
  <2> DEFINE f == [w \in Workers |-> uncommittedTasks[w][r]]
  <2>1. f \in [Workers -> Nat]
    BY DEF Good, TypeInv, TasksType
  <2>2. \A w \in Workers : f[w] = uncommittedTasks[w][r]
    OBVIOUS
  <2>3. s(r) = SumFunction(f)
    OBVIOUS
  <2> HIDE DEF f, s
  <2>4. SumFunction(f) \in Nat /\ \A w \in Workers : f[w] <= SumFunction(f)
    BY <2>1, SumFacts, PipelineAssumption
  <2> QED
    BY <2>2, <2>3, <2>4
<1> HIDE DEF s
<1>3. \A w \in Workers : Held(w)'
  BY <1>1, NoneFacts DEF Held, IdleWorker, Uncommitted
<1>4. ASSUME NEW r \in taskLog' PROVE Accounted(r)'
  <2>1. r \in Task /\ Accounted(r)
    BY <1>1 DEF Good, TypeInv, TasksType
  <2>2. unreadTasks'[r] = unreadTasks[r] + s(r) /\ unreadTasks[r] \in Nat /\ s(r) \in Nat
    BY <1>1, <1>2, <2>1 DEF Good, TypeInv, TasksType
  <2>3. CASE unreadTasks[r] > 0
    BY <2>2, <2>3 DEF Accounted
  <2>4. CASE Answered(r)
    BY <1>0, <2>4 DEF Accounted
  <2>5. ASSUME NEW w \in Workers, Uncommitted(w, r) PROVE Accounted(r)'
    <3>1. uncommittedTasks[w][r] \in Nat /\ uncommittedTasks[w][r] <= s(r)
          /\ uncommittedTasks[w][r] > 0
      BY <1>2, <2>1, <2>5 DEF Good, TypeInv, TasksType, Uncommitted
    <3>2. unreadTasks'[r] > 0
      BY <2>2, <3>1
    <3> QED
      BY <3>2 DEF Accounted
  <2> QED
    BY <2>1, <2>3, <2>4, <2>5 DEF Accounted
<1> QED
  BY <1>3, <1>4 DEF Goal

LEMMA AccountStep ==
    ASSUME Inv, TypeInv, AccountInv, [Next]_vars
    PROVE  AccountInv'
<1> SUFFICES ASSUME ~ResultMissing' PROVE Goal'
  BY DEF AccountInv, Goal
<1>1. ~ResultMissing
  BY FaultsTypeStep DEF ResultMissing, TypeInv
<1>2. Good
  BY <1>1 DEF AccountInv, Good
<1>3. CASE UNCHANGED <<taskLog, unreadTasks, uncommittedTasks, worker>>
  <2>1. \A r \in taskLog' : Accounted(r)'
    BY <1>2, <1>3, KeepsAccount DEF Good, TypeInv, TasksType
  <2>2. \A w \in Workers : Held(w)'
    BY <1>2, <1>3, KeepsHeld DEF Good
  <2> QED
    BY <2>1, <2>2 DEF Goal
<1>4. ASSUME NEW w \in Workers, Work(w) \/ RejoinWorker(w) PROVE Goal'
  BY <1>2, <1>4, AccountTake, AccountWork, AccountCommit, AccountRejoin DEF Work
<1>5. CASE PublishTask \/ Crash
  BY <1>2, <1>5, AccountPublish, AccountCrash
<1>6. CASE \/ \E j \in Jobs : SubmitJob(j) \/ SubmitAgain(j)
           \/ (\E j \in Jobs : ReceiveJob(j)) \/ CommitJobs
           \/ RejoinDispatcher \/ RejoinAggregator \/ UNCHANGED vars
  BY <1>3, <1>6 DEF SubmitJob, SubmitAgain, ReceiveJob, CommitJobs, RejoinDispatcher,
     RejoinAggregator, vars, taskVars, workerVars
<1>7. CASE Aggregate
  BY <1>3, <1>7 DEF Aggregate, ReceiveResult, Report, AllImagesFailed, StartReport,
     RenderReport, CloseReport, CommitResults, AggregatorStep, taskVars, workerVars
<1> QED
  BY <1>4, <1>5, <1>6, <1>7 DEF Next, Dispatch

\* No task is forgotten, whatever is delivered twice, redelivered or restarted: a
\* record of image.task is waiting, or held without a commit, or answered, unless a
\* result was lost on its way or its publication raised.
THEOREM TasksAreAccounted == Spec => []TaskAccounted
<1>1. Inv /\ TypeInv /\ AccountInv => TaskAccounted
  BY DEF AccountInv, Accounted, Uncommitted, Answered, ResultMissing, TaskAccounted
<1>2. Init => TypeInv /\ AccountInv
  <2> SUFFICES ASSUME Init PROVE AccountInv
    BY TypeInit
  <2>1. taskLog = {}
    BY DEF Init
  <2>2. ASSUME NEW w \in Workers PROVE Held(w)
    BY NoneFacts DEF Init, Held, IdleWorker, Uncommitted
  <2> QED
    BY <2>1, <2>2 DEF AccountInv
<1>3. Inv /\ TypeInv /\ AccountInv /\ [Next]_vars => TypeInv' /\ AccountInv'
  BY TypeStep, AccountStep
<1> QED
  BY <1>1, <1>2, <1>3, InvInit, InvStep, PTL DEF Spec

----------------------------------------------------------------------------
(* The last word on a job *)

\* A message was delivered, or may be delivered, a second time.
Redelivered == Happened({"duplicate", "rebalance", "crash"})

\* No image is twice in the list of job j.
Distinct(j) == \A i, k \in DOMAIN Images[j] : Images[j][i] = Images[j][k] => i = k

\* The dispatcher has not taken job j.
Fresh(j) == j \notin jobSubmitted \/ unreadJobs[j] > 0

\* Worker w works on task r and has not sent its result.
Holds(w, r) == worker[w].pc \in {"process", "send"} /\ worker[w].task = r

\* The dispatcher has not come to task r.
NotYet(r) ==
    \/ Fresh(r.job)
    \/ /\ dispatcher.job = r.job
       /\ \E i \in DOMAIN Images[r.job] : i >= dispatcher.next /\ Images[r.job][i] = r.lid

\* A job is taken once.
JobOnce(j) ==
    /\ unreadJobs[j] <= 1
    /\ j \notin jobSubmitted => unreadJobs[j] = 0
    /\ Fresh(j) => dispatcher.job # j

\* A task is to be published, or to be taken, or held by one worker, or none of
\* these: the stages follow each other, and only the last has a result.
TaskOnce(r) ==
    /\ unreadTasks[r] <= 1
    /\ NotYet(r) => unreadTasks[r] = 0
    /\ NotYet(r) \/ unreadTasks[r] > 0 => ~Answered(r) /\ \A w \in Workers : ~Holds(w, r)
    /\ \A w \in Workers : Holds(w, r) =>
         ~Answered(r) /\ \A v \in Workers : Holds(v, r) => v = w

\* The only result of an image is to be counted, or was counted.
ResultOnce(x) ==
    /\ unreadResults[x] <= 1
    /\ x \in collected[x.job] => unreadResults[x] = 0
    /\ \A y \in resultLog : y.job = x.job /\ y.lid = x.lid => y = x

\* The result of image l of job j was counted.
Consumed(j, l) == \E x \in resultLog : x.job = j /\ x.lid = l /\ unreadResults[x] = 0

\* Nothing about job j can reach the dispatcher or the aggregator any more.
Settled(j) ==
    Distinct(j) /\ ~Fresh(j) /\ \A l \in LidsOf(j) : Consumed(j, l)

\* The aggregator makes the report of job j.
Concluding(j) == aggregator.pc # "idle" /\ aggregator.job = j

VerdictOnce(j) ==
    /\ HasVerdict(j) \/ Concluding(j) => Settled(j)
    /\ Concluding(j) => ~HasVerdict(j)
    /\ \A m, n \in jobStatus : m.job = j /\ n.job = j /\ IsVerdict(m) /\ IsVerdict(n) => m = n

\* A list that names an image twice never has as many results as entries: its job
\* gets no verdict, and nothing is said of its tasks.
Once ==
    /\ \A j \in Jobs : JobOnce(j)
    /\ \A r \in Task : Distinct(r.job) => TaskOnce(r)
    /\ \A x \in resultLog : Distinct(x.job) => ResultOnce(x)
    /\ \A j \in Jobs : VerdictOnce(j)

OnceInv == Redelivered \/ Once

----------------------------------------------------------------------------
\* A step that makes nothing be delivered twice.
QuietStep == Inv /\ TypeInv /\ Once /\ [Next]_vars /\ ~Redelivered'

LEMMA QuietFaults ==
    ASSUME QuietStep
    PROVE  ~Fault("duplicate") /\ ~Fault("rebalance") /\ ~Fault("crash")
BY FaultHappens DEF QuietStep, TypeInv, Redelivered

\* What such a step can be.
LEMMA QuietSteps ==
    ASSUME QuietStep
    PROVE  \/ \E j \in Jobs : SubmitJob(j) \/ ReceiveJob(j)
           \/ PublishTask
           \/ \E w \in Workers : Work(w)
           \/ Aggregate
           \/ CommitJobs \/ UNCHANGED vars
<1>1. /\ \A j \in Jobs : ~SubmitAgain(j)
      /\ \A w \in Workers : ~RejoinWorker(w)
      /\ ~RejoinDispatcher /\ ~RejoinAggregator /\ ~Crash
  BY QuietFaults DEF SubmitAgain, RejoinWorker, RejoinDispatcher, RejoinAggregator, Crash
<1>2. Next \/ UNCHANGED vars
  BY DEF QuietStep
<1> QED
  BY <1>1, <1>2 DEF Next, Dispatch

\* Of a progress message the worker goes on to the next state, or gives its task up.
LEMMA ProgressHolds ==
    ASSUME WorkerType, NEW w \in Workers, NEW r \in Task,
           NEW state \in {"processing", "done", "error"},
           NEW next \in [pc: {"process", "send"}, task: Task, ok: BOOLEAN,
                         late: SUBSET Progresses],
           SendProgress(w, r, state, next)
    PROVE  /\ \A v \in Workers \ {w} : worker'[v] = worker[v]
           /\ \A q : Holds(w, q)' => q = next.task
           /\ jobStatus \subseteq jobStatus'
           /\ \A m \in jobStatus' : m \in jobStatus \/ m \in Progresses
<1> DEFINE m == Progress(r.job, r.lid, state)
<1>1. m \in Progresses
  BY DEF Task, Progresses
<1>2. \/ worker' = [worker EXCEPT ![w] = next]
      \/ worker' = [worker EXCEPT ![w] = [next EXCEPT !.late = @ \cup {m}]]
      \/ worker' = [worker EXCEPT ![w] = [IdleWorker EXCEPT !.late = worker[w].late]]
  BY DEF SendProgress, HandlerRaises
<1>3. jobStatus' = jobStatus \cup {m} \/ UNCHANGED jobStatus
  BY DEF SendProgress
<1> HIDE DEF m
<1>4. CASE worker' = [worker EXCEPT ![w] = next]
  BY <1>1, <1>3, <1>4 DEF WorkerType, Holds
<1>5. CASE worker' = [worker EXCEPT ![w] = [next EXCEPT !.late = @ \cup {m}]]
  BY <1>1, <1>3, <1>5 DEF WorkerType, Holds
<1>6. CASE worker' = [worker EXCEPT ![w] = [IdleWorker EXCEPT !.late = worker[w].late]]
  BY <1>1, <1>3, <1>6 DEF WorkerType, Holds, IdleWorker
<1> QED
  BY <1>2, <1>4, <1>5, <1>6

\* What a worker holds after its step.
LEMMA WorkHolds ==
    ASSUME Inv, NEW w \in Workers, Work(w)
    PROVE  /\ \A v \in Workers : \A q : Holds(v, q)' => Holds(v, q) \/ (v = w /\ TakeTask(w, q))
           /\ SendResult(w) => \A q : ~Holds(w, q)'
           /\ jobStatus \subseteq jobStatus'
           /\ \A m \in jobStatus' : m \in jobStatus \/ m \in Progresses
<1> DEFINE Others == \A v \in Workers \ {w} : worker'[v] = worker[v]
           Spoken == /\ jobStatus \subseteq jobStatus'
                     /\ \A m \in jobStatus' : m \in jobStatus \/ m \in Progresses
<1>0. WorkerType /\ WorkerInv
  BY DEF Inv
<1>1. ASSUME NEW r \in Task, TakeTask(w, r)
      PROVE  Others /\ Spoken /\ worker[w].pc = "idle" /\ \A q : Holds(w, q)' => q = r
  <2> DEFINE next == [pc |-> "process", task |-> r, ok |-> FALSE, late |-> worker[w].late]
  <2>1. SendProgress(w, r, "processing", next) /\ worker[w].pc = "idle"
    BY <1>1 DEF TakeTask
  <2>2. next \in [pc: {"process", "send"}, task: Task, ok: BOOLEAN, late: SUBSET Progresses]
        /\ next.task = r
    BY <1>0 DEF WorkerType
  <2> HIDE DEF next
  <2> QED
    BY <1>0, <2>1, <2>2, ProgressHolds
<1>2. ASSUME ProcessImage(w)
      PROVE  Others /\ Spoken /\ \A q : Holds(w, q)' => Holds(w, q)
  <2>0. worker[w].task \in Task /\ worker[w].pc = "process"
    BY <1>0, <1>2 DEF ProcessImage, WorkerInv
  <2>1. PICK ok \in BOOLEAN :
           SendProgress(w, worker[w].task, IF ok THEN "done" ELSE "error",
                        [pc |-> "send", task |-> worker[w].task, ok |-> ok,
                         late |-> worker[w].late])
    BY <1>2 DEF ProcessImage
  <2> DEFINE next == [pc |-> "send", task |-> worker[w].task, ok |-> ok,
                      late |-> worker[w].late]
             state == IF ok THEN "done" ELSE "error"
  <2>2. next \in [pc: {"process", "send"}, task: Task, ok: BOOLEAN, late: SUBSET Progresses]
        /\ next.task = worker[w].task
        /\ state \in {"processing", "done", "error"}
    BY <1>0, <2>0 DEF WorkerType
  <2>3. SendProgress(w, worker[w].task, state, next)
    BY <2>1
  <2> HIDE DEF next, state
  <2>4. Others /\ Spoken /\ \A q : Holds(w, q)' => q = worker[w].task
    BY <1>0, <2>0, <2>2, <2>3, ProgressHolds
  <2> QED
    BY <2>0, <2>4 DEF Holds
<1>3. ASSUME SendResult(w)
      PROVE  Others /\ UNCHANGED jobStatus /\ \A q : ~Holds(w, q)'
  <2>1. UNCHANGED jobStatus
    BY <1>3 DEF SendResult
  <2>2. \/ worker' = [worker EXCEPT ![w].pc = "commit"]
        \/ worker' = [worker EXCEPT ![w] = [IdleWorker EXCEPT !.late = worker[w].late]]
    BY <1>3 DEF SendResult, HandlerRaises
  <2>3. CASE worker' = [worker EXCEPT ![w].pc = "commit"]
    BY <1>0, <2>1, <2>3 DEF WorkerType, Holds
  <2>4. CASE worker' = [worker EXCEPT ![w] = [IdleWorker EXCEPT !.late = worker[w].late]]
    BY <1>0, <2>1, <2>4 DEF WorkerType, Holds, IdleWorker
  <2> QED
    BY <2>2, <2>3, <2>4
<1>4. ASSUME DeliverLate(w)
      PROVE  Others /\ Spoken /\ \A q : Holds(w, q)' => Holds(w, q)
  BY <1>0, <1>4 DEF DeliverLate, WorkerType, Holds
<1>5. ASSUME CommitTask(w)
      PROVE  Others /\ UNCHANGED jobStatus /\ \A q : ~Holds(w, q)'
  BY <1>0, <1>5 DEF CommitTask, WorkerType, Holds, IdleWorker
<1>6. ~(SendResult(w) /\ (DeliverLate(w) \/ ProcessImage(w) \/ \E r \in Task : TakeTask(w, r)))
  <2>1. SendResult(w) => worker[w].pc = "send"
    BY DEF SendResult
  <2>2. SendResult(w) => \A q : ~Holds(w, q)'
    BY <1>3
  <2>3. DeliverLate(w) => worker'[w].pc = worker[w].pc /\ worker'[w].task = worker[w].task
    BY <1>0 DEF DeliverLate, WorkerType
  <2> QED
    BY <2>1, <2>2, <2>3 DEF ProcessImage, TakeTask, Holds
<1> HIDE DEF Others, Spoken
<1>7. Others => \A v \in Workers \ {w} : \A q : Holds(v, q)' => Holds(v, q)
  BY DEF Others, Holds
<1>8. UNCHANGED jobStatus => Spoken
  BY DEF Spoken
<1>9. Spoken /\ Others
  BY <1>1, <1>2, <1>3, <1>4, <1>5, <1>8 DEF Work
<1>10. SendResult(w) => \A q : ~Holds(w, q)'
  BY <1>3
<1>11. \A q : Holds(w, q)' => Holds(w, q) \/ TakeTask(w, q)
  BY <1>1, <1>2, <1>3, <1>4, <1>5 DEF Work
<1> QED
  BY <1>7, <1>9, <1>10, <1>11 DEF Spoken

----------------------------------------------------------------------------
\* Jobs and tasks are taken once.

\* The image the dispatcher goes on to comes after the one it has published.
LEMMA DispatchOn ==
    ASSUME DispatcherType, PublishTask, dispatcher' # NoDispatch
    PROVE  dispatcher'.job = dispatcher.job /\ dispatcher'.next = dispatcher.next + 1
<1>1. NextImage
  BY DEF PublishTask
<1> QED
  BY <1>1 DEF NextImage, DispatcherType

\* A job that was taken stays taken, and a task that was published stays published.
LEMMA JobsOnceStep ==
    ASSUME QuietStep
    PROVE  /\ \A j \in Jobs : JobOnce(j)' /\ (Fresh(j)' => Fresh(j))
           /\ \A r \in Task : NotYet(r)' => NotYet(r)
<1>0. /\ JobsType /\ DispatcherType
      /\ \A j \in Jobs : JobOnce(j)
      /\ \A r \in Task : r.job \in Jobs
  BY DEF QuietStep, TypeInv, Once, Task
<1>1. ASSUME NEW j \in Jobs, SubmitJob(j)
      PROVE  /\ \A i \in Jobs : JobOnce(i)' /\ (Fresh(i)' => Fresh(i))
             /\ UNCHANGED dispatcher
  <2>1. /\ j \notin jobSubmitted /\ jobSubmitted' = jobSubmitted \cup {j}
        /\ unreadJobs' = More(unreadJobs, j, 1)
        /\ UNCHANGED dispatcher
    BY <1>1 DEF SubmitJob
  <2>2. \A i \in Jobs : unreadJobs'[i] = IF i = j THEN unreadJobs[i] + 1 ELSE unreadJobs[i]
    <3>1. unreadJobs \in [Jobs -> Nat] /\ 1 \in Nat
      BY <1>0 DEF JobsType
    <3> QED
      BY <2>1, <3>1, MoreFacts
  <2>3. unreadJobs[j] = 0 /\ dispatcher.job # j
    BY <1>0, <2>1 DEF JobOnce, Fresh
  <2> QED
    BY <1>0, <2>1, <2>2, <2>3 DEF JobOnce, Fresh, JobsType
<1>2. ASSUME NEW j \in Jobs, ReceiveJob(j)
      PROVE  /\ \A i \in Jobs : JobOnce(i)' /\ (Fresh(i)' => Fresh(i))
             /\ Fresh(j)
             /\ dispatcher' = dispatcher \/ dispatcher'.job = j
  <2>1. /\ unreadJobs[j] > 0 /\ unreadJobs' = Fewer(unreadJobs, j)
        /\ UNCHANGED jobSubmitted
        /\ dispatcher' = dispatcher \/ dispatcher'.job = j
    BY <1>2 DEF ReceiveJob
  <2>2. \A i \in Jobs : unreadJobs'[i] = IF i = j THEN unreadJobs[i] - 1 ELSE unreadJobs[i]
    BY <1>0, <2>1, FewerFacts DEF JobsType
  <2>3. j \in jobSubmitted /\ unreadJobs[j] = 1
    BY <1>0, <2>1 DEF JobOnce, JobsType
  <2> QED
    BY <1>0, <2>1, <2>2, <2>3 DEF JobOnce, Fresh, JobsType
<1>3. ASSUME PublishTask
      PROVE  /\ UNCHANGED <<jobSubmitted, unreadJobs>>
             /\ \/ dispatcher'.job = Null
                \/ /\ dispatcher'.job = dispatcher.job
                   /\ dispatcher'.next = dispatcher.next + 1
                   /\ dispatcher.next \in Nat
  <2>1. dispatcher' = NoDispatch => dispatcher'.job = Null
    BY DEF NoDispatch
  <2> QED
    BY <1>0, <1>3, <2>1, DispatchOn DEF PublishTask, DispatcherType
<1>4. ASSUME NEW w \in Workers, Work(w) PROVE UNCHANGED <<jobSubmitted, unreadJobs, dispatcher>>
  BY <1>4 DEF Work, TakeTask, ProcessImage, SendResult, DeliverLate, CommitTask, dispatchVars
<1>5. CASE Aggregate \/ CommitJobs \/ UNCHANGED vars
  <2>1. UNCHANGED <<jobSubmitted, unreadJobs, dispatcher>>
    BY <1>5 DEF Aggregate, ReceiveResult, Report, AllImagesFailed, StartReport,
         RenderReport, CloseReport, CommitResults, AggregatorStep, CommitJobs, vars, dispatchVars
  <2> QED
    BY <1>0, <2>1 DEF JobOnce, Fresh, NotYet
<1>6. CASE UNCHANGED <<jobSubmitted, unreadJobs, dispatcher>>
  BY <1>0, <1>6 DEF JobOnce, Fresh, NotYet
<1>7. CASE PublishTask
  <2>1. \A j \in Jobs : (Fresh(j)' => Fresh(j)) /\ (dispatcher'.job = j => dispatcher.job = j)
    BY <1>3, <1>7, PipelineAssumption DEF Fresh
  <2>2. \A j \in Jobs : JobOnce(j)'
    BY <1>0, <1>3, <1>7, <2>1 DEF JobOnce
  <2>3. ASSUME NEW r \in Task, NotYet(r)' PROVE NotYet(r)
    <3>1. CASE Fresh(r.job)'
      BY <1>0, <2>1, <3>1 DEF NotYet
    <3>2. CASE ~Fresh(r.job)'
      <4>1. PICK i \in DOMAIN Images[r.job] : i >= dispatcher'.next /\ Images[r.job][i] = r.lid
        BY <2>3, <3>2 DEF NotYet
      <4>2. dispatcher'.job = r.job /\ r.job # Null
        BY <1>0, <2>3, <3>2, PipelineAssumption DEF NotYet
      <4>3. /\ dispatcher.job = r.job /\ dispatcher.next \in Nat
            /\ dispatcher'.next = dispatcher.next + 1
        BY <1>3, <1>7, <4>2
      <4>4. i \in Nat
        BY <1>0, PipelineAssumption
      <4>5. i >= dispatcher.next
        BY <4>1, <4>3, <4>4
      <4> QED
        BY <4>1, <4>3, <4>5 DEF NotYet
    <3> QED
      BY <3>1, <3>2
  <2> QED
    BY <2>1, <2>2, <2>3
<1>8. ASSUME NEW j \in Jobs, SubmitJob(j) \/ ReceiveJob(j)
      PROVE  \A r \in Task : NotYet(r)' => NotYet(r)
  <2>1. CASE SubmitJob(j)
    BY <1>0, <1>1, <2>1 DEF NotYet
  <2>2. CASE ReceiveJob(j)
    BY <1>0, <1>2, <2>2 DEF NotYet
  <2> QED
    BY <1>8, <2>1, <2>2
<1> QED
  BY <1>1, <1>2, <1>4, <1>5, <1>6, <1>7, <1>8, QuietSteps

\* The dispatcher publishes the task it has come to for the first time.
LEMMA PublishedOnce ==
    ASSUME QuietStep, PublishTask, Distinct(dispatcher.job),
           NEW task, task = [job |-> dispatcher.job,
                             lid |-> Images[dispatcher.job][dispatcher.next]]
    PROVE  task \in Task /\ NotYet(task) /\ ~NotYet(task)'
<1>0. /\ DispatcherType /\ dispatcher # NoDispatch
      /\ \A j \in Jobs : JobOnce(j)
  BY DEF QuietStep, TypeInv, Once, PublishTask
<1>1. /\ dispatcher.job \in Jobs /\ task \in Task
      /\ dispatcher.next \in DOMAIN Images[dispatcher.job]
      /\ DOMAIN Images[dispatcher.job] \subseteq Nat
  <2>1. dispatcher.job \in Jobs /\ task \in Task
    BY <1>0, DispatchedTask
  <2>2. Images[dispatcher.job] \in Seq(Lids)
    BY <2>1, PipelineAssumption
  <2>3. dispatcher.next \in 1..Len(Images[dispatcher.job])
    BY <1>0, <2>1, PipelineAssumption DEF DispatcherType, Total
  <2> QED
    BY <2>1, <2>2, <2>3
<1>2. NotYet(task)
  <2>1. dispatcher.next >= dispatcher.next
    BY <1>1
  <2> QED
    BY <1>1, <2>1 DEF NotYet
<1>3. ~NotYet(task)'
  <2>1. ~Fresh(task.job) /\ UNCHANGED <<jobSubmitted, unreadJobs>>
    BY <1>0, <1>1 DEF JobOnce, PublishTask
  <2>2. ~Fresh(task.job)'
    BY <2>1 DEF Fresh
  <2>3. CASE dispatcher' = NoDispatch
    BY <1>1, <2>2, <2>3, PipelineAssumption DEF NotYet, NoDispatch
  <2>4. CASE dispatcher' # NoDispatch
    <3>1. dispatcher'.next = dispatcher.next + 1
      BY <1>0, <2>4, DispatchOn
    <3>2. ASSUME NEW i \in DOMAIN Images[dispatcher.job], i >= dispatcher'.next,
                 Images[dispatcher.job][i] = task.lid
          PROVE  FALSE
      <4>1. i = dispatcher.next
        BY <1>1, <3>2 DEF Distinct
      <4>2. dispatcher.next \in Nat
        BY <1>1
      <4> QED
        BY <3>1, <3>2, <4>1, <4>2
    <3> QED
      BY <2>2, <3>2 DEF NotYet
  <2> QED
    BY <2>3, <2>4
<1> QED
  BY <1>1, <1>2, <1>3

\* An image gets its result from the worker that holds its task.
LEMMA AnsweredBy ==
    ASSUME Inv, NEW w \in Workers, SendResult(w)
    PROVE  /\ worker[w].task \in Task /\ Holds(w, worker[w].task)
           /\ \A r \in Task : Answered(r)' => Answered(r) \/ Holds(w, r)
<1> DEFINE result == [job |-> worker[w].task.job, lid |-> worker[w].task.lid,
                      ok |-> worker[w].ok]
<1>1. worker[w].task \in Task /\ worker[w].pc = "send"
  BY DEF Inv, WorkerInv, SendResult
<1>2. resultLog' = resultLog \/ resultLog' = resultLog \cup {result}
  BY DEF SendResult, AppendResult, resultVars
<1>3. result.job = worker[w].task.job /\ result.lid = worker[w].task.lid
  OBVIOUS
<1> HIDE DEF result
<1>4. ASSUME NEW r \in Task, r.job = worker[w].task.job, r.lid = worker[w].task.lid
      PROVE  r = worker[w].task
  BY <1>1, <1>4 DEF Task
<1>5. ASSUME NEW r \in Task, Answered(r)', ~Answered(r) PROVE Holds(w, r)
  <2>1. r.job = result.job /\ r.lid = result.lid
    BY <1>2, <1>5 DEF Answered, Outcome
  <2> QED
    BY <1>1, <1>3, <1>4, <2>1 DEF Holds
<1> QED
  BY <1>1, <1>5 DEF Holds

\* Only SendResult adds to the results.
LEMMA OthersAnswerNothing ==
    ASSUME QuietStep, \A w \in Workers : ~SendResult(w)
    PROVE  UNCHANGED resultLog
<1>1. ASSUME NEW j \in Jobs, SubmitJob(j) \/ ReceiveJob(j) PROVE UNCHANGED resultLog
  BY <1>1 DEF SubmitJob, ReceiveJob, resultVars
<1>2. CASE PublishTask \/ CommitJobs \/ UNCHANGED vars
  BY <1>2 DEF PublishTask, CommitJobs, vars, resultVars
<1>3. CASE Aggregate
  BY <1>3 DEF Aggregate, ReceiveResult, Report, AllImagesFailed, StartReport,
       RenderReport, CloseReport, CommitResults, AggregatorStep, resultVars
<1>4. ASSUME NEW w \in Workers, Work(w) PROVE UNCHANGED resultLog
  BY <1>4 DEF Work, TakeTask, ProcessImage, DeliverLate, CommitTask, resultVars
<1> QED
  BY <1>1, <1>2, <1>3, <1>4, QuietSteps

\* The dispatcher leaves the workers alone, and gives out a task once.
LEMMA TasksOncePublish ==
    ASSUME QuietStep, PublishTask, NEW r \in Task, Distinct(r.job)
    PROVE  TaskOnce(r)'
<1> DEFINE published == [job |-> dispatcher.job,
                         lid |-> Images[dispatcher.job][dispatcher.next]]
<1> PICK task : task = published
  OBVIOUS
<1> HIDE DEF published
<1>0. /\ TaskOnce(r) /\ unreadTasks \in [Task -> Nat]
      /\ NotYet(r)' => NotYet(r)
  BY JobsOnceStep DEF QuietStep, Once, TypeInv, TasksType
<1>1. UNCHANGED <<worker, resultLog>>
  BY DEF PublishTask, workerVars, resultVars
<1>2. /\ \A w \in Workers : Holds(w, r)' <=> Holds(w, r)
      /\ Answered(r)' <=> Answered(r)
  BY <1>1 DEF Holds, Answered, Outcome
<1>3. UNCHANGED unreadTasks \/ unreadTasks' = More(unreadTasks, task, 1)
  BY QuietFaults DEF PublishTask, AppendTask, taskVars, published
<1>4. CASE UNCHANGED unreadTasks
  BY <1>0, <1>2, <1>4 DEF TaskOnce
<1>5. CASE unreadTasks' = More(unreadTasks, task, 1)
  <2>1. task \in Task
    BY DispatchedTask DEF PublishTask, QuietStep, TypeInv, published
  <2>2. unreadTasks'[r] = IF r = task THEN unreadTasks[r] + 1 ELSE unreadTasks[r]
    <3>1. unreadTasks \in [Task -> Nat] /\ 1 \in Nat
      BY <1>0
    <3>2. \A q \in Task : More(unreadTasks, task, 1)[q] =
                            IF q = task THEN unreadTasks[q] + 1 ELSE unreadTasks[q]
      BY <2>1, <3>1, MoreFacts
    <3> QED
      BY <1>5, <3>2
  <2>3. CASE r # task
    BY <1>0, <1>2, <2>2, <2>3 DEF TaskOnce
  <2>4. CASE r = task
    <3>1. NotYet(r) /\ ~NotYet(r)'
      BY <2>4, PublishedOnce DEF published
    <3>2. unreadTasks'[r] = 1
      BY <1>0, <2>2, <2>4, <3>1 DEF TaskOnce
    <3> QED
      BY <1>0, <1>2, <3>1, <3>2 DEF TaskOnce
  <2> QED
    BY <2>3, <2>4
<1> QED
  BY <1>3, <1>4, <1>5

\* A worker takes a task that no other holds, and answers it when it lets it go.
LEMMA TasksOnceWork ==
    ASSUME QuietStep, NEW w \in Workers, Work(w), NEW r \in Task, Distinct(r.job)
    PROVE  TaskOnce(r)'
<1>0. /\ TaskOnce(r) /\ unreadTasks \in [Task -> Nat] /\ Inv
      /\ NotYet(r)' => NotYet(r)
  BY JobsOnceStep DEF QuietStep, Once, TypeInv, TasksType
<1>1. /\ \A v \in Workers : Holds(v, r)' => Holds(v, r) \/ (v = w /\ TakeTask(w, r))
      /\ SendResult(w) => ~Holds(w, r)'
  BY <1>0, WorkHolds
<1>2. CASE SendResult(w)
  <2>1. Answered(r)' => Answered(r) \/ Holds(w, r)
    BY <1>0, <1>2, AnsweredBy
  <2>2. UNCHANGED unreadTasks /\ worker[w].pc = "send"
    BY <1>2 DEF SendResult, taskVars
  <2>3. ~TakeTask(w, r)
    BY <2>2 DEF TakeTask
  <2>4. \A v \in Workers : Holds(v, r)' => Holds(v, r)
    BY <1>1, <2>3
  <2>5. CASE Holds(w, r)
    <3>1. ~NotYet(r)' /\ ~(unreadTasks'[r] > 0)
      BY <1>0, <2>2, <2>5 DEF TaskOnce
    <3>2. \A v \in Workers : ~Holds(v, r)'
      BY <1>0, <1>1, <1>2, <2>4, <2>5 DEF TaskOnce
    <3> QED
      BY <1>0, <2>2, <3>1, <3>2 DEF TaskOnce
  <2>6. CASE ~Holds(w, r)
    BY <1>0, <2>1, <2>2, <2>4, <2>6 DEF TaskOnce
  <2> QED
    BY <2>5, <2>6
<1>3. CASE ~SendResult(w)
  <2>1. UNCHANGED resultLog
    BY <1>3 DEF Work, TakeTask, ProcessImage, DeliverLate, CommitTask, resultVars
  <2>2. Answered(r)' <=> Answered(r)
    BY <2>1 DEF Answered, Outcome
  <2>3. ASSUME NEW q \in Task, TakeTask(w, q)
        PROVE  unreadTasks[q] > 0
               /\ unreadTasks'[r] = IF r = q THEN unreadTasks[r] - 1 ELSE unreadTasks[r]
    <3>1. unreadTasks[q] > 0 /\ unreadTasks' = Fewer(unreadTasks, q)
      BY <2>3 DEF TakeTask
    <3> QED
      BY <1>0, <3>1, FewerFacts
  <2>4. CASE TakeTask(w, r)
    <3>1. unreadTasks'[r] = 0 /\ unreadTasks[r] > 0
      BY <1>0, <2>3, <2>4 DEF TaskOnce
    <3>2. ~NotYet(r)'
      BY <1>0, <3>1 DEF TaskOnce
    <3>3. ~Answered(r) /\ \A v \in Workers : ~Holds(v, r)
      BY <1>0, <3>1 DEF TaskOnce
    <3> QED
      BY <1>1, <2>2, <3>1, <3>2, <3>3 DEF TaskOnce
  <2>5. CASE ~TakeTask(w, r)
    <3>1. unreadTasks'[r] = unreadTasks[r]
      <4>1. CASE \E q \in Task : TakeTask(w, q)
        BY <2>3, <2>5, <4>1
      <4>2. CASE ~\E q \in Task : TakeTask(w, q)
        BY <4>2 DEF Work, ProcessImage, SendResult, DeliverLate, CommitTask, taskVars
      <4> QED
        BY <4>1, <4>2
    <3> QED
      BY <1>0, <1>1, <2>2, <2>5, <3>1 DEF TaskOnce
  <2> QED
    BY <2>4, <2>5
<1> QED
  BY <1>2, <1>3

LEMMA TasksOnceStep ==
    ASSUME QuietStep, NEW r \in Task, Distinct(r.job)
    PROVE  TaskOnce(r)'
<1>0. TaskOnce(r) /\ (NotYet(r)' => NotYet(r))
  BY JobsOnceStep DEF QuietStep, Once
<1>1. CASE UNCHANGED <<unreadTasks, worker, resultLog>>
  <2>1. /\ \A w \in Workers : Holds(w, r)' <=> Holds(w, r)
        /\ Answered(r)' <=> Answered(r)
    BY <1>1 DEF Holds, Answered, Outcome
  <2> QED
    BY <1>0, <1>1, <2>1 DEF TaskOnce
<1>2. ASSUME NEW j \in Jobs, SubmitJob(j) \/ ReceiveJob(j)
      PROVE  UNCHANGED <<unreadTasks, worker, resultLog>>
  BY <1>2 DEF SubmitJob, ReceiveJob, taskVars, workerVars, resultVars
<1>3. CASE CommitJobs \/ UNCHANGED vars
  BY <1>1, <1>3 DEF CommitJobs, vars, taskVars, workerVars, resultVars
<1>4. CASE Aggregate
  <2>1. UNCHANGED <<unreadTasks, worker, resultLog>>
    BY <1>4 DEF Aggregate, ReceiveResult, Report, AllImagesFailed, StartReport,
       RenderReport, CloseReport, CommitResults, AggregatorStep, taskVars, workerVars, resultVars
  <2> QED
    BY <1>1, <2>1
<1> QED
  BY <1>1, <1>2, <1>3, <1>4, QuietSteps, TasksOncePublish, TasksOnceWork

----------------------------------------------------------------------------
\* Results are counted once.

\* What a worker's step does to the results.
LEMMA ResultSent ==
    ASSUME QuietStep, NEW w \in Workers, SendResult(w)
    PROVE  /\ UNCHANGED <<collected, aggregator, jobStatus, jobSubmitted, unreadJobs>>
           /\ \/ UNCHANGED resultVars
              \/ \E x \in Result :
                   /\ x.job = worker[w].task.job /\ x.lid = worker[w].task.lid
                   /\ resultLog' = resultLog \cup {x}
                   /\ \A y \in Result : unreadResults'[y] =
                        IF y = x THEN unreadResults[y] + 1 ELSE unreadResults[y]
<1> DEFINE result == [job |-> worker[w].task.job, lid |-> worker[w].task.lid,
                      ok |-> worker[w].ok]
<1>1. UNCHANGED resultVars \/ AppendResult(result, 1)
  BY QuietFaults DEF SendResult
<1>2. result \in Result
  <2>1. worker[w].task \in Task /\ worker[w].ok \in BOOLEAN
    BY AnsweredBy DEF QuietStep, Inv, WorkerType
  <2> QED
    BY <2>1 DEF Task, Result
<1>3. /\ UNCHANGED <<collected, aggregator, jobStatus, jobSubmitted, unreadJobs>>
      /\ result.job = worker[w].task.job /\ result.lid = worker[w].task.lid
  BY DEF SendResult, aggregateVars, dispatchVars
<1>4. unreadResults \in [Result -> Nat] /\ 1 \in Nat
  BY DEF QuietStep, Inv, LogInv
<1> HIDE DEF result
<1>5. \A y \in Result : More(unreadResults, result, 1)[y] =
                          IF y = result THEN unreadResults[y] + 1 ELSE unreadResults[y]
  BY <1>2, <1>4, MoreFacts
<1> QED
  BY <1>1, <1>2, <1>3, <1>5 DEF AppendResult

\* What the aggregator does to them.
LEMMA ResultReceived ==
    ASSUME Inv, NEW r \in Result, ReceiveResult(r)
    PROVE  /\ unreadResults[r] > 0 /\ r \in resultLog
           /\ UNCHANGED <<resultLog, jobSubmitted, unreadJobs>>
           /\ \A y \in Result : unreadResults'[y] =
                IF y = r THEN unreadResults[y] - 1 ELSE unreadResults[y]
           /\ \A y : y.job \in Jobs /\ y \in collected'[y.job] =>
                       y \in collected[y.job] \/ y = r
<1>1. /\ unreadResults[r] > 0 /\ unreadResults' = Fewer(unreadResults, r)
      /\ UNCHANGED <<resultLog, jobSubmitted, unreadJobs>>
  BY DEF ReceiveResult, dispatchVars
<1>2. unreadResults \in [Result -> Nat] /\ r \in resultLog
  BY <1>1 DEF Inv, LogInv
<1>3. \A y \in Result : Fewer(unreadResults, r)[y] =
                          IF y = r THEN unreadResults[y] - 1 ELSE unreadResults[y]
  BY <1>1, <1>2, FewerFacts
<1>4. collected \in [Jobs -> SUBSET Result] /\ r.job \in Jobs
  BY DEF Inv, EntryInv, Result
<1>5. \/ UNCHANGED collected
      \/ collected' = [collected EXCEPT ![r.job] = collected[r.job] \cup {r}]
      \/ collected' = [collected EXCEPT ![r.job] = {}]
  BY DEF ReceiveResult
<1>6. \A y : y.job \in Jobs /\ y \in collected'[y.job] => y \in collected[y.job] \/ y = r
  BY <1>4, <1>5
<1> QED
  BY <1>1, <1>2, <1>3, <1>6

\* Only these two steps change the results, their copies or the entries.
LEMMA OtherResults ==
    ASSUME QuietStep, \A w \in Workers : ~SendResult(w), \A r \in Result : ~ReceiveResult(r)
    PROVE  UNCHANGED <<resultVars, collected>>
<1>1. ASSUME NEW j \in Jobs, SubmitJob(j) \/ ReceiveJob(j)
      PROVE  UNCHANGED <<resultVars, collected>>
  BY <1>1 DEF SubmitJob, ReceiveJob, aggregateVars
<1>2. CASE PublishTask \/ CommitJobs \/ UNCHANGED vars
  BY <1>2 DEF PublishTask, CommitJobs, vars, aggregateVars
<1>3. CASE Aggregate
  BY <1>3 DEF Aggregate, Report, AllImagesFailed, StartReport, RenderReport, CloseReport,
       CommitResults, AggregatorStep, resultVars
<1>4. ASSUME NEW w \in Workers, Work(w) PROVE UNCHANGED <<resultVars, collected>>
  BY <1>4 DEF Work, TakeTask, ProcessImage, DeliverLate, CommitTask, aggregateVars
<1> QED
  BY <1>1, <1>2, <1>3, <1>4, QuietSteps

\* The task of a worker that sends a result has none yet.
LEMMA SentFirst ==
    ASSUME QuietStep, NEW w \in Workers, SendResult(w), Distinct(worker[w].task.job)
    PROVE  \A y \in resultLog : ~(y.job = worker[w].task.job /\ y.lid = worker[w].task.lid)
<1>1. worker[w].task \in Task /\ Holds(w, worker[w].task)
  BY AnsweredBy DEF QuietStep
<1>2. ~Answered(worker[w].task)
  BY <1>1 DEF QuietStep, Once, TaskOnce
<1>3. \A y \in resultLog : y.ok \in BOOLEAN
  BY DEF QuietStep, Inv, LogInv, Result
<1> QED
  BY <1>2, <1>3 DEF Answered, Outcome

\* A result counts once: it is new when it is sent, and has no copy left when it
\* is in an entry.
LEMMA ResultsOnceStep ==
    ASSUME QuietStep, NEW x \in resultLog', Distinct(x.job)
    PROVE  ResultOnce(x)'
<1>0. /\ LogInv /\ EntryInv
      /\ x \in resultLog => ResultOnce(x)
      /\ \A y \in resultLog : y \in Result /\ y.job \in Jobs
  BY DEF QuietStep, Once, Inv, LogInv, Result
<1>1. ASSUME NEW w \in Workers, SendResult(w) PROVE ResultOnce(x)'
  <2>1. UNCHANGED collected
    BY <1>1, ResultSent
  <2>2. CASE UNCHANGED resultVars
    BY <1>0, <2>1, <2>2 DEF ResultOnce, resultVars
  <2>3. CASE ~UNCHANGED resultVars
    <3> PICK new \in Result :
          /\ new.job = worker[w].task.job /\ new.lid = worker[w].task.lid
          /\ resultLog' = resultLog \cup {new}
          /\ \A y \in Result : unreadResults'[y] =
               IF y = new THEN unreadResults[y] + 1 ELSE unreadResults[y]
      BY <1>1, <2>3, ResultSent
    <3>1. CASE x.job # new.job
      BY <1>0, <2>1, <3>1 DEF ResultOnce
    <3>2. CASE x.job = new.job
      <4>1. \A y \in resultLog : ~(y.job = new.job /\ y.lid = new.lid)
        BY <1>1, <3>2, SentFirst
      <4>2. CASE x = new
        <5>1. new \notin resultLog /\ new \notin collected[new.job]
          BY <1>0, <4>1 DEF EntryInv, Entry, Result
        <5>2. unreadResults[new] = 0
          BY <1>0, <5>1 DEF LogInv
        <5>3. unreadResults'[x] = 1
          BY <4>2, <5>2
        <5>4. \A y \in resultLog' : y.job = x.job /\ y.lid = x.lid => y = x
          BY <4>1, <4>2
        <5> QED
          BY <2>1, <4>2, <5>1, <5>3, <5>4 DEF ResultOnce
      <4>3. CASE x # new
        <5>1. x \in resultLog /\ x.lid # new.lid
          BY <3>2, <4>1, <4>3
        <5>2. unreadResults'[x] = unreadResults[x]
          BY <1>0, <4>3, <5>1
        <5> QED
          BY <1>0, <2>1, <5>1, <5>2 DEF ResultOnce
      <4> QED
        BY <4>2, <4>3
    <3> QED
      BY <3>1, <3>2
  <2> QED
    BY <2>2, <2>3
<1>2. ASSUME NEW r \in Result, ReceiveResult(r) PROVE ResultOnce(x)'
  <2>1. /\ unreadResults[r] > 0 /\ r \in resultLog
        /\ UNCHANGED resultLog
        /\ \A y \in Result : unreadResults'[y] =
             IF y = r THEN unreadResults[y] - 1 ELSE unreadResults[y]
        /\ x \in collected'[x.job] => x \in collected[x.job] \/ x = r
    BY <1>0, <1>2, ResultReceived DEF QuietStep
  <2>2. x \in resultLog /\ x \in Result /\ unreadResults[x] \in Nat
    BY <1>0, <2>1 DEF LogInv
  <2>3. CASE x = r
    <3>1. unreadResults'[x] = 0
      BY <1>0, <2>1, <2>2, <2>3 DEF ResultOnce
    <3> QED
      BY <1>0, <2>1, <2>2, <3>1 DEF ResultOnce
  <2>4. CASE x # r
    BY <1>0, <2>1, <2>2, <2>4 DEF ResultOnce
  <2> QED
    BY <2>3, <2>4
<1>3. CASE UNCHANGED <<resultVars, collected>>
  BY <1>0, <1>3 DEF ResultOnce, resultVars
<1> QED
  BY <1>1, <1>2, <1>3, OtherResults

\* Once every image of a job has its result, and every result was counted, it
\* stays so.
LEMMA SettledStays ==
    ASSUME QuietStep, NEW j \in Jobs, Settled(j)
    PROVE  Settled(j)'
<1>1. ~Fresh(j)'
  BY JobsOnceStep DEF Settled
<1>2. \A y \in resultLog : y \in Result
  BY DEF QuietStep, Inv, LogInv
<1>3. ASSUME NEW l \in LidsOf(j) PROVE Consumed(j, l)'
  <2> PICK x \in resultLog : x.job = j /\ x.lid = l /\ unreadResults[x] = 0
    BY DEF Settled, Consumed
  <2>1. x \in resultLog' /\ unreadResults'[x] = 0
    <3>1. ASSUME NEW w \in Workers, SendResult(w)
          PROVE  x \in resultLog' /\ unreadResults'[x] = 0
      <4>1. CASE UNCHANGED resultVars
        BY <4>1 DEF resultVars
      <4>2. CASE ~UNCHANGED resultVars
        <5> PICK new \in Result :
              /\ new.job = worker[w].task.job /\ new.lid = worker[w].task.lid
              /\ resultLog' = resultLog \cup {new}
              /\ \A y \in Result : unreadResults'[y] =
                   IF y = new THEN unreadResults[y] + 1 ELSE unreadResults[y]
          BY <3>1, <4>2, ResultSent
        <5>1. x # new
          BY <3>1, SentFirst DEF Settled
        <5> QED
          BY <1>2, <5>1
      <4> QED
        BY <4>1, <4>2
    <3>2. ASSUME NEW r \in Result, ReceiveResult(r)
          PROVE  x \in resultLog' /\ unreadResults'[x] = 0
      <4>1. /\ unreadResults[r] > 0 /\ UNCHANGED resultLog
            /\ \A y \in Result : unreadResults'[y] =
                 IF y = r THEN unreadResults[y] - 1 ELSE unreadResults[y]
        BY <3>2, ResultReceived DEF QuietStep
      <4>2. x # r
        BY <4>1
      <4> QED
        BY <1>2, <4>1, <4>2
    <3>3. CASE UNCHANGED <<resultVars, collected>>
      BY <3>3 DEF resultVars
    <3> QED
      BY <3>1, <3>2, <3>3, OtherResults
  <2> QED
    BY <2>1 DEF Consumed
<1> QED
  BY <1>1, <1>3 DEF Settled, Distinct, LidsOf

----------------------------------------------------------------------------
\* A verdict is the first one of its job.

\* Only a job of different images can have as many results as images.
LEMMA FullCountDistinct ==
    ASSUME NEW j \in Jobs, NEW S, Entry(j, S), ~(Cardinality(S) < Total(j))
    PROVE  Distinct(j)
<1> SUFFICES ASSUME NEW i \in DOMAIN Images[j], NEW k \in DOMAIN Images[j],
                    Images[j][i] = Images[j][k], i # k
             PROVE  FALSE
  BY DEF Distinct
<1>1. Images[j] \in Seq(Lids) /\ Total(j) \in Nat /\ DOMAIN Images[j] = 1..Total(j)
  BY PipelineAssumption DEF Total
<1>2. IsFiniteSet(1..Total(j)) /\ Cardinality(1..Total(j)) = Total(j)
  <2>1. 1 \in Int /\ Total(j) \in Int
    BY <1>1
  <2>2. /\ IsFiniteSet(1..Total(j))
        /\ Cardinality(1..Total(j)) = IF 1 > Total(j) THEN 0 ELSE Total(j) - 1 + 1
    BY <2>1, FS_Interval
  <2> QED
    BY <1>1, <2>2
<1> DEFINE T == (1..Total(j)) \ {k}
           f == [n \in T |-> Images[j][n]]
<1>3. IsFiniteSet(T) /\ Cardinality(T) = Total(j) - 1
  BY <1>1, <1>2, FS_RemoveElement
<1>4. f \in Surjection(T, LidsOf(j))
  <2>1. f \in [T -> LidsOf(j)]
    BY <1>1 DEF LidsOf
  <2>2. ASSUME NEW l \in LidsOf(j) PROVE \E n \in T : f[n] = l
    <3>1. PICK n \in 1..Total(j) : Images[j][n] = l
      BY <1>1 DEF LidsOf
    <3>2. CASE n = k
      BY <1>1, <3>1, <3>2
    <3>3. CASE n # k
      BY <3>1, <3>3
    <3> QED
      BY <3>2, <3>3
  <2> QED
    BY <2>1, <2>2 DEF Surjection
<1>5. Cardinality(LidsOf(j)) <= Cardinality(T)
  BY <1>3, <1>4, FS_Surjection
<1>6. Cardinality(S) <= Cardinality(LidsOf(j)) /\ Cardinality(S) \in Nat
  BY EntrySize
<1>7. Cardinality(LidsOf(j)) \in Nat
  BY LidsFinite, FS_CardinalityType
<1> QED
  BY <1>1, <1>3, <1>5, <1>6, <1>7

\* Nothing more is decided about a job.
LEMMA NoNewVerdict ==
    ASSUME QuietStep, NEW j \in Jobs,
           \A m \in jobStatus' : m.job = j /\ IsVerdict(m) => m \in jobStatus,
           Concluding(j)' => Concluding(j)
    PROVE  VerdictOnce(j)'
<1>1. VerdictOnce(j) /\ (Settled(j) => Settled(j)')
  BY SettledStays DEF QuietStep, Once
<1>2. \A m : IsVerdict(m)' <=> IsVerdict(m)
  BY DEF IsVerdict
<1>3. HasVerdict(j)' => HasVerdict(j)
  BY <1>2 DEF HasVerdict
<1> QED
  BY <1>1, <1>2, <1>3 DEF VerdictOnce

\* The report of a job without a verdict is begun.
LEMMA VerdictBegun ==
    ASSUME NEW j \in Jobs, ~HasVerdict(j), Settled(j)',
           \A m \in jobStatus' : m.job = j /\ IsVerdict(m) => m \in jobStatus
    PROVE  VerdictOnce(j)'
BY DEF VerdictOnce, HasVerdict, IsVerdict

\* A job without a verdict gets one.
LEMMA VerdictGiven ==
    ASSUME NEW j \in Jobs, ~HasVerdict(j), Settled(j)', ~Concluding(j)',
           NEW m, jobStatus' = jobStatus \cup {m} \/ jobStatus' = jobStatus
    PROVE  VerdictOnce(j)'
BY DEF VerdictOnce, HasVerdict, IsVerdict

\* The dispatcher gives a verdict only on a job without images.
LEMMA DispatcherSpeaks ==
    ASSUME NEW j \in Jobs, ReceiveJob(j)
    PROVE  /\ UNCHANGED aggregator
           /\ \E m : /\ m.job = j
                     /\ jobStatus' = jobStatus \cup {m} \/ jobStatus' = jobStatus
                     /\ IsVerdict(m) => Images[j] = <<>>
<1>1. UNCHANGED aggregator
  BY DEF ReceiveJob, aggregateVars
<1>2. /\ Failed(j, "no_images").job = j
      /\ Received(j, 0).job = j /\ ~IsVerdict(Received(j, 0))
  BY DEF Failed, Received, Status, IsVerdict
<1>3. CASE Images[j] = <<>>
  <2>1. \/ jobStatus' = jobStatus \cup {Failed(j, "no_images")}
        \/ jobStatus' = jobStatus
    BY <1>3 DEF ReceiveJob, PublishStatus
  <2> QED
    BY <1>1, <1>2, <1>3, <2>1
<1>4. CASE Images[j] # <<>>
  <2>1. \/ jobStatus' = jobStatus \cup {Received(j, 0)}
        \/ jobStatus' = jobStatus
    BY <1>4 DEF ReceiveJob, PublishStatus
  <2> QED
    BY <1>1, <1>2, <2>1
<1> QED
  BY <1>3, <1>4

\* The aggregator gives a verdict with the last thing it does for a report.
LEMMA ReportSpeaks ==
    ASSUME AggregatorType, Report
    PROVE  /\ aggregator.pc # "idle"
           /\ \E m : /\ m.job = aggregator.job
                     /\ jobStatus' = jobStatus \cup {m} \/ jobStatus' = jobStatus
                     /\ \/ aggregator' = IdleAggregator
                        \/ ~IsVerdict(m) /\ aggregator'.job = aggregator.job
<1> DEFINE j == aggregator.job
           Speaks == \E m : /\ m.job = j
                            /\ jobStatus' = jobStatus \cup {m} \/ jobStatus' = jobStatus
                            /\ \/ aggregator' = IdleAggregator
                               \/ ~IsVerdict(m) /\ aggregator'.job = j
<1>1. ASSUME NEW m, m.job = j, Conclude(m) PROVE Speaks
  BY <1>1 DEF Conclude, PublishStatus
<1>2. /\ \A reason : Failed(j, reason).job = j
      /\ \A s, detail : Status(j, s, detail).job = j
      /\ ~IsVerdict(Status(j, "GENERATING_PDF", <<>>))
  BY DEF Failed, Status, IsVerdict
<1>3. \A pc : [aggregator EXCEPT !.pc = pc].job = j
  BY DEF AggregatorType
<1>4. CASE AllImagesFailed
  <2>1. aggregator.pc # "idle" /\ Conclude(Failed(j, "all_failed"))
    BY <1>4 DEF AllImagesFailed, AggregatorStep
  <2> QED
    BY <1>1, <1>2, <2>1
<1>5. CASE StartReport
  <2>1. aggregator.pc # "idle"
    BY <1>5 DEF StartReport, AggregatorStep
  <2>2. CASE Conclude(Failed(j, "lifecycle"))
    BY <1>1, <1>2, <2>1, <2>2
  <2>3. CASE /\ PublishStatus(Status(j, "GENERATING_PDF", <<>>))
             /\ aggregator' = [aggregator EXCEPT !.pc = "render"]
    <3>1. /\ \/ jobStatus' = jobStatus \cup {Status(j, "GENERATING_PDF", <<>>)}
             \/ jobStatus' = jobStatus
          /\ aggregator'.job = j
      BY <1>3, <2>3 DEF PublishStatus
    <3> QED
      BY <1>2, <2>1, <3>1
  <2> QED
    BY <1>5, <2>2, <2>3 DEF StartReport
<1>6. CASE RenderReport
  <2>1. aggregator.pc # "idle"
    BY <1>6 DEF RenderReport, AggregatorStep
  <2>2. CASE Conclude(Failed(j, "pdf"))
    BY <1>1, <1>2, <2>1, <2>2
  <2>3. CASE aggregator' = [aggregator EXCEPT !.pc = "close"] /\ UNCHANGED jobStatus
    BY <1>2, <1>3, <2>1, <2>3
  <2> QED
    BY <1>6, <2>2, <2>3 DEF RenderReport
<1>7. CASE CloseReport
  <2>1. aggregator.pc # "idle"
    BY <1>7 DEF CloseReport, AggregatorStep
  <2>2. \/ Conclude(Failed(j, "lifecycle"))
        \/ \E detail : Conclude(Status(j, "COMPLETED", detail))
    BY <1>7 DEF CloseReport
  <2> QED
    BY <1>1, <1>2, <2>1, <2>2
<1> QED
  BY <1>4, <1>5, <1>6, <1>7 DEF Report

\* The verdict on a job without images comes when the job is taken, once.
LEMMA DispatcherVerdict ==
    ASSUME QuietStep, NEW i \in Jobs, ReceiveJob(i), NEW j \in Jobs
    PROVE  VerdictOnce(j)'
<1>0. /\ JobsType /\ JobOnce(i) /\ VerdictOnce(i)
  BY DEF QuietStep, Once, TypeInv
<1>1. PICK m : /\ m.job = i
               /\ jobStatus' = jobStatus \cup {m} \/ jobStatus' = jobStatus
               /\ IsVerdict(m) => Images[i] = <<>>
  BY DispatcherSpeaks
<1>2. Concluding(j)' <=> Concluding(j)
  BY DispatcherSpeaks DEF Concluding
<1>3. CASE j = i /\ IsVerdict(m)
  <2>1. unreadJobs[i] > 0 /\ unreadJobs' = Fewer(unreadJobs, i) /\ UNCHANGED jobSubmitted
    BY DEF ReceiveJob
  <2>2. Fresh(i) /\ i \in jobSubmitted /\ unreadJobs[i] = 1
    BY <1>0, <2>1 DEF JobOnce, Fresh, JobsType
  <2>3. unreadJobs'[i] = 0
    BY <1>0, <2>1, <2>2, FewerFacts DEF JobsType
  <2>4. ~Fresh(i)'
    BY <2>1, <2>2, <2>3 DEF Fresh
  <2>5. ~HasVerdict(i) /\ ~Concluding(i)
    BY <1>0, <2>2 DEF VerdictOnce, Settled
  <2>6. Settled(i)'
    BY <1>1, <1>3, <2>4 DEF Settled, Distinct, LidsOf
  <2> QED
    BY <1>1, <1>2, <1>3, <2>5, <2>6, VerdictGiven
<1>4. CASE ~(j = i /\ IsVerdict(m))
  BY <1>1, <1>2, <1>4, NoNewVerdict
<1> QED
  BY <1>3, <1>4

\* The result that fills the entry is the last of a job that has no verdict: the
\* results counted before it, and this one, have no copy left.
LEMMA ReceiveVerdict ==
    ASSUME QuietStep, NEW r \in Result, ReceiveResult(r), NEW j \in Jobs
    PROVE  VerdictOnce(j)'
<1> DEFINE now == collected[r.job] \cup {r}
<1>0. /\ LogInv /\ EntryInv /\ r.job \in Jobs /\ aggregator.pc = "idle"
      /\ \A x \in resultLog : Distinct(x.job) => ResultOnce(x)
      /\ \A q \in Task : Distinct(q.job) => TaskOnce(q)
      /\ VerdictOnce(r.job)
  BY DEF QuietStep, Once, Inv, Result, ReceiveResult
<1>1. \A m \in jobStatus' : IsVerdict(m) => m \in jobStatus
  <2>1. ~IsVerdict(Received(r.job, Cardinality(now)))
    BY DEF Received, Status, IsVerdict
  <2>2. \/ jobStatus' = jobStatus \cup {Received(r.job, Cardinality(now))}
        \/ jobStatus' = jobStatus
    BY DEF ReceiveResult, PublishStatus
  <2> HIDE DEF now
  <2> QED
    BY <2>1, <2>2
<1>2. CASE ~Concluding(j)' \/ UNCHANGED aggregator
  <2>1. Concluding(j)' => Concluding(j)
    BY <1>2 DEF Concluding
  <2> QED
    BY <1>1, <2>1, NoNewVerdict
<1>3. CASE Concluding(j)' /\ ~UNCHANGED aggregator
  <2>1. /\ ~Seen(r) /\ ~(Cardinality(now) < Total(r.job))
        /\ aggregator' = [pc |-> "verdict", job |-> r.job, results |-> now]
    BY <1>3 DEF ReceiveResult
  <2>2. j = r.job
    BY <1>3, <2>1 DEF Concluding
  <2>3. /\ unreadResults[r] > 0 /\ r \in resultLog
        /\ UNCHANGED <<resultLog, jobSubmitted, unreadJobs>>
        /\ \A y \in Result : unreadResults'[y] =
             IF y = r THEN unreadResults[y] - 1 ELSE unreadResults[y]
    BY ResultReceived DEF QuietStep
  <2>4. Entry(j, now)
    <3>1. Entry(j, collected[j])
      BY <1>0, <2>2 DEF EntryInv
    <3>2. \A p, q \in now : p.lid = q.lid => p = q
      BY <2>1, <2>2, <3>1 DEF Entry, Seen
    <3> QED
      BY <2>2, <2>3, <3>1, <3>2 DEF Entry
  <2>5. Distinct(j) /\ \A l \in LidsOf(j) : \E q \in now : q.lid = l
    BY <1>0, <2>1, <2>2, <2>4, FullCountDistinct, CountCovers
  <2>6. \A q \in now : q \in resultLog' /\ q.job = j /\ unreadResults'[q] = 0
    <3>1. ASSUME NEW q \in now
          PROVE  q \in resultLog /\ q \in Result /\ q.job = j /\ ResultOnce(q)
                 /\ unreadResults[q] \in Nat
      BY <1>0, <2>2, <2>4, <2>5 DEF Entry, LogInv
    <3>2. \A q \in now : q # r => unreadResults[q] = 0
      BY <2>2, <3>1 DEF ResultOnce
    <3>3. unreadResults[r] = 1
      BY <2>3, <3>1 DEF ResultOnce
    <3> HIDE DEF now
    <3> QED
      BY <2>3, <3>1, <3>2, <3>3
  <2>7. ~Fresh(j)'
    <3>1. PICK q \in Task : q.job = j /\ q.lid = r.lid
      <4>1. [job |-> j, lid |-> r.lid] \in Task
        BY <2>2 DEF Result, Task
      <4> QED
        BY <4>1
    <3>2. Answered(q)
      BY <2>2, <2>3, <3>1 DEF Answered, Outcome, Result
    <3>3. ~NotYet(q)
      BY <1>0, <2>5, <3>1, <3>2 DEF TaskOnce
    <3>4. ~Fresh(j)
      BY <3>1, <3>3 DEF NotYet
    <3> QED
      BY <2>3, <3>4 DEF Fresh
  <2>8. Settled(j)'
    <3>1. \A l \in LidsOf(j) : Consumed(j, l)'
      BY <2>5, <2>6 DEF Consumed
    <3> QED
      BY <2>5, <2>7, <3>1 DEF Settled, Distinct, LidsOf
  <2>9. ~HasVerdict(j)
    <3>1. ASSUME Settled(j) PROVE FALSE
      <4>1. r.lid \in LidsOf(j)
        BY <2>2 DEF Result
      <4>2. PICK x \in resultLog : x.job = j /\ x.lid = r.lid /\ unreadResults[x] = 0
        BY <3>1, <4>1 DEF Settled, Consumed
      <4>3. x = r
        BY <1>0, <2>2, <2>3, <2>5, <4>2 DEF ResultOnce
      <4> QED
        BY <2>3, <4>2, <4>3
    <3> QED
      BY <1>0, <2>2, <3>1 DEF VerdictOnce
  <2> HIDE DEF now
  <2> QED
    BY <1>1, <2>8, <2>9, VerdictBegun
<1> QED
  BY <1>2, <1>3

\* Every way through the report publishes at most one verdict.
LEMMA ReportVerdict ==
    ASSUME QuietStep, Report, NEW j \in Jobs
    PROVE  VerdictOnce(j)'
<1>0. AggregatorType /\ VerdictOnce(j)
  BY DEF QuietStep, Once, TypeInv
<1>1. aggregator.pc # "idle"
  BY <1>0, ReportSpeaks
<1>2. PICK m : /\ m.job = aggregator.job
               /\ jobStatus' = jobStatus \cup {m} \/ jobStatus' = jobStatus
               /\ \/ aggregator' = IdleAggregator
                  \/ ~IsVerdict(m) /\ aggregator'.job = aggregator.job
  BY <1>0, ReportSpeaks
<1>3. Concluding(j)' => Concluding(j)
  BY <1>1, <1>2 DEF Concluding, IdleAggregator
<1>4. CASE j = aggregator.job /\ aggregator' = IdleAggregator
  <2>1. ~HasVerdict(j) /\ Settled(j)
    BY <1>0, <1>1, <1>4 DEF VerdictOnce, Concluding
  <2>2. ~Concluding(j)'
    BY <1>4 DEF Concluding, IdleAggregator
  <2> QED
    BY <1>2, <2>1, <2>2, SettledStays, VerdictGiven
<1>5. CASE ~(j = aggregator.job /\ aggregator' = IdleAggregator)
  BY <1>2, <1>3, <1>5, NoNewVerdict
<1> QED
  BY <1>4, <1>5

LEMMA VerdictOnceStep ==
    ASSUME QuietStep, NEW j \in Jobs
    PROVE  VerdictOnce(j)'
<1>1. CASE UNCHANGED <<jobStatus, aggregator>>
  BY <1>1, NoNewVerdict DEF Concluding
<1>2. ASSUME NEW i \in Jobs, SubmitJob(i) PROVE VerdictOnce(j)'
  BY <1>1, <1>2 DEF SubmitJob, aggregateVars
<1>3. CASE PublishTask \/ CommitJobs \/ CommitResults \/ UNCHANGED vars
  BY <1>1, <1>3 DEF PublishTask, CommitJobs, CommitResults, vars, aggregateVars
<1>4. ASSUME NEW w \in Workers, Work(w) PROVE VerdictOnce(j)'
  <2>1. UNCHANGED aggregator
    BY <1>4 DEF Work, TakeTask, ProcessImage, SendResult, DeliverLate, CommitTask,
         aggregateVars
  <2>2. \A m \in jobStatus' : m \in jobStatus \/ m \in Progresses
    BY <1>4, WorkHolds DEF QuietStep
  <2>3. \A m \in Progresses : ~IsVerdict(m)
    BY DEF Progresses, Progress, Status, IsVerdict
  <2> QED
    BY <2>1, <2>2, <2>3, NoNewVerdict DEF Concluding
<1> QED
  BY <1>2, <1>3, <1>4, QuietSteps, DispatcherVerdict, ReceiveVerdict, ReportVerdict
     DEF Aggregate

LEMMA OnceStep ==
    ASSUME Inv, TypeInv, OnceInv, [Next]_vars
    PROVE  OnceInv'
<1> SUFFICES ASSUME ~Redelivered' PROVE Once'
  BY DEF OnceInv
<1>1. ~Redelivered
  BY FaultsTypeStep DEF Redelivered, TypeInv
<1>2. QuietStep
  BY <1>1 DEF OnceInv, QuietStep
<1>3. \A j \in Jobs : JobOnce(j)'
  BY <1>2, JobsOnceStep
<1>4. \A r \in Task : Distinct(r.job) => TaskOnce(r)'
  BY <1>2, TasksOnceStep
<1>5. \A x \in resultLog' : Distinct(x.job) => ResultOnce(x)'
  BY <1>2, ResultsOnceStep
<1>6. \A j \in Jobs : VerdictOnce(j)'
  BY <1>2, VerdictOnceStep
<1>7. \A j : Distinct(j)' <=> Distinct(j)
  BY DEF Distinct
<1> QED
  BY <1>3, <1>4, <1>5, <1>6, <1>7 DEF Once

LEMMA OnceInit == Init => OnceInv
<1> SUFFICES ASSUME Init PROVE Once
  BY DEF OnceInv
<1>1. \A j \in Jobs : JobOnce(j)
  BY NoneFacts, PipelineAssumption DEF Init, JobOnce, Fresh, NoDispatch
<1>2. \A r \in Task : TaskOnce(r)
  BY NoneFacts DEF Init, TaskOnce, Holds, IdleWorker, Answered, Outcome
<1>3. \A j \in Jobs : VerdictOnce(j)
  BY DEF Init, VerdictOnce, HasVerdict, Concluding, IdleAggregator
<1>4. resultLog = {}
  BY DEF Init
<1> QED
  BY <1>1, <1>2, <1>3, <1>4 DEF Once

\* What is published on a job that has its verdict.
LEMMA SpokenAfter ==
    ASSUME Inv, TypeInv, Once, [Next]_vars, NEW m \in jobStatus', m \notin jobStatus,
           HasVerdict(m.job)
    PROVE  m \in Progresses
<1>1. ASSUME NEW j \in Jobs, ReceiveJob(j) PROVE FALSE
  <2>1. m.job = j
    BY <1>1, DispatcherSpeaks
  <2>2. Fresh(j)
    BY <1>1 DEF ReceiveJob, Fresh
  <2> QED
    BY <2>1, <2>2 DEF Once, VerdictOnce, Settled
<1>2. ASSUME NEW w \in Workers, Work(w) PROVE m \in Progresses
  BY <1>2, WorkHolds
<1>3. ASSUME NEW r \in Result, ReceiveResult(r) PROVE FALSE
  <2>1. m.job = r.job
    BY <1>3 DEF ReceiveResult, PublishStatus, Received, Status
  <2>2. r \in resultLog /\ unreadResults[r] > 0 /\ r.job \in Jobs /\ r.lid \in LidsOf(r.job)
    BY <1>3, ResultReceived DEF Result
  <2>3. Settled(r.job)
    BY <2>1, <2>2 DEF Once, VerdictOnce
  <2>4. PICK x \in resultLog : x.job = r.job /\ x.lid = r.lid /\ unreadResults[x] = 0
    BY <2>2, <2>3 DEF Settled, Consumed
  <2>5. x = r
    BY <2>2, <2>3, <2>4 DEF Once, ResultOnce, Settled
  <2> QED
    BY <2>2, <2>4, <2>5
<1>4. CASE Report
  <2>1. m.job = aggregator.job /\ aggregator.pc # "idle"
    BY <1>4, ReportSpeaks DEF TypeInv
  <2>2. aggregator.job \in Jobs
    BY <2>1 DEF Inv, AggregatorInv
  <2> QED
    BY <2>1, <2>2 DEF Once, VerdictOnce, Concluding
<1>5. ASSUME NEW j \in Jobs, SubmitJob(j) \/ SubmitAgain(j) PROVE FALSE
  BY <1>5 DEF SubmitJob, SubmitAgain
<1>6. ASSUME NEW w \in Workers, RejoinWorker(w) PROVE FALSE
  BY <1>6 DEF RejoinWorker
<1>7. CASE PublishTask \/ CommitJobs \/ RejoinDispatcher \/ CommitResults \/ RejoinAggregator
           \/ Crash \/ UNCHANGED vars
  BY <1>7 DEF PublishTask, CommitJobs, RejoinDispatcher, CommitResults, RejoinAggregator,
       Crash, vars
<1> QED
  BY <1>1, <1>2, <1>3, <1>4, <1>5, <1>6, <1>7 DEF Next, Dispatch, Aggregate

\* The verdict of a job is the last that is said about it.
THEOREM VerdictsAreLast == Spec => VerdictIsLast
<1> DEFINE Last == \A m \in jobStatus' \ jobStatus :
                     HasVerdict(m.job) => \/ m \in Progresses
                                          \/ Happened({"duplicate", "rebalance", "crash"})
<1>1. Inv /\ TypeInv /\ OnceInv /\ [Next]_vars => [Last]_jobStatus
  BY SpokenAfter DEF OnceInv, Redelivered
<1>2. Inv /\ TypeInv /\ OnceInv /\ [Next]_vars => Inv' /\ TypeInv' /\ OnceInv'
  BY InvStep, TypeStep, OnceStep
<1> HIDE DEF Last
<1>3. Spec => [][Last]_jobStatus
  BY <1>1, <1>2, InvInit, TypeInit, OnceInit, PTL DEF Spec
<1> QED
  BY <1>3 DEF VerdictIsLast, Last

\* Everything published is about a job that was accepted.
LEMMA MessagesOfJobs ==
    ASSUME Inv, TypeInv, [Next]_vars, NEW m \in jobStatus', m \notin jobStatus
    PROVE  m.job \in Jobs
<1>1. ASSUME NEW j \in Jobs, ReceiveJob(j) PROVE m.job \in Jobs
  BY <1>1, DispatcherSpeaks
<1>2. ASSUME NEW w \in Workers, Work(w) PROVE m.job \in Jobs
  <2>1. m \in Progresses
    BY <1>2, WorkHolds
  <2> QED
    BY <2>1 DEF Progresses, Progress, Status
<1>3. ASSUME NEW r \in Result, ReceiveResult(r) PROVE m.job \in Jobs
  <2>1. m.job = r.job
    BY <1>3 DEF ReceiveResult, PublishStatus, Received, Status
  <2> QED
    BY <2>1 DEF Result
<1>4. CASE Report
  <2>1. m.job = aggregator.job /\ aggregator.pc # "idle"
    BY <1>4, ReportSpeaks DEF TypeInv
  <2> QED
    BY <2>1 DEF Inv, AggregatorInv
<1>5. ASSUME NEW j \in Jobs, SubmitJob(j) \/ SubmitAgain(j) PROVE FALSE
  BY <1>5 DEF SubmitJob, SubmitAgain
<1>6. ASSUME NEW w \in Workers, RejoinWorker(w) PROVE FALSE
  BY <1>6 DEF RejoinWorker
<1>7. CASE PublishTask \/ CommitJobs \/ RejoinDispatcher \/ CommitResults \/ RejoinAggregator
           \/ Crash \/ UNCHANGED vars
  BY <1>7 DEF PublishTask, CommitJobs, RejoinDispatcher, CommitResults, RejoinAggregator,
       Crash, vars
<1> QED
  BY <1>1, <1>2, <1>3, <1>4, <1>5, <1>6, <1>7 DEF Next, Dispatch, Aggregate

\* A job has one verdict, whatever is lost, late or raises, as long as nothing is
\* delivered twice.
THEOREM OneVerdictUnlessRedelivered ==
    Spec => [](OneVerdict \/ Happened({"duplicate", "rebalance", "crash"}))
<1> DEFINE Known == \A m \in jobStatus : m.job \in Jobs
           Once1 == OneVerdict \/ Happened({"duplicate", "rebalance", "crash"})
<1>1. Known /\ OnceInv => Once1
  BY DEF OnceInv, Redelivered, Once, VerdictOnce, OneVerdict
<1>2. Init => Known
  BY DEF Init
<1>3. Inv /\ TypeInv /\ Known /\ [Next]_vars => Known'
  BY MessagesOfJobs
<1>4. Inv /\ TypeInv /\ OnceInv /\ [Next]_vars => Inv' /\ TypeInv' /\ OnceInv'
  BY InvStep, TypeStep, OnceStep
<1> HIDE DEF Known, Once1
<1>5. Spec => []Once1
  BY <1>1, <1>2, <1>3, <1>4, InvInit, TypeInit, OnceInit, PTL DEF Spec
<1> QED
  BY <1>5 DEF Once1

----------------------------------------------------------------------------
(* A job that names an image twice *)

\* No list that names an image twice is reported on, or has been.
DistinctInv ==
    /\ aggregator.pc # "idle" => Distinct(aggregator.job)
    /\ \A m \in jobStatus : IsVerdict(m) => Distinct(m.job)

\* The aggregator counts the results of different images (seen_lids) against the
\* number of entries of the list (expected): it takes a job on only if they agree.
LEMMA ReceivedDistinct ==
    ASSUME Inv, DistinctInv, NEW r \in Result, ReceiveResult(r)
    PROVE  DistinctInv'
<1> DEFINE now == collected[r.job] \cup {r}
<1>1. \A m \in jobStatus' : IsVerdict(m) => m \in jobStatus
  <2>1. ~IsVerdict(Received(r.job, Cardinality(now)))
    BY DEF Received, Status, IsVerdict
  <2>2. \/ jobStatus' = jobStatus \cup {Received(r.job, Cardinality(now))}
        \/ jobStatus' = jobStatus
    BY DEF ReceiveResult, PublishStatus
  <2> HIDE DEF now
  <2> QED
    BY <2>1, <2>2
<1>2. CASE UNCHANGED aggregator
  BY <1>1, <1>2 DEF DistinctInv, Distinct, IsVerdict
<1>3. CASE ~UNCHANGED aggregator
  <2>1. /\ ~Seen(r) /\ ~(Cardinality(now) < Total(r.job))
        /\ aggregator'.job = r.job
    BY <1>3 DEF ReceiveResult
  <2>2. Entry(r.job, now)
    <3>1. r.job \in Jobs /\ r \in resultLog /\ Entry(r.job, collected[r.job])
      BY DEF Inv, LogInv, EntryInv, ReceiveResult, Result
    <3>2. \A p, q \in now : p.lid = q.lid => p = q
      BY <2>1, <3>1 DEF Entry, Seen
    <3> QED
      BY <3>1, <3>2 DEF Entry
  <2>3. Distinct(r.job)
    BY <2>1, <2>2, FullCountDistinct DEF Result
  <2> QED
    BY <1>1, <2>1, <2>3 DEF DistinctInv, Distinct, IsVerdict
<1> QED
  BY <1>2, <1>3

LEMMA DistinctStep ==
    ASSUME Inv, TypeInv, DistinctInv, [Next]_vars
    PROVE  DistinctInv'
<1>1. CASE UNCHANGED <<jobStatus, aggregator>>
  BY <1>1 DEF DistinctInv, Distinct, IsVerdict
<1>2. ASSUME NEW j \in Jobs, ReceiveJob(j) PROVE DistinctInv'
  <2>1. PICK m : /\ m.job = j
                 /\ jobStatus' = jobStatus \cup {m} \/ jobStatus' = jobStatus
                 /\ IsVerdict(m) => Images[j] = <<>>
    BY <1>2, DispatcherSpeaks
  <2>2. IsVerdict(m) => Distinct(m.job)
    BY <2>1 DEF Distinct
  <2>3. UNCHANGED aggregator
    BY <1>2, DispatcherSpeaks
  <2> QED
    BY <2>1, <2>2, <2>3 DEF DistinctInv, Distinct, IsVerdict
<1>3. ASSUME NEW w \in Workers, Work(w) PROVE DistinctInv'
  <2>1. UNCHANGED aggregator
    BY <1>3 DEF Work, TakeTask, ProcessImage, SendResult, DeliverLate, CommitTask,
         aggregateVars
  <2>2. \A m \in jobStatus' : m \in jobStatus \/ m \in Progresses
    BY <1>3, WorkHolds
  <2>3. \A m \in Progresses : ~IsVerdict(m)
    BY DEF Progresses, Progress, Status, IsVerdict
  <2> QED
    BY <2>1, <2>2, <2>3 DEF DistinctInv, Distinct, IsVerdict
<1>4. CASE Report
  <2>1. PICK m : /\ m.job = aggregator.job
                 /\ jobStatus' = jobStatus \cup {m} \/ jobStatus' = jobStatus
                 /\ \/ aggregator' = IdleAggregator
                    \/ ~IsVerdict(m) /\ aggregator'.job = aggregator.job
    BY <1>4, ReportSpeaks DEF TypeInv
  <2>2. Distinct(aggregator.job)
    BY <1>4, ReportSpeaks DEF TypeInv, DistinctInv
  <2>3. aggregator'.pc # "idle" => Distinct(aggregator'.job)
    BY <2>1, <2>2 DEF IdleAggregator
  <2> QED
    BY <2>1, <2>2, <2>3 DEF DistinctInv, Distinct, IsVerdict
<1>5. CASE Crash
  <2>1. aggregator' = IdleAggregator /\ UNCHANGED jobStatus
    BY <1>5 DEF Crash
  <2> QED
    BY <2>1 DEF DistinctInv, Distinct, IsVerdict, IdleAggregator
<1>6. ASSUME NEW j \in Jobs, SubmitJob(j) \/ SubmitAgain(j) PROVE DistinctInv'
  BY <1>1, <1>6 DEF SubmitJob, SubmitAgain, aggregateVars
<1>7. ASSUME NEW w \in Workers, RejoinWorker(w) PROVE DistinctInv'
  BY <1>1, <1>7 DEF RejoinWorker, aggregateVars
<1>8. CASE PublishTask \/ CommitJobs \/ RejoinDispatcher \/ CommitResults \/ RejoinAggregator
           \/ UNCHANGED vars
  BY <1>1, <1>8 DEF PublishTask, CommitJobs, RejoinDispatcher, CommitResults,
       RejoinAggregator, vars, aggregateVars
<1> QED
  BY <1>2, <1>3, <1>4, <1>5, <1>6, <1>7, <1>8, ReceivedDistinct
     DEF Next, Dispatch, Aggregate

\* A job whose list names an image twice is never answered, whatever is delivered
\* twice or restarted: aggregator.py waits for as many results as the list has
\* entries, and lets one result of each image count.
THEOREM RepeatedImageUnanswered ==
    Spec => [](\A j \in Jobs : ~Distinct(j) => ~HasVerdict(j))
<1> DEFINE Unanswered == \A j \in Jobs : ~Distinct(j) => ~HasVerdict(j)
<1>1. Init => DistinctInv
  BY DEF Init, DistinctInv, IdleAggregator
<1>2. Inv /\ TypeInv /\ DistinctInv /\ [Next]_vars => Inv' /\ TypeInv' /\ DistinctInv'
  BY InvStep, TypeStep, DistinctStep
<1>3. DistinctInv => Unanswered
  BY DEF DistinctInv, HasVerdict
<1> HIDE DEF Unanswered
<1>4. Spec => []Unanswered
  BY <1>1, <1>2, <1>3, InvInit, TypeInit, PTL DEF Spec
<1> QED
  BY <1>4 DEF Unanswered
=============================================================================
