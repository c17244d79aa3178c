---------------------------- MODULE ImagePipeline ----------------------------
(***************************************************************************)
(* The message pipeline of the orchestrator (orchtr/messaging): the         *)
(* dispatcher thread fans a job out into image tasks, the worker threads    *)
(* turn each task into a result, the aggregator thread collects the results *)
(* of a job in memory and, with the last one, makes the report and          *)
(* publishes the verdict.  All of them live in one process.                 *)
(*                                                                          *)
(* A topic is the set of messages ever appended to it.  Its consumer group  *)
(* counts, for each message, the copies not yet delivered ("unread") and    *)
(* those delivered but not covered by a committed offset ("uncommitted"),   *)
(* which a restart or a rebalance delivers again.  Messages carry no key    *)
(* and a topic has six partitions, so any unread copy may come next.        *)
(*                                                                          *)
(* What goes wrong is taken from the constant Faults, at most MaxFaults     *)
(* times in a behaviour:                                                    *)
(*   duplicate   a message is appended twice (a flush that timed out had     *)
(*               delivered, and is repeated)                                *)
(*   lost        a message is not appended and nobody notices: flush()       *)
(*               returns although the record's future failed                *)
(*   late        a progress message of a worker, sent and not flushed, is   *)
(*               appended after the messages sent later                     *)
(*   status_lost publish_status gave up after its attempts                  *)
(*   exhausted   publication of an image task raised at every attempt       *)
(*   send_raises send() or flush() of a worker raised                       *)
(*   rebalance   a consumer leaves its group and joins it again             *)
(*   crash       the process stops and is started again                     *)
(***************************************************************************)
EXTENDS Naturals, Sequences, FiniteSets, Functions

CONSTANTS
    Jobs, Lids, Workers,
    Images,     \* Images[j]: the lids of the job, in the order submitted
    Faults,     \* the kinds of fault that happen
    MaxFaults,  \* bound on their number
    Null

FaultKinds == {"duplicate", "lost", "status_lost", "exhausted", "send_raises",
               "late", "rebalance", "crash"}

ASSUME PipelineAssumption ==
    /\ Images \in [Jobs -> Seq(Lids)]
    /\ Faults \subseteq FaultKinds
    /\ MaxFaults \in Nat
    /\ Null \notin Jobs
    /\ IsFiniteSet(Workers)     \* threads of one process

VARIABLES
    jobSubmitted,       \* topic job.submitted (job ids)
    unreadJobs, uncommittedJobs,
    dispatcher,         \* job being fanned out and index of its next image
    taskLog,            \* topic image.task
    unreadTasks, uncommittedTasks,  \* the latter for each worker
    worker,             \* what each worker thread is doing
    resultLog,          \* topic image.result
    unreadResults, uncommittedResults,
    collected,          \* state[job_id]["results"], {} when there is no entry
    aggregator,         \* the report the aggregator is making
    reports,            \* jobs whose report.pdf is in storage
    jobStatus,          \* topic job.status
    faults              \* the kinds of the faults so far, in their order

dispatchVars  == <<unreadJobs, uncommittedJobs, dispatcher>>
taskVars      == <<taskLog, unreadTasks>>
workerVars    == <<uncommittedTasks, worker>>
resultVars    == <<resultLog, unreadResults>>
aggregateVars == <<uncommittedResults, collected, aggregator, reports>>
vars == <<jobSubmitted, dispatchVars, taskVars, workerVars, resultVars,
          aggregateVars, jobStatus, faults>>

LidsOf(j)  == {Images[j][i] : i \in DOMAIN Images[j]}
Total(j)   == Len(Images[j])

\* The messages of image.task and image.result.
Task   == {r \in [job: Jobs, lid: Lids] : r.lid \in LidsOf(r.job)}
Result == {r \in [job: Jobs, lid: Lids, ok: BOOLEAN] : r.lid \in LidsOf(r.job)}

\* Copies of messages: none of the set S, n more of message r, and both of two.
None(S)          == [r \in S |-> 0]
More(copies, r, n) == [copies EXCEPT ![r] = @ + n]
Fewer(copies, r) == [copies EXCEPT ![r] = @ - 1]
Both(a, b)       == [r \in DOMAIN a |-> a[r] + b[r]]

Status(j, status, detail) == [job |-> j, status |-> status, detail |-> detail]
Received(j, n)      == Status(j, "PROCESSING_IMAGES", <<"received", n>>)
Progress(j, l, s)   == Status(j, "PROCESSING_IMAGES", <<"image", l, s>>)
Progresses == {Progress(j, l, s) : j \in Jobs, l \in Lids,
                                   s \in {"processing", "done", "error"}}
Failed(j, reason)   == Status(j, "FAILED", reason)

NoDispatch == [job |-> Null, next |-> 0]
IdleWorker == [pc |-> "idle", task |-> Null, ok |-> FALSE, late |-> {}]
IdleAggregator == [pc |-> "idle", job |-> Null, results |-> {}]

Init ==
    /\ jobSubmitted = {}
    /\ unreadJobs = None(Jobs) /\ uncommittedJobs = None(Jobs)
    /\ dispatcher = NoDispatch
    /\ taskLog = {} /\ unreadTasks = None(Task)
    /\ uncommittedTasks = [w \in Workers |-> None(Task)]
    /\ worker = [w \in Workers |-> IdleWorker]
    /\ resultLog = {} /\ unreadResults = None(Result)
    /\ uncommittedResults = None(Result)
    /\ collected = [j \in Jobs |-> {}]
    /\ aggregator = IdleAggregator
    /\ reports = {}
    /\ jobStatus = {}
    /\ faults = <<>>

Fault(kind) ==
    /\ kind \in Faults
    /\ Len(faults) < MaxFaults
    /\ faults' = Append(faults, kind)

\* publish_status: three attempts, then the message is dropped with a warning.
\* Publishing a message the topic already holds changes nothing here: to its
\* reader it is a redelivery.
PublishStatus(m) ==
    \/ jobStatus' = jobStatus \cup {m} /\ UNCHANGED faults
    \/ Fault("status_lost") /\ UNCHANGED jobStatus

AppendTask(r, n) ==
    /\ taskLog' = taskLog \cup {r}
    /\ unreadTasks' = More(unreadTasks, r, n)
AppendResult(r, n) ==
    /\ resultLog' = resultLog \cup {r}
    /\ unreadResults' = More(unreadResults, r, n)

----------------------------------------------------------------------------
(* job.submitted, as the gateway's submit() fills it *)

SubmitJob(j) ==
    /\ j \notin jobSubmitted
    /\ jobSubmitted' = jobSubmitted \cup {j}
    /\ unreadJobs' = More(unreadJobs, j, 1)
    /\ UNCHANGED <<uncommittedJobs, dispatcher, taskVars, workerVars, resultVars,
                   aggregateVars, jobStatus, faults>>

\* The gateway's publication timed out, had been delivered, and was repeated.
SubmitAgain(j) ==
    /\ j \in jobSubmitted
    /\ Fault("duplicate")
    /\ unreadJobs' = More(unreadJobs, j, 1)
    /\ UNCHANGED <<jobSubmitted, uncommittedJobs, dispatcher, taskVars, workerVars,
                   resultVars, aggregateVars, jobStatus>>

----------------------------------------------------------------------------
(* dispatcher.py *)

ReceiveJob(j) ==
    /\ dispatcher = NoDispatch
    /\ unreadJobs[j] > 0
    /\ unreadJobs' = Fewer(unreadJobs, j)
    /\ uncommittedJobs' = More(uncommittedJobs, j, 1)
    /\ IF Images[j] = <<>>
       THEN /\ PublishStatus(Failed(j, "no_images"))
            /\ UNCHANGED dispatcher
       ELSE /\ PublishStatus(Received(j, 0))
            /\ dispatcher' = [job |-> j, next |-> 1]
    /\ UNCHANGED <<jobSubmitted, taskVars, workerVars, resultVars, aggregateVars>>

\* Definitions named Mutant... are wrong variants of the definition they precede;
\* no specification uses them.  Each shows that a property can fail.

\* One image too many.
MutantNextImage ==
    dispatcher' = IF dispatcher.next <= Total(dispatcher.job)
                  THEN [dispatcher EXCEPT !.next = @ + 1] ELSE NoDispatch

\* The handler ends after the last image.
NextImage ==
    dispatcher' = IF dispatcher.next < Total(dispatcher.job)
                  THEN [dispatcher EXCEPT !.next = @ + 1] ELSE NoDispatch

\* send and flush of one image.task, with the retries of retry_call.  When they
\* are exhausted the exception leaves the handler: the images not yet sent are
\* never sent, and no verdict is published.
PublishTask ==
    /\ dispatcher # NoDispatch
    /\ LET task == [job |-> dispatcher.job,
                    lid |-> Images[dispatcher.job][dispatcher.next]]
       IN  \/ AppendTask(task, 1) /\ NextImage /\ UNCHANGED faults
           \/ AppendTask(task, 2) /\ NextImage /\ Fault("duplicate")
           \/ UNCHANGED taskVars /\ NextImage /\ Fault("lost")
           \/ /\ AppendTask(task, 1) \/ UNCHANGED taskVars
              /\ dispatcher' = NoDispatch
              /\ Fault("exhausted")
    /\ UNCHANGED <<jobSubmitted, unreadJobs, uncommittedJobs, workerVars,
                   resultVars, aggregateVars, jobStatus>>

\* Auto-commit, when the consumer polls between two handlers.
CommitJobs ==
    /\ dispatcher = NoDispatch
    /\ uncommittedJobs # None(Jobs)
    /\ uncommittedJobs' = None(Jobs)
    /\ UNCHANGED <<jobSubmitted, unreadJobs, dispatcher, taskVars, workerVars,
                   resultVars, aggregateVars, jobStatus, faults>>

\* The handler ran for longer than max.poll.interval: at its next poll the
\* consumer joins the group again and reads on from the committed offset.
RejoinDispatcher ==
    /\ uncommittedJobs # None(Jobs)
    /\ Fault("rebalance")
    /\ unreadJobs' = Both(unreadJobs, uncommittedJobs)
    /\ uncommittedJobs' = None(Jobs)
    /\ UNCHANGED <<jobSubmitted, dispatcher, taskVars, workerVars, resultVars,
                   aggregateVars, jobStatus>>

----------------------------------------------------------------------------
(* image_worker.py *)

\* An exception leaves the handler; the loop logs it and takes the next task.
\* The task of this one is neither committed nor answered.
HandlerRaises(w) ==
    /\ Fault("send_raises")
    /\ worker' = [worker EXCEPT ![w] = [IdleWorker EXCEPT !.late = worker[w].late]]

\* producer.send without a flush: the message is usually on its way before the
\* handler, now in the state next, does anything else.
SendProgress(w, task, state, next) ==
    LET m == Progress(task.job, task.lid, state)
    IN  \/ /\ jobStatus' = jobStatus \cup {m}
           /\ worker' = [worker EXCEPT ![w] = next]
           /\ UNCHANGED faults
        \/ /\ Fault("late")
           /\ worker' = [worker EXCEPT ![w] = [next EXCEPT !.late = @ \cup {m}]]
           /\ UNCHANGED jobStatus
        \/ /\ Fault("lost")
           /\ worker' = [worker EXCEPT ![w] = next]
           /\ UNCHANGED jobStatus
        \/ HandlerRaises(w) /\ UNCHANGED jobStatus

\* The producer's own thread sends what is late.
DeliverLate(w) ==
    /\ worker[w].late # {}
    /\ jobStatus' = jobStatus \cup worker[w].late
    /\ worker' = [worker EXCEPT ![w].late = {}]
    /\ UNCHANGED <<jobSubmitted, dispatchVars, taskVars, uncommittedTasks, resultVars,
                   aggregateVars, faults>>

\* The offset of a task is committed when the task is taken.
MutantTakeTask(w, r) ==
    /\ worker[w].pc = "idle"
    /\ unreadTasks[r] > 0
    /\ unreadTasks' = Fewer(unreadTasks, r)
    /\ SendProgress(w, r, "processing",
                    [pc |-> "process", task |-> r, ok |-> FALSE, late |-> worker[w].late])
    /\ UNCHANGED <<jobSubmitted, dispatchVars, taskLog, uncommittedTasks, resultVars,
                   aggregateVars>>

TakeTask(w, r) ==
    /\ worker[w].pc = "idle"
    /\ unreadTasks[r] > 0
    /\ unreadTasks' = Fewer(unreadTasks, r)
    /\ uncommittedTasks' = [uncommittedTasks EXCEPT ![w] = More(@, r, 1)]
    /\ SendProgress(w, r, "processing",
                    [pc |-> "process", task |-> r, ok |-> FALSE, late |-> worker[w].late])
    /\ UNCHANGED <<jobSubmitted, dispatchVars, taskLog, resultVars, aggregateVars>>

\* An error is reported as progress, and no result follows.
MutantProcessImage(w) ==
    /\ worker[w].pc = "process"
    /\ \E ok \in BOOLEAN :
         SendProgress(w, worker[w].task, IF ok THEN "done" ELSE "error",
                      [pc |-> IF ok THEN "send" ELSE "commit", task |-> worker[w].task,
                       ok |-> ok, late |-> worker[w].late])
    /\ UNCHANGED <<jobSubmitted, dispatchVars, taskVars, uncommittedTasks,
                   resultVars, aggregateVars>>

\* process_product with its retries comes to an analysis or to an error; the
\* progress message of that outcome is sent before the result.
ProcessImage(w) ==
    /\ worker[w].pc = "process"
    /\ \E ok \in BOOLEAN :
         SendProgress(w, worker[w].task, IF ok THEN "done" ELSE "error",
                      [pc |-> "send", task |-> worker[w].task, ok |-> ok,
                       late |-> worker[w].late])
    /\ UNCHANGED <<jobSubmitted, dispatchVars, taskVars, uncommittedTasks,
                   resultVars, aggregateVars>>

\* send and flush of image.result.
SendResult(w) ==
    /\ worker[w].pc = "send"
    /\ LET result == [job |-> worker[w].task.job, lid |-> worker[w].task.lid,
                      ok |-> worker[w].ok]
           Sent == worker' = [worker EXCEPT ![w].pc = "commit"]
       IN  \/ AppendResult(result, 1) /\ Sent /\ UNCHANGED faults
           \/ AppendResult(result, 2) /\ Sent /\ Fault("duplicate")
           \/ UNCHANGED resultVars /\ Sent /\ Fault("lost")
           \/ /\ AppendResult(result, 1) \/ UNCHANGED resultVars
              /\ HandlerRaises(w)
    /\ UNCHANGED <<jobSubmitted, dispatchVars, taskVars, uncommittedTasks,
                   aggregateVars, jobStatus>>

\* After the flush, which waits for what is late, too, consumer.commit() commits
\* the position.  It lies after every record the worker was ever given, those of
\* failed handlers included.
CommitTask(w) ==
    /\ worker[w].pc = "commit"
    /\ worker[w].late = {}
    /\ uncommittedTasks' = [uncommittedTasks EXCEPT ![w] = None(Task)]
    /\ worker' = [worker EXCEPT ![w] = IdleWorker]
    /\ UNCHANGED <<jobSubmitted, dispatchVars, taskVars, resultVars,
                   aggregateVars, jobStatus, faults>>

\* A worker that rejoins has its partitions read by any worker, from the
\* committed offset.  It still finishes its task; its commit has no effect.
RejoinWorker(w) ==
    /\ uncommittedTasks[w] # None(Task)
    /\ Fault("rebalance")
    /\ unreadTasks' = Both(unreadTasks, uncommittedTasks[w])
    /\ uncommittedTasks' = [uncommittedTasks EXCEPT ![w] = None(Task)]
    /\ UNCHANGED <<jobSubmitted, dispatchVars, taskLog, worker, resultVars,
                   aggregateVars, jobStatus>>

----------------------------------------------------------------------------
(* aggregator.py *)

\* Results are told apart by their whole content.
MutantSeen(r) == r \in collected[r.job]

\* seen_lids
Seen(r) == r.lid \in {q.lid : q \in collected[r.job]}

\* The part of _handle_image_result up to state.pop.
ReceiveResult(r) ==
    /\ aggregator.pc = "idle"
    /\ unreadResults[r] > 0
    /\ unreadResults' = Fewer(unreadResults, r)
    /\ uncommittedResults' = More(uncommittedResults, r, 1)
    /\ LET j == r.job
           now == collected[j] \cup {r}
       IN  IF Seen(r)
           THEN UNCHANGED <<collected, aggregator, jobStatus, faults>>
           ELSE /\ PublishStatus(Received(j, Cardinality(now)))
                /\ IF Cardinality(now) < Total(j)
                   THEN /\ collected' = [collected EXCEPT ![j] = now]
                        /\ UNCHANGED aggregator
                   ELSE /\ collected' = [collected EXCEPT ![j] = {}]
                        /\ aggregator' = [pc |-> "verdict", job |-> j, results |-> now]
    /\ UNCHANGED <<jobSubmitted, dispatchVars, taskVars, workerVars, resultLog, reports>>

\* The status of the results is not looked at.
MutantSucceeded == aggregator.results

Succeeded == {r \in aggregator.results : r.ok}

\* The verdict is not published.
MutantConclude(m) ==
    /\ aggregator' = IdleAggregator
    /\ UNCHANGED <<jobStatus, faults>>

\* Publish the verdict m and wait for the next result.
Conclude(m) ==
    /\ PublishStatus(m)
    /\ aggregator' = IdleAggregator

AggregatorStep(pc) ==
    /\ aggregator.pc = pc
    /\ UNCHANGED <<jobSubmitted, dispatchVars, taskVars, workerVars, resultVars,
                   uncommittedResults, collected>>

\* The return after the verdict is left out.
MutantAllImagesFailed ==
    /\ AggregatorStep("verdict")
    /\ Succeeded = {}
    /\ PublishStatus(Failed(aggregator.job, "all_failed"))
    /\ aggregator' = [aggregator EXCEPT !.pc = "render"]
    /\ UNCHANGED reports

AllImagesFailed ==
    /\ AggregatorStep("verdict")
    /\ Succeeded = {}
    /\ Conclude(Failed(aggregator.job, "all_failed"))
    /\ UNCHANGED reports

\* mark_in_report refuses artifacts that are not READY.
StartReport ==
    /\ AggregatorStep("verdict")
    /\ Succeeded # {}
    /\ \/ /\ PublishStatus(Status(aggregator.job, "GENERATING_PDF", <<>>))
          /\ aggregator' = [aggregator EXCEPT !.pc = "render"]
       \/ Conclude(Failed(aggregator.job, "lifecycle"))
    /\ UNCHANGED reports

\* generate_pdf_bytes and upload_pdf; the last attempt of an upload may have
\* stored the report although it raised.
RenderReport ==
    /\ AggregatorStep("render")
    /\ \/ /\ reports' = reports \cup {aggregator.job}
          /\ aggregator' = [aggregator EXCEPT !.pc = "close"]
          /\ UNCHANGED <<jobStatus, faults>>
       \/ /\ reports' = reports \/ reports' = reports \cup {aggregator.job}
          /\ Conclude(Failed(aggregator.job, "pdf"))

\* mark_evictable_and_prune may raise although the report is in storage.
CloseReport ==
    /\ AggregatorStep("close")
    /\ \/ Conclude(Status(aggregator.job, "COMPLETED",
                          IF Succeeded = aggregator.results THEN "all" ELSE "partial"))
       \/ Conclude(Failed(aggregator.job, "lifecycle"))
    /\ UNCHANGED reports

CommitResults ==
    /\ aggregator.pc = "idle"
    /\ uncommittedResults # None(Result)
    /\ uncommittedResults' = None(Result)
    /\ UNCHANGED <<jobSubmitted, dispatchVars, taskVars, workerVars, resultVars,
                   collected, aggregator, reports, jobStatus, faults>>

\* As RejoinDispatcher; the entries in memory stay.
RejoinAggregator ==
    /\ uncommittedResults # None(Result)
    /\ Fault("rebalance")
    /\ unreadResults' = Both(unreadResults, uncommittedResults)
    /\ uncommittedResults' = None(Result)
    /\ UNCHANGED <<jobSubmitted, dispatchVars, taskVars, workerVars, resultLog,
                   collected, aggregator, reports, jobStatus>>

----------------------------------------------------------------------------
\* The process stops and starts again: every loop resumes at its committed
\* offset, and what the threads held in memory is gone.
Crash ==
    /\ Fault("crash")
    /\ unreadJobs' = Both(unreadJobs, uncommittedJobs)
    /\ uncommittedJobs' = None(Jobs)
    /\ dispatcher' = NoDispatch
    /\ unreadTasks' = [r \in Task |->
                         unreadTasks[r]
                         + SumFunction([w \in Workers |-> uncommittedTasks[w][r]])]
    /\ uncommittedTasks' = [w \in Workers |-> None(Task)]
    /\ worker' = [w \in Workers |-> IdleWorker]
    /\ unreadResults' = Both(unreadResults, uncommittedResults)
    /\ uncommittedResults' = None(Result)
    /\ collected' = [j \in Jobs |-> {}]
    /\ aggregator' = IdleAggregator
    /\ UNCHANGED <<jobSubmitted, taskLog, resultLog, reports, jobStatus>>

Dispatch == (\E j \in Jobs : ReceiveJob(j)) \/ PublishTask \/ CommitJobs
Work(w)  == (\E r \in Task : TakeTask(w, r))
            \/ ProcessImage(w) \/ SendResult(w) \/ DeliverLate(w) \/ CommitTask(w)
Report   == AllImagesFailed \/ StartReport \/ RenderReport \/ CloseReport
Aggregate == (\E r \in Result : ReceiveResult(r)) \/ Report \/ CommitResults

Next ==
    \/ \E j \in Jobs : SubmitJob(j) \/ SubmitAgain(j)
    \/ Dispatch
    \/ \E w \in Workers : Work(w) \/ RejoinWorker(w)
    \/ Aggregate
    \/ RejoinDispatcher \/ RejoinAggregator
    \/ Crash

Spec == Init /\ [][Next]_vars

\* Each thread is scheduled for ever, and a thread that has something to do, or
\* has it again after every restart, does it.
Fairness ==
    /\ WF_vars(Dispatch)
    /\ \A w \in Workers : WF_vars(Work(w))
    /\ WF_vars(Aggregate)

FairSpec == Spec /\ Fairness

----------------------------------------------------------------------------
(* Properties *)

IsVerdict(m) == m.status \in {"COMPLETED", "FAILED"}
HasVerdict(j) == \E m \in jobStatus : m.job = j /\ IsVerdict(m)

TypeOK ==
    /\ jobSubmitted \subseteq Jobs
    /\ unreadJobs \in [Jobs -> Nat] /\ uncommittedJobs \in [Jobs -> Nat]
    /\ dispatcher \in [job: Jobs \cup {Null}, next: Nat]
    /\ dispatcher.job # Null => dispatcher.next \in 1..Total(dispatcher.job)
    /\ taskLog \subseteq Task
    /\ unreadTasks \in [Task -> Nat]
    /\ uncommittedTasks \in [Workers -> [Task -> Nat]]
    /\ worker \in [Workers -> [pc: {"idle", "process", "send", "commit"},
                               task: Task \cup {Null}, ok: BOOLEAN,
                               late: SUBSET Progresses]]
    /\ resultLog \subseteq Result
    /\ unreadResults \in [Result -> Nat] /\ uncommittedResults \in [Result -> Nat]
    /\ collected \in [Jobs -> SUBSET Result]
    /\ aggregator \in [pc: {"idle", "verdict", "render", "close"},
                       job: Jobs \cup {Null}, results: SUBSET Result]
    /\ reports \subseteq Jobs
    /\ faults \in Seq(FaultKinds) /\ Len(faults) <= MaxFaults

Happened(kinds) == \E i \in DOMAIN faults : faults[i] \in kinds

\* Lid l of job j has a result that is an analysis (ok) or an error (~ok).
Outcome(j, l, ok) == \E r \in resultLog : r.job = j /\ r.lid = l /\ r.ok = ok

\* What the verdict m says of the images of its job.
Justified(m) ==
    /\ m.status = "COMPLETED" =>
         /\ m.job \in reports
         /\ \A l \in LidsOf(m.job) : Outcome(m.job, l, TRUE) \/ Outcome(m.job, l, FALSE)
         /\ \E l \in LidsOf(m.job) : Outcome(m.job, l, TRUE)
         /\ m.detail = "all" => \A l \in LidsOf(m.job) : Outcome(m.job, l, TRUE)
         /\ m.detail = "partial" => \E l \in LidsOf(m.job) : Outcome(m.job, l, FALSE)
    /\ m.status = "FAILED" /\ m.detail = "all_failed" =>
         \A l \in LidsOf(m.job) : Outcome(m.job, l, FALSE)

\* A verdict speaks for every image of the job, whatever is duplicated, lost,
\* redelivered or restarted: COMPLETED is published with the report in storage
\* and a result for each image, "all" with an analysis of each and "partial" with
\* some analysis and some error; "all images failed" with an error for each.
VerdictJustified == \A m \in jobStatus : Justified(m)

\* No task is forgotten: each record of image.task is still to be delivered, or
\* held by a worker that has not committed it, or answered by a result.  A
\* commit covers every record before it, so the result must be sent first.  Only
\* a result that was lost, or whose publication raised, can leave a task behind.
TaskAccounted ==
    \A r \in taskLog :
        \/ unreadTasks[r] > 0
        \/ \E w \in Workers : uncommittedTasks[w][r] > 0
        \/ \E ok \in BOOLEAN : Outcome(r.job, r.lid, ok)
        \/ Happened({"lost", "send_raises"})

\* The aggregator's entry of a job never holds two results of one image, nor as
\* many results as the job has images: the last one takes the entry away, so
\* that a duplicate of an earlier round starts a new one.  Nor are two results of
\* one image among those taken away for a report.
EntryIncomplete ==
    /\ \A j \in Jobs :
         /\ \A r, q \in collected[j] : r.lid = q.lid => r = q
         /\ Cardinality(collected[j]) < Total(j) \/ collected[j] = {}
    /\ \A r, q \in aggregator.results : r.lid = q.lid => r = q

\* A job gets one verdict.
OneVerdict ==
    \A m, n \in jobStatus : (IsVerdict(m) /\ IsVerdict(n) /\ m.job = n.job) => m = n

\* After the verdict of a job nothing is published about it but late messages on
\* the progress of an image: the count, GENERATING_PDF and a second verdict all
\* precede it, in whatever order the workers' results arrive.  Only a message
\* delivered twice can make the aggregator or the dispatcher speak again.
VerdictIsLast ==
    [][\A m \in jobStatus' \ jobStatus :
         HasVerdict(m.job) => \/ m \in Progresses
                              \/ Happened({"duplicate", "rebalance", "crash"})]_jobStatus

\* Every submitted job gets a verdict.
EventuallyVerdict == \A j \in Jobs : (j \in jobSubmitted) ~> HasVerdict(j)
=============================================================================
