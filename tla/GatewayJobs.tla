---------------------------- MODULE GatewayJobs ----------------------------
(***************************************************************************)
(* The job table of the Spring gateway (gateway/.../job/JobService.java)   *)
(* and its two writers:                                                    *)
(*   - the HTTP threads that run submit(): four guarding queries, the      *)
(*     insert, the SUBMITTED event, the publication on job.submitted with  *)
(*     its retries, and the write of FAILED when the retries are exhausted *)
(*   - the one listener thread of JobStatusConsumer that runs              *)
(*     applyStatusUpdate(): read the row, log an event, write the row.     *)
(* No method is @Transactional and Job has no @Version, so every           *)
(* repository call is a transaction of its own and a save() writes every   *)
(* column of the object in memory, however old.  Each repository call is   *)
(* therefore one action.                                                   *)
(*                                                                         *)
(* Topics have six partitions and messages no key, so messages of one job  *)
(* are not ordered against one another: the listener takes any unread one. *)
(***************************************************************************)
EXTENDS Naturals, FiniteSets

CONSTANTS
    Jobs,              \* the UUIDs that new Job rows may draw
    Users, Projects,
    HttpThreads,       \* threads of the servlet container that run submit()
    ImageKeys,         \* the (worker_id, lid) pairs of image_progress entries
    StatusKinds,       \* the bodies of job.status messages, without job_id
    MaxConcurrentJobs, \* MAX_CONCURRENT_JOBS
    PublishAttempts,   \* KAFKA_PUBLISH_ATTEMPTS
    AmbiguousPublish,  \* may a publish attempt fail although it was delivered?
    MaxRedeliveries,   \* bound on job.status messages delivered again
    Null               \* no row, no job, no image

\* Definitions named Mutant... are wrong variants of the definition they precede;
\* no specification uses them.  Each shows that a property can fail.

\* A job that has just been inserted does not count as active.
MutantActiveStatus == {"PROCESSING_IMAGES", "GENERATING_PDF"}

TerminalStatus == {"COMPLETED", "FAILED"}
ActiveStatus   == {"PENDING", "PROCESSING_IMAGES", "GENERATING_PDF"}
JobStatus      == TerminalStatus \cup ActiveStatus
ImageState     == {"none", "processing", "done", "error"}

\* The body of a message as onStatusUpdate parses it: an absent pdf_url or
\* image_progress leaves the column alone.
StatusBody == [status: JobStatus, pdf: BOOLEAN,
               image: ImageKeys \cup {Null}, imageState: ImageState]
StatusMsg  == [job: Jobs, body: StatusKinds]

\* A row of table jobs.  The columns that no decision reads (stage_info, error,
\* tokens, cost, model, worker_count, times) are left out.
Row == [project: Projects, user: Users, status: JobStatus, pdf: BOOLEAN,
        progress: [ImageKeys -> ImageState]]

\* The servlet container has a bounded pool of threads.
ASSUME BoundsAssumption ==
    /\ IsFiniteSet(HttpThreads)
    /\ MaxConcurrentJobs \in Nat \ {0}
    /\ PublishAttempts \in Nat \ {0}
    /\ MaxRedeliveries \in Nat
    /\ AmbiguousPublish \in BOOLEAN

ASSUME NullAssumption ==
    /\ Null \notin Jobs
    /\ Null \notin Row
    /\ Null \notin ImageKeys

\* publish_status is given a pdf_url in one call only, the one with COMPLETED
\* (orchtr/messaging/aggregator.py), nothing publishes PENDING, and an entry of
\* image_progress has a status (_publish_image_progress of image_worker.py).
ASSUME StatusKindsAssumption ==
    /\ StatusKinds \subseteq StatusBody
    /\ \A k \in StatusKinds : /\ k.pdf <=> k.status = "COMPLETED"
                              /\ k.status # "PENDING"
                              /\ k.image # Null => k.imageState # "none"

VARIABLES
    job,          \* table jobs: job[j] is a Row, or Null when j is not used
    lastEvent,    \* status of the newest row of table job_events of each job
    http,         \* the HTTP threads
    consumer,     \* the listener thread of JobStatusConsumer
    jobSubmitted, \* topic job.submitted: the job ids ever appended to it
    jobStatus,    \* topic job.status: the messages ever appended to it
    unread,       \* messages of job.status the listener has yet to take
    redelivered   \* number of messages delivered again so far

vars == <<job, lastEvent, http, consumer, jobSubmitted, jobStatus, unread,
          redelivered>>

HttpPC == {"idle", "check_report", "check_project", "check_user",
           "check_capacity", "insert", "log_submitted", "publish",
           "save_failed", "log_failed"}

IdleThread == [pc |-> "idle", project |-> Null, user |-> Null, job |-> Null,
               attempt |-> 0]
NewRequest(p, u) == [pc |-> "check_report", project |-> p, user |-> u, job |-> Null,
                     attempt |-> 0]
IdleConsumer == [pc |-> "idle", msg |-> Null, copy |-> Null]

Saved  == {j \in Jobs : job[j] # Null}
Active == {j \in Saved : job[j].status \in ActiveStatus}

\* The object submit() builds: status PENDING, pdfUrl null, imageProgress [].
NewRow(p, u) == [project |-> p, user |-> u, status |-> "PENDING", pdf |-> FALSE,
                 progress |-> [i \in ImageKeys |-> "none"]]

Init ==
    /\ job = [j \in Jobs |-> Null]
    /\ lastEvent = [j \in Jobs |-> "NONE"]
    /\ http = [t \in HttpThreads |-> IdleThread]
    /\ consumer = IdleConsumer
    /\ jobSubmitted = {}
    /\ jobStatus = {}
    /\ unread = {}
    /\ redelivered = 0

----------------------------------------------------------------------------
(* submit() *)

Goto(t, pc) == http' = [http EXCEPT ![t].pc = pc]

StartSubmit(t) ==
    /\ http[t].pc = "idle"
    /\ \E p \in Projects, u \in Users :
         http' = [http EXCEPT ![t] = NewRequest(p, u)]
    /\ UNCHANGED <<job, lastEvent, consumer, jobSubmitted, jobStatus, unread,
                   redelivered>>

\* One guarding query: a ResponseStatusException ends the request, otherwise
\* the thread goes on to the next statement.
Guarding(t, here, refused, next) ==
    /\ http[t].pc = here
    /\ IF refused THEN http' = [http EXCEPT ![t] = IdleThread] ELSE Goto(t, next)
    /\ UNCHANGED <<job, lastEvent, consumer, jobSubmitted, jobStatus, unread,
                   redelivered>>

HasReport(p) == \E j \in Saved : /\ job[j].project = p
                                 /\ job[j].status = "COMPLETED"
                                 /\ job[j].pdf

CheckReport(t) ==
    Guarding(t, "check_report", HasReport(http[t].project), "check_project")

CheckProject(t) ==
    Guarding(t, "check_project",
             \E j \in Active : job[j].project = http[t].project, "check_user")

CheckUser(t) ==
    Guarding(t, "check_user",
             \E j \in Active : job[j].user = http[t].user, "check_capacity")

\* > for >=.
MutantCheckCapacity(t) ==
    Guarding(t, "check_capacity",
             Cardinality(Active) > MaxConcurrentJobs, "insert")

CheckCapacity(t) ==
    Guarding(t, "check_capacity",
             Cardinality(Active) >= MaxConcurrentJobs, "insert")

InsertJob(t) ==
    /\ http[t].pc = "insert"
    /\ \E j \in Jobs \ Saved :
         /\ job' = [job EXCEPT ![j] = NewRow(http[t].project, http[t].user)]
         /\ http' = [http EXCEPT ![t].pc = "log_submitted", ![t].job = j]
    /\ UNCHANGED <<lastEvent, consumer, jobSubmitted, jobStatus, unread,
                   redelivered>>

\* A request without images, or with an image without lid or thumb_url, raises
\* while the payload is built, outside the try: the row stays as it was inserted.
PayloadRaises(t) ==
    /\ http[t].pc = "log_submitted"
    /\ http' = [http EXCEPT ![t] = IdleThread]
    /\ UNCHANGED <<job, lastEvent, consumer, jobSubmitted, jobStatus, unread,
                   redelivered>>

LogSubmitted(t) ==
    /\ http[t].pc = "log_submitted"
    /\ lastEvent' = [lastEvent EXCEPT ![http[t].job] = "PENDING"]
    /\ http' = [http EXCEPT ![t].pc = "publish", ![t].attempt = 1]
    /\ UNCHANGED <<job, consumer, jobSubmitted, jobStatus, unread, redelivered>>

PublishAcknowledged(t) ==
    /\ http[t].pc = "publish"
    /\ jobSubmitted' = jobSubmitted \cup {http[t].job}
    /\ http' = [http EXCEPT ![t] = IdleThread]
    /\ UNCHANGED <<job, lastEvent, consumer, jobStatus, unread, redelivered>>

\* future.get(10, SECONDS) throws.  The broker may have the message all the
\* same (AmbiguousPublish): the attempt is repeated, then given up.
PublishAttemptFails(t) ==
    /\ http[t].pc = "publish"
    /\ \/ UNCHANGED jobSubmitted
       \/ /\ AmbiguousPublish
          /\ jobSubmitted' = jobSubmitted \cup {http[t].job}
    /\ IF http[t].attempt < PublishAttempts
       THEN http' = [http EXCEPT ![t].attempt = @ + 1]
       ELSE Goto(t, "save_failed")
    /\ UNCHANGED <<job, lastEvent, consumer, jobStatus, unread, redelivered>>

\* The catch block saves the Job object of this request, as it was inserted
\* but for the status: whatever the listener wrote meanwhile is overwritten.
SaveFailed(t) ==
    /\ http[t].pc = "save_failed"
    /\ job' = [job EXCEPT ![http[t].job] =
                 [NewRow(http[t].project, http[t].user) EXCEPT !.status = "FAILED"]]
    /\ Goto(t, "log_failed")
    /\ UNCHANGED <<lastEvent, consumer, jobSubmitted, jobStatus, unread,
                   redelivered>>

LogFailed(t) ==
    /\ http[t].pc = "log_failed"
    /\ lastEvent' = [lastEvent EXCEPT ![http[t].job] = "FAILED"]
    /\ http' = [http EXCEPT ![t] = IdleThread]
    /\ UNCHANGED <<job, consumer, jobSubmitted, jobStatus, unread, redelivered>>

Submit(t) ==
    \/ StartSubmit(t)
    \/ CheckReport(t) \/ CheckProject(t) \/ CheckUser(t) \/ CheckCapacity(t)
    \/ InsertJob(t) \/ PayloadRaises(t) \/ LogSubmitted(t)
    \/ PublishAcknowledged(t) \/ PublishAttemptFails(t)
    \/ SaveFailed(t) \/ LogFailed(t)

----------------------------------------------------------------------------
(* onStatusUpdate() and applyStatusUpdate() *)

\* The null check of image_progress is left out.
MutantMergedNoNullCheck(row, body) ==
    [row EXCEPT !.status = body.status,
                !.pdf = @ \/ body.pdf,
                !.progress = [i \in ImageKeys \cup {body.image} |->
                                IF i = body.image THEN body.imageState ELSE @[i]]]

\* setPdfUrl is left out.
MutantMergedNoReport(row, body) ==
    [row EXCEPT !.status = body.status,
                !.progress = IF body.image = Null THEN @
                             ELSE [@ EXCEPT ![body.image] = body.imageState]]

\* The new entry replaces the list.
MutantMergedReplaces(row, body) ==
    [row EXCEPT !.status = body.status,
                !.pdf = @ \/ body.pdf,
                !.progress = IF body.image = Null THEN @
                             ELSE [i \in ImageKeys |-> IF i = body.image
                                                      THEN body.imageState ELSE "none"]]

\* mergeImageProgress: replace the entry of this (worker_id, lid), keep others.
Merged(row, body) ==
    [row EXCEPT !.status = body.status,
                !.pdf = @ \/ body.pdf,
                !.progress = IF body.image = Null THEN @
                             ELSE [@ EXCEPT ![body.image] = body.imageState]]

\* A message leaves the unread ones, or stays to be delivered once more.
Take(m) ==
    \/ /\ unread' = unread \ {m}
       /\ UNCHANGED redelivered
    \/ /\ redelivered < MaxRedeliveries
       /\ redelivered' = redelivered + 1
       /\ UNCHANGED unread

\* findById finds no row or a terminal one: the message has no effect.
DropUpdate ==
    /\ consumer.pc = "idle"
    /\ \E m \in unread :
         /\ Take(m)
         /\ job[m.job] # Null => job[m.job].status \in TerminalStatus
    /\ UNCHANGED <<job, lastEvent, http, consumer, jobSubmitted, jobStatus>>

\* The terminal guard is left out.
MutantReadForUpdate ==
    /\ consumer.pc = "idle"
    /\ \E m \in unread :
         /\ Take(m)
         /\ job[m.job] # Null
         /\ consumer' = [pc |-> "log", msg |-> m, copy |-> job[m.job]]
    /\ UNCHANGED <<job, lastEvent, http, jobSubmitted, jobStatus>>

ReadForUpdate ==
    /\ consumer.pc = "idle"
    /\ \E m \in unread :
         /\ Take(m)
         /\ job[m.job] # Null
         /\ job[m.job].status \notin TerminalStatus
         /\ consumer' = [pc |-> "log", msg |-> m, copy |-> job[m.job]]
    /\ UNCHANGED <<job, lastEvent, http, jobSubmitted, jobStatus>>

\* The event is given the status that the row had.
MutantLogUpdate ==
    /\ consumer.pc = "log"
    /\ lastEvent' = [lastEvent EXCEPT ![consumer.msg.job] = consumer.copy.status]
    /\ consumer' = [consumer EXCEPT !.pc = "save"]
    /\ UNCHANGED <<job, http, jobSubmitted, jobStatus, unread, redelivered>>

LogUpdate ==
    /\ consumer.pc = "log"
    /\ lastEvent' = [lastEvent EXCEPT ![consumer.msg.job] = consumer.msg.body.status]
    /\ consumer' = [consumer EXCEPT !.pc = "save"]
    /\ UNCHANGED <<job, http, jobSubmitted, jobStatus, unread, redelivered>>

SaveUpdate ==
    /\ consumer.pc = "save"
    /\ job' = [job EXCEPT ![consumer.msg.job] =
                 Merged(consumer.copy, consumer.msg.body)]
    /\ consumer' = IdleConsumer
    /\ UNCHANGED <<lastEvent, http, jobSubmitted, jobStatus, unread, redelivered>>

Apply == DropUpdate \/ ReadForUpdate \/ LogUpdate \/ SaveUpdate

----------------------------------------------------------------------------
\* The orchestrator: it may publish any message about a job it has been given,
\* in any order.
OrchestratorPublish ==
    /\ \E j \in jobSubmitted, k \in StatusKinds :
         LET m == [job |-> j, body |-> k]
         IN  /\ m \notin jobStatus
             /\ jobStatus' = jobStatus \cup {m}
             /\ unread' = unread \cup {m}
    /\ UNCHANGED <<job, lastEvent, http, consumer, jobSubmitted, redelivered>>

Next ==
    \/ \E t \in HttpThreads : Submit(t)
    \/ Apply
    \/ OrchestratorPublish

Spec == Init /\ [][Next]_vars

----------------------------------------------------------------------------
(* Properties *)

TypeOK ==
    /\ job \in [Jobs -> Row \cup {Null}]
    /\ lastEvent \in [Jobs -> JobStatus \cup {"NONE"}]
    /\ http \in [HttpThreads -> [pc: HttpPC, project: Projects \cup {Null},
                                 user: Users \cup {Null}, job: Jobs \cup {Null},
                                 attempt: 0..PublishAttempts]]
    /\ consumer \in [pc: {"idle", "log", "save"}, msg: StatusMsg \cup {Null},
                     copy: Row \cup {Null}]
    /\ jobSubmitted \subseteq Jobs
    /\ jobStatus \subseteq StatusMsg
    /\ unread \subseteq jobStatus
    /\ redelivered \in 0..MaxRedeliveries

\* A row carries a report link exactly when it is COMPLETED.  CheckReport looks
\* for both columns at once; the two writers each write all columns from an
\* older copy, in any interleaving.
ReportLinkMatchesVerdict ==
    \A j \in Saved : job[j].pdf <=> job[j].status = "COMPLETED"

\* A row that is COMPLETED or FAILED is never written again: neither by the
\* listener, whose terminal guard was evaluated at an earlier transaction, nor
\* by the catch block of submit().
TerminalAbsorbing ==
    [][\A j \in Saved : job[j].status \in TerminalStatus => job'[j] = job[j]]_job

\* COMPLETED is final (the guard that applyStatusUpdate logs as
\* final_effect=final_status_unchanged).
CompletedIsFinal ==
    [][\A j \in Saved : job[j].status = "COMPLETED" => job'[j] = job[j]]_job

\* A user has at most one active job (the refusal "User already has an active
\* job" of submit()).
OneActivePerUser ==
    \A j, k \in Active : job[j].user = job[k].user => j = k

\* A project with a completed report is not analysed again (the first refusal of
\* submit()).
ReportedProjectIdle ==
    \A j \in Active : ~HasReport(job[j].project)

\* The checks of submit() and its insert are separate transactions, so the limit
\* can be passed, but by no more than the other threads that were past the
\* check when it was reached.
OvershootBounded ==
    Cardinality(Active) <= MaxConcurrentJobs - 1 + Cardinality(HttpThreads)

\* A row whose request ended before its SUBMITTED event: PENDING, without any
\* event, and never published.
Abandoned(j) ==
    job[j].status = "PENDING" /\ lastEvent[j] = "NONE" /\ j \notin jobSubmitted

\* When no thread is within a handler, the newest event of a job (last_stage of
\* getJobMetrics) tells the status of its row: submit() writes the row first and
\* the event after it, applyStatusUpdate the other way round.  Only a request
\* that raised between the two leaves a row that no event tells of, and no
\* orchestrator has heard of that row.
EventLogAgrees ==
    (consumer = IdleConsumer /\ \A t \in HttpThreads : http[t] = IdleThread)
        => \A j \in Saved : lastEvent[j] = job[j].status \/ Abandoned(j)

\* No image drops out of image_progress: of an active job, each image reported
\* by a message that the listener has finished with has an entry.
ProgressKept ==
    \A m \in jobStatus \ unread :
        (m.body.image # Null /\ m # consumer.msg /\ m.job \in Active)
            => job[m.job].progress[m.body.image] # "none"

\* What JobLifecycle sees of the table.
LifecycleRow == [project: Projects, user: Users, status: JobStatus, report: BOOLEAN]
LifecycleRecord ==
    [j \in Jobs |-> IF job[j] = Null THEN Null
                    ELSE [project |-> job[j].project, user |-> job[j].user,
                          status |-> job[j].status, report |-> job[j].pdf]]

ASSUME LifecycleNullAssumption == Null \notin LifecycleRow

Lifecycle == INSTANCE JobLifecycle WITH record <- LifecycleRecord

\* With one request at a time, and no publication both delivered and reported as
\* failed, the table behaves as if submit() decided in one step and every job
\* ended once: GatewayJobs implements JobLifecycle.
ImplementsLifecycle == Lifecycle!Spec

============================================================================
