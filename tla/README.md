# Formal model of pds4cloud

TLA+ specifications of the job system of this repository, the TLC
configurations that check them, and proofs checked by TLAPS. The system
analyses Mars 2020 Mastcam-Z images: a user submits a project of images, each
image is ingested, transformed and analysed by a language model, and a PDF
report collects the analyses.

    cd tla
    tlc -workers 2 -config gateway_races.cfg MCGatewayJobs
    tlapm GatewayJobsProofs.tla

Every run, every mutant, the lines that each definition models, the hazards and
the findings are listed in `PROJECT.json`.

## 1. The system

| Component | State | Operations | Talks to |
|---|---|---|---|
| Gateway job service (`gateway/.../job/JobService.java`) | tables `jobs`, `job_events` (H2 in memory) | `submit`, `applyStatusUpdate`, queries | `job.submitted` (writes) |
| Gateway status listener (`JobStatusConsumer.java`) | none | parse, call `applyStatusUpdate` | `job.status` (reads) |
| Dispatcher (`orchtr/messaging/dispatcher.py`) | one thread | one `image.task` for each image | `job.submitted` -> `image.task`, `job.status` |
| Image workers (`image_worker.py`) | up to `MAX_WORKERS` threads | process a product, publish progress and result, commit | `image.task` -> `image.result`, `job.status` |
| Aggregator (`aggregator.py`) | one thread, a dictionary of entries in memory | collect results, make the report, publish the verdict | `image.result` -> `job.status`, storage, artifacts |
| Producer (`producer.py`) | one shared Kafka producer | `publish_status`, retried, then dropped | `job.status` |
| Analysis artifacts (`services/analysis_artifacts.py`) | table `analysis_artifacts` (SQLite in memory), `result.json` objects | reserve, ready, in report, release, evict and prune | workers and aggregator call it |
| Product processing (`nodes/ingest`, `nodes/transform`, `nodes/analyze`) | objects in MinIO | ingest, transform, analyse one product | called by the workers |
| Projects (`routers/projects.py`, `services/project_preview.py`) | tables of projects and images (SQLite), objects under `published/` | create, add and remove image, publish, delete; workers add previews | called through the gateway, and by the workers |
| Batch tools (`nodes/*/core.py`, `utils/ingest_pds.py`, `nodes/*/db.py`) | table `photos` (Postgres), objects in MinIO | ingest a range, transform and analyse what is pending | the same bucket and table as the job service's workers |
| Evaluation (`evaluation/`, `utils/eval_faults.py`, `utils/retry.py`) | fault plan, records and reports | submit jobs for users, poll, inject faults, read logs, summarise | the gateway, its event log, the registry of faults |
| Chat, models, LangSmith and vector search routes, `clip-service` | none between requests | proxies of external services | |
| Frontend (`frontend/nasa-front`) | hooks that poll a job and page through products | | gateway |
| Gateway proxy, security, deployment | configuration | | |

A job moves as follows. `submit` checks that the project has no report, that
neither the project nor the user has an active job and that the system has
capacity; it inserts a `PENDING` row and publishes the job. The dispatcher fans
it out. Each worker turns a task into one result, with progress messages on the
way. The aggregator waits for as many results as the job has images, makes the
report, and publishes `COMPLETED` or `FAILED`. The listener of the gateway
writes every status into the row.

What is hard about it:

* **No transaction spans two statements of the gateway.** No method is
  `@Transactional`, `Job` has no `@Version`; a `save` writes every column of a
  copy that may be old.
* **Topics are unordered.** Messages have no key and topics six partitions. One
  job's messages come from the dispatcher, several workers and the aggregator.
* **Delivery is at least once, or not at all.** A flush that timed out may have
  delivered; `flush()` of kafka-python does not report a record that failed;
  `publish_status` drops what it cannot send; consumers that rejoin read again
  from the committed offset.
* **State in memory.** The aggregator's entries and the artifacts' table die
  with the process; offsets, topics and objects do not.
* **Two resources, two commits.** Objects are deleted before the rows that name
  them are committed.

* **A handler is not a transaction either.** Routes run on a pool of threads,
  look a project up, call slow services, and write what they decided before.
* **A table is a queue without locks.** The batch tools take pending rows without
  marking them, and record what they did in one more statement, which may fail.
* **What is measured is concurrent.** An evaluation polls jobs that go on when it
  has given them up, retries requests that were carried out, and reads logs whose
  order is the gateway's.

The hazards, each at its line and with the properties that cover it, are in
`PROJECT.json`.

What makes each component correct:

* job service: a terminal row is never written again; a report link goes with
  `COMPLETED`; the event log agrees with the row; the limits hold, or are passed
  by a known amount;
* dispatcher and workers: a task that was published is answered;
* aggregator: a verdict tells the truth about the images of its job, comes once,
  comes last, and comes at all;
* product processing: a product that is skipped is complete; no worker takes the
  raw image away from another; the raw image does not outlive the work on it;
* artifacts: one report for each artifact; rows that count as complete have
  their object; the lock `IN_REPORT` has one owner, and is left behind only by a
  report that could not let go of it; retention is bounded and keeps the newest;
* projects: limits are passed by no more than the requests in flight, only the
  owner changes a project, what is published is stored, a user's preview stays;
* batch tools: a row never says more than the bucket holds, a row is not left
  `running` without a reason, tools that are run again finish the work;
* evaluation: what a record, a recovery, a time to recover or an overlap claims
  is what the system did.

## 2. The modules

| Module | Models | Extends or instantiates |
|---|---|---|
| `GatewayJobs` | `JobService`, `JobStatusConsumer` | |
| `JobLifecycle` | what the gateway promises of a job, atomically | |
| `MCGatewayJobs` | instances | `GatewayJobs`, `JobLifecycle` |
| `GatewayJobsProofs` | theorems | `GatewayJobs` |
| `CountingLemmas` | lemmas on cardinalities, induction, sums and folds | |
| `ImagePipeline` | dispatcher, workers, aggregator, status producer, and the topics between them | |
| `MCImagePipeline`, `ImagePipelineProofs` | instances, theorems | `ImagePipeline` |
| `ArtifactLifecycle` | artifacts service, with the worker and the aggregator as its callers | |
| `MCArtifactLifecycle`, `ArtifactLifecycleProofs` | instances, theorems | `ArtifactLifecycle` |
| `ProductStore` | ingest and transform of products by several workers, with their objects in storage | |
| `MCProductStore`, `ProductStoreProofs` | instances, theorems | `ProductStore` |
| `Projects` | the routes of projects, and the workers' previews | |
| `MCProjects`, `ProjectsProofs` | instances, theorems | `Projects` |
| `BatchNodes` | batch ingest, transform and analysis, the table `photos` and the bucket | |
| `MCBatchNodes`, `BatchNodesProofs` | instance, theorems | `BatchNodes` |
| `EvalRun` | the multi-user protocols against the gateway's rules | |
| `RetryRecovery` | the recovery protocol, the registry of faults, `retry_call` | |
| `WorkerTimeline` | the workers' messages, the event log, the summary made of it | |
| `Evaluation` | one of the three at a time | `EvalRun`; instantiates `RetryRecovery`, `WorkerTimeline` |
| `MCEvaluation`, `EvaluationProofs` | instance, theorems | `Evaluation` |

### GatewayJobs

`job` is the table, `lastEvent` the newest event of each job, `http` the servlet
threads inside `submit`, `consumer` the listener thread. Each repository call
and each publication attempt is an action, so that everything the database
allows between two statements can happen. `http[t].pc` names the next statement.
`SaveFailed` writes the row as it was inserted with the status changed, which is
what the `catch` block does with its `Job` object. `PayloadRaises` is the exception
of a request without images, or with an image without `lid` or `thumb_url`, after
the insert and outside the `try`: it leaves a `PENDING` row without an event, which
is never published and counts like any active job. `ReadForUpdate`, `LogUpdate`
and `SaveUpdate` are the three database calls of `applyStatusUpdate`; the row
saved is the merge of the message into the copy read first.

The orchestrator is any process that publishes messages about jobs it was given
(`OrchestratorPublish`): nothing about their order is assumed. What a message may
say is the constant `StatusKinds`, restricted by `StatusKindsAssumption` to what
`publish_status` and the workers produce. Messages that `onStatusUpdate` cannot
parse, or whose status is unknown, have no effect on the state and are left out.
Columns that no decision reads are left out. The fault injection
(`maybeRaiseEvalFault`) is left out.

### ImagePipeline

A topic is the set of messages ever appended to it; its consumer group counts
the copies of each message that are unread and those that were delivered but are
not covered by a commit. A rebalance or a restart makes the second kind unread
again. `CommitTask` clears everything that a worker holds uncommitted, as
`consumer.commit()` commits the position of the consumer and not the offset of
one record: the tasks of handlers that raised are covered, too.

`collected[j]` is the list of results in the aggregator's entry of a job;
`expected` and `seen_lids` follow from it. `aggregator.pc` divides
`_handle_image_result` after `state.pop` at the statements that other threads or
a restart can tell apart.

What goes wrong is listed in the module's header and chosen by the constant
`Faults`; `MaxFaults` bounds the number of faults in a behaviour.

### ArtifactLifecycle

`status`, `owner` and `evicted` are the table (`evicted` gives the order of
`evictable_at`), `stored` the objects. A call of the service is one action,
except for `prune_evictable`, whose query, deletions and commit are separate: between
them `doomed` holds the positions in the queue `evicted` that the prune has chosen.
`uses` counts the reports an artifact was used for, one job's second report
included. A release may raise (`release_to_ready`, whose exception is only told in
the `FAILED` status), and so may an eviction before its commit
(`get_storage_adapter`, which asks for the bucket, or the commit): `Strand`
records the rows that stay `IN_REPORT` then. A
call is atomic in the model although all sessions share one SQLite connection;
see section 7.

The aggregator may report any round of results of a job (`BeginReport`), a
second round included, which duplicates of its results make possible.

### ProductStore

`store[p]` is the set of objects of product `p`, `worker[w].pc` the next storage
call of a worker's `run_ingest_one`, `run_transform_one` or `run_analyze_one`.
`Upload` is a `retry_call` of `upload_bytes`: it succeeds, or the exception
leaves `process_product` and `Raise` starts it again, as `_process_with_retry`
does. An error status ends the task instead, after the raw image is deleted.
`unsupported_ndim` is not an error status: a product of the constant `Unsupported`,
whose array has neither two dimensions nor three, loses its raw image and goes to
the analysis without `gray.jpg`. `exists` may answer False although the object is
there, as the adapter does for every `S3Error`. Objects have no content: whoever
writes one writes the same.

### Projects

`project` and `image` are the two tables, `store[p][path]` says whose publication
wrote an object, `thread[t]` is a request or a worker between two statements:
what it has read so far, and what is left to upload. `GetProject` is
`_get_project_or_404`, with which every request about one project begins; the
handler goes on with what it read then. `SetPublished` writes the columns that
differ from the row that was read, as SQLAlchemy's update does, and nothing if
the row is gone. `FindObject` and `PutObject` are the two calls of `upload_bytes`,
which passes over an object that exists. A new row has an id of its own
(`NewProject`, `NewImages`): a UUID, so one that nothing else holds.

### BatchNodes

`row` is the table `photos`, `store[f]` the objects of a photo, `proc[p]` one
process of a tool: the photo at hand, the photos left (`todo`), and whether a look
into the bucket found what it will record or skip. Every process runs its tool again
and again. Every look is an `Answer`: what `exists` says is there is there, but an
error hides the rest (the fault `misread`). `Update` is an `UPDATE`
of `db.py`, which matches nothing without a row and swallows its errors. A dry
run follows the same path and uploads nothing, but it does write the row, as
`ingest_pds.py` does. `ToolDies` is the end of a tool by an exception that leaves
its loop, or by the end of its process.

A process of the role `service` is a worker of the job service on one of the photos
`InJobs`. It makes the same objects by the same calls (`CheckGray` to `UploadRgb`,
`AnalyzePhoto`) and writes the row with the same statements, since it calls
`process_one_task` and `analyze_one_task`, too. It takes no row from the table
(`IngestOne` looks for `gray.jpg` instead), keeps its result under the id of an
artifact (`PutResult`), and deletes the raw image whatever came of the
transformation (`DeleteImg`).

### EvalRun, RetryRecovery, WorkerTimeline

`EvalRun` has one thread for each case group of a batch (`run_user_job`), with
its request, its attempts and the job it polls, and the gateway's jobs with the
rules of `submit` for a refusal. A request may fail before or after the job was
made; a poll may give a job up that goes on.

`RetryRecovery` has a thread for each image of each job, and then one for the
job's own operations; each goes through the stages, and at each calls an
operation until it succeeds or the attempts are used up (`retry_call`). A fault
of the plan is consumed by the first thread that matches it. `injected` and
`signal` say what the log lines of the fault and of its recovery show; the order
of a line and of the end of a job is kept in `injected[f].before`, in place of a
clock.

`WorkerTimeline` has the workers with one clock, their messages on the wire, the
event log in the order of the gateway's rows, and the records made from it. The
offset of a task is committed after its result, so that a task may come again, to
any worker and while the first is still at it (`Redeliver`), and a restart brings
back all that was under way (`Restart`); `begun` and `again` remember whether one
worker began one task twice. `ReadProgress` and `MaxActive` are
`summarize_worker_timeline`. Its stable sort is stated by the rank of each point,
and its loops are folds.

The three share no state, but one question: whether what the evaluation reports
is what the system did. `Evaluation` puts them side by side: a behaviour is one of
them, chosen in the initial state, and one run checks all three.

## 3. What the runs check

Passing runs:

| Run | Instance | Shows |
|---|---|---|
| `gateway_one_request` | 3 jobs, 2 users, 2 projects, 1 thread, capacity 2 | `ImplementsLifecycle`: with one request at a time the table implements `JobLifecycle` |
| `gateway_races` | 3 jobs, 2 users, 2 projects, 2 threads, capacity 1 | `TypeOK`, `TerminalAbsorbing`, `EventLogAgrees`, `OvershootBounded` |
| `gateway_progress` | 1 job, 2 images, 2 ambiguous attempts, 1 redelivery | `ReportLinkMatchesVerdict`, `ProgressKept` |
| `pipeline_all_faults` | 1 job, 2 images, 1 worker, any one fault | `TypeOK`, `VerdictJustified`, `EntryIncomplete`, `TaskAccounted`, `VerdictIsLast` |
| `pipeline_two_workers` | 2 jobs (one image, none), 2 workers, one of duplicate, late, rebalance | `EventuallyVerdict` |
| `artifact_shared` | 3 artifacts, 1 product, 3 jobs of 2 projects, 2 workers, 1 fault: a deletion, a release or an eviction that raises, or a restart | `TypeOK`, `InReportIsOwned`, `OneReportPerArtifact`, `CompletedIsStored`, `RetentionBounded`, `ResultIsComplete` |
| `product_store` | 3 products (in colour, grey, unsupported), 2 workers, any two faults | `TypeOK`, `SkipIsSafe`, `TransformHasSource`, `LeftoversOwned` |
| `projects_races` | 2 projects, 2 images, 2 users, 2 lids, 2 requests of any kind, 1 worker, limits of 1 | `TypeOK`, `LimitsBounded`, `PublishedStored`, `OwnersOnly`, `PreviewKept` |
| `batch_faults` | 2 photos (one in colour, one without a sol), 1 process of each tool, 1 worker of the job service on the first photo, dry runs, any two of the seven kinds of fault, each once | `RowsAreBacked`, `RunningIsOwned`, `ColourRecorded`, `AnalysisAfterTransform`, `EventuallyAnalyzed` |
| `evaluation` | 3 groups in 2 batches, gateway limit 1, 2 faults, 2 timeouts; 2 jobs of 3 images, 4 stages, 2 errors, 1 timeout; 1 job of 2 images, 2 workers, 2 moments, 1 message lost, and 1 doubled or 1 task that comes again | `CompletedIsTrue`, `OneRecordPerJob`; `FaultsAreSurvived`, `RecoveredJobCompleted`, `MttrPositive`; `OverlapIsReal`, `ImagesAreReal` |

A behaviour remembers which kinds of fault happened in it (`faults` in
`ImagePipeline`, `ProductStore` and `BatchNodes`, `deleteFailures`, `stranded` and
`crashes` in `ArtifactLifecycle`), so that one run allows all of them and each property names
those that excuse it: `TaskAccounted` holds through duplicates, rebalances and
restarts, and is excused only by a result that was lost or whose publication
raised.

Why the bounds are enough. In the gateway a race needs two writers of one row or
two requests between check and insert: two threads and the listener. The third
job lets a project be analysed again after a terminal one, and the capacity be
passed while one job has ended in between. In the pipeline the interesting
cases are "the last result" and "not the last result" (two images), two
different results of one image within one entry (two images and a task processed
twice), and a task in two hands (two workers, in the run that has them). One
fault of each kind meets every state; a second one is within reach of a larger
`MaxFaults`, and of the theorems. Two artifacts of one product are needed to
exceed `MaxEvictable = 1`, the third for a report in between; two jobs of one
project share artifacts and the third must not; the two results of a job that is
reported twice are there as well. In the product store one worker deletes what the
other counts on or skips; two faults let a task with two attempts be given up, and
the third product is there for the array that is not supported. Symmetry among the
workers leaves more of them to the theorems, which are for any number.

In `Projects` a limit is passed by two requests of one user between count and
insert, so a limit of one and two requests meet it; ownership needs a second
user, a deletion under way a second request, a preview an image with one and
another without. A publication has a report and one image, so that it can be
interrupted between two uploads. In `BatchNodes` a photo in colour and a grey one
cover both paths of the transformation; the second has no sol, so that it is
never analysed. `Limit = 1` makes the order of the rows matter. With one process
of each tool the tools overlap in every way, and each is started again at any
time; that rows are backed with several processes of one tool is a theorem. The
worker of the job service is on the photo that has most to lose, the one in colour
that is analysed. Two kinds of fault in one behaviour (`MaxKinds`) let each meet each
other, the job service and the dry run counting as one of them; the theorems have no
such bound.
In `EvalRun` three groups in batches of two make a batch that is full and one
that is not, and reuse a user; a gateway with room for one job refuses the other
thread, whose attempts then run out. In `RetryRecovery` two threads of one job
and one of another compete for a fault; three calls may be used up by one planned
failure and two others. In `WorkerTimeline` two workers and two moments are what
an overlap needs, and the order at equal times is met. One message twice, or one
task that comes again (`MaxTwice`), is what makes a worker overlap with itself; a
task that comes again goes to either worker, as the first may be at it or not. The
steps stop when the log of the last job was asked for, since what happens later is in
none of the numbers.

All runs but those of `ProductStore` and `BatchNodes` switch the deadlock check off:
the pools of job ids, artifact ids and messages are finite, and a system that has
answered every request may stop. A worker may be given a product again at any time,
so `ProductStore` never stops, nor a batch ingest, which may be started again.

Symmetry is used over interchangeable constants, in runs that check no liveness.
The action properties and the refinement checked under symmetry quantify over
all the elements of each symmetric set.

### Findings

Runs that TLC ends with a counterexample, each against a statement of the
repository (quoted in `PROJECT.json`):

| Run | Property | What happens |
|---|---|---|
| `gateway_publish_timeout` | `CompletedIsFinal` | three attempts time out although one delivered; the job completes; the catch block saves `FAILED` |
| `projects_second_report` | `ReportIsTheOneSent` | a project is published again with another report: the upload passes over the object that exists, so the gallery shows the new comment with the old report |

### Deviations met while modelling

Other places where the code does not do what a line of the repository says of
it. Each follows from the modules by a short sequence, given here with the
property that states the claim, where a module has it; none is a run.

* *One active job per user* (`OneActivePerUser` in `GatewayJobs`). Two requests of
  one user for two projects pass the check (`JobService.java:52`) before either
  inserts (`:69`). "User already has an active job: " (`:54`). Two threads, in the
  instance `gateway_races`.
* *No second analysis of a project* (`ReportedProjectIdle` in `GatewayJobs`). A job
  that completes between the query for a report (`JobService.java:43`) and the one
  for an active job (`:48`) is seen by neither. "Project already has a completed
  analysis report; create a new project to analyze again." (`:46`). One thread and
  the listener are enough.
* *A row tells of a job under way* (`EventLogAgrees` in `GatewayJobs` without
  `Abandoned`). A request without images, or with an image without `lid` or
  `thumb_url`, is inserted (`JobService.java:69`) before its payload is built, outside
  the `try` (`:78`): the request fails and its row stays `PENDING`, with no event and
  nobody at work on it. "User already has an active job: " (`:54`) is the answer to
  every later request of its user. One thread is enough.
* *One verdict per job* (`OneVerdict` in `ImagePipeline`). A duplicate of the last
  result arrives after `state.pop` (`aggregator.py:104`) and opens a new entry; a
  job of one image gets a second verdict.
* *`gray.jpg` means processed* (`GrayMeansProcessed` in `ProductStore`). A call
  after the upload of `gray.jpg` raises (`transform/logic.py:155`); the next
  attempt skips the product, so `rgb.jpg` is never made and the raw image never
  deleted.
* *No image, no analysis* (`SkipIsSafe` in `ProductStore` without its condition on
  `Unsupported`). `unsupported_ndim` (`transform/logic.py:102`) does not begin with
  `error`, which is what `run_analyze_one` asks for (`analyze/one.py:23`): the analysis
  starts, and finds no image. "No transformed image found for" (`analyze/logic.py:193`).
  The raw image is deleted (`transform/one.py:56`), so that every later attempt downloads
  it again. One worker and one such product.
* *A failed report lets go of its artifacts* (`InReportIsOwned` in
  `ArtifactLifecycle` without `stranded`). `release_to_ready` may raise
  (`aggregator.py:172`), which the status tells ("artifact release failed: ",
  `:184`); an eviction that raises before its commit (`:163`) is followed by no
  release at all. The rows stay `IN_REPORT` until a restart empties the table: no
  worker reuses them and no prune deletes their objects. One worker, one job and one
  fault.
* *Three unpublished projects* (`DraftLimitKept` in `Projects`). Two requests count
  (`projects.py:196`) before either inserts (`:202`). "You can't create more than
  3 not published projects. Publish or delete one first." (`:200`).
* *No image twice* (`NoDuplicateLid` in `Projects`). Two requests look for the lid
  (`projects.py:405`) before either inserts (`:417`); no constraint of the table
  stands in. "Image already in project" (`:406`).
* *No image without its project* (`NoOrphanImages` in `Projects`). A project is
  deleted while `add_image` is in `index_product`; SQLite does not enforce the
  foreign key, and the row of the image stays. `ForeignKey("projects.id"),
  nullable=False` (`models.py:38`), `cascade="all, delete-orphan"` (`:27`).
* *A dry run changes nothing* (`NoPhantomSource` in `BatchNodes`). `--dry-run`
  uploads nothing and yet inserts the row (`ingest_pds.py:238`), whose image is not
  there: the transform fails it for good. "DRY RUN -- nothing will be uploaded"
  (`:119`).
* *A colour photo has its rgb image recorded* (`ColourRecorded` in `BatchNodes`
  without `misread`). `exists` answers False for any `S3Error` (`minio_adapter.py:47`);
  when that happens between the `gray.jpg` that is there and the `rgb.jpg` that is, too
  (`transform/logic.py:50`), the row is `done` without it, for good. "Return True if the
  object at *path* exists in the bucket." (`storage/base.py:10`).
* *A failed transformation can be repeated* (`EventuallyAnalyzed` in `BatchNodes`
  without `service`). A worker of the job service deletes the raw image after
  `error_download` or `error_read`, too (`transform/one.py:56`); the batch tool that has
  the photo next, or before, finds none and marks it `failed`, which no query fetches
  again. "delete raw .IMG to free space" (`:54`).
* *Overlap proves concurrency* (`OverlapIsReal` in `WorkerTimeline` without its
  conditions). A `done` that is delivered twice makes two intervals of one image
  (`eval_lib.py:298`): one worker overlaps with itself. So it does when it processes
  a task twice (`image_worker.py:252`) and its second beginning is lost or late: the
  second end is read with the first beginning, which stays in `starts`.
  "`max_concurrent_workers_observed > 1` proves overlap, not just sequential use of
  different workers." (`evaluation/README.md:127`). One worker, and one duplicate or
  one task that comes again.
* *Times to recover are positive* (`MttrPositive` in `RetryRecovery` with a group
  that skips a stage). If the images of the group a fault is planned for are grey,
  another job meets the fault of `transform_rgb_upload`, possibly after the group's
  row has ended; `summarize_retry_recovery_records` (`eval_lib.py:83`) counts the
  negative time, which `_build_production_retry_records` (`:474` of the protocol)
  would refuse. Two groups of one image each, the second skipping the stage
  (`Skips`).
* *The batches respect the gateway's limits* (`NeverRefused` in `EvalRun`). A poll
  times out while its job is active; the next batch submits for the same user and
  is refused. "The concurrent protocol respects Gateway's active job constraints."
  (`evaluation/README.md:98`). `MaxTimeouts = 1`.
* *The listing of work without Postgres* (not modelled): the one of the transform
  stops at the limit before it looks at what is done (`transform/core.py:28`), so
  that with more photos than the limit the first are offered in every run.
* *The metadata of a batch photo* (not modelled): the ingest stores it under the
  id of the product (`ingest/core.py:102`), the analysis looks for it under the id
  of the photo (`analyze/logic.py:211`) and goes on without.

### Mutants

Operators named `Mutant...` are wrong variants of the definition they precede, of
the kind a slip in that code would be. No specification uses them. Replacing the
definition by its mutant makes TLC report the property as violated in its run.

## 4. Fairness

`FairSpec` of `ImagePipeline` assumes weak fairness of `Dispatch`, of `Work(w)`
for each worker, and of `Aggregate`, each the whole loop of one daemon thread:
the operating system schedules every thread, poll returns a record when there is
one, and the calls of the network and of the model end (they have timeouts). No
fairness is assumed of a particular choice within a loop, of `SubmitJob`, of a
fault or of a restart. A loop with something to do therefore does something, and
what it has to do decreases, so that a job submitted gets its verdict unless a
fault outside the run's `Faults` takes something away. The run is
`pipeline_two_workers`.

`EventuallyVerdict` is checked without `exhausted`, `lost`, `status_lost`,
`send_raises` and `crash`: each of them can leave a job without a verdict. This
is what the code does. A restart, for one, loses the results received so far,
which are in memory only while their offsets are committed. The hazards in
`PROJECT.json` name the lines.

`FairSpec` of `BatchNodes` assumes weak fairness of the steps of each tool, and none
of the job service, whose users may ask for nothing: a process
that was started runs to its end, and an idle one is started again, by a person
or a scheduler, while it has something to do. Of the ingest it assumes strong
fairness of a start over all the photos that is not a dry run: a tool that is
only ever started on other ranges promises nothing. `EventuallyAnalyzed` then
says that the tools make up for what was missed: calls that raise and statements
that are lost. A crash is excused, because an analysis that dies leaves its row
`running`, which no query fetches again; a failed download or an object that
`exists` missed, because the row records the photo as `failed`; the job service,
because it writes the same row and deletes the raw image; a dry run, because its row
names an image that is not there. The other runs check safety only and assume no fairness.

## 5. What is proved

All theorems are for every value of the constants that satisfies the
assumptions of the component's module: that sets of threads and workers are finite,
that limits are natural numbers, that `Null` is none of the values it stands
beside. A theorem that assumes more says so below.

**GatewayJobsProofs.**
`TypeCorrect`: `Spec => []TypeOK`.
`ReportLinks`: `Spec => []ReportLinkMatchesVerdict`. The property is not
inductive: the row saved is built from `consumer.copy`, so the invariant `RowInv`
says that the copy, too, has a link exactly when it is `COMPLETED`, and that it
is not terminal. It holds for ambiguous publications as well, as the row that
`SaveFailed` writes has neither.
`ProgressIsKept`: `Spec => []ProgressKept`, for ambiguous publications as well.
The row the listener is to write is a copy read before, so `ProgressInv` says of
the copy, as of the row, that it has the images of all messages finished with; and
`PublishedInv`, that a message is about a job whose row is there.

The next four assume `~AmbiguousPublish`: a publication that is reported as failed
was not delivered. `TerminalRowsAreFinal`: `Spec => TerminalAbsorbing`. The
invariant `OwnerInv` says that a row has one
writer at a time: while a thread is between the insert and the acknowledgement
its job is not on `job.submitted`, hence no message names it, hence the listener
does not hold it; no two threads hold the same job; and the row a writer is to
write is not terminal. With `AmbiguousPublish` the first part fails, which is
the finding `gateway_publish_timeout`.
`EventLogFollows`: `[]EventLogAgrees`, by `LogInv`, which says where between two
statements row and event may differ, and whose they are then; a row whose request
raised is nobody's any more (`LeftAlone`), and as it was never published, no message
will be about it.
`OvershootIsBounded`: `[]OvershootBounded`, for any finite number of threads. By
itself it is not inductive: the active jobs and the threads at the insert are
counted together (`CountInv`), with lemmas of `CountingLemmas` for a set that
gains or loses one element. The count is below the limit at the check, so of the
threads that are past it only the others add to it.
`LifecycleImplemented`: with one thread (`OneThread`), `Spec => ImplementsLifecycle`:
every step of the gateway is a step of `JobLifecycle` or leaves its row alone.
`CheckedInv` says that what the thread has checked still holds when it inserts,
`RequestInv` that the row it writes back is that of its request. Two threads break
`CheckedInv`, which is the first of the deviations in section 3.

**CountingLemmas.**
What several modules need about sets: a set that gains or loses an element, that
is below a bound; that a set of numbers has a least element and, from it,
induction in the form of a set (`Induction`: a set of naturals that holds 0 and
with each n its successor holds all); and, by that induction, that a function on
a finite set has a sum, and what a change at one point does to it (`SumFacts`).
A fold over a sequence is, in the community modules, a choice of a function on the
sets of positions that satisfies the recursion; that there is one (`FoldExists`),
and that its value on the whole sequence is reached position by position
(`FoldChain`), is shown for a step that is given as a function.

**ImagePipelineProofs.**
`VerdictsAreJustified`: `Spec => []VerdictJustified`.
`EntriesStayIncomplete`: `Spec => []EntryIncomplete`.
The invariant relates the entry of each job, and the results the aggregator took
from it, to the topic: they are results of that job, were on `image.result`, and
are pairwise of different images. The aggregator compares a count with the
number of images; that as many results as images cover every image is the
counting lemma `CountCovers`, from the library's theorems on cardinality. It
needs the job's images to be what the tasks name, not that they are distinct:
a job with the same lid twice never completes, and so tells no lie.
`TypeCorrect`: `Spec => []TypeOK`; the counts of copies stay natural numbers
because a record that is read or committed was there.
`TasksAreAccounted`: `Spec => []TaskAccounted`, through rebalances and restarts.
It is not inductive: a commit covers every task the worker was given, not just
the last. `AccountInv` says of each worker (`Held`) that what it has not
committed is answered by a result, but for the task it is at, and that this one is
answered too when it reaches the commit; until a result is lost, or a send raises,
after which nothing is claimed.
`VerdictsAreLast`: `Spec => VerdictIsLast`, for any jobs, images and workers, an
image named twice and a job without images included. The property says that after
a verdict only late progress follows; that this is so, as long as nothing is
delivered a second time, rests on what can still be delivered. The invariant
`Once` follows a message through the stages: a job that was taken is not in its
topic (`JobOnce`); a task is still to be published, or to be taken, or held by one
worker, and has no result in any of these (`TaskOnce`); a result is the only one of
its image, and has no copy left when it is in an entry (`ResultOnce`). So when an
entry is full the job is `Settled`: none of its messages is left that the dispatcher
or the aggregator could answer. That an entry of a job with an image named twice is
never full (`FullCountDistinct`) is the pigeonhole principle. A lost message, a late
one, an exhausted retry or a raised send do not weaken the claim; a duplicate, a
rebalance or a restart end it (`Redelivered`).
`OneVerdictUnlessRedelivered`: from the same invariant, a job has one verdict as
long as no message is delivered a second time. With a duplicate it may have two,
which is among the deviations of section 3.
`RepeatedImageUnanswered`: a job whose list names an image twice has no verdict,
now or ever, with every fault. Its entry waits for as many results as the list
has entries and counts one of each image (`DistinctInv`, and the pigeonhole
principle): the price of the two counts in `aggregator.py:101` not being of the
same things.

**ArtifactLifecycleProofs.**
`InReportOwned`: `Spec => []InReportIsOwned`, with deletions, releases and evictions
that raise, and restarts. A worker that writes over a row of the report would break the lock;
the invariant says that a worker between reservation and verdict holds a
`RESERVED` row (`HoldInv`), no two the same one, and that every artifact with a
row, an object or a result has been drawn (`DrawnInv`), so that a new reservation
is of none of them.
`TypeCorrect`, `ResultsAreComplete`, `CompletedAreStored`, `OneReportEach` and
`RetentionIsBounded`: `Spec => []` of `TypeOK`, `ResultIsComplete`,
`CompletedIsStored`, `OneReportPerArtifact` and `RetentionBounded`, from one
invariant, `FullInv`. An artifact enters the queue `evicted` once and never leaves
it READY (`EvictedInv`), so an artifact that was used for a report is used up or
stranded once that is made (`ReportsInv`), and no second report has it, be it of the
same job. What a prune deletes was the oldest
of the queue when it was chosen and still is (`DoomedInv`), so what stays is the
newest (`NewestInv`). The bound holds between reports only: within one it is
`QueueBound`, one more for each product that the prune has still to look at or to
commit (`Pending`), which rests on a report having one row of a product
(`OneRowInv`); a deletion that raises leaves that one more for good.

**ProductStoreProofs.**
`TypeCorrect`, `SkipsAreSafe`, `SourcesStay` and `LeftoversAreOwned`: `Spec => []`
of `TypeOK`, `SkipIsSafe`, `TransformHasSource` and `LeftoversOwned`. The invariant
adds what a worker relies on before each call (`Relies`): the metadata from
`transform` on, the summary from `gray` on, and, before `delete_img`, that the
product is transformed, was unreadable or is unsupported; and that a product with
`gray.jpg` is whole and supported (`Whole`), which decides how one may reach the
analysis. The part about `delete_img` is what keeps a deletion from taking the
source of another worker. All steps of a worker are shown to be `Orderly`, and
`OrderlySteps` shows once that such a step keeps the invariant.

**EvaluationProofs.**
`CompletedIsTrueHolds`, `OneRecordPerJobHolds` and `SuccessIsCompleteHolds`: `Spec => []`
of `CompletedIsTrue`, `OneRecordPerJob` and `SuccessIsComplete` (the exit
code 0 says that the gateway completed a job of every group), for any number of
groups, users, faults and timeouts. The invariant says that the job a thread polls,
and the job of a record, are jobs of the thread's own group (`PolledInv`,
`RowsInv`), and that a record `COMPLETED` names a job that completed. It is kept
because the jobs only grow, keep their groups and stay `COMPLETED` (`Extends`), and
because a group has one thread, so that one record names a job.

The next three are of `RetryRecovery`, `R!Spec => []` of the property, for any plan
that `PlanAssumption` admits: groups are numbered and have images of their own, and
an operation is called more than once (three times, in the code).
`PlannedFaultsAreSurvived`: `FaultsAreSurvived`. The invariant `Survived` says
that an operation that has failed once has spent the fault of its stage, so that
the next call meets none.
`RecoveredJobsCompleted`: `RecoveredJobCompleted`, by `Recorded`: rows, lines
and the order of both are written once, of threads that had the state they say.
`RecoveryTakesTime`: `MttrPositive`, if also the stage of each fault that names
no lid is one that its group's job and images have need of (`PlanIsMet`; the
deviation in section 3 is what happens otherwise). The key is `NotAfterItsJob`:
a thread has met the faults of the stages it has passed (`Passed`), so a job
cannot complete while the fault planned for it is still to be injected, and the
row it is read from comes after (`Timed`).

The last two are of `WorkerTimeline`, `T!Spec => []` of the property, for any finite
sets of images and workers of numbered jobs and any length of the run
(`TimelineAssumption`). Both start from one invariant, `TimelineInv`, which speaks
of the messages and not of the summary: what a log says is of its job and was sent,
and what was fetched is in the log (`MessageInv`). What else it says holds as long as
no worker began one task twice: a worker tells of the beginning and of the end of a
task once (`TaskInv`), although others may tell of the same; it is at one task after
the other (`OrderInv`); at no past moment were more workers at work, as far as their
messages tell, than `peak` (`PeakInv`); and unless a message was doubled, none is
twice in a log (`OnceInv`). A restart cuts an interval short, which only lowers the
count.
Then the summary is looked at as what it is, three folds in one another, with the
lemmas on folds of `CountingLemmas`: `ParseFacts` and `ReadImages` say what is read
of any log, and `ImagesAreRealHolds` follows.
`OverlapIsRealHolds` needs two more things. Every interval of positive length has
an end and a beginning among the messages sent, and no two have the same end
(`IntervalsTold`, by induction over the rows of a log and over the logs), so the
intervals open at a time belong to different workers that were at work then
(`OpenWorkers`). And the sweep never counts more than are open at one time
(`SweepBound`): the ranks of the points are the numbers from 0, each once
(`RankFacts`, from the order being total and the pigeonhole principle), so the
count after a point is that of the intervals begun less that of those ended
(`CountPoint`); where one begins, all that ended at that time or before are already
counted out, because an end sorts before a beginning (`OpenAtStart`), and where one
ends the count only falls. A beginning that is lost, or logged after its end, makes
an empty interval, which is never open; a doubled end makes two intervals of one
worker, which is why `duplicates = 0` is asked for, and an end that is read with the
beginning of another time an interval in which the worker may have been at something
else, which is why `~again` is.

**ProjectsProofs.**
`PublishedStoredHolds`, `OwnersOnlyHolds`, `PreviewKeptHolds`, `LimitsBoundedHolds`
and `TypeOKHolds`, for any number of users, projects, requests and workers.
`PublishedStored` is not inductive: a publication keeps the paths of the row when
they equal those it read at its beginning, and passes over objects that exist. The
invariant says of every thread (`Relies`) that its user owns the project it found,
if that is still there, that each path of its publication is in storage or still
to do, that a row that had paths when it was read has paths now, and that an image
it is to give a preview has none of its own. Others keep all of that
(`Keeps`): objects stay, and a new project or image has an id that no thread holds.
`LimitsBounded` needs the counts and the threads between count and insert together
(`ProjectsCounted`, `ImagesCounted`), with three counting lemmas for a set that
shrinks, grows by one, or was just found below the limit.

**BatchNodesProofs.**
`RowsAreBackedHolds` and `TypeOKHolds`: `Spec => []` of `RowsAreBacked` and
`TypeOK`, for any number of processes of each tool and of workers of the job service
over one table and one bucket, where the run has one of each. A row is written long
after the look into storage it rests on, so the invariant says, of every process and
at every call, what is still true of the objects of its photo (`Relies`: at the
insert the image, at `mark_done` the summary and `gray.jpg`, with `rgb.jpg` found
also that, or the result). A look that misses objects only makes this less. That
survives the other processes because objects do not disappear, except a raw image by
the job service, which `faults` records (`Grows`). The other three rest on it.
`TransformedFirst`: `[]AnalysisAfterTransform`; an analysis looks at the bucket once
and works through what it found, so `HandInv` says of all photos it has in hand that
`gray.jpg` is there. `RunningHasProcess`: `[]RunningIsOwned`; `OwnedInv` gives every
running row a process that is past `mark_running`, until one dies or a statement is
lost. `ColourIsRecorded`: `[]ColourRecorded`, with one transform tool, and unless
one of the four faults it names happened (`Broken`); `gray.jpg` by which a photo
counts as transformed is stored before `rgb.jpg`, so `ColourInv` says that whenever
`gray.jpg` is there, `rgb.jpg` is, or the tool is at its upload, and that what the
tool is to record is what it stored. With two such tools one finds the `gray.jpg` of
the other, and records the row without `rgb.jpg`.

## 6. What is only model-checked

* Liveness (`EventuallyVerdict`, `EventuallyAnalyzed`): beyond the prover.

## 7. What is not modelled

* The text of messages, prompts, reports and logs; tokens and costs; the
  columns that no decision reads.
* Injected faults (`utils/eval_faults.py`) outside `RetryRecovery`: their effects
  are among the faults of the other models.
* Of the batch tools: the listing of the bucket in place of Postgres, the demo
  data, the counting tools, which only read. Of the evaluation: the reset of its
  state, the accounts in Keycloak, the functional, limits, load and idempotency
  protocols, and the layout of reports.
* The hooks of the frontend, `useJobPoller.js` and `usePds4Products.js`: one
  browser tab each, with no promise to the rest of the system.
* The shared SQLite connection (`orchtr/database.py`, `StaticPool`): sessions of
  several threads commit and roll back one another's work. `ArtifactLifecycle`
  takes each service call as atomic, so its results hold as far as calls do not
  overlap on that connection; the same holds of the statements of `Projects`.
* A restart of the gateway, which empties its tables.
* Stateless parts: proxy, security, chat, models, LangSmith and vector routes,
  the CLIP service; rendering of pages and of the PDF.

## 8. Plan

In this order:

1. `GatewayJobs`, `JobLifecycle` -- done.
2. `ImagePipeline` -- done.
3. `ArtifactLifecycle` -- done.
4. `ProductStore` -- done.
5. `Projects` -- done.
6. `BatchNodes` -- done, with Postgres.
7. `EvalRun`, `RetryRecovery`, `WorkerTimeline` -- done.
8. `SharedConnection`: sessions of two threads over one SQLite connection;
   whether what a thread committed is there.
9. `JobSystem`: `GatewayJobs` and `ImagePipeline` composed over their two
   topics, in place of `OrchestratorPublish`; the verdict published is the verdict
   stored.
10. Proofs -- done for every safety property of the passing runs. With `JobSystem`,
    that the verdict stored is `Justified`.
