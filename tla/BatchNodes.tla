----------------------------- MODULE BatchNodes -----------------------------
(***************************************************************************)
(* The batch tools: nodes/ingest/core.py and utils/ingest_pds.py bring the  *)
(* metadata and the image of each product of a range into storage and give  *)
(* it a row in the Postgres table photos; nodes/transform/core.py and       *)
(* nodes/analyze/core.py take the rows that are pending and record how each *)
(* ended.  The table is a queue without locks: who fetched a row, or died   *)
(* with it, is recorded nowhere.                                            *)
(*                                                                         *)
(* Every process runs one tool, again and again.  An object of storage and  *)
(* a row are written one after the other, and either may fail.  A worker of *)
(* the job service may work on a photo too: it makes the same objects by    *)
(* the same steps and writes the same row, but takes no row from the table, *)
(* deletes the image and keeps its own result of the analysis.  The listing *)
(* of the bucket in place of the table, without Postgres, is left out.      *)
(*                                                                         *)
(* faults records what has gone wrong so far:                               *)
(*   crash     a process died                                               *)
(*   raise     a call raised, after its retries, out of the tool's loop     *)
(*   download  an image could not be downloaded, or not be decoded, or had  *)
(*             a shape that the transformation does not know                *)
(*   pg        a statement failed, which every helper of db.py swallows     *)
(*   misread   exists said of an object that it was not there: it does so   *)
(*             whatever error the storage answers                           *)
(*   service   the job service took up a photo                              *)
(*   dry_run   an ingest was asked to upload nothing                        *)
(***************************************************************************)
EXTENDS Naturals, FiniteSets

CONSTANTS
    Photos,
    WithImg,        \* the photos whose product names an image
    WithSol,        \* those whose product has a sol
    Colour,         \* those whose image has three bands or more
    InJobs,         \* those that jobs of the service are about
    Processes,
    Role,           \* Role[p]: what process p runs
    IngestTools,    \* the tools that an ingest may be
    Order,          \* Order[f]: the sol of photo f
    Limit,          \* transform_limit and analyze_limit
    Faults,         \* the kinds of faults that may happen
    MaxKinds,       \* how many of these kinds, at most, in one behaviour
    FaultsRecur,    \* whether a kind may happen more than once
    Null

FaultKinds == {"crash", "raise", "download", "pg", "misread", "service", "dry_run"}

ASSUME BatchAssumption ==
    /\ WithImg \subseteq Photos /\ WithSol \subseteq Photos /\ Colour \subseteq WithImg
    /\ InJobs \subseteq WithImg
    /\ Role \in [Processes -> {"ingest", "transform", "analyze", "service"}]
    /\ IngestTools \subseteq {"ingest_core", "ingest_pds", "dry_run"}
    /\ Order \in [Photos -> Nat]
    /\ Limit \in Nat \ {0}
    /\ Faults \subseteq FaultKinds /\ MaxKinds \in Nat /\ FaultsRecur \in BOOLEAN
    /\ Null \notin Photos

VARIABLES
    row,        \* the table photos: row[f], or Null
    store,      \* store[f]: the objects of photo f in the bucket
    proc,       \* the processes
    faults

vars == <<row, store, proc, faults>>

Objects == {"json", "img", "summary", "gray", "rgb", "result"}
Status == {"pending", "running", "done", "failed"}
Row == [source : BOOLEAN, rgb : BOOLEAN, transform : Status, analysis : Status]

Idle == [pc |-> "idle", photo |-> Null, todo |-> {}, found |-> FALSE, tool |-> Null]

Init ==
    /\ row = [f \in Photos |-> Null]
    /\ store = [f \in Photos |-> {}]
    /\ proc = [p \in Processes |-> Idle]
    /\ faults = {}

At(p, pc) == proc[p].pc = pc
Starts(p, role) == Role[p] = role /\ At(p, "idle")
Tool(p) == proc[p].tool
Photo(p) == proc[p].photo
Has(f, object) == object \in store[f]

Goto(p, pc) == proc' = [proc EXCEPT ![p].pc = pc]
Note(p, pc, found) == proc' = [proc EXCEPT ![p] = [@ EXCEPT !.pc = pc, !.found = found]]
Ends(p) == proc' = [proc EXCEPT ![p] = Idle]

\* Definitions named Mutant... are wrong variants of the definition they precede;
\* no specification uses them.  Each shows that a property can fail.

\* The first call of a tool about a photo.
First == [ingest |-> "look", transform |-> "check_gray", analyze |-> "check_result",
          service |-> "ingest_one"]

\* The loop goes on with the first of the photos S, or the tool ends.
Run(p, tool, S) ==
    IF S = {} THEN Ends(p)
    ELSE \E f \in S :
           /\ \A g \in S : Order[f] <= Order[g]
           /\ proc' = [proc EXCEPT ![p] = [pc |-> First[Role[p]], photo |-> f,
                                           todo |-> S \ {f}, found |-> FALSE, tool |-> tool]]

Proceed(p, S) == Run(p, Tool(p), S)

Put(p, object) == store' = [store EXCEPT ![Photo(p)] = @ \cup {object}]

Fault(kind) ==
    /\ kind \in Faults /\ (FaultsRecur \/ kind \notin faults)
    /\ faults' = faults \cup {kind} /\ Cardinality(faults') <= MaxKinds

\* storage.exists asked about some objects: what it says is there is there, but an
\* error hides the rest.
Answer(p, objects, seen) ==
    /\ seen \subseteq objects \cap store[Photo(p)]
    /\ IF seen = objects \cap store[Photo(p)] THEN UNCHANGED faults ELSE Fault("misread")

\* An UPDATE of the photo's row, which matches nothing without one, or
\* fails and is swallowed.
Update(p, new) ==
    \/ /\ row' = IF row[Photo(p)] # Null THEN [row EXCEPT ![Photo(p)] = new]
                 ELSE row
       /\ UNCHANGED faults
    \/ Fault("pg") /\ UNCHANGED row

----------------------------------------------------------------------------
(* Ingest *)

\* Any part of the product stream may be the range.
StartIngest(p) ==
    /\ Starts(p, "ingest")
    /\ \E tool \in IngestTools, S \in (SUBSET Photos) \ {{}} :
         /\ Run(p, tool, S)
         /\ IF tool = "dry_run" THEN Fault("dry_run") ELSE UNCHANGED faults
    /\ UNCHANGED <<row, store>>

\* The call after the metadata, where the image was found or not.
AfterJson(p, found) == IF Photo(p) \in WithImg /\ ~found THEN "fetch" ELSE "insert"

\* A product with its metadata in storage counts as ingested.
MutantLookUp(p) ==
    /\ At(p, "look")
    /\ IF Has(Photo(p), "json") THEN Proceed(p, proc[p].todo)
                                ELSE Note(p, "upload_json", Has(Photo(p), "img"))
    /\ UNCHANGED <<row, store, faults>>

\* storage.exists for the metadata and the image, before either is put.
LookUp(p) ==
    /\ At(p, "look")
    /\ \E seen \in SUBSET {"json", "img"} :
         /\ Answer(p, {"json", "img"}, seen)
         /\ \/ "json" \in seen /\ Goto(p, AfterJson(p, "img" \in seen))
            \/ "json" \notin seen /\ Note(p, "upload_json", "img" \in seen)
    /\ UNCHANGED <<row, store>>

UploadJson(p) ==
    /\ At(p, "upload_json") /\ Tool(p) # "dry_run"
    /\ Put(p, "json")
    /\ Goto(p, AfterJson(p, proc[p].found))
    /\ UNCHANGED <<row, faults>>

\* A row is written for a product whose image could not be fetched.
MutantFetchImg(p) ==
    /\ At(p, "fetch") /\ Tool(p) # "dry_run"
    /\ \/ Put(p, "img") /\ Goto(p, "insert") /\ UNCHANGED faults
       \/ Fault("download") /\ Goto(p, "insert") /\ UNCHANGED store
    /\ UNCHANGED row

\* The image is downloaded and put, unless it has appeared meanwhile.  A failed
\* download takes the product out of this run, without a row.
FetchImg(p) ==
    /\ At(p, "fetch") /\ Tool(p) # "dry_run"
    /\ \/ Put(p, "img") /\ Goto(p, "insert") /\ UNCHANGED faults
       \/ Fault("download") /\ Proceed(p, proc[p].todo) /\ UNCHANGED store
    /\ UNCHANGED row

\* In ingest_core a failed upload of the image is like a failed download.
UploadImgFails(p) ==
    /\ At(p, "fetch") /\ Tool(p) = "ingest_core"
    /\ Fault("download")
    /\ Proceed(p, proc[p].todo)
    /\ UNCHANGED <<row, store>>

\* --dry-run prints what it would upload, and goes on to the row.
DryRun(p) ==
    /\ Tool(p) = "dry_run"
    /\ \/ At(p, "upload_json") /\ Goto(p, AfterJson(p, proc[p].found))
       \/ At(p, "fetch") /\ Goto(p, "insert")
    /\ UNCHANGED <<row, store, faults>>

\* ensure_photo_row_if_missing: ON CONFLICT DO NOTHING, errors swallowed.
EnsurePhotoRow(p) ==
    /\ At(p, "insert")
    /\ \/ /\ row' = IF row[Photo(p)] # Null THEN row
                    ELSE [row EXCEPT ![Photo(p)] =
                            [source |-> Photo(p) \in WithImg, rgb |-> FALSE,
                             transform |-> "pending", analysis |-> "pending"]]
          /\ UNCHANGED faults
       \/ Fault("pg") /\ UNCHANGED row
    /\ Proceed(p, proc[p].todo)
    /\ UNCHANGED store

----------------------------------------------------------------------------
(* Transform *)

\* ORDER BY sol LIMIT n, ties in any order.
Batches(S) ==
    {B \in (SUBSET S) \ {{}} :
       /\ Cardinality(B) = Limit \/ (B = S /\ Cardinality(B) < Limit)
       /\ \A f \in B, g \in S \ B : Order[f] <= Order[g]}

\* pg_fetch_pending.
Untransformed ==
    {f \in Photos : row[f] # Null /\ row[f].transform = "pending" /\ row[f].source}

FetchPending(p) ==
    /\ Starts(p, "transform")
    /\ \E S \in Batches(Untransformed) : Proceed(p, S)
    /\ UNCHANGED <<row, store, faults>>

\* gray.jpg is the sign that the photo is transformed; whether it has an
\* rgb.jpg is recorded as exists says now.
CheckGray(p) ==
    /\ At(p, "check_gray")
    /\ \E seen \in SUBSET {"gray", "rgb"} :
         /\ Answer(p, {"gray", "rgb"}, seen)
         /\ \/ "gray" \in seen /\ Note(p, "mark_done", "rgb" \in seen)
            \/ "gray" \notin seen /\ Goto(p, "download")
    /\ UNCHANGED <<row, store>>

Download(p) ==
    /\ At(p, "download")
    /\ \/ Has(Photo(p), "img") /\ Goto(p, "upload_summary") /\ UNCHANGED faults
       \/ ~Has(Photo(p), "img") /\ Goto(p, "mark_failed") /\ UNCHANGED faults
       \/ Has(Photo(p), "img") /\ Fault("download") /\ Goto(p, "mark_failed")
    /\ UNCHANGED <<row, store>>

UploadSummary(p) ==
    /\ At(p, "upload_summary")
    /\ Put(p, "summary")
    /\ Goto(p, "upload_gray")
    /\ UNCHANGED <<row, faults>>

\* rgb.jpg is left to the next run.
MutantUploadGray(p) ==
    /\ At(p, "upload_gray")
    /\ Put(p, "gray")
    /\ Goto(p, "mark_done")
    /\ UNCHANGED <<row, faults>>

UploadGray(p) ==
    /\ At(p, "upload_gray")
    /\ Put(p, "gray")
    /\ Goto(p, IF Photo(p) \in Colour THEN "upload_rgb" ELSE "mark_done")
    /\ UNCHANGED <<row, faults>>

UploadRgb(p) ==
    /\ At(p, "upload_rgb")
    /\ Put(p, "rgb")
    /\ Note(p, "mark_done", TRUE)
    /\ UNCHANGED <<row, faults>>

\* process_one_task returns: to the loop, or in a worker to run_transform_one.
Transformed(p) ==
    IF Role[p] = "service" THEN Goto(p, "delete_img") ELSE Proceed(p, proc[p].todo)

MarkDone(p) ==
    /\ At(p, "mark_done")
    /\ Update(p, [row[Photo(p)] EXCEPT !.transform = "done", !.rgb = proc[p].found])
    /\ Transformed(p)
    /\ UNCHANGED store

MarkFailed(p) ==
    /\ At(p, "mark_failed")
    /\ Update(p, [row[Photo(p)] EXCEPT !.transform = "failed"])
    /\ Transformed(p)
    /\ UNCHANGED store

----------------------------------------------------------------------------
(* Analyze *)

\* The transformation is not waited for.
MutantUnanalyzed ==
    {f \in Photos : row[f] # Null /\ row[f].analysis = "pending" /\ f \in WithSol}

\* pg_fetch_pending_analysis.
Unanalyzed ==
    {f \in Photos : /\ row[f] # Null /\ row[f].analysis = "pending"
                    /\ row[f].transform = "done" /\ f \in WithSol}

FetchPendingAnalysis(p) ==
    /\ Starts(p, "analyze")
    /\ \E S \in Batches(Unanalyzed) : Proceed(p, S)
    /\ UNCHANGED <<row, store, faults>>

CheckResult(p) ==
    /\ At(p, "check_result")
    /\ \E seen \in SUBSET {"result"} :
         /\ Answer(p, {"result"}, seen)
         /\ Goto(p, IF seen = {} THEN "mark_running" ELSE "mark_analyzed")
    /\ UNCHANGED <<row, store>>

MarkAnalysisRunning(p) ==
    /\ At(p, "mark_running")
    /\ Update(p, [row[Photo(p)] EXCEPT !.analysis = "running"])
    /\ Goto(p, "analyze")
    /\ UNCHANGED store

\* A worker's result is an object of its job.
PutResult(p) == IF Role[p] = "service" THEN UNCHANGED store ELSE Put(p, "result")

\* rgb.jpg or gray.jpg is downloaded, the model called, the result stored.  Any
\* exception is caught, and the last upload may have stored it all the same.
AnalyzePhoto(p) ==
    /\ At(p, "analyze")
    /\ \/ \E seen \in SUBSET {"gray", "rgb"} :
            /\ Answer(p, {"gray", "rgb"}, seen)
            /\ \/ seen # {} /\ PutResult(p) /\ Goto(p, "mark_analyzed")
               \/ seen = {} /\ Goto(p, "mark_unanalyzed") /\ UNCHANGED store
       \/ /\ Has(Photo(p), "gray") /\ Fault("download") /\ Goto(p, "mark_unanalyzed")
          /\ PutResult(p) \/ UNCHANGED store
    /\ UNCHANGED row

\* The row is left as it is when there is a result already.
MutantMarkAnalysisDone(p) ==
    /\ At(p, "mark_analyzed")
    /\ Proceed(p, proc[p].todo)
    /\ UNCHANGED <<row, store, faults>>

MarkAnalysisDone(p) ==
    /\ At(p, "mark_analyzed")
    /\ Update(p, [row[Photo(p)] EXCEPT !.analysis = "done"])
    /\ Proceed(p, proc[p].todo)
    /\ UNCHANGED store

MarkAnalysisFailed(p) ==
    /\ At(p, "mark_unanalyzed")
    /\ Update(p, [row[Photo(p)] EXCEPT !.analysis = "failed"])
    /\ Proceed(p, proc[p].todo)
    /\ UNCHANGED store

----------------------------------------------------------------------------
(* A worker of the job service *)

StartJob(p) ==
    /\ Starts(p, "service")
    /\ Fault("service")
    /\ \E f \in InJobs : Run(p, Null, {f})
    /\ UNCHANGED <<row, store>>

\* run_analyze_one: an artifact of the job's project may be there to be used, or
\* the key of the model be missing.
AnalyzeOne(p) == Goto(p, "mark_running") \/ Ends(p)

\* run_ingest_one; a failure ends the work on the photo (ToolDies).
IngestOne(p) ==
    /\ At(p, "ingest_one")
    /\ \E seen \in SUBSET {"gray"} :
         /\ Answer(p, {"gray"}, seen)
         /\ \/ seen # {} /\ AnalyzeOne(p) /\ UNCHANGED store
            \/ seen = {} /\ Put(p, "img") /\ Goto(p, "check_gray")
    /\ UNCHANGED row

\* run_transform_one deletes the image, if the storage lets it, whatever came of
\* the transformation.  An error ends the work; the analysis follows after a
\* success, and after a shape that the transformation does not know.
DeleteImg(p) ==
    /\ At(p, "delete_img")
    /\ store' = [store EXCEPT ![Photo(p)] = @ \ {"img"}] \/ UNCHANGED store
    /\ AnalyzeOne(p)
    /\ UNCHANGED <<row, faults>>

----------------------------------------------------------------------------
(* What ends a tool *)

\* The calls that raise out of the tool: a look into storage and an upload.
MayRaise(p) ==
    /\ proc[p].pc \in {"look", "upload_json", "fetch", "check_gray", "upload_summary",
                      "upload_gray", "upload_rgb", "check_result", "ingest_one"}
    /\ Tool(p) = "ingest_core" => proc[p].pc # "fetch"

\* The tool ends before its list does: by an exception, or because its process
\* dies, which at a call that may raise comes to the same.
ToolDies(p) ==
    /\ proc[p].pc # "idle"
    /\ Fault(IF MayRaise(p) THEN "raise" ELSE "crash")
    /\ Ends(p)
    /\ UNCHANGED <<row, store>>

----------------------------------------------------------------------------

Ingest(p) ==
    \/ StartIngest(p) \/ LookUp(p) \/ UploadJson(p) \/ FetchImg(p) \/ UploadImgFails(p)
    \/ DryRun(p) \/ EnsurePhotoRow(p)

Transform(p) ==
    \/ FetchPending(p) \/ CheckGray(p) \/ Download(p)
    \/ UploadSummary(p) \/ UploadGray(p) \/ UploadRgb(p) \/ MarkDone(p) \/ MarkFailed(p)

Analyze(p) ==
    \/ FetchPendingAnalysis(p) \/ CheckResult(p) \/ MarkAnalysisRunning(p) \/ AnalyzePhoto(p)
    \/ MarkAnalysisDone(p) \/ MarkAnalysisFailed(p)

Service(p) == StartJob(p) \/ IngestOne(p) \/ DeleteImg(p)

Next ==
    \E p \in Processes :
        Ingest(p) \/ Transform(p) \/ Analyze(p) \/ Service(p) \/ ToolDies(p)

Spec == Init /\ [][Next]_vars

Are(role) == {p \in Processes : Role[p] = role}

\* A tool that was started runs to its end, each tool is started again whenever
\* it has something to do, and the ingest again and again over all products:
\* nothing is promised by a tool that nobody starts, and nothing asked of the service.
FairSpec ==
    /\ Spec
    /\ \A p \in Are("transform") : WF_vars(Transform(p))
    /\ \A p \in Are("analyze") : WF_vars(Analyze(p))
    /\ \A p \in Are("ingest") :
         /\ WF_vars(Ingest(p))
         /\ SF_vars(/\ StartIngest(p) /\ proc'[p].tool # "dry_run"
                    /\ {proc'[p].photo} \cup proc'[p].todo = Photos)

----------------------------------------------------------------------------
(* Properties *)

\* The shape of every variable.
TypeOK ==
    /\ row \in [Photos -> Row \cup {Null}]
    /\ store \in [Photos -> SUBSET Objects]
    /\ \A p \in Processes : /\ proc[p].photo \in Photos \cup {Null}
                            /\ proc[p].todo \subseteq Photos \ {proc[p].photo}
                            /\ proc[p].found \in BOOLEAN
    /\ faults \subseteq Faults

Recorded(f) == row[f] # Null

\* The only tool of its role, so that nobody else works on what it fetched.
Only(role) == \A p, q \in Processes : Role[p] = role /\ Role[q] = role => p = q

\* The table never runs ahead of the bucket: a row names an image that was
\* stored (unless by a dry run, or deleted by the service), a transformation
\* that was made, an rgb.jpg and a result (or the service's) that are there;
\* whatever fails, dies, is misread or runs twice.
RowsAreBacked ==
    \A f \in Photos : Recorded(f) =>
        /\ row[f].source => Has(f, "img") \/ faults \cap {"service", "dry_run"} # {}
        /\ row[f].transform = "done" => Has(f, "gray") /\ Has(f, "summary")
        /\ row[f].rgb => Has(f, "rgb")
        /\ row[f].analysis = "done" => Has(f, "result") \/ "service" \in faults

Analyzing(p, f) ==
    Photo(p) = f /\ proc[p].pc \in {"analyze", "mark_analyzed", "mark_unanalyzed"}

\* analysis_status 'running' (analyze/logic.py:180) belongs to a process that is
\* at it, a tool or a worker of the service, unless one died or a statement
\* failed: nothing else ever resets it.
RunningIsOwned ==
    \A f \in Photos : Recorded(f) /\ row[f].analysis = "running" =>
        (\E p \in Processes : Analyzing(p, f)) \/ faults \cap {"crash", "pg"} # {}

\* A colour photo whose row says done has its rgb.jpg recorded, when one transform
\* tool works alone, nothing interrupts it between gray.jpg and rgb.jpg, and no
\* error of the storage hides the rgb.jpg from a later one.
ColourRecorded ==
    Only("transform") =>
    \A f \in Colour : Recorded(f) /\ row[f].transform = "done" /\ ~row[f].rgb =>
        faults \cap {"crash", "raise", "misread", "service"} # {}

\* The analysis tool takes up no photo before it is transformed, whatever fails, is
\* misread or deleted: FileNotFoundError would put it among the failed, which are
\* never fetched again.
AnalysisAfterTransform ==
    \A p \in Processes : Role[p] = "analyze" /\ At(p, "analyze") => Has(Photo(p), "gray")

\* A photo is analysed in the end by tools that are run again, although calls
\* raise out of them and statements are lost; a crash of the analysis, an object
\* that it misses and a failure that the row records are final, and so is the
\* failure of the service, which writes the row and deletes the image.
EventuallyAnalyzed ==
    \A f \in WithImg \cap WithSol :
        <>(Has(f, "result") \/
           faults \cap {"crash", "download", "misread", "service", "dry_run"} # {})

\* "DRY RUN -- nothing will be uploaded": a dry run leaves no trace by which a
\* later run of another tool could go wrong.
NoPhantomSource ==
    \A f \in Photos : Recorded(f) /\ row[f].source => Has(f, "img")

=============================================================================
