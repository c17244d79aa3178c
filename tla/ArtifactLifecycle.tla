-------------------------- MODULE ArtifactLifecycle --------------------------
(***************************************************************************)
(* The table analysis_artifacts and the result.json objects it points to    *)
(* (orchtr/services/analysis_artifacts.py), with the threads that use them: *)
(*   - a worker analysing a product reuses a READY artifact of its scope    *)
(*     (product, project, user), or reserves one, stores the analysis and   *)
(*     makes it READY (nodes/analyze/one.py)                                *)
(*   - the aggregator takes the artifacts of a job into a report, releases  *)
(*     them when the report fails, and otherwise makes them evictable and   *)
(*     prunes the oldest (messaging/aggregator.py).                         *)
(* A call of the service is one transaction, hence one action, but for      *)
(* prune_evictable, which deletes objects before it commits.                *)
(* The table is in memory: a restart empties it, while the objects and the  *)
(* results already on the topic stay.                                       *)
(***************************************************************************)
EXTENDS Naturals, Sequences, FiniteSets, SequencesExt

CONSTANTS
    Artifacts,          \* the UUIDs that reservations may draw
    Products,           \* product lids; a job analyses all of them
    Jobs,
    Project,            \* Project[j]: the project, hence the user, of job j
    Workers,
    MaxEvictable,       \* MAX_EVICTABLE_PER_PRODUCT
    MaxFaults,          \* bound on the deletions, releases and evictions that
                        \* raise, and the restarts
    Null

ASSUME LifecycleAssumption ==
    /\ MaxEvictable \in Nat
    /\ MaxFaults \in Nat
    /\ Null \notin Artifacts

Status == {"RESERVED", "READY", "IN_REPORT", "EVICTABLE", "FAILED"}

ASSUME NullAssumption == Null \notin Status

VARIABLES
    status,     \* status[a] of the row of artifact a, or Null without a row
    owner,      \* owner[a]: the product and project the row was reserved for
    evicted,    \* the artifacts made evictable, oldest evictable_at first
    stored,     \* the artifacts whose result.json is in storage
    drawn,      \* the UUIDs drawn so far
    worker,     \* the worker threads
    results,    \* image.result messages with an analysis
    aggregator, \* the aggregator thread
    uses,       \* in how many uses, whose upload returned, an artifact is: 0, 1,
                \* or 2 for more
    stranded,   \* rows of reports whose release, or eviction, raised
    deleteFailures, \* how many calls of storage.delete_object raised
    lockFailures,   \* how many releases and evictions raised
    crashes

tableVars == <<status, owner, evicted>>
faultVars == <<stranded, deleteFailures, lockFailures, crashes>>
vars == <<tableVars, stored, drawn, worker, results, aggregator, uses, faultVars>>

IdleWorker == [pc |-> "idle", job |-> Null, product |-> Null, artifact |-> Null]
IdleAggregator == [pc |-> "idle", job |-> Null, ids |-> {}, products |-> {},
                   doomed |-> {}, deleting |-> {}]

Init ==
    /\ status = [a \in Artifacts |-> Null]
    /\ owner = [a \in Artifacts |-> Null]
    /\ evicted = <<>>
    /\ stored = {}
    /\ drawn = {}
    /\ worker = [w \in Workers |-> IdleWorker]
    /\ results = {}
    /\ aggregator = IdleAggregator
    /\ uses = [a \in Artifacts |-> 0]
    /\ stranded = {}
    /\ deleteFailures = 0
    /\ lockFailures = 0
    /\ crashes = 0

MayFault == deleteFailures + lockFailures + crashes < MaxFaults

\* Every row of S that has the status old gets the status new.
Rewrite(S, old, new) ==
    status' = [a \in Artifacts |-> IF a \in S /\ status[a] = old THEN new ELSE status[a]]

----------------------------------------------------------------------------
(* run_analyze_one *)

StartAnalysis(w, j, p) ==
    /\ worker[w].pc = "idle"
    /\ worker' = [worker EXCEPT ![w] = [pc |-> "lookup", job |-> j, product |-> p,
                                        artifact |-> Null]]
    /\ UNCHANGED <<tableVars, stored, drawn, results, aggregator, uses, faultVars>>

\* Definitions named Mutant... are wrong variants of the definition they precede;
\* no specification uses them.  Each shows that a property can fail.

\* Of any product and project.
MutantReusable(w) == {a \in stored : status[a] = "READY"}

\* ready_artifacts_for_scope, and storage.exists on each.
Reusable(w) ==
    {a \in stored : /\ status[a] = "READY"
                    /\ owner[a] = [product |-> worker[w].product,
                                   project |-> Project[worker[w].job]]}

ReuseArtifact(w) ==
    /\ worker[w].pc = "lookup"
    /\ \E a \in Reusable(w) :
         worker' = [worker EXCEPT ![w].pc = "publish", ![w].artifact = a]
    /\ UNCHANGED <<tableVars, stored, drawn, results, aggregator, uses, faultVars>>

\* The analysis starts without a reservation.
MutantNoReusable(w) ==
    /\ worker[w].pc = "lookup"
    /\ Reusable(w) = {}
    /\ worker' = [worker EXCEPT ![w].pc = "analyze"]
    /\ UNCHANGED <<tableVars, stored, drawn, results, aggregator, uses, faultVars>>

NoReusable(w) ==
    /\ worker[w].pc = "lookup"
    /\ Reusable(w) = {}
    /\ worker' = [worker EXCEPT ![w].pc = "reserve"]
    /\ UNCHANGED <<tableVars, stored, drawn, results, aggregator, uses, faultVars>>

ReserveAnalysis(w) ==
    /\ worker[w].pc = "reserve"
    /\ \E a \in Artifacts \ drawn :
         /\ drawn' = drawn \cup {a}
         /\ status' = [status EXCEPT ![a] = "RESERVED"]
         /\ owner' = [owner EXCEPT ![a] = [product |-> worker[w].product,
                                           project |-> Project[worker[w].job]]]
         /\ worker' = [worker EXCEPT ![w].pc = "analyze", ![w].artifact = a]
    /\ UNCHANGED <<evicted, stored, results, aggregator, uses, faultVars>>

\* An upload that failed counts as done.
MutantAnalyzeOneTask(w) ==
    /\ worker[w].pc = "analyze"
    /\ stored' = stored \/ stored' = stored \cup {worker[w].artifact}
    /\ worker' = [worker EXCEPT ![w].pc = "mark_ready"]
    /\ UNCHANGED <<tableVars, drawn, results, aggregator, uses, faultVars>>

\* analyze_one_task stores the result and returns, or returns an error; the
\* upload that failed last may have stored it all the same.
AnalyzeOneTask(w) ==
    /\ worker[w].pc = "analyze"
    /\ \/ /\ stored' = stored \cup {worker[w].artifact}
          /\ \E pc \in {"mark_ready", "mark_failed"} :
               worker' = [worker EXCEPT ![w].pc = pc]
       \/ /\ worker' = [worker EXCEPT ![w].pc = "mark_failed"]
          /\ UNCHANGED stored
    /\ UNCHANGED <<tableVars, drawn, results, aggregator, uses, faultVars>>

MarkReady(w) ==
    /\ worker[w].pc = "mark_ready"
    /\ status' = [status EXCEPT ![worker[w].artifact] = "READY"]
    /\ worker' = [worker EXCEPT ![w].pc = "publish"]
    /\ UNCHANGED <<owner, evicted, stored, drawn, results, aggregator, uses, faultVars>>

\* The worker then publishes an error, which carries no artifact.
MarkFailed(w) ==
    /\ worker[w].pc = "mark_failed"
    /\ status' = [status EXCEPT ![worker[w].artifact] = "FAILED"]
    /\ worker' = [worker EXCEPT ![w] = IdleWorker]
    /\ UNCHANGED <<owner, evicted, stored, drawn, results, aggregator, uses, faultVars>>

PublishResult(w) ==
    /\ worker[w].pc = "publish"
    /\ results' = results \cup {[job |-> worker[w].job, product |-> worker[w].product,
                                 artifact |-> worker[w].artifact]}
    /\ worker' = [worker EXCEPT ![w] = IdleWorker]
    /\ UNCHANGED <<tableVars, stored, drawn, aggregator, uses, faultVars>>

----------------------------------------------------------------------------
(* _handle_image_result, from the last result of a job on *)

\* A round of results of job j is complete: one for each product, some of them
\* perhaps an error.  Duplicate results make a second round possible.
BeginReport(j) ==
    /\ aggregator.pc = "idle"
    /\ \E S \in SUBSET {r \in results : r.job = j} :
         /\ S # {}
         /\ \A r, q \in S : r.product = q.product => r = q
         /\ aggregator' = [IdleAggregator EXCEPT !.pc = "mark", !.job = j,
                                                 !.ids = {r.artifact : r \in S}]
    /\ UNCHANGED <<tableVars, stored, drawn, worker, results, uses, faultVars>>

\* The rows of the report: an id without a row is passed over.
Rows == {a \in aggregator.ids : status[a] # Null}

Goto(pc) == aggregator' = [aggregator EXCEPT !.pc = pc]
Conclude == aggregator' = IdleAggregator

\* The check for READY is left out.
MutantMarkInReport ==
    /\ aggregator.pc = "mark"
    /\ status' = [a \in Artifacts |-> IF a \in Rows THEN "IN_REPORT" ELSE status[a]]
    /\ Goto("render")
    /\ UNCHANGED <<owner, evicted, stored, drawn, worker, results, uses, faultVars>>

\* mark_in_report raises at the first row that is not READY, before its commit.
MarkInReport ==
    /\ aggregator.pc = "mark"
    /\ IF \A a \in Rows : status[a] = "READY"
       THEN Rewrite(Rows, "READY", "IN_REPORT") /\ Goto("render")
       ELSE UNCHANGED status /\ Conclude
    /\ UNCHANGED <<owner, evicted, stored, drawn, worker, results, uses, faultVars>>

RenderReport ==
    /\ aggregator.pc = "render"
    /\ \/ /\ uses' = [a \in Artifacts |-> IF a \in aggregator.ids /\ uses[a] < 2
                                            THEN uses[a] + 1 ELSE uses[a]]
          /\ Goto("evict")
       \/ Goto("release") /\ UNCHANGED uses
    /\ UNCHANGED <<tableVars, stored, drawn, worker, results, faultVars>>

\* The handler gives up with its rows still IN_REPORT.
Strand ==
    /\ MayFault
    /\ lockFailures' = lockFailures + 1
    /\ stranded' = stranded \cup Rows
    /\ Conclude
    /\ UNCHANGED <<status, deleteFailures, crashes>>

\* A failed report keeps its artifacts.
MutantReleaseToReady ==
    /\ aggregator.pc = "release"
    /\ Conclude
    /\ UNCHANGED <<tableVars, stored, drawn, worker, results, uses, faultVars>>

\* release_to_ready, whose exception is caught and told in the FAILED status.
ReleaseToReady ==
    /\ aggregator.pc = "release"
    /\ \/ /\ Rewrite(Rows, "IN_REPORT", "READY")
          /\ Conclude
          /\ UNCHANGED faultVars
       \/ Strand
    /\ UNCHANGED <<owner, evicted, stored, drawn, worker, results, uses>>

\* mark_evictable_and_prune up to its commit; it raises at a row that is not
\* IN_REPORT.  The rows get the same evictable_at; they are of different products.
\* get_storage_adapter(), which asks for the bucket, or the commit may raise: the
\* handler publishes FAILED and returns, without a release.
MarkEvictable ==
    /\ aggregator.pc = "evict"
    /\ \/ /\ \A a \in Rows : status[a] = "IN_REPORT"
          /\ Rewrite(Rows, "IN_REPORT", "EVICTABLE")
          /\ evicted' = evicted \o SetToSeq(Rows)
          /\ aggregator' = [aggregator EXCEPT
                               !.pc = "prune",
                               !.products = {owner[a].product : a \in Rows}]
          /\ UNCHANGED faultVars
       \/ /\ \E a \in Rows : status[a] # "IN_REPORT"
          /\ Conclude
          /\ UNCHANGED <<status, evicted, faultVars>>
       \/ Strand /\ UNCHANGED evicted
    /\ UNCHANGED <<owner, stored, drawn, worker, results, uses>>

\* The places in evicted of the evictable rows of product p.
Evictable(p) ==
    {i \in DOMAIN evicted : status[evicted[i]] = "EVICTABLE" /\ owner[evicted[i]].product = p}

\* Newest first.
MutantOldest(S, n) ==
    {D \in SUBSET S : Cardinality(D) = n /\ \A i \in D, k \in S \ D : i > k}

\* The n oldest of the places S: order_by and slice.
Oldest(S, n) ==
    {D \in SUBSET S : Cardinality(D) = n /\ \A i \in D, k \in S \ D : i < k}

\* prune_evictable of the next product: the query.
StartPrune ==
    /\ aggregator.pc = "prune"
    /\ \E p \in aggregator.products :
         LET excess == Cardinality(Evictable(p)) - MaxEvictable
         IN  \/ /\ excess <= 0
                /\ aggregator' = [aggregator EXCEPT !.products = @ \ {p}]
             \/ /\ excess > 0
                /\ \E D \in Oldest(Evictable(p), excess) :
                     aggregator' = [aggregator EXCEPT !.products = @ \ {p}, !.pc = "delete",
                                                      !.doomed = D, !.deleting = D]
    /\ UNCHANGED <<tableVars, stored, drawn, worker, results, uses, faultVars>>

\* storage.delete_object, oldest first; its exception ends the handler and leaves
\* the rows of what was deleted EVICTABLE.
DeleteObject ==
    /\ aggregator.pc = "delete"
    /\ \E i \in aggregator.deleting :
         /\ \A k \in aggregator.deleting : i <= k
         /\ \/ /\ stored' = stored \ {evicted[i]}
               /\ aggregator' = [aggregator EXCEPT !.deleting = @ \ {i}]
               /\ UNCHANGED deleteFailures
            \/ /\ MayFault
               /\ deleteFailures' = deleteFailures + 1
               /\ Conclude
               /\ UNCHANGED stored
    /\ UNCHANGED <<tableVars, drawn, worker, results, uses, stranded, lockFailures,
                   crashes>>

Doomed == {evicted[i] : i \in aggregator.doomed}

CommitPrune ==
    /\ aggregator.pc = "delete"
    /\ aggregator.deleting = {}
    /\ Rewrite(Doomed, "EVICTABLE", "FAILED")
    /\ aggregator' = [aggregator EXCEPT !.pc = "prune", !.doomed = {}]
    /\ UNCHANGED <<owner, evicted, stored, drawn, worker, results, uses, faultVars>>

FinishReport ==
    /\ aggregator.pc = "prune"
    /\ aggregator.products = {}
    /\ Conclude
    /\ UNCHANGED <<tableVars, stored, drawn, worker, results, uses, faultVars>>

----------------------------------------------------------------------------
Crash ==
    /\ MayFault
    /\ crashes' = crashes + 1
    /\ status' = [a \in Artifacts |-> Null]
    /\ owner' = [a \in Artifacts |-> Null]
    /\ evicted' = <<>>
    /\ worker' = [w \in Workers |-> IdleWorker]
    /\ aggregator' = IdleAggregator
    /\ stranded' = {}
    /\ UNCHANGED <<stored, drawn, results, uses, deleteFailures, lockFailures>>

Analyze(w) ==
    \/ \E j \in Jobs, p \in Products : StartAnalysis(w, j, p)
    \/ ReuseArtifact(w) \/ NoReusable(w) \/ ReserveAnalysis(w) \/ AnalyzeOneTask(w)
    \/ MarkReady(w) \/ MarkFailed(w) \/ PublishResult(w)

Report ==
    \/ \E j \in Jobs : BeginReport(j)
    \/ MarkInReport \/ RenderReport \/ ReleaseToReady
    \/ MarkEvictable \/ StartPrune \/ DeleteObject \/ CommitPrune \/ FinishReport

Next == (\E w \in Workers : Analyze(w)) \/ Report \/ Crash

Spec == Init /\ [][Next]_vars

----------------------------------------------------------------------------
(* Properties *)

TypeOK ==
    /\ status \in [Artifacts -> Status \cup {Null}]
    /\ owner \in [Artifacts -> [product: Products, project: {Project[j] : j \in Jobs}]
                               \cup {Null}]
    /\ evicted \in Seq(Artifacts)
    /\ stored \subseteq Artifacts /\ drawn \subseteq Artifacts
    /\ worker \in [Workers -> [pc: {"idle", "lookup", "reserve", "analyze", "mark_ready",
                                    "mark_failed", "publish"},
                               job: Jobs \cup {Null}, product: Products \cup {Null},
                               artifact: Artifacts \cup {Null}]]
    /\ results \subseteq [job: Jobs, product: Products, artifact: Artifacts]
    /\ aggregator.pc \in {"idle", "mark", "render", "release", "evict", "prune", "delete"}
    /\ aggregator.ids \subseteq Artifacts
    /\ aggregator.products \subseteq Products
    /\ uses \in [Artifacts -> 0..2]
    /\ stranded \subseteq Artifacts
    /\ deleteFailures \in Nat /\ lockFailures \in Nat /\ crashes \in Nat
    /\ deleteFailures + lockFailures + crashes <= MaxFaults

\* The rows of the report being made, from the commit of mark_in_report on.
InHand == IF aggregator.pc \in {"render", "release", "evict"} THEN Rows ELSE {}

\* IN_REPORT is the aggregator's lock: the rows of the report being made have it,
\* and for ever those of a report whose release or eviction raised.  None else is
\* left behind by a report that failed, and none is taken, from either, by
\* another job of the project or by a worker.
InReportIsOwned ==
    /\ {a \in Artifacts : status[a] = "IN_REPORT"} = InHand \cup stranded
    /\ InHand \cap stranded = {}

\* An artifact enters one report only, and that report once: what was made
\* evictable, or could not be, is never READY again, whatever duplicates of its
\* result arrive, whichever jobs share it, and if the job itself is reported twice.
\* (After a restart the row is gone and the promise with it.)
OneReportPerArtifact ==
    crashes = 0 => \A a \in Artifacts : uses[a] <= 1

\* A row that workers may reuse or a report is using has its object; so has an
\* evictable one, except while the prune that is to fail it is at work, or when a
\* deletion has raised in the middle of a prune.
CompletedIsStored ==
    \A a \in Artifacts :
        /\ status[a] \in {"READY", "IN_REPORT"} => a \in stored
        /\ status[a] = "EVICTABLE" =>
             \/ a \in stored
             \/ aggregator.pc = "delete" /\ a \in Doomed
             \/ deleteFailures > 0

\* Between two reports a product has at most MaxEvictable evictable artifacts, and
\* one more for each deletion that raised; they are the newest ones.
RetentionBounded ==
    aggregator.pc = "idle" =>
        \A p \in Products :
            /\ Cardinality(Evictable(p)) <= MaxEvictable + deleteFailures
            /\ \A i, k \in DOMAIN evicted :
                 (i < k /\ owner[evicted[i]].product = p /\ owner[evicted[k]].product = p
                    /\ status[evicted[i]] = "EVICTABLE")
                 => status[evicted[k]] = "EVICTABLE"

\* A published result names an artifact of its own product and project that was
\* completed, and that nothing but a report has used up since: while its row
\* exists it is READY, in a report, or has been through one.
ResultIsComplete ==
    \A r \in results : LET a == r.artifact IN
        status[a] # Null =>
            /\ owner[a] = [product |-> r.product, project |-> Project[r.job]]
            /\ status[a] \in {"READY", "IN_REPORT"} \/ a \in Range(evicted)
=============================================================================
