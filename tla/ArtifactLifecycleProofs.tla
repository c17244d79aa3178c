----------------------- MODULE ArtifactLifecycleProofs -----------------------
(***************************************************************************)
(* The safety of the artifact table, for any artifacts, products, jobs and  *)
(* workers, whatever deletions, releases and evictions raise and however    *)
(* often the process restarts.                                              *)
(* The proof has two layers.                                                *)
(*   - Inv: IN_REPORT is the lock of the report being made.  The aggregator *)
(*     alone cannot see why: a worker that writes READY or FAILED over a    *)
(*     row of the report would break the lock.  Inv says that a worker      *)
(*     writes only the row it reserved, that this row is RESERVED until     *)
(*     then, and that no two workers hold the same one, because no UUID is  *)
(*     drawn twice.                                                         *)
(*   - FullInv adds what results, storage, uses and retention need: the     *)
(*     queue of evicted rows has each once and none goes back to READY; a   *)
(*     row that a result names was completed for the scope of the result;   *)
(*     what a prune deletes is the oldest of one product; and a product is  *)
(*     over its limit only while a prune has still to look at it.           *)
(* Each step is first reduced to what it does to each variable              *)
(* (WorkerFields, ReportFields, CrashFields).                               *)
(***************************************************************************)
EXTENDS ArtifactLifecycle, CountingLemmas

StatusType == status \in [Artifacts -> Status \cup {Null}]

WorkerType ==
    worker \in [Workers -> [pc: {"idle", "lookup", "reserve", "analyze", "mark_ready",
                                 "mark_failed", "publish"},
                            job: Jobs \cup {Null}, product: Products \cup {Null},
                            artifact: Artifacts \cup {Null}]]

AggregatorShape ==
    aggregator = [pc |-> aggregator.pc, job |-> aggregator.job, ids |-> aggregator.ids,
                  products |-> aggregator.products, doomed |-> aggregator.doomed,
                  deleting |-> aggregator.deleting]

\* The artifacts that have a row, an object, a result or a part in a report were
\* drawn by a reservation.
DrawnInv ==
    /\ drawn \subseteq Artifacts
    /\ stored \subseteq drawn
    /\ \A a \in Artifacts : status[a] # Null => a \in drawn
    /\ \A r \in results : r.artifact \in drawn
    /\ aggregator.ids \subseteq drawn
    /\ \A w \in Workers : worker[w].pc = "publish" => worker[w].artifact \in drawn

Holds(w) == worker[w].pc \in {"analyze", "mark_ready", "mark_failed"}

\* A worker between its reservation and its verdict has a row of its own.
HoldInv ==
    /\ \A w \in Workers : Holds(w) => /\ worker[w].artifact \in drawn
                                      /\ status[worker[w].artifact] = "RESERVED"
    /\ \A v, w \in Workers :
         Holds(v) /\ Holds(w) /\ worker[v].artifact = worker[w].artifact => v = w

Inv == /\ StatusType /\ WorkerType /\ AggregatorShape
       /\ DrawnInv /\ HoldInv
       /\ InReportIsOwned

\* An empty table, with nothing drawn and nobody at work, satisfies the invariant.
THEOREM InvInit == Init => Inv
<1> SUFFICES ASSUME Init PROVE Inv
  OBVIOUS
<1>1. StatusType /\ WorkerType
  BY DEF Init, StatusType, WorkerType, IdleWorker
<1>2. aggregator = IdleAggregator /\ AggregatorShape
  BY DEF Init, IdleAggregator, AggregatorShape
<1>3. DrawnInv /\ HoldInv
  BY DEF Init, DrawnInv, HoldInv, Holds, IdleWorker, IdleAggregator
<1>4. InReportIsOwned
  BY NullAssumption DEF Init, InReportIsOwned, InHand, IdleAggregator, Status
<1> QED
  BY <1>1, <1>2, <1>3, <1>4 DEF Inv

\* A worker step that neither writes the table nor changes what is held.
LEMMA LookupSteps ==
    ASSUME Inv, NEW w \in Workers,
           \/ \E j \in Jobs, p \in Products : StartAnalysis(w, j, p)
           \/ ReuseArtifact(w) \/ NoReusable(w) \/ AnalyzeOneTask(w) \/ PublishResult(w)
    PROVE  Inv'
<1> USE DEF Inv
<1>1. UNCHANGED <<tableVars, drawn, aggregator, stranded>>
  BY DEF StartAnalysis, ReuseArtifact, NoReusable, AnalyzeOneTask, PublishResult, faultVars
<1>2. StatusType' /\ AggregatorShape' /\ InReportIsOwned'
  BY <1>1 DEF StatusType, AggregatorShape, InReportIsOwned, InHand, Rows, tableVars
<1>3. CASE \E j \in Jobs, p \in Products : StartAnalysis(w, j, p)
  <2> PICK j \in Jobs, p \in Products : StartAnalysis(w, j, p)
    BY <1>3
  <2>1. /\ worker' = [worker EXCEPT ![w] = [pc |-> "lookup", job |-> j, product |-> p,
                                            artifact |-> Null]]
        /\ UNCHANGED <<stored, results>>
    BY DEF StartAnalysis
  <2>2. WorkerType'
    BY <2>1 DEF WorkerType
  <2>3. DrawnInv' /\ HoldInv'
    BY <1>1, <2>1 DEF WorkerType, DrawnInv, HoldInv, Holds, tableVars
  <2> QED
    BY <1>2, <2>2, <2>3
<1>4. CASE ReuseArtifact(w)
  <2>1. PICK a \in Reusable(w) :
          worker' = [worker EXCEPT ![w].pc = "publish", ![w].artifact = a]
    BY <1>4 DEF ReuseArtifact
  <2>2. a \in drawn /\ a \in Artifacts
    BY <2>1 DEF Reusable, DrawnInv
  <2>3. UNCHANGED <<stored, results>>
    BY <1>4 DEF ReuseArtifact
  <2>4. WorkerType'
    BY <2>1, <2>2 DEF WorkerType
  <2>5. DrawnInv' /\ HoldInv'
    BY <1>1, <2>1, <2>2, <2>3 DEF WorkerType, DrawnInv, HoldInv, Holds, tableVars
  <2> QED
    BY <1>2, <2>4, <2>5
<1>5. CASE NoReusable(w)
  <2>1. worker' = [worker EXCEPT ![w].pc = "reserve"] /\ UNCHANGED <<stored, results>>
    BY <1>5 DEF NoReusable
  <2>2. WorkerType'
    BY <2>1 DEF WorkerType
  <2>3. DrawnInv' /\ HoldInv'
    BY <1>1, <2>1 DEF WorkerType, DrawnInv, HoldInv, Holds, tableVars
  <2> QED
    BY <1>2, <2>2, <2>3
<1>6. CASE AnalyzeOneTask(w)
  <2>1. /\ worker[w].pc = "analyze"
        /\ \E pc \in {"mark_ready", "mark_failed"} : worker' = [worker EXCEPT ![w].pc = pc]
        /\ stored' = stored \/ stored' = stored \cup {worker[w].artifact}
        /\ UNCHANGED results
    BY <1>6 DEF AnalyzeOneTask
  <2>2. WorkerType'
    BY <2>1 DEF WorkerType
  <2>3. DrawnInv' /\ HoldInv'
    BY <1>1, <2>1 DEF WorkerType, DrawnInv, HoldInv, Holds, tableVars
  <2> QED
    BY <1>2, <2>2, <2>3
<1>7. CASE PublishResult(w)
  <2>1. /\ worker[w].pc = "publish"
        /\ worker' = [worker EXCEPT ![w] = IdleWorker]
        /\ results' = results \cup {[job |-> worker[w].job, product |-> worker[w].product,
                                     artifact |-> worker[w].artifact]}
        /\ UNCHANGED stored
    BY <1>7 DEF PublishResult
  <2>2. WorkerType'
    BY <2>1 DEF WorkerType, IdleWorker
  <2>3. DrawnInv' /\ HoldInv'
    BY <1>1, <2>1 DEF WorkerType, DrawnInv, HoldInv, Holds, tableVars, IdleWorker
  <2> QED
    BY <1>2, <2>2, <2>3
<1> QED
  BY <1>3, <1>4, <1>5, <1>6, <1>7

\* A reservation takes a UUID that nothing refers to.
LEMMA ReserveStep ==
    ASSUME Inv, NEW w \in Workers, ReserveAnalysis(w)
    PROVE  Inv'
<1> USE DEF Inv
<1>1. PICK a \in Artifacts \ drawn :
        /\ drawn' = drawn \cup {a}
        /\ status' = [status EXCEPT ![a] = "RESERVED"]
        /\ worker' = [worker EXCEPT ![w].pc = "analyze", ![w].artifact = a]
  BY DEF ReserveAnalysis
<1>2. UNCHANGED <<stored, results, aggregator, stranded>>
  BY DEF ReserveAnalysis, faultVars
<1>3. StatusType' /\ WorkerType' /\ AggregatorShape'
  BY <1>1, <1>2 DEF StatusType, WorkerType, AggregatorShape, Status
<1>4. DrawnInv'
  BY <1>1, <1>2 DEF DrawnInv, StatusType, WorkerType
<1>5. HoldInv'
  BY <1>1 DEF HoldInv, Holds, DrawnInv, StatusType, WorkerType
<1>6. InReportIsOwned'
  <2>1. status[a] = Null /\ a \notin aggregator.ids
    BY <1>1 DEF DrawnInv
  <2>2. /\ Rows' = Rows
        /\ {b \in Artifacts : status'[b] = "IN_REPORT"}
             = {b \in Artifacts : status[b] = "IN_REPORT"}
    BY <1>1, <1>2, <2>1, NullAssumption DEF Rows, StatusType, Status, DrawnInv
  <2> QED
    BY <1>2, <2>2 DEF InReportIsOwned, InHand
<1> QED
  BY <1>3, <1>4, <1>5, <1>6

\* The verdict of an analysis is written over a RESERVED row.
LEMMA MarkSteps ==
    ASSUME Inv, NEW w \in Workers, MarkReady(w) \/ MarkFailed(w)
    PROVE  Inv'
<1> USE DEF Inv
<1> DEFINE a == worker[w].artifact
<1>1. PICK s \in {"READY", "FAILED"} :
        /\ Holds(w)
        /\ status' = [status EXCEPT ![a] = s]
        /\ \/ worker' = [worker EXCEPT ![w].pc = "publish"]
           \/ worker' = [worker EXCEPT ![w] = IdleWorker]
        /\ UNCHANGED <<stored, drawn, results, aggregator, stranded>>
  BY DEF MarkReady, MarkFailed, Holds, faultVars
<1>2. a \in drawn /\ a \in Artifacts /\ status[a] = "RESERVED"
  BY <1>1 DEF HoldInv, DrawnInv
<1>3. StatusType' /\ WorkerType' /\ AggregatorShape'
  <2>1. StatusType'
    BY <1>1 DEF StatusType, Status
  <2>2. WorkerType'
    BY <1>1 DEF WorkerType, IdleWorker
  <2>3. AggregatorShape'
    BY <1>1 DEF AggregatorShape
  <2> QED
    BY <2>1, <2>2, <2>3
<1>4. DrawnInv'
  BY <1>1, <1>2 DEF DrawnInv, StatusType, WorkerType, IdleWorker
<1>5. \A v \in Workers : Holds(v)' => /\ v # w
                                      /\ Holds(v)
                                      /\ worker'[v].artifact = worker[v].artifact
  BY <1>1 DEF Holds, WorkerType, IdleWorker
<1>6. HoldInv'
  BY <1>1, <1>2, <1>5 DEF HoldInv, StatusType, DrawnInv
<1>7. InReportIsOwned'
  <2>1. /\ Rows' = Rows
        /\ {b \in Artifacts : status'[b] = "IN_REPORT"}
             = {b \in Artifacts : status[b] = "IN_REPORT"}
    BY <1>1, <1>2, NullAssumption DEF Rows, StatusType, Status, DrawnInv
  <2> QED
    BY <1>1, <2>1 DEF InReportIsOwned, InHand
<1> QED
  BY <1>3, <1>4, <1>6, <1>7

----------------------------------------------------------------------------
(* The aggregator *)

\* What a step of the aggregator must not do to the workers.
KeepsWorkers ==
    /\ UNCHANGED <<worker, drawn, results>>
    /\ stored' \subseteq stored
    /\ StatusType'
    /\ \A a \in Artifacts : /\ status'[a] = Null <=> status[a] = Null
                            /\ status[a] = "RESERVED" => status'[a] = "RESERVED"
    /\ aggregator'.ids \subseteq drawn

LEMMA WorkersKept ==
    ASSUME Inv, KeepsWorkers
    PROVE  WorkerType' /\ DrawnInv' /\ HoldInv'
<1>1. WorkerType' /\ DrawnInv'
  BY DEF Inv, KeepsWorkers, WorkerType, DrawnInv
<1>2. HoldInv'
  BY DEF Inv, KeepsWorkers, HoldInv, Holds, DrawnInv
<1> QED
  BY <1>1, <1>2

LEMMA RewriteKeeps ==
    ASSUME StatusType, NEW S, NEW old \in Status \ {"RESERVED"}, NEW new \in Status,
           Rewrite(S, old, new)
    PROVE  /\ StatusType'
           /\ \A a \in Artifacts : /\ status'[a] = Null <=> status[a] = Null
                                   /\ status[a] = "RESERVED" => status'[a] = "RESERVED"
                                   /\ status'[a] = IF a \in S /\ status[a] = old
                                                   THEN new ELSE status[a]
BY NullAssumption DEF StatusType, Rewrite, Status

\* What the ways to change the aggregator do to its fields.
LEMMA AggregatorFields ==
    ASSUME AggregatorShape
    PROVE  /\ \A pc : Goto(pc) => /\ AggregatorShape'
                                  /\ aggregator'.pc = pc
                                  /\ aggregator'.ids = aggregator.ids
           /\ Conclude => /\ AggregatorShape'
                          /\ aggregator'.pc = "idle"
                          /\ aggregator'.ids = {}
BY DEF AggregatorShape, Goto, Conclude, IdleAggregator

LEMMA BeginStep ==
    ASSUME Inv, NEW j \in Jobs, BeginReport(j)
    PROVE  Inv'
<1> USE DEF Inv
<1>1. PICK S \in SUBSET {r \in results : r.job = j} :
        aggregator' = [IdleAggregator EXCEPT !.pc = "mark", !.job = j,
                                             !.ids = {r.artifact : r \in S}]
  BY DEF BeginReport
<1>2. /\ aggregator.pc = "idle"
      /\ UNCHANGED <<tableVars, stored, drawn, worker, results, faultVars>>
  BY DEF BeginReport
<1>3. /\ aggregator'.pc = "mark"
      /\ aggregator'.ids = {r.artifact : r \in S}
      /\ AggregatorShape'
  BY <1>1 DEF IdleAggregator, AggregatorShape
<1>4. KeepsWorkers
  BY <1>2, <1>3 DEF KeepsWorkers, DrawnInv, StatusType, tableVars
<1>5. InReportIsOwned'
  BY <1>2, <1>3 DEF InReportIsOwned, InHand, tableVars, faultVars
<1> QED
  BY <1>2, <1>3, <1>4, <1>5, WorkersKept DEF StatusType, tableVars

LEMMA MarkInReportStep ==
    ASSUME Inv, MarkInReport
    PROVE  Inv'
<1> USE DEF Inv
<1>1. aggregator.pc = "mark" /\ UNCHANGED <<stored, drawn, worker, results, stranded>>
  BY DEF MarkInReport, faultVars
<1>2. /\ \A a \in Artifacts : status[a] = "IN_REPORT" <=> a \in stranded
      /\ stranded \subseteq Artifacts
  BY <1>1 DEF InReportIsOwned, InHand
<1>3. CASE \A a \in Rows : status[a] = "READY"
  <2>1. Rewrite(Rows, "READY", "IN_REPORT") /\ Goto("render")
    BY <1>3 DEF MarkInReport
  <2>2. /\ StatusType'
        /\ \A a \in Artifacts : /\ status'[a] = Null <=> status[a] = Null
                                /\ status[a] = "RESERVED" => status'[a] = "RESERVED"
                                /\ status'[a] = IF a \in Rows /\ status[a] = "READY"
                                                THEN "IN_REPORT" ELSE status[a]
    BY <2>1, RewriteKeeps DEF Status
  <2>3. /\ AggregatorShape' /\ aggregator'.pc = "render"
        /\ aggregator'.ids = aggregator.ids
    BY <2>1, AggregatorFields
  <2>4. KeepsWorkers
    BY <1>1, <2>2, <2>3 DEF KeepsWorkers, DrawnInv
  <2>5. Rows' = Rows /\ Rows \subseteq Artifacts
    BY <2>2, <2>3 DEF Rows, DrawnInv
  <2>6. {a \in Artifacts : status'[a] = "IN_REPORT"} = Rows \cup stranded
    BY <1>2, <1>3, <2>2, <2>5
  <2>7. Rows \cap stranded = {}
    BY <1>2, <1>3
  <2>8. InReportIsOwned'
    BY <1>1, <2>3, <2>5, <2>6, <2>7 DEF InReportIsOwned, InHand
  <2> QED
    BY <2>2, <2>3, <2>4, <2>8, WorkersKept
<1>4. CASE ~\A a \in Rows : status[a] = "READY"
  <2>1. UNCHANGED status /\ Conclude
    BY <1>4 DEF MarkInReport
  <2>2. AggregatorShape' /\ aggregator'.pc = "idle" /\ aggregator'.ids = {}
    BY <2>1, AggregatorFields
  <2>3. KeepsWorkers
    BY <1>1, <2>1, <2>2 DEF KeepsWorkers, StatusType
  <2>4. InReportIsOwned'
    BY <1>1, <1>2, <2>1, <2>2 DEF InReportIsOwned, InHand
  <2> QED
    BY <2>2, <2>3, <2>4, WorkersKept DEF KeepsWorkers
<1> QED
  BY <1>3, <1>4

LEMMA RenderStep ==
    ASSUME Inv, RenderReport
    PROVE  Inv'
<1> USE DEF Inv
<1>1. /\ aggregator.pc = "render"
      /\ Goto("evict") \/ Goto("release")
      /\ UNCHANGED <<status, stored, drawn, worker, results, stranded>>
  BY DEF RenderReport, tableVars, faultVars
<1>2. /\ AggregatorShape' /\ aggregator'.pc \in {"evict", "release"}
      /\ aggregator'.ids = aggregator.ids
  BY <1>1, AggregatorFields
<1>3. KeepsWorkers
  BY <1>1, <1>2 DEF KeepsWorkers, DrawnInv, StatusType
<1>4. InReportIsOwned'
  BY <1>1, <1>2 DEF InReportIsOwned, InHand, Rows
<1> QED
  BY <1>2, <1>3, <1>4, WorkersKept DEF KeepsWorkers

\* A report that gives up with its rows IN_REPORT.
LEMMA StrandStep ==
    ASSUME Inv, aggregator.pc \in {"release", "evict"}, Strand,
           UNCHANGED <<stored, drawn, worker, results>>
    PROVE  Inv'
<1> USE DEF Inv
<1>1. AggregatorShape' /\ aggregator'.pc = "idle" /\ aggregator'.ids = {}
  BY AggregatorFields DEF Strand
<1>2. KeepsWorkers
  BY <1>1 DEF Strand, KeepsWorkers, StatusType
<1>3. UNCHANGED status /\ stranded' = stranded \cup Rows
  BY DEF Strand
<1>4. InReportIsOwned'
  BY <1>1, <1>3 DEF InReportIsOwned, InHand
<1> QED
  BY <1>1, <1>2, <1>4, WorkersKept DEF KeepsWorkers

LEMMA ReleaseStep ==
    ASSUME Inv, ReleaseToReady
    PROVE  Inv'
<1> USE DEF Inv
<1>1. /\ aggregator.pc = "release"
      /\ UNCHANGED <<stored, drawn, worker, results>>
  BY DEF ReleaseToReady
<1>2. CASE Strand
  BY <1>1, <1>2, StrandStep
<1>3. CASE Rewrite(Rows, "IN_REPORT", "READY") /\ Conclude /\ UNCHANGED faultVars
  <2>1. /\ StatusType'
        /\ \A a \in Artifacts : /\ status'[a] = Null <=> status[a] = Null
                                /\ status[a] = "RESERVED" => status'[a] = "RESERVED"
                                /\ status'[a] = IF a \in Rows /\ status[a] = "IN_REPORT"
                                                THEN "READY" ELSE status[a]
    BY <1>3, RewriteKeeps DEF Status
  <2>2. AggregatorShape' /\ aggregator'.pc = "idle" /\ aggregator'.ids = {}
    BY <1>3, AggregatorFields
  <2>3. KeepsWorkers
    BY <1>1, <2>1, <2>2 DEF KeepsWorkers
  <2>4. /\ \A a \in Artifacts : status[a] = "IN_REPORT" <=> a \in Rows \cup stranded
        /\ stranded \subseteq Artifacts /\ Rows \cap stranded = {}
        /\ stranded' = stranded
    BY <1>1, <1>3 DEF InReportIsOwned, InHand, faultVars
  <2>5. InReportIsOwned'
    BY <2>1, <2>2, <2>4 DEF InReportIsOwned, InHand
  <2> QED
    BY <2>1, <2>2, <2>3, <2>5, WorkersKept
<1> QED
  BY <1>2, <1>3 DEF ReleaseToReady

\* The rows of the report are IN_REPORT, so nothing is refused.
LEMMA EvictStep ==
    ASSUME Inv, MarkEvictable
    PROVE  Inv'
<1> USE DEF Inv
<1>1. aggregator.pc = "evict" /\ UNCHANGED <<stored, drawn, worker, results>>
  BY DEF MarkEvictable
<1>2. /\ \A a \in Artifacts : status[a] = "IN_REPORT" <=> a \in Rows \cup stranded
      /\ stranded \subseteq Artifacts /\ Rows \cap stranded = {}
  BY <1>1 DEF InReportIsOwned, InHand
<1>3. \A a \in Rows : status[a] = "IN_REPORT"
  BY <1>2 DEF Rows, DrawnInv
<1>4. CASE Strand
  BY <1>1, <1>4, StrandStep
<1>5. CASE /\ Rewrite(Rows, "IN_REPORT", "EVICTABLE")
           /\ aggregator' = [aggregator EXCEPT !.pc = "prune",
                                               !.products = {owner[a].product : a \in Rows}]
           /\ UNCHANGED stranded
  <2>1. /\ StatusType'
        /\ \A a \in Artifacts : /\ status'[a] = Null <=> status[a] = Null
                                /\ status[a] = "RESERVED" => status'[a] = "RESERVED"
                                /\ status'[a] = IF a \in Rows /\ status[a] = "IN_REPORT"
                                                THEN "EVICTABLE" ELSE status[a]
    BY <1>5, RewriteKeeps DEF Status
  <2>2. /\ AggregatorShape' /\ aggregator'.pc = "prune"
        /\ aggregator'.ids = aggregator.ids
    BY <1>5 DEF AggregatorShape
  <2>3. KeepsWorkers
    BY <1>1, <2>1, <2>2 DEF KeepsWorkers, DrawnInv
  <2>4. InReportIsOwned'
    BY <1>2, <1>5, <2>1, <2>2 DEF InReportIsOwned, InHand
  <2> QED
    BY <2>1, <2>2, <2>3, <2>4, WorkersKept
<1> QED
  BY <1>3, <1>4, <1>5 DEF MarkEvictable, faultVars

\* Pruning concerns EVICTABLE rows.
LEMMA PruneSteps ==
    ASSUME Inv, StartPrune \/ DeleteObject \/ CommitPrune \/ FinishReport
    PROVE  Inv'
<1> USE DEF Inv
<1>1. /\ aggregator.pc \in {"prune", "delete"}
      /\ UNCHANGED <<drawn, worker, results, stranded>>
      /\ stored' \subseteq stored
  BY DEF StartPrune, DeleteObject, CommitPrune, FinishReport, faultVars
<1>2. /\ \A a \in Artifacts : status[a] = "IN_REPORT" <=> a \in stranded
      /\ stranded \subseteq Artifacts
  BY <1>1 DEF InReportIsOwned, InHand
<1>3. UNCHANGED status \/ Rewrite(Doomed, "EVICTABLE", "FAILED")
  BY DEF StartPrune, DeleteObject, CommitPrune, FinishReport, tableVars
<1>4. /\ StatusType'
      /\ \A a \in Artifacts : /\ status'[a] = Null <=> status[a] = Null
                              /\ status[a] = "RESERVED" => status'[a] = "RESERVED"
                              /\ status'[a] = "IN_REPORT" <=> a \in stranded
  <2>1. CASE UNCHANGED status
    BY <1>2, <2>1 DEF StatusType
  <2>2. CASE Rewrite(Doomed, "EVICTABLE", "FAILED")
    BY <1>2, <2>2, RewriteKeeps DEF Status
  <2> QED
    BY <1>3, <2>1, <2>2
<1>5. /\ AggregatorShape'
      /\ aggregator'.pc \in {"idle", "prune", "delete"}
      /\ aggregator'.ids \subseteq drawn
  <2>1. CASE Conclude
    BY <2>1, AggregatorFields
  <2>2. CASE StartPrune
    BY <2>2 DEF StartPrune, AggregatorShape, DrawnInv
  <2>3. CASE \E i : aggregator' = [aggregator EXCEPT !.deleting = @ \ {i}]
    BY <1>1, <2>3 DEF AggregatorShape, DrawnInv
  <2>4. CASE CommitPrune
    BY <2>4 DEF CommitPrune, AggregatorShape, DrawnInv
  <2> QED
    BY <2>1, <2>2, <2>3, <2>4 DEF DeleteObject, FinishReport
<1>6. KeepsWorkers
  BY <1>1, <1>4, <1>5 DEF KeepsWorkers
<1>7. InReportIsOwned'
  BY <1>1, <1>2, <1>4, <1>5 DEF InReportIsOwned, InHand
<1> QED
  BY <1>4, <1>5, <1>6, <1>7, WorkersKept

----------------------------------------------------------------------------
\* A restart leaves no row.
LEMMA CrashStep ==
    ASSUME Inv, Crash
    PROVE  Inv'
<1> USE DEF Inv
<1>1. /\ status' = [a \in Artifacts |-> Null]
      /\ worker' = [w \in Workers |-> IdleWorker]
      /\ aggregator' = IdleAggregator
      /\ stranded' = {}
      /\ UNCHANGED <<stored, drawn, results>>
  BY DEF Crash
<1>2. StatusType' /\ WorkerType' /\ AggregatorShape'
  BY <1>1 DEF StatusType, WorkerType, AggregatorShape, IdleWorker, IdleAggregator
<1>3. DrawnInv' /\ HoldInv'
  BY <1>1 DEF DrawnInv, HoldInv, Holds, IdleWorker, IdleAggregator
<1>4. InReportIsOwned'
  BY <1>1, NullAssumption DEF InReportIsOwned, InHand, IdleAggregator, Status
<1> QED
  BY <1>2, <1>3, <1>4

\* Every step of a worker or of the aggregator, and a restart, keep the lock: of the
\* rows that are IN_REPORT none is in two hands, or in none without being stranded.
THEOREM InvStep == Inv /\ [Next]_vars => Inv'
<1> SUFFICES ASSUME Inv, [Next]_vars PROVE Inv'
  OBVIOUS
<1>1. CASE UNCHANGED vars
  BY <1>1 DEF vars, tableVars, faultVars, Inv, StatusType, WorkerType, AggregatorShape,
              DrawnInv, HoldInv, Holds, InReportIsOwned, InHand, Rows
<1>2. ASSUME NEW w \in Workers, Analyze(w) PROVE Inv'
  BY <1>2, LookupSteps, ReserveStep, MarkSteps DEF Analyze
<1>3. CASE Report
  BY <1>3, BeginStep, MarkInReportStep, RenderStep, ReleaseStep, EvictStep, PruneSteps
     DEF Report
<1>4. CASE Crash
  BY <1>4, CrashStep
<1> QED
  BY <1>1, <1>2, <1>3, <1>4 DEF Next

\* The rows that are IN_REPORT are those of the report being made and, for ever,
\* those of a report whose release or eviction raised; no row is both.
THEOREM InReportOwned == Spec => []InReportIsOwned
<1>1. Inv => InReportIsOwned
  BY DEF Inv
<1> QED
  BY <1>1, InvInit, InvStep, PTL DEF Spec

----------------------------------------------------------------------------
(* A finite set as a sequence *)

\* SetToSeq lists a finite set without repetition.
LEMMA SetToSeqFacts ==
    ASSUME NEW S, IsFiniteSet(S)
    PROVE  /\ Cardinality(S) \in Nat
           /\ SetToSeq(S) \in [1..Cardinality(S) -> S]
           /\ \A x \in S : \E i \in 1..Cardinality(S) : SetToSeq(S)[i] = x
           /\ \A i, k \in 1..Cardinality(S) : SetToSeq(S)[i] = SetToSeq(S)[k] => i = k
<1> DEFINE n == Cardinality(S)
<1>1. n \in Nat /\ ExistsBijection(1..n, S)
  BY FS_CardinalityType
<1>2. \E f \in [1..n -> S] : IsInjective(f)
  BY <1>1 DEF ExistsBijection, Bijection, Injection
<1>3. SetToSeq(S) \in [1..n -> S] /\ IsInjective(SetToSeq(S))
  BY <1>2 DEF SetToSeq
<1>4. SetToSeq(S) \in Injection(1..n, S)
  BY <1>3 DEF Injection
<1>5. IsFiniteSet(1..n) /\ Cardinality(1..n) = Cardinality(S)
  BY <1>1, FS_Interval, FS_Bijection
<1>6. SetToSeq(S) \in Surjection(1..n, S)
  BY <1>4, <1>5, FS_Injection
<1> HIDE DEF n
<1>7. \A x \in S : \E i \in 1..n : SetToSeq(S)[i] = x
  BY <1>3, <1>6 DEF Surjection
<1>8. \A i, k \in 1..n : SetToSeq(S)[i] = SetToSeq(S)[k] => i = k
  BY <1>3 DEF IsInjective
<1> QED
  BY <1>1, <1>3, <1>7, <1>8 DEF n

\* What appending the finite set S to a sequence does.
LEMMA AppendSet ==
    ASSUME NEW T, NEW e \in Seq(T), NEW S, S \subseteq T, IsFiniteSet(S)
    PROVE  LET f == e \o SetToSeq(S) IN
           /\ f \in Seq(T)
           /\ Len(e) \in Nat /\ DOMAIN e = 1..Len(e)
           /\ DOMAIN f = 1..(Len(e) + Cardinality(S))
           /\ \A i \in DOMAIN e : f[i] = e[i]
           /\ \A i \in DOMAIN f : i \notin DOMAIN e => f[i] \in S
           /\ \A x \in S : \E i \in DOMAIN f : i \notin DOMAIN e /\ f[i] = x
           /\ \A i, k \in DOMAIN f : i \notin DOMAIN e /\ k \notin DOMAIN e /\ f[i] = f[k] => i = k
<1> DEFINE n == Cardinality(S)
           s == SetToSeq(S)
           f == e \o s
<1>1. /\ n \in Nat /\ s \in [1..n -> S]
      /\ \A x \in S : \E i \in 1..n : s[i] = x
      /\ \A i, k \in 1..n : s[i] = s[k] => i = k
  BY SetToSeqFacts
<1> HIDE DEF n, s
<1>2. s \in Seq(S) /\ s \in Seq(T) /\ Len(s) = n
  BY <1>1
<1>3. /\ Len(e) \in Nat /\ DOMAIN e = 1..Len(e)
      /\ f \in Seq(T) /\ Len(f) = Len(e) + n
      /\ \A i \in 1..(Len(e) + n) : f[i] = IF i <= Len(e) THEN e[i] ELSE s[i - Len(e)]
  BY <1>1, <1>2
<1>4. DOMAIN f = 1..(Len(e) + n)
  BY <1>3
<1> HIDE DEF f
<1>5. \A i \in DOMAIN f : i \notin DOMAIN e => i - Len(e) \in 1..n /\ f[i] = s[i - Len(e)]
  BY <1>1, <1>3, <1>4
<1>6. \A i \in 1..n : /\ Len(e) + i \in DOMAIN f /\ Len(e) + i \notin DOMAIN e
                      /\ f[Len(e) + i] = s[i]
  BY <1>1, <1>3, <1>4
<1>7. \A i \in DOMAIN e : f[i] = e[i]
  BY <1>1, <1>3
<1>8. \A x \in S : \E i \in DOMAIN f : i \notin DOMAIN e /\ f[i] = x
  BY <1>1, <1>6
<1>9. ASSUME NEW i \in DOMAIN f, NEW k \in DOMAIN f, i \notin DOMAIN e, k \notin DOMAIN e, f[i] = f[k]
      PROVE  i = k
  <2>1. i - Len(e) = k - Len(e)
    BY <1>1, <1>5, <1>9
  <2> QED
    BY <1>1, <1>3, <1>4, <2>1
<1>10. \A i \in DOMAIN f : i \notin DOMAIN e => f[i] \in S
  BY <1>1, <1>5
<1> QED
  BY <1>3, <1>4, <1>7, <1>8, <1>9, <1>10 DEF f, s, n

----------------------------------------------------------------------------
(* What the other properties rest on *)

Scope == [product: Products, project: {Project[j] : j \in Jobs}]

ScopeOf(j, p) == [product |-> p, project |-> Project[j]]

TypeInv ==
    /\ owner \in [Artifacts -> Scope \cup {Null}]
    /\ \A a \in Artifacts : status[a] # Null => owner[a] \in Scope
    /\ evicted \in Seq(Artifacts)
    /\ IsFiniteSet(drawn)
    /\ \A w \in Workers : worker[w].pc # "idle" => /\ worker[w].job \in Jobs
                                                   /\ worker[w].product \in Products
    /\ results \subseteq [job: Jobs, product: Products, artifact: Artifacts]
    /\ aggregator.pc \in {"idle", "mark", "render", "release", "evict", "prune", "delete"}
    /\ aggregator.products \subseteq Products
    /\ uses \in [Artifacts -> 0..2]
    /\ stranded \subseteq Artifacts
    /\ deleteFailures \in Nat /\ lockFailures \in Nat /\ crashes \in Nat
    /\ deleteFailures + lockFailures + crashes <= MaxFaults

\* The queue of what was made evictable: each artifact once, and never READY again.
EvictedInv ==
    /\ \A i \in DOMAIN evicted : status[evicted[i]] \in {"EVICTABLE", "FAILED"}
    /\ \A i, k \in DOMAIN evicted : evicted[i] = evicted[k] => i = k
    /\ \A a \in Artifacts : status[a] = "EVICTABLE" => \E i \in DOMAIN evicted : evicted[i] = a

\* The artifact a is of product p in the project of j, and was completed.
Complete(a, j, p) ==
    status[a] # Null => /\ owner[a] = ScopeOf(j, p)
                        /\ status[a] \in {"READY", "IN_REPORT"} \/ a \in Range(evicted)

WorkerScope(w) ==
    /\ Holds(w) => owner[worker[w].artifact] = ScopeOf(worker[w].job, worker[w].product)
    /\ worker[w].pc = "publish" =>
         Complete(worker[w].artifact, worker[w].job, worker[w].product)

ScopeInv ==
    /\ \A w \in Workers : WorkerScope(w)
    /\ \A r \in results : Complete(r.artifact, r.job, r.product)

\* The aggregator outside its prune, and what a prune has chosen.
DoomedInv ==
    /\ aggregator.pc \notin {"prune", "delete"} => aggregator.products = {}
    /\ aggregator.pc # "delete" => aggregator.doomed = {} /\ aggregator.deleting = {}
    /\ aggregator.pc = "delete" =>
         /\ aggregator.deleting \subseteq aggregator.doomed
         /\ \E p \in Products \ aggregator.products :
              /\ Cardinality(Evictable(p)) > MaxEvictable
              /\ aggregator.doomed \in Oldest(Evictable(p), Cardinality(Evictable(p)) - MaxEvictable)

StoredInv ==
    /\ \A w \in Workers : worker[w].pc = "mark_ready" => worker[w].artifact \in stored
    /\ CompletedIsStored

\* Without a restart every artifact drawn has its row, and an artifact of a report
\* is used up, or stranded, but for the report whose upload has just returned.
UsedUp(a) == status[a] \in {"EVICTABLE", "FAILED"} \/ a \in stranded

ReportsInv ==
    crashes = 0 =>
        /\ \A a \in drawn : status[a] # Null
        /\ \A a \in Artifacts :
             /\ uses[a] <= 1
             /\ uses[a] # 0 => \/ UsedUp(a)
                               \/ aggregator.pc = "evict" /\ a \in aggregator.ids

\* A report has one row of a product.
OneRowEach ==
    \A a, b \in Rows : owner[a].product = owner[b].product => a = b

\* A prune has still to look at p, or to commit what it deletes of p.
Pending(p) ==
    p \in aggregator.products \/ \E i \in aggregator.doomed : owner[evicted[i]].product = p

QueueBound(p) ==
    Cardinality(Evictable(p)) <= MaxEvictable + deleteFailures + (IF Pending(p) THEN 1 ELSE 0)

\* The evictable rows of a product are its newest.
NewestInv ==
    \A i, k \in DOMAIN evicted :
        /\ i < k
        /\ owner[evicted[i]].product = owner[evicted[k]].product
        /\ status[evicted[i]] = "EVICTABLE"
        => status[evicted[k]] = "EVICTABLE"

OneRowInv == aggregator.pc \in {"mark", "render", "release", "evict"} => OneRowEach

\* Together with Inv, the inductive invariant of the component.
FullInv ==
    /\ Inv /\ TypeInv
    /\ EvictedInv /\ DoomedInv /\ ScopeInv /\ StoredInv /\ ReportsInv
    /\ OneRowInv /\ NewestInv /\ \A p \in Products : QueueBound(p)

----------------------------------------------------------------------------
(* The steps, field by field *)

LEMMA WorkerFields ==
    ASSUME WorkerType, NEW w \in Workers, Analyze(w)
    PROVE  /\ \A v \in Workers : v # w => worker'[v] = worker[v]
           /\ UNCHANGED <<evicted, aggregator, uses, faultVars>>
           /\ \/ /\ worker'[w].pc \in {"lookup", "reserve"}
                 /\ \/ worker'[w].job \in Jobs /\ worker'[w].product \in Products
                    \/ /\ worker[w].pc # "idle"
                       /\ worker'[w].job = worker[w].job /\ worker'[w].product = worker[w].product
                 /\ UNCHANGED <<status, owner, stored, drawn, results>>
              \/ /\ ReuseArtifact(w)
                 /\ worker[w].pc # "idle" /\ worker'[w].pc = "publish"
                 /\ worker'[w].job = worker[w].job /\ worker'[w].product = worker[w].product
                 /\ worker'[w].artifact \in Reusable(w)
                 /\ UNCHANGED <<status, owner, stored, drawn, results>>
              \/ /\ ReserveAnalysis(w)
                 /\ worker[w].pc # "idle" /\ worker'[w].pc = "analyze"
                 /\ worker'[w].job = worker[w].job /\ worker'[w].product = worker[w].product
                 /\ worker'[w].artifact \in Artifacts \ drawn
                 /\ drawn' = drawn \cup {worker'[w].artifact}
                 /\ status' = [status EXCEPT ![worker'[w].artifact] = "RESERVED"]
                 /\ owner' = [owner EXCEPT ![worker'[w].artifact] =
                                 ScopeOf(worker[w].job, worker[w].product)]
                 /\ UNCHANGED <<stored, results>>
              \/ /\ AnalyzeOneTask(w)
                 /\ worker[w].pc = "analyze" /\ worker'[w].pc \in {"mark_ready", "mark_failed"}
                 /\ worker'[w].job = worker[w].job /\ worker'[w].product = worker[w].product
                 /\ worker'[w].artifact = worker[w].artifact
                 /\ stored' \in {stored, stored \cup {worker[w].artifact}}
                 /\ worker'[w].pc = "mark_ready" => worker[w].artifact \in stored'
                 /\ UNCHANGED <<status, owner, drawn, results>>
              \/ /\ MarkReady(w)
                 /\ worker[w].pc = "mark_ready" /\ worker'[w].pc = "publish"
                 /\ worker'[w].job = worker[w].job /\ worker'[w].product = worker[w].product
                 /\ worker'[w].artifact = worker[w].artifact
                 /\ status' = [status EXCEPT ![worker[w].artifact] = "READY"]
                 /\ UNCHANGED <<owner, stored, drawn, results>>
              \/ /\ MarkFailed(w)
                 /\ worker[w].pc = "mark_failed" /\ worker'[w].pc = "idle"
                 /\ status' = [status EXCEPT ![worker[w].artifact] = "FAILED"]
                 /\ UNCHANGED <<owner, stored, drawn, results>>
              \/ /\ PublishResult(w)
                 /\ worker[w].pc = "publish" /\ worker'[w].pc = "idle"
                 /\ results' = results \cup {[job |-> worker[w].job, product |-> worker[w].product,
                                              artifact |-> worker[w].artifact]}
                 /\ UNCHANGED <<status, owner, stored, drawn>>
<1> USE DEF WorkerType, tableVars, faultVars
<1>1. CASE \E j \in Jobs, p \in Products : StartAnalysis(w, j, p)
  BY <1>1 DEF StartAnalysis
<1>2. CASE ReuseArtifact(w)
  <2>1. PICK a \in Reusable(w) :
          worker' = [worker EXCEPT ![w].pc = "publish", ![w].artifact = a]
    BY <1>2 DEF ReuseArtifact
  <2>2. /\ worker[w].pc = "lookup"
        /\ UNCHANGED <<status, owner, evicted, stored, drawn, results, aggregator, uses,
                       faultVars>>
    BY <1>2 DEF ReuseArtifact
  <2>3. /\ \A v \in Workers : v # w => worker'[v] = worker[v]
        /\ worker'[w].pc = "publish" /\ worker'[w].artifact = a
        /\ worker'[w].job = worker[w].job /\ worker'[w].product = worker[w].product
    BY <2>1
  <2> QED
    BY <1>2, <2>1, <2>2, <2>3
<1>3. CASE NoReusable(w)
  BY <1>3 DEF NoReusable
<1>4. CASE ReserveAnalysis(w)
  <2>1. PICK a \in Artifacts \ drawn :
          /\ drawn' = drawn \cup {a}
          /\ status' = [status EXCEPT ![a] = "RESERVED"]
          /\ owner' = [owner EXCEPT ![a] = ScopeOf(worker[w].job, worker[w].product)]
          /\ worker' = [worker EXCEPT ![w].pc = "analyze", ![w].artifact = a]
    BY <1>4 DEF ReserveAnalysis, ScopeOf
  <2>2. /\ worker[w].pc = "reserve"
        /\ UNCHANGED <<evicted, stored, results, aggregator, uses, faultVars>>
    BY <1>4 DEF ReserveAnalysis
  <2>3. /\ \A v \in Workers : v # w => worker'[v] = worker[v]
        /\ worker'[w].pc = "analyze" /\ worker'[w].artifact = a
        /\ worker'[w].job = worker[w].job /\ worker'[w].product = worker[w].product
    BY <2>1
  <2> QED
    BY <1>4, <2>1, <2>2, <2>3
<1>5. CASE AnalyzeOneTask(w)
  BY <1>5 DEF AnalyzeOneTask
<1>6. CASE MarkReady(w)
  BY <1>6 DEF MarkReady
<1>7. CASE MarkFailed(w)
  BY <1>7 DEF MarkFailed, IdleWorker
<1>8. CASE PublishResult(w)
  BY <1>8 DEF PublishResult, IdleWorker
<1> QED
  BY <1>1, <1>2, <1>3, <1>4, <1>5, <1>6, <1>7, <1>8 DEF Analyze

----------------------------------------------------------------------------
\* The aggregator keeps the report it is making; it has put everything down.
SameReport == /\ aggregator'.job = aggregator.job /\ aggregator'.ids = aggregator.ids
SamePrune == /\ aggregator'.products = aggregator.products
             /\ aggregator'.doomed = aggregator.doomed
             /\ aggregator'.deleting = aggregator.deleting
Cleared == /\ aggregator'.products = {}
           /\ aggregator'.doomed = {} /\ aggregator'.deleting = {}
Idle == aggregator'.pc = "idle" /\ aggregator'.ids = {} /\ Cleared

Moved(S, new) == status' = [a \in Artifacts |-> IF a \in S THEN new ELSE status[a]]

LEMMA GotoConclude ==
    ASSUME AggregatorShape
    PROVE  /\ \A pc : Goto(pc) => aggregator'.pc = pc /\ SameReport /\ SamePrune
           /\ Conclude => Idle
BY DEF AggregatorShape, Goto, Conclude, IdleAggregator, SameReport, SamePrune, Idle, Cleared

LEMMA RewriteAll ==
    ASSUME NEW S, NEW old, NEW new, \A a \in S : status[a] = old, Rewrite(S, old, new)
    PROVE  Moved(S, new)
BY DEF Rewrite, Moved

BeginFields ==
    /\ aggregator.pc = "idle" /\ aggregator'.pc = "mark" /\ Cleared
    /\ \E j \in Jobs : \E S \in SUBSET {r \in results : r.job = j} :
         /\ \A r, q \in S : r.product = q.product => r = q
         /\ aggregator'.ids = {r.artifact : r \in S}
    /\ UNCHANGED <<status, evicted, stored, uses, stranded, deleteFailures, lockFailures>>

MarkFields ==
    /\ aggregator.pc = "mark" /\ aggregator'.pc = "render" /\ SameReport /\ SamePrune
    /\ \A a \in Rows : status[a] = "READY"
    /\ Moved(Rows, "IN_REPORT")
    /\ UNCHANGED <<evicted, stored, uses, stranded, deleteFailures, lockFailures>>

\* A refused report, and the end of one.
EndFields ==
    /\ aggregator.pc \in {"mark", "prune"} /\ Idle
    /\ aggregator.pc = "prune" => aggregator.products = {}
    /\ UNCHANGED <<status, evicted, stored, uses, stranded, deleteFailures, lockFailures>>

UploadFields ==
    /\ aggregator.pc = "render" /\ aggregator'.pc = "evict" /\ SameReport /\ SamePrune
    /\ uses' = [a \in Artifacts |-> IF a \in aggregator.ids /\ uses[a] < 2
                                     THEN uses[a] + 1 ELSE uses[a]]
    /\ UNCHANGED <<status, evicted, stored, stranded, deleteFailures, lockFailures>>

FailFields ==
    /\ aggregator.pc = "render" /\ aggregator'.pc = "release" /\ SameReport /\ SamePrune
    /\ UNCHANGED <<status, evicted, stored, uses, stranded, deleteFailures, lockFailures>>

ReleaseFields ==
    /\ aggregator.pc = "release" /\ Idle
    /\ \A a \in Rows : status[a] = "IN_REPORT"
    /\ Moved(Rows, "READY")
    /\ UNCHANGED <<evicted, stored, uses, stranded, deleteFailures, lockFailures>>

\* A release or an eviction that raises.
StrandFields ==
    /\ aggregator.pc \in {"release", "evict"} /\ Idle
    /\ MayFault /\ lockFailures' = lockFailures + 1
    /\ stranded' = stranded \cup Rows
    /\ UNCHANGED <<status, evicted, stored, uses, deleteFailures>>

EvictFields ==
    /\ aggregator.pc = "evict" /\ aggregator'.pc = "prune" /\ SameReport
    /\ aggregator'.products = {owner[a].product : a \in Rows}
    /\ aggregator'.doomed = aggregator.doomed
    /\ aggregator'.deleting = aggregator.deleting
    /\ \A a \in Rows : status[a] = "IN_REPORT"
    /\ Moved(Rows, "EVICTABLE")
    /\ evicted' = evicted \o SetToSeq(Rows)
    /\ UNCHANGED <<stored, uses, stranded, deleteFailures, lockFailures>>

KeepAllFields ==
    /\ aggregator.pc = "prune" /\ aggregator'.pc = "prune" /\ SameReport
    /\ aggregator'.doomed = aggregator.doomed
    /\ aggregator'.deleting = aggregator.deleting
    /\ \E p \in aggregator.products :
         /\ Cardinality(Evictable(p)) - MaxEvictable <= 0
         /\ aggregator'.products = aggregator.products \ {p}
    /\ UNCHANGED <<status, evicted, stored, uses, stranded, deleteFailures, lockFailures>>

ChooseFields ==
    /\ aggregator.pc = "prune" /\ aggregator'.pc = "delete" /\ SameReport
    /\ \E p \in aggregator.products :
         /\ Cardinality(Evictable(p)) - MaxEvictable > 0
         /\ aggregator'.products = aggregator.products \ {p}
         /\ aggregator'.doomed \in Oldest(Evictable(p), Cardinality(Evictable(p)) - MaxEvictable)
         /\ aggregator'.deleting = aggregator'.doomed
    /\ UNCHANGED <<status, evicted, stored, uses, stranded, deleteFailures, lockFailures>>

DeleteFields ==
    /\ aggregator.pc = "delete" /\ aggregator'.pc = "delete" /\ SameReport
    /\ aggregator'.products = aggregator.products
    /\ aggregator'.doomed = aggregator.doomed
    /\ \E i \in aggregator.deleting :
         /\ stored' = stored \ {evicted[i]}
         /\ aggregator'.deleting = aggregator.deleting \ {i}
    /\ UNCHANGED <<status, evicted, uses, stranded, deleteFailures, lockFailures>>

DeleteFailsFields ==
    /\ aggregator.pc = "delete" /\ Idle
    /\ deleteFailures' = deleteFailures + 1
    /\ MayFault
    /\ UNCHANGED <<status, evicted, stored, uses, stranded, lockFailures>>

CommitFields ==
    /\ aggregator.pc = "delete" /\ aggregator'.pc = "prune" /\ SameReport
    /\ aggregator.deleting = {}
    /\ aggregator'.products = aggregator.products
    /\ aggregator'.doomed = {} /\ aggregator'.deleting = {}
    /\ Rewrite(Doomed, "EVICTABLE", "FAILED")
    /\ UNCHANGED <<evicted, stored, uses, stranded, deleteFailures, lockFailures>>

LEMMA ReportFields ==
    ASSUME Inv, Report
    PROVE  /\ UNCHANGED <<owner, drawn, worker, results, crashes>>
           /\ \/ BeginFields \/ MarkFields \/ EndFields \/ UploadFields \/ FailFields
              \/ ReleaseFields \/ StrandFields \/ EvictFields \/ KeepAllFields
              \/ ChooseFields \/ DeleteFields \/ DeleteFailsFields \/ CommitFields
<1> USE DEF tableVars, faultVars
<1>0. AggregatorShape
  BY DEF Inv
<1>1. CASE \E j \in Jobs : BeginReport(j)
  <2>1. PICK j \in Jobs : BeginReport(j)
    BY <1>1
  <2>2. PICK S \in SUBSET {r \in results : r.job = j} :
          /\ \A r, q \in S : r.product = q.product => r = q
          /\ aggregator' = [IdleAggregator EXCEPT !.pc = "mark", !.job = j,
                                                  !.ids = {r.artifact : r \in S}]
    BY <2>1 DEF BeginReport
  <2>3. /\ aggregator'.pc = "mark" /\ aggregator'.ids = {r.artifact : r \in S} /\ Cleared
    BY <2>2 DEF IdleAggregator, Cleared
  <2>4. BeginFields
    BY <2>1, <2>2, <2>3 DEF BeginReport, BeginFields
  <2> QED
    BY <2>1, <2>4 DEF BeginReport
<1>2. CASE MarkInReport
  <2>1. CASE \A a \in Rows : status[a] = "READY"
    <3>1. Rewrite(Rows, "READY", "IN_REPORT") /\ Goto("render")
      BY <1>2, <2>1 DEF MarkInReport
    <3>2. MarkFields
      BY <1>0, <1>2, <2>1, <3>1, GotoConclude, RewriteAll DEF MarkInReport, MarkFields
    <3> QED
      BY <1>2, <3>2 DEF MarkInReport
  <2>2. CASE ~\A a \in Rows : status[a] = "READY"
    BY <1>0, <1>2, <2>2, GotoConclude DEF MarkInReport, EndFields
  <2> QED
    BY <2>1, <2>2
<1>3. CASE RenderReport
  BY <1>0, <1>3, GotoConclude DEF RenderReport, UploadFields, FailFields
<1>4. CASE ReleaseToReady
  <2>1. \A a \in Rows : status[a] = "IN_REPORT"
    BY <1>4 DEF ReleaseToReady, Inv, InReportIsOwned, InHand, Rows, DrawnInv
  <2>2. CASE Strand
    BY <1>0, <1>4, <2>2, GotoConclude DEF ReleaseToReady, Strand, StrandFields
  <2>3. CASE Rewrite(Rows, "IN_REPORT", "READY") /\ Conclude /\ UNCHANGED faultVars
    <3>1. ReleaseFields
      BY <1>0, <1>4, <2>1, <2>3, GotoConclude, RewriteAll DEF ReleaseToReady, ReleaseFields
    <3> QED
      BY <1>4, <2>3, <3>1 DEF ReleaseToReady
  <2> QED
    BY <1>4, <2>2, <2>3 DEF ReleaseToReady
<1>5. CASE MarkEvictable
  <2>1. \A a \in Rows : status[a] = "IN_REPORT"
    BY <1>5 DEF MarkEvictable, Inv, InReportIsOwned, InHand, Rows, DrawnInv
  <2>2. CASE Strand /\ UNCHANGED evicted
    BY <1>0, <1>5, <2>2, GotoConclude DEF MarkEvictable, Strand, StrandFields
  <2>3. CASE /\ Rewrite(Rows, "IN_REPORT", "EVICTABLE")
             /\ evicted' = evicted \o SetToSeq(Rows)
             /\ aggregator' = [aggregator EXCEPT !.pc = "prune",
                                                 !.products = {owner[a].product : a \in Rows}]
             /\ UNCHANGED faultVars
    <3>1. EvictFields
      BY <1>0, <1>5, <2>1, <2>3, RewriteAll
         DEF MarkEvictable, EvictFields, AggregatorShape, SameReport
    <3> QED
      BY <1>5, <2>3, <3>1 DEF MarkEvictable
  <2> QED
    BY <1>5, <2>1, <2>2, <2>3 DEF MarkEvictable
<1>6. CASE StartPrune
  <2>1. PICK p \in aggregator.products :
          LET excess == Cardinality(Evictable(p)) - MaxEvictable
          IN  \/ /\ excess <= 0
                 /\ aggregator' = [aggregator EXCEPT !.products = @ \ {p}]
              \/ /\ excess > 0
                 /\ \E D \in Oldest(Evictable(p), excess) :
                      aggregator' = [aggregator EXCEPT !.products = @ \ {p}, !.pc = "delete",
                                                       !.doomed = D, !.deleting = D]
    BY <1>6 DEF StartPrune
  <2> DEFINE excess == Cardinality(Evictable(p)) - MaxEvictable
  <2>2. CASE /\ excess <= 0
             /\ aggregator' = [aggregator EXCEPT !.products = @ \ {p}]
    <3>1. /\ aggregator'.pc = aggregator.pc /\ SameReport
          /\ aggregator'.products = aggregator.products \ {p}
          /\ aggregator'.doomed = aggregator.doomed
          /\ aggregator'.deleting = aggregator.deleting
      BY <1>0, <2>2 DEF AggregatorShape, SameReport
    <3>2. KeepAllFields
      BY <1>6, <2>2, <3>1 DEF StartPrune, KeepAllFields
    <3> QED
      BY <1>6, <3>2 DEF StartPrune
  <2>3. CASE /\ excess > 0
             /\ \E D \in Oldest(Evictable(p), excess) :
                  aggregator' = [aggregator EXCEPT !.products = @ \ {p}, !.pc = "delete",
                                                   !.doomed = D, !.deleting = D]
    <3>1. PICK D \in Oldest(Evictable(p), excess) :
            aggregator' = [aggregator EXCEPT !.products = @ \ {p}, !.pc = "delete",
                                             !.doomed = D, !.deleting = D]
      BY <2>3
    <3>2. /\ aggregator'.pc = "delete" /\ SameReport
          /\ aggregator'.products = aggregator.products \ {p}
          /\ aggregator'.doomed = D /\ aggregator'.deleting = D
      BY <1>0, <3>1 DEF AggregatorShape, SameReport
    <3>3. ChooseFields
      BY <1>6, <2>3, <3>1, <3>2 DEF StartPrune, ChooseFields
    <3> QED
      BY <1>6, <3>3 DEF StartPrune
  <2> QED
    BY <2>1, <2>2, <2>3
<1>7. CASE DeleteObject
  <2>1. PICK i \in aggregator.deleting :
          \/ /\ stored' = stored \ {evicted[i]}
             /\ aggregator' = [aggregator EXCEPT !.deleting = @ \ {i}]
             /\ UNCHANGED deleteFailures
          \/ /\ MayFault
             /\ deleteFailures' = deleteFailures + 1
             /\ Conclude
             /\ UNCHANGED stored
    BY <1>7 DEF DeleteObject
  <2>2. CASE /\ stored' = stored \ {evicted[i]}
             /\ aggregator' = [aggregator EXCEPT !.deleting = @ \ {i}]
             /\ UNCHANGED deleteFailures
    <3>1. /\ aggregator'.pc = aggregator.pc /\ SameReport
          /\ aggregator'.products = aggregator.products
          /\ aggregator'.doomed = aggregator.doomed
          /\ aggregator'.deleting = aggregator.deleting \ {i}
      BY <1>0, <2>2 DEF AggregatorShape, SameReport
    <3>2. DeleteFields
      BY <1>7, <2>2, <3>1 DEF DeleteObject, DeleteFields
    <3> QED
      BY <1>7, <3>2 DEF DeleteObject
  <2>3. CASE /\ MayFault
             /\ deleteFailures' = deleteFailures + 1
             /\ Conclude
             /\ UNCHANGED stored
    BY <1>0, <1>7, <2>3, GotoConclude DEF DeleteObject, DeleteFailsFields
  <2> QED
    BY <2>1, <2>2, <2>3
<1>8. CASE CommitPrune
  <2>1. /\ aggregator'.pc = "prune" /\ SameReport
        /\ aggregator'.products = aggregator.products
        /\ aggregator'.doomed = {} /\ aggregator'.deleting = aggregator.deleting
    BY <1>0, <1>8 DEF CommitPrune, AggregatorShape, SameReport
  <2>2. CommitFields
    BY <1>8, <2>1 DEF CommitPrune, CommitFields
  <2> QED
    BY <1>8, <2>2 DEF CommitPrune
<1>9. CASE FinishReport
  BY <1>0, <1>9, GotoConclude DEF FinishReport, EndFields
<1> QED
  BY <1>1, <1>2, <1>3, <1>4, <1>5, <1>6, <1>7, <1>8, <1>9 DEF Report

CrashFields ==
    /\ status' = [a \in Artifacts |-> Null] /\ owner' = [a \in Artifacts |-> Null]
    /\ evicted' = <<>>
    /\ \A w \in Workers : worker'[w].pc = "idle"
    /\ Idle
    /\ crashes' = crashes + 1 /\ MayFault
    /\ stranded' = {}
    /\ UNCHANGED <<stored, drawn, results, uses, deleteFailures, lockFailures>>

LEMMA CrashFacts == Crash => CrashFields
BY DEF Crash, CrashFields, IdleWorker, IdleAggregator, Idle, Cleared

\* The rows of a report, and what can be evicted of a product, are finitely many.
LEMMA Finite ==
    ASSUME Inv, TypeInv
    PROVE  /\ Rows \subseteq Artifacts /\ IsFiniteSet(Rows)
           /\ Len(evicted) \in Nat /\ DOMAIN evicted = 1..Len(evicted)
           /\ \A i \in DOMAIN evicted : evicted[i] \in Artifacts
           /\ \A p : /\ Evictable(p) \subseteq DOMAIN evicted
                     /\ IsFiniteSet(Evictable(p)) /\ Cardinality(Evictable(p)) \in Nat
<1>1. Rows \subseteq drawn /\ Rows \subseteq Artifacts /\ IsFiniteSet(drawn)
  BY DEF Rows, Inv, DrawnInv, TypeInv
<1>2. IsFiniteSet(Rows)
  BY <1>1, FS_Subset
<1>3. /\ Len(evicted) \in Nat /\ DOMAIN evicted = 1..Len(evicted)
      /\ \A i \in DOMAIN evicted : evicted[i] \in Artifacts
  BY DEF TypeInv
<1>4. IsFiniteSet(DOMAIN evicted)
  BY <1>3, FS_Interval
<1>5. \A p : Evictable(p) \subseteq DOMAIN evicted
  BY DEF Evictable
<1>6. \A p : IsFiniteSet(Evictable(p)) /\ Cardinality(Evictable(p)) \in Nat
  BY <1>4, <1>5, FS_Subset, FS_CardinalityType
<1> QED
  BY <1>1, <1>2, <1>3, <1>5, <1>6

\* What evicting the rows of a report appends.
LEMMA EvictAppends ==
    ASSUME Inv, TypeInv, EvictFields
    PROVE  /\ evicted' \in Seq(Artifacts)
           /\ Len(evicted) \in Nat /\ Cardinality(Rows) \in Nat
           /\ DOMAIN evicted = 1..Len(evicted)
           /\ DOMAIN evicted' = 1..(Len(evicted) + Cardinality(Rows))
           /\ \A i \in DOMAIN evicted : evicted'[i] = evicted[i]
           /\ \A i \in DOMAIN evicted' : i \notin DOMAIN evicted => evicted'[i] \in Rows
           /\ \A a \in Rows : \E i \in DOMAIN evicted' : i \notin DOMAIN evicted /\ evicted'[i] = a
           /\ \A i, k \in DOMAIN evicted' :
                i \notin DOMAIN evicted /\ k \notin DOMAIN evicted /\ evicted'[i] = evicted'[k]
                => i = k
<1> DEFINE e == evicted
           S == Rows
<1>1. e \in Seq(Artifacts) /\ S \subseteq Artifacts /\ IsFiniteSet(S) /\ Cardinality(S) \in Nat
  BY Finite, FS_CardinalityType DEF TypeInv
<1>2. evicted' = e \o SetToSeq(S)
  BY DEF EvictFields
<1> HIDE DEF e, S
<1>3. LET f == e \o SetToSeq(S) IN
           /\ f \in Seq(Artifacts)
           /\ Len(e) \in Nat /\ DOMAIN e = 1..Len(e)
           /\ DOMAIN f = 1..(Len(e) + Cardinality(S))
           /\ \A i \in DOMAIN e : f[i] = e[i]
           /\ \A i \in DOMAIN f : i \notin DOMAIN e => f[i] \in S
           /\ \A x \in S : \E i \in DOMAIN f : i \notin DOMAIN e /\ f[i] = x
           /\ \A i, k \in DOMAIN f : i \notin DOMAIN e /\ k \notin DOMAIN e /\ f[i] = f[k] => i = k
  BY <1>1, AppendSet
<1> QED
  BY <1>1, <1>2, <1>3 DEF e, S

\* The shape of the state at the start of the process.
THEOREM TypeInit == Init => TypeInv
BY FS_EmptySet, LifecycleAssumption DEF Init, TypeInv, IdleWorker, IdleAggregator

LEMMA TypeWorker ==
    ASSUME Inv, TypeInv, NEW w \in Workers, Analyze(w)
    PROVE  TypeInv'
<1> USE DEF Inv, StatusType, WorkerType
<1>1. /\ \A v \in Workers : v # w => worker'[v] = worker[v]
      /\ UNCHANGED <<evicted, aggregator, uses, faultVars>>
      /\ worker'[w].pc # "idle" => worker'[w].job \in Jobs /\ worker'[w].product \in Products
  BY WorkerFields DEF TypeInv
<1>2. IsFiniteSet(drawn')
  <2>1. IsFiniteSet(drawn) /\ IsFiniteSet(drawn \cup {worker'[w].artifact})
    BY FS_AddElement DEF TypeInv
  <2>2. drawn' = drawn \/ drawn' = drawn \cup {worker'[w].artifact}
    BY WorkerFields
  <2> QED
    BY <2>1, <2>2
<1>3. results' \subseteq [job: Jobs, product: Products, artifact: Artifacts]
  <2>1. CASE UNCHANGED results
    BY <2>1 DEF TypeInv
  <2>2. CASE /\ worker[w].pc = "publish"
             /\ results' = results \cup {[job |-> worker[w].job, product |-> worker[w].product,
                                          artifact |-> worker[w].artifact]}
    <3>1. worker[w].job \in Jobs /\ worker[w].product \in Products /\ worker[w].artifact \in Artifacts
      BY <2>2 DEF TypeInv, DrawnInv
    <3> QED
      BY <2>2, <3>1 DEF TypeInv
  <2> QED
    BY <2>1, <2>2, WorkerFields
<1>4. /\ owner' \in [Artifacts -> Scope \cup {Null}]
      /\ \A a \in Artifacts : status'[a] # Null => owner'[a] \in Scope
  <2>1. CASE UNCHANGED <<status, owner>>
    BY <2>1 DEF TypeInv
  <2>2. CASE /\ worker[w].pc # "idle"
             /\ worker'[w].artifact \in Artifacts
             /\ status' = [status EXCEPT ![worker'[w].artifact] = "RESERVED"]
             /\ owner' = [owner EXCEPT ![worker'[w].artifact] =
                             ScopeOf(worker[w].job, worker[w].product)]
    <3>1. ScopeOf(worker[w].job, worker[w].product) \in Scope
      BY <2>2 DEF TypeInv, Scope, ScopeOf
    <3> QED
      BY <2>2, <3>1 DEF TypeInv
  <2>3. CASE /\ Holds(w) /\ UNCHANGED owner
             /\ \E s : status' = [status EXCEPT ![worker[w].artifact] = s]
    <3>1. status[worker[w].artifact] = "RESERVED" /\ worker[w].artifact \in Artifacts
      BY <2>3 DEF HoldInv, DrawnInv
    <3> QED
      BY <2>3, <3>1, NullAssumption DEF TypeInv, Status
  <2> QED
    BY <2>1, <2>2, <2>3, WorkerFields DEF Holds
<1>5. \A v \in Workers : worker'[v].pc # "idle" => /\ worker'[v].job \in Jobs
                                                   /\ worker'[v].product \in Products
  BY <1>1 DEF TypeInv
<1> QED
  BY <1>1, <1>2, <1>3, <1>4, <1>5 DEF TypeInv, faultVars

\* The rows whose status a step of the aggregator changes have one before.
LEMMA RowsKept ==
    ASSUME Inv, Report
    PROVE  \A a \in Artifacts : status'[a] = Null <=> status[a] = Null
<1>1. CASE UNCHANGED status
  BY <1>1
<1>2. CASE \E new \in Status : Moved(Rows, new)
  BY <1>2, NullAssumption DEF Moved, Rows, Inv, StatusType
<1>3. CASE Rewrite(Doomed, "EVICTABLE", "FAILED")
  BY <1>3, NullAssumption DEF Rewrite, Inv, StatusType, Status
<1> QED
  BY <1>1, <1>2, <1>3, ReportFields
     DEF BeginFields, MarkFields, EndFields, UploadFields, FailFields, ReleaseFields,
         StrandFields, EvictFields, KeepAllFields, ChooseFields, DeleteFields, DeleteFailsFields,
         CommitFields, Status

LEMMA TypeReport ==
    ASSUME Inv, TypeInv, Report
    PROVE  TypeInv'
<1>1. /\ owner' \in [Artifacts -> Scope \cup {Null}] /\ UNCHANGED owner
      /\ IsFiniteSet(drawn')
      /\ \A w \in Workers : worker'[w].pc # "idle" => /\ worker'[w].job \in Jobs
                                                      /\ worker'[w].product \in Products
      /\ results' \subseteq [job: Jobs, product: Products, artifact: Artifacts]
  BY ReportFields DEF TypeInv
<1>2. \A a \in Artifacts : status'[a] # Null => owner'[a] \in Scope
  BY <1>1, RowsKept DEF TypeInv
<1>3. evicted' \in Seq(Artifacts)
  <2>1. CASE EvictFields
    BY <2>1, EvictAppends
  <2>2. CASE UNCHANGED evicted
    BY <2>2 DEF TypeInv
  <2> QED
    BY <2>1, <2>2, ReportFields
       DEF BeginFields, MarkFields, EndFields, UploadFields, FailFields, ReleaseFields,
           StrandFields, KeepAllFields, ChooseFields, DeleteFields, DeleteFailsFields, CommitFields
<1>4. /\ aggregator'.pc \in {"idle", "mark", "render", "release", "evict", "prune", "delete"}
      /\ aggregator'.products \subseteq Products
  <2>1. CASE EvictFields
    <3>1. \A a \in Rows : owner[a].product \in Products
      BY Finite DEF Rows, TypeInv, Scope
    <3> QED
      BY <2>1, <3>1 DEF EvictFields
  <2>2. CASE ~EvictFields
    BY <2>2, ReportFields
       DEF BeginFields, MarkFields, EndFields, UploadFields, FailFields, ReleaseFields,
           StrandFields, KeepAllFields, ChooseFields, DeleteFields, DeleteFailsFields, CommitFields,
           Idle, Cleared, SamePrune, TypeInv
  <2> QED
    BY <2>1, <2>2
<1>5. /\ deleteFailures' \in Nat /\ lockFailures' \in Nat /\ crashes' \in Nat
      /\ deleteFailures' + lockFailures' + crashes' <= MaxFaults
  <2>1. /\ crashes' = crashes
        /\ deleteFailures \in Nat /\ lockFailures \in Nat /\ crashes \in Nat
        /\ deleteFailures + lockFailures + crashes <= MaxFaults
    BY ReportFields DEF TypeInv
  <2>2. \/ UNCHANGED <<deleteFailures, lockFailures>>
        \/ /\ deleteFailures + lockFailures + crashes < MaxFaults
           /\ \/ deleteFailures' = deleteFailures + 1 /\ lockFailures' = lockFailures
              \/ lockFailures' = lockFailures + 1 /\ deleteFailures' = deleteFailures
    BY ReportFields
       DEF BeginFields, MarkFields, EndFields, UploadFields, FailFields, ReleaseFields,
           StrandFields, EvictFields, KeepAllFields, ChooseFields, DeleteFields,
           DeleteFailsFields, CommitFields, MayFault
  <2> QED
    BY <2>1, <2>2, LifecycleAssumption
<1>6. uses' \in [Artifacts -> 0..2]
  <2>1. CASE UploadFields
    <3>1. \A a \in Artifacts : uses[a] < 2 => uses[a] + 1 \in 0..2
      BY DEF TypeInv
    <3> QED
      BY <2>1, <3>1 DEF UploadFields, TypeInv
  <2>2. CASE UNCHANGED uses
    BY <2>2 DEF TypeInv
  <2> QED
    BY <2>1, <2>2, ReportFields
       DEF BeginFields, MarkFields, EndFields, FailFields, ReleaseFields,
           StrandFields, EvictFields, KeepAllFields, ChooseFields, DeleteFields,
           DeleteFailsFields, CommitFields
<1>7. stranded' \subseteq Artifacts
  <2>1. Rows \subseteq Artifacts /\ stranded \subseteq Artifacts
    BY Finite DEF TypeInv
  <2>2. stranded' = stranded \/ stranded' = stranded \cup Rows
    BY ReportFields
       DEF BeginFields, MarkFields, EndFields, UploadFields, FailFields, ReleaseFields,
           StrandFields, EvictFields, KeepAllFields, ChooseFields, DeleteFields,
           DeleteFailsFields, CommitFields
  <2> QED
    BY <2>1, <2>2
<1> QED
  BY <1>1, <1>2, <1>3, <1>4, <1>5, <1>6, <1>7 DEF TypeInv

LEMMA TypeCrash ==
    ASSUME TypeInv, CrashFields
    PROVE  TypeInv'
BY LifecycleAssumption DEF TypeInv, CrashFields, Idle, Cleared, MayFault

LEMMA TypeStep == Inv /\ TypeInv /\ [Next]_vars => TypeInv'
<1> SUFFICES ASSUME Inv, TypeInv, [Next]_vars PROVE TypeInv'
  OBVIOUS
<1>1. CASE UNCHANGED vars
  BY <1>1 DEF vars, tableVars, faultVars, TypeInv
<1>2. CASE Next
  BY <1>2, TypeWorker, TypeReport, TypeCrash, CrashFacts DEF Next
<1> QED
  BY <1>1, <1>2

\* A worker writes the row it reserves and the row it holds.
LEMMA WorkerWrites ==
    ASSUME Inv, NEW w \in Workers, Analyze(w)
    PROVE  \A a \in Artifacts :
             \/ status'[a] = status[a] /\ owner'[a] = owner[a]
             \/ /\ status[a] = Null /\ a \notin drawn /\ status'[a] = "RESERVED"
                /\ a = worker'[w].artifact /\ Holds(w)'
             \/ /\ status[a] = "RESERVED" /\ status'[a] \in {"READY", "FAILED"}
                /\ owner'[a] = owner[a] /\ a = worker[w].artifact /\ Holds(w)
                /\ status'[a] = "READY" => MarkReady(w)
<1> USE DEF Inv, StatusType
<1>1. CASE UNCHANGED <<status, owner>>
  BY <1>1
<1>2. CASE /\ worker'[w].pc = "analyze"
           /\ worker'[w].artifact \in Artifacts \ drawn
           /\ status' = [status EXCEPT ![worker'[w].artifact] = "RESERVED"]
           /\ owner' = [owner EXCEPT ![worker'[w].artifact] =
                           ScopeOf(worker[w].job, worker[w].product)]
  <2>1. status[worker'[w].artifact] = Null
    BY <1>2 DEF DrawnInv
  <2>2. \A a : a # worker'[w].artifact => owner'[a] = owner[a]
    BY <1>2
  <2> QED
    BY <1>2, <2>1 DEF Holds
<1>3. CASE /\ Holds(w) /\ UNCHANGED owner
           /\ \/ status' = [status EXCEPT ![worker[w].artifact] = "FAILED"]
              \/ MarkReady(w) /\ status' = [status EXCEPT ![worker[w].artifact] = "READY"]
  <2>1. status[worker[w].artifact] = "RESERVED"
    BY <1>3 DEF HoldInv
  <2> QED
    BY <1>3, <2>1
<1> QED
  BY <1>1, <1>2, <1>3, WorkerFields DEF Holds

LEMMA RowMoves ==
    ASSUME Inv, NEW S, NEW new, Moved(S, new)
    PROVE  \A a \in Artifacts : status'[a] = IF a \in S THEN new ELSE status[a]
BY DEF Moved

LEMMA CommitWrites ==
    ASSUME Inv, CommitFields
    PROVE  \A a \in Artifacts :
             status'[a] = IF a \in Doomed /\ status[a] = "EVICTABLE" THEN "FAILED" ELSE status[a]
BY DEF CommitFields, Rewrite

LEMMA EvictedWorker ==
    ASSUME Inv, TypeInv, EvictedInv, NEW w \in Workers, Analyze(w)
    PROVE  EvictedInv'
<1>1. UNCHANGED evicted
  BY WorkerFields DEF Inv
<1>2. \A i \in DOMAIN evicted : evicted[i] \in Artifacts
  BY Finite
<1>3. \A a \in Artifacts :
        /\ status[a] \in {"EVICTABLE", "FAILED"} => status'[a] = status[a]
        /\ status'[a] = "EVICTABLE" => status[a] = "EVICTABLE"
  BY WorkerWrites, NullAssumption DEF Status
<1> QED
  BY <1>1, <1>2, <1>3 DEF EvictedInv

LEMMA EvictedReport ==
    ASSUME Inv, TypeInv, EvictedInv, Report
    PROVE  EvictedInv'
<1>0. \A i \in DOMAIN evicted : evicted[i] \in Artifacts
  BY Finite
<1>1. CASE EvictFields
  <2>1. /\ \A i \in DOMAIN evicted : i \in DOMAIN evicted' /\ evicted'[i] = evicted[i]
        /\ \A i \in DOMAIN evicted' : i \notin DOMAIN evicted => evicted'[i] \in Rows
        /\ \A a \in Rows : \E i \in DOMAIN evicted' : evicted'[i] = a
        /\ \A i, k \in DOMAIN evicted' :
             i \notin DOMAIN evicted /\ k \notin DOMAIN evicted /\ evicted'[i] = evicted'[k]
             => i = k
    BY <1>1, EvictAppends
  <2>2. \A a \in Artifacts : status'[a] = IF a \in Rows THEN "EVICTABLE" ELSE status[a]
    BY <1>1, RowMoves DEF EvictFields
  <2>3. \A i \in DOMAIN evicted : evicted[i] \notin Rows
    BY <1>1 DEF EvictFields, EvictedInv
  <2> QED
    BY <1>0, <2>1, <2>2, <2>3, Finite DEF EvictedInv
<1>2. CASE CommitFields
  <2>1. UNCHANGED evicted
    BY <1>2 DEF CommitFields
  <2> QED
    BY <1>0, <1>2, <2>1, CommitWrites DEF EvictedInv
<1>3. CASE MarkFields \/ ReleaseFields
  <2>1. UNCHANGED evicted
    BY <1>3 DEF MarkFields, ReleaseFields
  <2>2. PICK new \in {"READY", "IN_REPORT"} :
          /\ \A a \in Artifacts : status'[a] = IF a \in Rows THEN new ELSE status[a]
          /\ \A a \in Rows : status[a] \in {"READY", "IN_REPORT"}
    BY <1>3, RowMoves DEF MarkFields, ReleaseFields
  <2> QED
    BY <1>0, <2>1, <2>2 DEF EvictedInv
<1>4. CASE UNCHANGED <<status, evicted>>
  BY <1>4 DEF EvictedInv
<1> QED
  BY <1>1, <1>2, <1>3, <1>4, ReportFields
     DEF BeginFields, EndFields, UploadFields, FailFields,
         StrandFields, KeepAllFields, ChooseFields, DeleteFields, DeleteFailsFields

LEMMA EvictedCrash ==
    ASSUME CrashFields
    PROVE  EvictedInv'
BY NullAssumption DEF CrashFields, EvictedInv, Status

----------------------------------------------------------------------------
(* Whose artifact a result names *)

\* A row that is complete stays so while what it was reserved for and its status do
\* not change, or its status goes around READY, IN_REPORT and the queue.
LEMMA CompleteKept ==
    ASSUME NEW a \in Artifacts, NEW j, NEW p, Complete(a, j, p),
           status'[a] # Null => status[a] # Null /\ owner'[a] = owner[a],
           \/ status'[a] = status[a]
           \/ status'[a] \in {"READY", "IN_REPORT"}
           \/ a \in Range(evicted'),
           Range(evicted) \subseteq Range(evicted')
    PROVE  Complete(a, j, p)'
BY DEF Complete

LEMMA ScopeWorker ==
    ASSUME Inv, TypeInv, EvictedInv, ScopeInv, NEW w \in Workers, Analyze(w)
    PROVE  ScopeInv'
<1> USE DEF Inv
<1>1. UNCHANGED evicted /\ \A v \in Workers : v # w => worker'[v] = worker[v]
  BY WorkerFields
<1>2. ASSUME NEW a \in drawn, a \in Artifacts, NEW j, NEW p, Complete(a, j, p)
      PROVE  Complete(a, j, p)'
  <2>1. status[a] # "RESERVED" \/ status[a] = Null
    BY <1>2, NullAssumption DEF Complete, EvictedInv, Range, Status
  <2>2. status'[a] = status[a] /\ owner'[a] = owner[a]
    BY <1>2, <2>1, WorkerWrites, NullAssumption DEF Status
  <2> QED
    BY <1>1, <1>2, <2>2, CompleteKept
<1>3. ASSUME NEW v \in Workers, v # w PROVE WorkerScope(v)'
  <2>1. worker'[v] = worker[v] /\ WorkerScope(v)
    BY <1>1, <1>3 DEF ScopeInv
  <2>2. CASE Holds(v)
    <3>1. worker[v].artifact \in drawn /\ worker[v].artifact \in Artifacts
      BY <2>2 DEF HoldInv, DrawnInv
    <3>2. worker[v].artifact # worker[w].artifact \/ ~Holds(w)
      BY <1>3, <2>2 DEF HoldInv
    <3>3. owner'[worker[v].artifact] = owner[worker[v].artifact]
      BY <2>2, <3>1, <3>2, WorkerWrites DEF HoldInv
    <3> QED
      BY <2>1, <2>2, <3>3 DEF WorkerScope, Holds
  <2>3. CASE worker[v].pc = "publish"
    <3>1. PICK a, j, p : a = worker[v].artifact /\ j = worker[v].job /\ p = worker[v].product
      OBVIOUS
    <3>2. a \in drawn /\ a \in Artifacts /\ Complete(a, j, p)
      BY <2>1, <2>3, <3>1 DEF DrawnInv, WorkerScope
    <3>3. Complete(a, j, p)'
      BY <1>2, <3>2
    <3> QED
      BY <2>1, <2>3, <3>1, <3>3 DEF WorkerScope, Holds, Complete
  <2> QED
    BY <2>1, <2>2, <2>3 DEF WorkerScope, Holds
<1>4. WorkerScope(w)'
  <2>1. CASE worker'[w].pc \in {"idle", "lookup", "reserve"}
    BY <2>1 DEF WorkerScope, Holds
  <2>2. CASE /\ worker'[w].pc = "publish"
             /\ worker'[w].job = worker[w].job /\ worker'[w].product = worker[w].product
             /\ worker'[w].artifact \in Reusable(w)
             /\ UNCHANGED <<status, owner>>
    BY <1>1, <2>2 DEF WorkerScope, Holds, Complete, Reusable, ScopeOf
  <2>3. CASE /\ worker'[w].pc = "analyze"
             /\ worker'[w].job = worker[w].job /\ worker'[w].product = worker[w].product
             /\ worker'[w].artifact \in Artifacts
             /\ owner' = [owner EXCEPT ![worker'[w].artifact] =
                             ScopeOf(worker[w].job, worker[w].product)]
    BY <2>3 DEF WorkerScope, Holds, TypeInv, ScopeOf
  <2>4. CASE /\ Holds(w) /\ UNCHANGED owner
             /\ worker'[w].job = worker[w].job /\ worker'[w].product = worker[w].product
             /\ worker'[w].artifact = worker[w].artifact
             /\ Holds(w)' \/ status' = [status EXCEPT ![worker[w].artifact] = "READY"]
    <3>1. worker[w].artifact \in Artifacts
      BY <2>4 DEF HoldInv, DrawnInv
    <3>2. owner[worker[w].artifact] = ScopeOf(worker[w].job, worker[w].product)
      BY <2>4 DEF ScopeInv, WorkerScope
    <3>3. worker'[w].pc = "publish" => status'[worker[w].artifact] = "READY"
      BY <2>4, <3>1 DEF StatusType, Holds
    <3> QED
      BY <2>4, <3>2, <3>3 DEF WorkerScope, Complete, ScopeOf
  <2> QED
    BY <2>1, <2>2, <2>3, <2>4, WorkerFields DEF Holds
<1>5. \A r \in results' : Complete(r.artifact, r.job, r.product)'
  <2>1. ASSUME NEW r \in results PROVE Complete(r.artifact, r.job, r.product)'
    <3>1. r.artifact \in drawn /\ r.artifact \in Artifacts
      BY DEF DrawnInv
    <3>2. Complete(r.artifact, r.job, r.product)
      BY DEF ScopeInv
    <3> QED
      BY <1>2, <3>1, <3>2
  <2>2. CASE UNCHANGED results
    BY <2>1, <2>2
  <2>3. CASE /\ worker[w].pc = "publish"
             /\ results' = results \cup {[job |-> worker[w].job, product |-> worker[w].product,
                                          artifact |-> worker[w].artifact]}
    <3>1. PICK a, j, p : a = worker[w].artifact /\ j = worker[w].job /\ p = worker[w].product
      OBVIOUS
    <3>2. a \in drawn /\ a \in Artifacts /\ Complete(a, j, p)
      BY <2>3, <3>1 DEF DrawnInv, ScopeInv, WorkerScope
    <3>3. Complete(a, j, p)'
      BY <1>2, <3>2
    <3>4. results' = results \cup {[job |-> j, product |-> p, artifact |-> a]}
      BY <2>3, <3>1
    <3> QED
      BY <2>1, <3>3, <3>4
  <2> QED
    BY <2>2, <2>3, WorkerFields
<1> QED
  BY <1>3, <1>4, <1>5 DEF ScopeInv

\* A row of an artifact that a result names, or a worker publishes, leaves READY
\* and IN_REPORT by the queue.
LEMMA ScopeReport ==
    ASSUME Inv, TypeInv, EvictedInv, ScopeInv, Report
    PROVE  ScopeInv'
<1> USE DEF Inv
<1>1. UNCHANGED <<worker, owner, results>>
  BY ReportFields
<1>2. ASSUME NEW a \in drawn, a \in Artifacts, NEW j, NEW p, Complete(a, j, p)
      PROVE  Complete(a, j, p)'
  <2>1. status'[a] # Null => status[a] # Null
    BY <1>2, RowsKept
  <2>2. CASE EvictFields
    <3>1. /\ \A i \in DOMAIN evicted : i \in DOMAIN evicted' /\ evicted'[i] = evicted[i]
          /\ \A b \in Rows : \E i \in DOMAIN evicted' : evicted'[i] = b
      BY <2>2, EvictAppends
    <3>2. Range(evicted) \subseteq Range(evicted') /\ Rows \subseteq Range(evicted')
      BY <3>1 DEF Range
    <3>3. status'[a] = status[a] \/ a \in Rows
      BY <1>2, <2>2, RowMoves DEF EvictFields
    <3> QED
      BY <1>1, <1>2, <2>1, <3>2, <3>3, CompleteKept
  <2>3. CASE CommitFields
    <3>1. UNCHANGED evicted
      BY <2>3 DEF CommitFields
    <3>2. status'[a] = status[a] \/ status[a] = "EVICTABLE"
      BY <1>2, <2>3, CommitWrites
    <3>3. status[a] = "EVICTABLE" => a \in Range(evicted)
      BY <1>2 DEF EvictedInv, Range
    <3> QED
      BY <1>1, <1>2, <2>1, <3>1, <3>2, <3>3, CompleteKept
  <2>4. CASE /\ UNCHANGED evicted
             /\ UNCHANGED status \/ Moved(Rows, "READY") \/ Moved(Rows, "IN_REPORT")
    <3>1. status'[a] = status[a] \/ status'[a] \in {"READY", "IN_REPORT"}
      BY <1>2, <2>4, RowMoves
    <3> QED
      BY <1>1, <1>2, <2>1, <2>4, <3>1, CompleteKept
  <2> QED
    BY <2>2, <2>3, <2>4, ReportFields
       DEF BeginFields, MarkFields, EndFields, UploadFields, FailFields, ReleaseFields,
           StrandFields, KeepAllFields, ChooseFields, DeleteFields, DeleteFailsFields
<1>3. ASSUME NEW w \in Workers PROVE WorkerScope(w)'
  <2>1. PICK a, j, p : a = worker[w].artifact /\ j = worker[w].job /\ p = worker[w].product
    OBVIOUS
  <2>2. worker[w].pc = "publish" => Complete(a, j, p)'
    BY <1>2, <2>1 DEF DrawnInv, ScopeInv, WorkerScope
  <2> QED
    BY <1>1, <2>1, <2>2 DEF WorkerScope, Holds, Complete, ScopeInv
<1>4. ASSUME NEW r \in results PROVE Complete(r.artifact, r.job, r.product)'
  <2>1. r.artifact \in drawn /\ r.artifact \in Artifacts
    BY DEF DrawnInv
  <2>2. Complete(r.artifact, r.job, r.product)
    BY DEF ScopeInv
  <2> QED
    BY <1>2, <2>1, <2>2
<1> QED
  BY <1>1, <1>3, <1>4 DEF ScopeInv

LEMMA ScopeCrash ==
    ASSUME Inv, CrashFields
    PROVE  ScopeInv'
<1>1. \A w \in Workers : WorkerScope(w)'
  BY DEF CrashFields, WorkerScope, Holds
<1>2. \A r \in results' : Complete(r.artifact, r.job, r.product)'
  BY DEF CrashFields, Complete, Inv, DrawnInv
<1> QED
  BY <1>1, <1>2 DEF ScopeInv

\* No step of a worker concerns the queue of what can be evicted.
LEMMA WorkerLeavesQueue ==
    ASSUME Inv, TypeInv, EvictedInv, NEW w \in Workers, Analyze(w)
    PROVE  /\ UNCHANGED <<evicted, aggregator, uses, faultVars>>
           /\ \A i \in DOMAIN evicted : /\ status'[evicted[i]] = status[evicted[i]]
                                        /\ owner'[evicted[i]] = owner[evicted[i]]
           /\ \A p : Evictable(p)' = Evictable(p)
<1>1. UNCHANGED <<evicted, aggregator, uses, faultVars>>
  BY WorkerFields DEF Inv
<1>2. ASSUME NEW i \in DOMAIN evicted
      PROVE  status'[evicted[i]] = status[evicted[i]] /\ owner'[evicted[i]] = owner[evicted[i]]
  <2>1. evicted[i] \in Artifacts /\ status[evicted[i]] \in {"EVICTABLE", "FAILED"}
    BY Finite DEF EvictedInv
  <2> QED
    BY <2>1, WorkerWrites, NullAssumption DEF Status
<1> QED
  BY <1>1, <1>2 DEF Evictable

\* Nor does a step of the aggregator, but for evicting and committing a prune.
LEMMA ReportLeavesQueue ==
    ASSUME Inv, TypeInv, EvictedInv, Report, ~EvictFields, ~CommitFields
    PROVE  /\ UNCHANGED <<evicted, owner>>
           /\ \A i \in DOMAIN evicted : status'[evicted[i]] = status[evicted[i]]
           /\ \A p : Evictable(p)' = Evictable(p)
<1>1. UNCHANGED <<evicted, owner>>
  BY ReportFields
     DEF BeginFields, MarkFields, EndFields, UploadFields, FailFields, ReleaseFields,
         StrandFields, KeepAllFields, ChooseFields, DeleteFields, DeleteFailsFields
<1>2. \A i \in DOMAIN evicted : status'[evicted[i]] = status[evicted[i]]
  <2>1. CASE UNCHANGED status
    BY <2>1
  <2>2. CASE /\ \A a \in Rows : status[a] \in {"READY", "IN_REPORT"}
             /\ Moved(Rows, "READY") \/ Moved(Rows, "IN_REPORT")
    <3>1. \A i \in DOMAIN evicted : evicted[i] \in Artifacts /\ evicted[i] \notin Rows
      BY <2>2, Finite DEF EvictedInv
    <3> QED
      BY <2>2, <3>1, RowMoves
  <2> QED
    BY <2>1, <2>2, ReportFields
       DEF BeginFields, MarkFields, EndFields, UploadFields, FailFields, ReleaseFields,
           StrandFields, KeepAllFields, ChooseFields, DeleteFields, DeleteFailsFields
<1> QED
  BY <1>1, <1>2 DEF Evictable

----------------------------------------------------------------------------
(* The prune *)

LEMMA DoomedWorker ==
    ASSUME Inv, TypeInv, EvictedInv, DoomedInv, NEW w \in Workers, Analyze(w)
    PROVE  DoomedInv'
<1>1. UNCHANGED aggregator /\ \A p : Evictable(p)' = Evictable(p)
  BY WorkerLeavesQueue
<1> QED
  BY <1>1 DEF DoomedInv, Oldest

LEMMA DoomedReport ==
    ASSUME Inv, TypeInv, EvictedInv, DoomedInv, Report
    PROVE  DoomedInv'
<1>1. CASE BeginFields \/ EndFields \/ ReleaseFields \/ StrandFields \/ DeleteFailsFields
  BY <1>1 DEF DoomedInv, BeginFields, EndFields, ReleaseFields, StrandFields,
              DeleteFailsFields, Idle, Cleared
<1>2. CASE MarkFields \/ UploadFields \/ FailFields
  BY <1>2 DEF DoomedInv, MarkFields, UploadFields, FailFields, SamePrune
<1>3. CASE EvictFields \/ KeepAllFields \/ CommitFields
  BY <1>3 DEF DoomedInv, EvictFields, KeepAllFields, CommitFields
<1>4. CASE ChooseFields
  <2>1. \A p : Evictable(p)' = Evictable(p)
    BY <1>4, ReportLeavesQueue DEF ChooseFields, EvictFields, CommitFields
  <2>2. PICK p \in aggregator.products :
          /\ Cardinality(Evictable(p)) - MaxEvictable > 0
          /\ aggregator'.products = aggregator.products \ {p}
          /\ aggregator'.doomed \in Oldest(Evictable(p), Cardinality(Evictable(p)) - MaxEvictable)
          /\ aggregator'.deleting = aggregator'.doomed
    BY <1>4 DEF ChooseFields
  <2>3. Cardinality(Evictable(p)) \in Nat /\ p \in Products
    BY <2>2, Finite DEF TypeInv
  <2>4. Cardinality(Evictable(p)) > MaxEvictable
    BY <2>2, <2>3, LifecycleAssumption
  <2>5. aggregator'.pc = "delete"
    BY <1>4 DEF ChooseFields
  <2>6. Evictable(p)' = Evictable(p)
    BY <2>1
  <2> DEFINE E == Evictable(p)
  <2> HIDE DEF E
  <2>7. /\ Cardinality(E') > MaxEvictable
        /\ aggregator'.doomed \in Oldest(E', Cardinality(E') - MaxEvictable)
    BY <2>2, <2>4, <2>6 DEF E
  <2>8. /\ Cardinality(Evictable(p)') > MaxEvictable
        /\ (aggregator.doomed \in Oldest(Evictable(p), Cardinality(Evictable(p)) - MaxEvictable))'
    BY <2>7 DEF E, Oldest
  <2> QED
    BY <2>2, <2>3, <2>5, <2>8 DEF DoomedInv
<1>5. CASE DeleteFields
  <2>1. \A p : Evictable(p)' = Evictable(p)
    BY <1>5, ReportLeavesQueue DEF DeleteFields, EvictFields, CommitFields
  <2>2. /\ UNCHANGED <<aggregator.pc, aggregator.products, aggregator.doomed>>
        /\ aggregator'.deleting \subseteq aggregator.deleting
        /\ aggregator.pc = "delete"
    BY <1>5 DEF DeleteFields
  <2> QED
    BY <2>1, <2>2 DEF DoomedInv, Oldest
<1> QED
  BY <1>1, <1>2, <1>3, <1>4, <1>5, ReportFields

LEMMA DoomedCrash ==
    ASSUME CrashFields
    PROVE  DoomedInv'
BY DEF CrashFields, DoomedInv, Idle, Cleared

\* What a prune deletes is evictable and of one product.
LEMMA DoomedFacts ==
    ASSUME TypeInv, DoomedInv
    PROVE  /\ aggregator.deleting \subseteq aggregator.doomed
           /\ aggregator.doomed \subseteq DOMAIN evicted
           /\ \A i \in aggregator.doomed : status[evicted[i]] = "EVICTABLE"
<1>1. CASE aggregator.pc = "delete"
  BY <1>1 DEF DoomedInv, Oldest, Evictable
<1>2. CASE aggregator.pc # "delete"
  BY <1>2 DEF DoomedInv
<1> QED
  BY <1>1, <1>2

----------------------------------------------------------------------------
(* What is in storage *)

LEMMA StoredWorker ==
    ASSUME Inv, TypeInv, EvictedInv, StoredInv, NEW w \in Workers, Analyze(w)
    PROVE  StoredInv'
<1>1. /\ \A v \in Workers : v # w => worker'[v] = worker[v]
      /\ UNCHANGED <<evicted, aggregator, deleteFailures>>
      /\ stored \subseteq stored'
      /\ worker'[w].pc = "mark_ready" => worker'[w].artifact \in stored'
      /\ MarkReady(w) => worker[w].artifact \in stored
  <2>1. MarkReady(w) => worker[w].artifact \in stored
    BY DEF MarkReady, StoredInv
  <2> QED
    BY <2>1, WorkerFields DEF Inv, faultVars
<1>2. Doomed' = Doomed
  BY <1>1 DEF Doomed
<1>3. \A a \in Artifacts :
        \/ status'[a] = status[a]
        \/ status'[a] \in {"RESERVED", "FAILED"}
        \/ status'[a] = "READY" /\ a \in stored
  BY <1>1, WorkerWrites
<1>4. CompletedIsStored'
  BY <1>1, <1>2, <1>3 DEF StoredInv, CompletedIsStored
<1> QED
  BY <1>1, <1>4 DEF StoredInv

LEMMA StoredReport ==
    ASSUME Inv, TypeInv, EvictedInv, DoomedInv, StoredInv, Report
    PROVE  StoredInv'
<1>0. UNCHANGED worker
  BY ReportFields
<1>1. CASE DeleteFields
  <2>1. PICK i \in aggregator.deleting : stored' = stored \ {evicted[i]}
    BY <1>1 DEF DeleteFields
  <2>2. status[evicted[i]] = "EVICTABLE" /\ evicted[i] \in Doomed
    BY <2>1, DoomedFacts DEF Doomed
  <2>3. Doomed' = Doomed /\ UNCHANGED <<status, deleteFailures>> /\ aggregator'.pc = "delete"
        /\ aggregator.pc = "delete"
    BY <1>1 DEF DeleteFields, Doomed
  <2>4. \A w \in Workers : worker[w].pc = "mark_ready" => worker[w].artifact # evicted[i]
    BY <2>2 DEF Inv, HoldInv, Holds
  <2> QED
    BY <1>0, <2>1, <2>2, <2>3, <2>4 DEF StoredInv, CompletedIsStored
<1>2. CASE CommitFields
  BY <1>0, <1>2, CommitWrites DEF CommitFields, StoredInv, CompletedIsStored
<1>3. CASE DeleteFailsFields
  BY <1>0, <1>3 DEF DeleteFailsFields, StoredInv, CompletedIsStored, TypeInv
<1>4. CASE MarkFields \/ ReleaseFields \/ EvictFields
  <2>1. UNCHANGED <<stored, deleteFailures>> /\ aggregator.pc # "delete"
    BY <1>4 DEF MarkFields, ReleaseFields, EvictFields
  <2>2. \A a \in Artifacts : status'[a] = status[a] \/ a \in Rows
    BY <1>4, RowMoves DEF MarkFields, ReleaseFields, EvictFields
  <2>3. \A a \in Rows : status[a] \in {"READY", "IN_REPORT"}
    BY <1>4 DEF MarkFields, ReleaseFields, EvictFields
  <2> QED
    BY <1>0, <2>1, <2>2, <2>3 DEF StoredInv, CompletedIsStored
<1>5. CASE \/ BeginFields \/ EndFields \/ UploadFields \/ FailFields \/ StrandFields
           \/ KeepAllFields \/ ChooseFields
  <2>1. UNCHANGED <<status, stored, deleteFailures>> /\ aggregator.pc # "delete"
    BY <1>5 DEF BeginFields, EndFields, UploadFields, FailFields, StrandFields,
                KeepAllFields, ChooseFields
  <2> QED
    BY <1>0, <2>1 DEF StoredInv, CompletedIsStored
<1> QED
  BY <1>1, <1>2, <1>3, <1>4, <1>5, ReportFields

LEMMA StoredCrash ==
    ASSUME CrashFields
    PROVE  StoredInv'
BY NullAssumption DEF CrashFields, StoredInv, CompletedIsStored, Status

----------------------------------------------------------------------------
(* What reports have used *)

LEMMA ReportsWorker ==
    ASSUME Inv, ReportsInv, NEW w \in Workers, Analyze(w)
    PROVE  ReportsInv'
<1> SUFFICES ASSUME crashes' = 0 PROVE ReportsInv'
  BY DEF ReportsInv
<1>1. /\ aggregator' = aggregator /\ uses' = uses
      /\ stranded' = stranded /\ crashes' = crashes
  BY WorkerFields DEF Inv, faultVars
<1>2. drawn \subseteq drawn' /\ \A a \in drawn' : a \notin drawn => status'[a] = "RESERVED"
  <2>1. CASE UNCHANGED drawn
    BY <2>1
  <2>2. CASE /\ worker'[w].artifact \in Artifacts
             /\ drawn' = drawn \cup {worker'[w].artifact}
             /\ status' = [status EXCEPT ![worker'[w].artifact] = "RESERVED"]
    BY <2>2 DEF Inv, StatusType
  <2> QED
    BY <2>1, <2>2, WorkerFields DEF Inv
<1>3. \A a \in Artifacts : /\ status[a] \in {"EVICTABLE", "FAILED"} => status'[a] = status[a]
                           /\ status[a] # Null => status'[a] # Null
  BY WorkerWrites, NullAssumption DEF Inv, DrawnInv, Status
<1>4. \A a \in Artifacts : UsedUp(a) => UsedUp(a)'
  BY <1>1, <1>3 DEF UsedUp
<1>5. \A a \in drawn' : status'[a] # Null
  BY <1>1, <1>2, <1>3, NullAssumption DEF ReportsInv, Inv, DrawnInv, Status
<1> QED
  BY <1>1, <1>4, <1>5 DEF ReportsInv

LEMMA ReportsReport ==
    ASSUME Inv, TypeInv, EvictedInv, ReportsInv, Report
    PROVE  ReportsInv'
<1> SUFFICES ASSUME crashes' = 0 PROVE ReportsInv'
  BY DEF ReportsInv
<1>1. UNCHANGED <<drawn, crashes>> /\ \A a \in drawn : a \in Artifacts
  BY ReportFields DEF Inv, DrawnInv
<1>2. \A a \in drawn' : status'[a] # Null
  BY <1>1, RowsKept DEF ReportsInv
<1>3. \A a \in Artifacts :
        status[a] \in {"EVICTABLE", "FAILED"} => status'[a] \in {"EVICTABLE", "FAILED"}
  <2>1. CASE UNCHANGED status
    BY <2>1
  <2>2. CASE CommitFields
    BY <2>2, CommitWrites
  <2>3. CASE /\ \A a \in Rows : status[a] \in {"READY", "IN_REPORT"}
             /\ \E new : Moved(Rows, new)
    BY <2>3, RowMoves
  <2> QED
    BY <2>1, <2>2, <2>3, ReportFields
       DEF BeginFields, MarkFields, EndFields, UploadFields, FailFields, ReleaseFields,
           StrandFields, EvictFields, KeepAllFields, ChooseFields, DeleteFields,
           DeleteFailsFields
<1>4. stranded \subseteq stranded'
  BY ReportFields
     DEF BeginFields, MarkFields, EndFields, UploadFields, FailFields, ReleaseFields,
         StrandFields, EvictFields, KeepAllFields, ChooseFields, DeleteFields,
         DeleteFailsFields, CommitFields
<1>5. \A a \in Artifacts : UsedUp(a) => UsedUp(a)'
  BY <1>3, <1>4 DEF UsedUp
<1>6. aggregator.ids \subseteq drawn /\ aggregator.ids \subseteq Rows
  BY <1>1 DEF Inv, DrawnInv, ReportsInv, Rows
<1>7. CASE UploadFields
  <2>1. \A a \in aggregator.ids : ~UsedUp(a)
    <3>1. \A a \in aggregator.ids : status[a] = "IN_REPORT" /\ a \notin stranded
      BY <1>1, <1>6, <1>7 DEF UploadFields, Inv, InReportIsOwned, InHand
    <3> QED
      BY <3>1 DEF UsedUp
  <2>2. \A a \in Artifacts : uses[a] \in 0..2 /\ uses[a] <= 1 /\ (uses[a] # 0 => UsedUp(a))
    BY <1>1, <1>7 DEF UploadFields, ReportsInv, TypeInv
  <2>3. \A a \in Artifacts : uses'[a] = IF a \in aggregator.ids /\ uses[a] < 2
                                        THEN uses[a] + 1 ELSE uses[a]
    BY <1>7 DEF UploadFields
  <2>4. \A a \in aggregator.ids : uses[a] = 0
    BY <1>1, <1>6, <2>1, <2>2
  <2>5. \A a \in Artifacts : uses'[a] <= 1
    BY <2>2, <2>3, <2>4
  <2>6. aggregator'.pc = "evict" /\ aggregator'.ids = aggregator.ids
    BY <1>7 DEF UploadFields, SameReport
  <2>7. \A a \in Artifacts : uses'[a] # 0 => UsedUp(a)' \/ a \in aggregator.ids
    BY <1>5, <2>2, <2>3
  <2> QED
    BY <1>2, <2>5, <2>6, <2>7 DEF ReportsInv
<1>8. CASE EvictFields \/ StrandFields
  <2>1. UNCHANGED uses /\ \A a \in drawn : a \in Rows => UsedUp(a)'
    <3>1. CASE EvictFields
      BY <1>1, <3>1, RowMoves DEF EvictFields, UsedUp
    <3>2. CASE StrandFields
      BY <3>2 DEF StrandFields, UsedUp
    <3> QED
      BY <1>8, <3>1, <3>2
  <2>2. ASSUME NEW a \in Artifacts, uses[a] # 0 PROVE UsedUp(a)'
    <3>1. UsedUp(a) \/ a \in aggregator.ids
      BY <1>1, <2>2 DEF ReportsInv
    <3> QED
      BY <1>5, <1>6, <2>1, <3>1
  <2> QED
    BY <1>1, <1>2, <2>1, <2>2 DEF ReportsInv
<1>9. CASE ~UploadFields /\ ~EvictFields /\ ~StrandFields
  <2>1. UNCHANGED uses /\ aggregator.pc # "evict"
    BY <1>9, ReportFields
       DEF BeginFields, MarkFields, EndFields, FailFields, ReleaseFields,
           StrandFields, KeepAllFields, ChooseFields, DeleteFields, DeleteFailsFields, CommitFields
  <2> QED
    BY <1>1, <1>2, <1>5, <2>1 DEF ReportsInv
<1> QED
  BY <1>7, <1>8, <1>9

LEMMA ReportsCrash ==
    ASSUME TypeInv, CrashFields
    PROVE  ReportsInv'
BY DEF CrashFields, ReportsInv, TypeInv

----------------------------------------------------------------------------
(* How much a product keeps *)

LEMMA QueueKept ==
    ASSUME NEW p, Evictable(p)' = Evictable(p), UNCHANGED deleteFailures,
           Pending(p) => Pending(p)', QueueBound(p), TypeInv,
           Cardinality(Evictable(p)) \in Nat
    PROVE  QueueBound(p)'
<1> DEFINE n == Cardinality(Evictable(p))
<1>1. n' = n /\ n \in Nat
  OBVIOUS
<1>2. MaxEvictable \in Nat /\ deleteFailures \in Nat
  BY LifecycleAssumption DEF TypeInv
<1>3. n <= MaxEvictable + deleteFailures + (IF Pending(p) THEN 1 ELSE 0)
  BY DEF QueueBound
<1> HIDE DEF n
<1>4. n' <= MaxEvictable + deleteFailures' + (IF Pending(p)' THEN 1 ELSE 0)
  BY <1>1, <1>2, <1>3
<1> QED
  BY <1>4 DEF n, QueueBound

LEMMA RetentionWorker ==
    ASSUME Inv, TypeInv, EvictedInv, DoomedInv, NEW w \in Workers, Analyze(w)
    PROVE  /\ \A p \in Products : QueueBound(p) => QueueBound(p)'
           /\ NewestInv => NewestInv'
           /\ OneRowInv => OneRowInv'
<1>1. /\ UNCHANGED <<evicted, aggregator, deleteFailures>>
      /\ \A i \in DOMAIN evicted : /\ status'[evicted[i]] = status[evicted[i]]
                                   /\ owner'[evicted[i]] = owner[evicted[i]]
      /\ \A p : Evictable(p)' = Evictable(p)
  BY WorkerLeavesQueue DEF faultVars
<1>2. \A p : Pending(p)' = Pending(p)
  BY <1>1, DoomedFacts DEF Pending
<1>3. \A p \in Products : QueueBound(p) => QueueBound(p)'
  BY <1>1, <1>2, QueueKept, Finite
<1>4. NewestInv => NewestInv'
  BY <1>1 DEF NewestInv
<1>5. OneRowInv => OneRowInv'
  <2>1. \A a \in aggregator.ids : a \in drawn /\ a \in Artifacts
    BY DEF Inv, DrawnInv
  <2>2. \A a \in aggregator.ids : /\ status'[a] # Null <=> status[a] # Null
                                  /\ owner'[a] = owner[a]
    BY <2>1, WorkerWrites, NullAssumption DEF Status
  <2> QED
    BY <1>1, <2>2 DEF OneRowInv, OneRowEach, Rows
<1> QED
  BY <1>3, <1>4, <1>5

\* A round of results has one of each product, and a row is of the product of its
\* result.
LEMMA OneRowReport ==
    ASSUME Inv, TypeInv, ScopeInv, OneRowInv, Report
    PROVE  OneRowInv'
<1>1. UNCHANGED <<owner, results>>
  BY ReportFields
<1>2. CASE BeginFields
  <2>0. PICK j \in Jobs : \E S \in SUBSET {r \in results : r.job = j} :
          /\ \A r, q \in S : r.product = q.product => r = q
          /\ aggregator'.ids = {r.artifact : r \in S}
    BY <1>2 DEF BeginFields
  <2>1. PICK S \in SUBSET {r \in results : r.job = j} :
          /\ \A r, q \in S : r.product = q.product => r = q
          /\ aggregator'.ids = {r.artifact : r \in S}
    BY <2>0
  <2>2. UNCHANGED status
    BY <1>2 DEF BeginFields
  <2>3. ASSUME NEW a \in Rows', NEW b \in Rows', owner[a].product = owner[b].product
        PROVE  a = b
    <3>1. PICK r \in S, q \in S : a = r.artifact /\ b = q.artifact
      BY <2>1 DEF Rows
    <3>2. status[a] # Null /\ status[b] # Null
      BY <2>2 DEF Rows
    <3>3. owner[a].product = r.product /\ owner[b].product = q.product
      <4>1. r \in results /\ q \in results
        BY <2>1
      <4>2. owner[a] = ScopeOf(r.job, r.product) /\ owner[b] = ScopeOf(q.job, q.product)
        BY <3>1, <3>2, <4>1 DEF ScopeInv, Complete
      <4> QED
        BY <4>2 DEF ScopeOf
    <3> QED
      BY <2>1, <2>3, <3>1, <3>3
  <2> QED
    BY <1>1, <2>3 DEF OneRowInv, OneRowEach
<1>3. CASE ~BeginFields
  <2>1. aggregator'.pc \in {"mark", "render", "release", "evict"}
        => /\ aggregator.pc \in {"mark", "render", "release", "evict"}
           /\ aggregator'.ids = aggregator.ids
    BY <1>3, ReportFields
       DEF MarkFields, EndFields, UploadFields, FailFields, ReleaseFields, SameReport, Idle,
           StrandFields, EvictFields, KeepAllFields, ChooseFields, DeleteFields, DeleteFailsFields,
           CommitFields
  <2>2. aggregator'.ids = aggregator.ids => Rows' = Rows
    BY RowsKept DEF Rows, Inv, DrawnInv
  <2> QED
    BY <1>1, <2>1, <2>2 DEF OneRowInv, OneRowEach
<1> QED
  BY <1>2, <1>3

LEMMA EvictRetention ==
    ASSUME Inv, TypeInv, EvictedInv, DoomedInv, OneRowInv, NewestInv, Report, EvictFields,
           \A p \in Products : QueueBound(p)
    PROVE  (\A p \in Products : QueueBound(p)') /\ NewestInv'
<1>1. /\ Len(evicted) \in Nat /\ Cardinality(Rows) \in Nat
      /\ DOMAIN evicted = 1..Len(evicted)
      /\ DOMAIN evicted' = 1..(Len(evicted) + Cardinality(Rows))
      /\ \A i \in DOMAIN evicted : evicted'[i] = evicted[i]
      /\ \A i \in DOMAIN evicted' : i \notin DOMAIN evicted => evicted'[i] \in Rows
      /\ \A i, k \in DOMAIN evicted' :
           i \notin DOMAIN evicted /\ k \notin DOMAIN evicted /\ evicted'[i] = evicted'[k]
           => i = k
  BY EvictAppends
<1>2. UNCHANGED <<owner, deleteFailures>>
  BY ReportFields DEF EvictFields
<1>3. /\ \A a \in Artifacts : status'[a] = IF a \in Rows THEN "EVICTABLE" ELSE status[a]
      /\ \A a \in Rows : status[a] = "IN_REPORT"
      /\ aggregator'.products = {owner[a].product : a \in Rows}
      /\ aggregator.pc = "evict"
  BY RowMoves DEF EvictFields
<1>4. \A i \in DOMAIN evicted : evicted[i] \in Artifacts /\ evicted[i] \notin Rows
  BY <1>3, Finite DEF EvictedInv
<1>5. /\ \A i \in DOMAIN evicted : status'[evicted'[i]] = status[evicted[i]]
      /\ \A i \in DOMAIN evicted' : i \notin DOMAIN evicted => status'[evicted'[i]] = "EVICTABLE"
  BY <1>1, <1>3, <1>4, Finite
<1>6. NewestInv'
  <2> SUFFICES ASSUME NEW i \in DOMAIN evicted', NEW k \in DOMAIN evicted', i < k,
                      owner[evicted'[i]].product = owner[evicted'[k]].product,
                      status'[evicted'[i]] = "EVICTABLE"
               PROVE  status'[evicted'[k]] = "EVICTABLE"
    BY <1>2 DEF NewestInv
  <2>1. CASE k \in DOMAIN evicted
    <3>1. i \in DOMAIN evicted
      BY <1>1, <2>1
    <3> QED
      BY <1>1, <1>5, <2>1, <3>1 DEF NewestInv
  <2>2. CASE k \notin DOMAIN evicted
    BY <1>5, <2>2
  <2> QED
    BY <2>1, <2>2
<1>7. ASSUME NEW p \in Products PROVE QueueBound(p)'
  <2>1. Evictable(p)' \cap DOMAIN evicted \subseteq Evictable(p)
    BY <1>1, <1>2, <1>5 DEF Evictable
  <2>2. ~Pending(p)
    BY <1>3 DEF Pending, DoomedInv
  <2>3. IsFiniteSet(Evictable(p)) /\ Cardinality(Evictable(p)) \in Nat
    BY Finite
  <2>4. CASE \E x \in Evictable(p)' : x \notin DOMAIN evicted
    <3>1. PICK x \in Evictable(p)' : x \notin DOMAIN evicted
      BY <2>4
    <3>2. /\ x \in DOMAIN evicted' /\ evicted'[x] \in Rows
          /\ owner[evicted'[x]].product = p
      BY <1>1, <1>2, <3>1 DEF Evictable
    <3>3. ASSUME NEW y \in Evictable(p)', y \notin DOMAIN evicted PROVE y = x
      <4>1. /\ y \in DOMAIN evicted' /\ evicted'[y] \in Rows
            /\ owner[evicted'[y]].product = p
        BY <1>1, <1>2, <3>3 DEF Evictable
      <4>2. evicted'[x] = evicted'[y]
        BY <1>3, <3>2, <4>1 DEF OneRowInv, OneRowEach
      <4> QED
        BY <1>1, <3>1, <3>2, <3>3, <4>1, <4>2
    <3>4. Evictable(p)' \subseteq Evictable(p) \cup {x}
      BY <2>1, <3>3
    <3>5. /\ Cardinality(Evictable(p)') \in Nat
          /\ Cardinality(Evictable(p)') <= Cardinality(Evictable(p)) + 1
      <4> DEFINE S == Evictable(p)
                 T == Evictable(p)'
      <4>1. IsFiniteSet(S) /\ T \subseteq S \cup {x}
        BY <2>3, <3>4
      <4> HIDE DEF S, T
      <4>2. Cardinality(T) \in Nat /\ Cardinality(T) <= Cardinality(S) + 1
        BY <4>1, OneMore
      <4> QED
        BY <4>2 DEF S, T
    <3>6. Pending(p)'
      BY <1>2, <1>3, <3>2 DEF Pending
    <3> QED
      BY <1>2, <2>2, <2>3, <3>5, <3>6, LifecycleAssumption DEF QueueBound, TypeInv
  <2>5. CASE ~\E x \in Evictable(p)' : x \notin DOMAIN evicted
    <3>1. Evictable(p)' \subseteq Evictable(p)
      BY <2>1, <2>5
    <3>2. /\ Cardinality(Evictable(p)') \in Nat
          /\ Cardinality(Evictable(p)') <= Cardinality(Evictable(p))
      <4> DEFINE S == Evictable(p)
                 T == Evictable(p)'
      <4>1. IsFiniteSet(S) /\ T \subseteq S
        BY <2>3, <3>1
      <4> HIDE DEF S, T
      <4>2. IsFiniteSet(T) /\ Cardinality(T) <= Cardinality(S)
        BY <4>1, FS_Subset
      <4>3. Cardinality(T) \in Nat
        BY <4>2, FS_CardinalityType
      <4> QED
        BY <4>2, <4>3 DEF S, T
    <3> QED
      BY <1>2, <2>2, <2>3, <3>2, LifecycleAssumption DEF QueueBound, TypeInv
  <2> QED
    BY <2>4, <2>5
<1> QED
  BY <1>6, <1>7

LEMMA CommitRetention ==
    ASSUME Inv, TypeInv, EvictedInv, DoomedInv, NewestInv, Report, CommitFields,
           \A p \in Products : QueueBound(p)
    PROVE  (\A p \in Products : QueueBound(p)') /\ NewestInv'
<1>1. /\ UNCHANGED <<owner, evicted, deleteFailures>>
      /\ aggregator.pc = "delete"
      /\ aggregator'.products = aggregator.products
  BY ReportFields DEF CommitFields
<1>2. \A a \in Artifacts :
        status'[a] = IF a \in Doomed /\ status[a] = "EVICTABLE" THEN "FAILED" ELSE status[a]
  BY CommitWrites
<1>3. PICK p0 \in Products :
        /\ p0 \notin aggregator.products
        /\ Cardinality(Evictable(p0)) > MaxEvictable
        /\ aggregator.doomed \in Oldest(Evictable(p0), Cardinality(Evictable(p0)) - MaxEvictable)
  BY <1>1 DEF DoomedInv
<1> DEFINE D == aggregator.doomed
           E == Evictable(p0)
<1>4. /\ D \subseteq E /\ Cardinality(D) = Cardinality(E) - MaxEvictable
      /\ \A i \in D, k \in E \ D : i < k
  BY <1>3 DEF Oldest
<1>5. /\ IsFiniteSet(E) /\ Cardinality(E) \in Nat /\ E \subseteq DOMAIN evicted
      /\ \A i \in DOMAIN evicted : i \in Nat /\ evicted[i] \in Artifacts
  BY Finite
<1>6. \A i \in DOMAIN evicted : evicted[i] \in Doomed <=> i \in D
  BY <1>4, <1>5 DEF Doomed, EvictedInv
<1>7. \A i \in DOMAIN evicted : status'[evicted[i]] = "EVICTABLE"
                                <=> status[evicted[i]] = "EVICTABLE" /\ i \notin D
  BY <1>2, <1>5, <1>6
<1>8. \A i \in D : owner[evicted[i]].product = p0
  BY <1>4 DEF Evictable
<1>9. \A p : Evictable(p)' = Evictable(p) \ D
  BY <1>1, <1>7 DEF Evictable
<1>10. NewestInv'
  <2> SUFFICES ASSUME NEW i \in DOMAIN evicted, NEW k \in DOMAIN evicted, i < k,
                      owner[evicted[i]].product = owner[evicted[k]].product,
                      status'[evicted[i]] = "EVICTABLE"
               PROVE  status'[evicted[k]] = "EVICTABLE"
    BY <1>1 DEF NewestInv
  <2>1. status[evicted[i]] = "EVICTABLE" /\ i \notin D /\ status[evicted[k]] = "EVICTABLE"
    BY <1>7 DEF NewestInv
  <2>2. CASE k \in D
    <3>1. i \in E \ D
      BY <1>8, <2>1, <2>2 DEF Evictable
    <3>2. k < i /\ i \in Nat /\ k \in Nat
      BY <1>4, <1>5, <2>2, <3>1
    <3> QED
      BY <3>2
  <2> QED
    BY <1>7, <2>1, <2>2
<1>11. ASSUME NEW p \in Products, p # p0 PROVE QueueBound(p)'
  <2>1. Evictable(p)' = Evictable(p)
    BY <1>8, <1>9, <1>11 DEF Evictable
  <2>2. Pending(p) => Pending(p)'
    BY <1>1, <1>8, <1>11 DEF Pending
  <2> QED
    BY <1>1, <2>1, <2>2, QueueKept, Finite
<1>12. QueueBound(p0)'
  <2> HIDE DEF D, E
  <2>1. /\ IsFiniteSet(E \ D) /\ IsFiniteSet(D) /\ Cardinality(D) \in Nat
        /\ Cardinality(E \ D) = Cardinality(E) - Cardinality(E \cap D)
    BY <1>4, <1>5, FS_Difference, FS_Subset, FS_CardinalityType
  <2>2. E \cap D = D
    BY <1>4
  <2>3. Cardinality(E \ D) = MaxEvictable
    BY <1>4, <1>5, <2>1, <2>2, LifecycleAssumption
  <2>4. Cardinality(Evictable(p0)') = MaxEvictable
    BY <1>9, <2>3 DEF E
  <2> QED
    BY <1>1, <2>4, LifecycleAssumption DEF QueueBound, TypeInv
<1> QED
  BY <1>10, <1>11, <1>12

LEMMA RetentionReport ==
    ASSUME Inv, TypeInv, EvictedInv, DoomedInv, ScopeInv, OneRowInv, NewestInv, Report,
           \A p \in Products : QueueBound(p)
    PROVE  (\A p \in Products : QueueBound(p)') /\ NewestInv'
<1>1. CASE EvictFields
  BY <1>1, EvictRetention
<1>2. CASE CommitFields
  BY <1>2, CommitRetention
<1>3. CASE ~EvictFields /\ ~CommitFields
  <2>1. /\ UNCHANGED <<evicted, owner>>
        /\ \A i \in DOMAIN evicted : status'[evicted[i]] = status[evicted[i]]
        /\ \A p : Evictable(p)' = Evictable(p)
    BY <1>3, ReportLeavesQueue
  <2>2. NewestInv'
    BY <2>1 DEF NewestInv
  <2>3. ASSUME NEW p \in Products PROVE QueueBound(p)'
    <3>1. Cardinality(Evictable(p)) \in Nat /\ QueueBound(p) /\ Evictable(p)' = Evictable(p)
      BY <2>1, Finite
    <3>2. CASE BeginFields \/ EndFields \/ ReleaseFields \/ StrandFields
      <4>1. ~Pending(p) /\ UNCHANGED deleteFailures
        BY <3>2 DEF BeginFields, EndFields, ReleaseFields, StrandFields, DoomedInv, Pending
      <4> QED
        BY <3>1, <4>1, QueueKept
    <3>3. CASE MarkFields \/ UploadFields \/ FailFields \/ DeleteFields
      <4>1. Pending(p)' = Pending(p) /\ UNCHANGED deleteFailures
        BY <2>1, <3>3 DEF MarkFields, UploadFields, FailFields, DeleteFields, SamePrune, Pending
      <4> QED
        BY <3>1, <4>1, QueueKept
    <3>4. CASE KeepAllFields
      <4>1. PICK q \in aggregator.products :
              /\ Cardinality(Evictable(q)) - MaxEvictable <= 0
              /\ aggregator'.products = aggregator.products \ {q}
        BY <3>4 DEF KeepAllFields
      <4>2. UNCHANGED deleteFailures /\ aggregator'.doomed = aggregator.doomed
        BY <3>4 DEF KeepAllFields
      <4>3. CASE p = q
        <5>1. Cardinality(Evictable(p)) <= MaxEvictable
          BY <3>1, <4>1, <4>3, LifecycleAssumption
        <5>2. Cardinality(Evictable(p)') <= MaxEvictable
          BY <3>1, <5>1
        <5>3. Cardinality(Evictable(p)') \in Nat
          BY <3>1
        <5> QED
          BY <4>2, <5>2, <5>3, LifecycleAssumption DEF QueueBound, TypeInv
      <4>4. CASE p # q
        <5>1. Pending(p)' = Pending(p)
          BY <2>1, <4>1, <4>2, <4>4 DEF Pending
        <5> QED
          BY <3>1, <4>2, <5>1, QueueKept
      <4> QED
        BY <4>3, <4>4
    <3>5. CASE ChooseFields
      <4>1. PICK q \in aggregator.products :
              /\ Cardinality(Evictable(q)) - MaxEvictable > 0
              /\ aggregator'.products = aggregator.products \ {q}
              /\ aggregator'.doomed \in Oldest(Evictable(q), Cardinality(Evictable(q)) - MaxEvictable)
        BY <3>5 DEF ChooseFields
      <4>2. UNCHANGED deleteFailures /\ aggregator.doomed = {}
        BY <3>5 DEF ChooseFields, DoomedInv
      <4>3. Pending(p) => Pending(p)'
        <5>1. CASE p = q
          <6>1. aggregator'.doomed \subseteq Evictable(p) /\ Cardinality(aggregator'.doomed) # 0
            BY <3>1, <4>1, <5>1, LifecycleAssumption DEF Oldest
          <6>2. \E i \in aggregator'.doomed : i \in Evictable(p)
            BY <6>1, FS_EmptySet
          <6> QED
            BY <2>1, <6>2 DEF Pending, Evictable
        <5>2. CASE p # q
          BY <4>1, <4>2, <5>2 DEF Pending
        <5> QED
          BY <5>1, <5>2
      <4> QED
        BY <3>1, <4>2, <4>3, QueueKept
    <3>6. CASE DeleteFailsFields
      <4>1. Cardinality(Evictable(p)) <= MaxEvictable + deleteFailures + 1
        BY <3>1, LifecycleAssumption DEF QueueBound, TypeInv
      <4>2. deleteFailures' = deleteFailures + 1
        BY <3>6 DEF DeleteFailsFields
      <4>3. Cardinality(Evictable(p)') <= MaxEvictable + deleteFailures'
        BY <3>1, <4>1, <4>2, LifecycleAssumption DEF TypeInv
      <4>4. Cardinality(Evictable(p)') \in Nat
        BY <3>1
      <4> QED
        BY <4>2, <4>3, <4>4, LifecycleAssumption DEF QueueBound, TypeInv
    <3> QED
      BY <1>3, <3>2, <3>3, <3>4, <3>5, <3>6, ReportFields
  <2> QED
    BY <2>2, <2>3
<1> QED
  BY <1>1, <1>2, <1>3

LEMMA RetentionCrash ==
    ASSUME TypeInv, CrashFields
    PROVE  (\A p \in Products : QueueBound(p)') /\ NewestInv' /\ OneRowInv'
<1>1. \A p : Evictable(p)' = {}
  BY DEF CrashFields, Evictable
<1>2. \A p : Cardinality(Evictable(p)') = 0
  BY <1>1, FS_EmptySet
<1>3. \A p \in Products : QueueBound(p)'
  BY <1>2, LifecycleAssumption DEF CrashFields, QueueBound, TypeInv
<1> QED
  BY <1>3 DEF CrashFields, NewestInv, OneRowInv, Idle

----------------------------------------------------------------------------
(* The theorems *)

\* An empty table, without results or uses, satisfies the whole invariant.
THEOREM FullInit == Init => FullInv
<1> SUFFICES ASSUME Init PROVE FullInv
  OBVIOUS
<1>1. Inv /\ TypeInv
  BY InvInit, TypeInit
<1>2. status = [a \in Artifacts |-> Null] /\ evicted = <<>> /\ results = {}
  BY DEF Init
<1>3. \A w \in Workers : worker[w].pc = "idle"
  BY DEF Init, IdleWorker
<1>4. /\ aggregator.pc = "idle" /\ aggregator.products = {}
      /\ aggregator.doomed = {} /\ aggregator.deleting = {}
  BY DEF Init, IdleAggregator
<1>5. EvictedInv /\ DoomedInv
  BY <1>2, <1>4, NullAssumption DEF EvictedInv, DoomedInv, Status
<1>6. ScopeInv /\ StoredInv
  BY <1>2, <1>3, NullAssumption
     DEF ScopeInv, WorkerScope, Holds, StoredInv, CompletedIsStored, Status
<1>7. ReportsInv
  BY DEF Init, ReportsInv
<1>8. OneRowInv /\ NewestInv
  BY <1>2, <1>4 DEF OneRowInv, NewestInv
<1>9. \A p : Evictable(p) = {} /\ Cardinality(Evictable(p)) = 0
  BY <1>2, FS_EmptySet DEF Evictable
<1>10. \A p \in Products : QueueBound(p)
  BY <1>1, <1>9, LifecycleAssumption DEF QueueBound, TypeInv
<1> QED
  BY <1>1, <1>5, <1>6, <1>7, <1>8, <1>10 DEF FullInv

LEMMA FullStutter ==
    ASSUME FullInv, UNCHANGED vars
    PROVE  FullInv'
<1> USE DEF vars, tableVars, faultVars, FullInv
<1>1. Inv' /\ TypeInv'
  BY InvStep, TypeStep
<1>2. Rows' = Rows /\ Doomed' = Doomed /\ \A p : Evictable(p)' = Evictable(p)
  BY DEF Rows, Doomed, Evictable
<1>3. EvictedInv' /\ DoomedInv' /\ StoredInv'
  BY <1>2 DEF EvictedInv, DoomedInv, Oldest, StoredInv, CompletedIsStored
<1>4. ScopeInv' /\ ReportsInv'
  BY DEF ScopeInv, WorkerScope, Holds, Complete, ReportsInv, UsedUp
<1>5. OneRowInv' /\ NewestInv'
  BY <1>2 DEF OneRowInv, OneRowEach, NewestInv
<1>6. \A p \in Products : QueueBound(p)'
  BY <1>2, QueueKept, Finite DEF Pending
<1> QED
  BY <1>1, <1>3, <1>4, <1>5, <1>6

\* Every step, those that raise and the restart included, keeps what results,
\* storage, uses and retention rest on.
THEOREM FullStep == FullInv /\ [Next]_vars => FullInv'
<1> SUFFICES ASSUME FullInv, [Next]_vars PROVE FullInv'
  OBVIOUS
<1>1. Inv' /\ TypeInv'
  BY InvStep, TypeStep DEF FullInv
<1>2. CASE UNCHANGED vars
  BY <1>2, FullStutter
<1>3. ASSUME NEW w \in Workers, Analyze(w) PROVE FullInv'
  <2>1. EvictedInv' /\ DoomedInv' /\ ScopeInv' /\ StoredInv' /\ ReportsInv'
    BY <1>3, EvictedWorker, DoomedWorker, ScopeWorker, StoredWorker, ReportsWorker DEF FullInv
  <2>2. OneRowInv' /\ NewestInv' /\ \A p \in Products : QueueBound(p)'
    BY <1>3, RetentionWorker DEF FullInv
  <2> QED
    BY <1>1, <2>1, <2>2 DEF FullInv
<1>4. CASE Report
  <2>1. EvictedInv' /\ DoomedInv' /\ ScopeInv' /\ StoredInv' /\ ReportsInv'
    BY <1>4, EvictedReport, DoomedReport, ScopeReport, StoredReport, ReportsReport DEF FullInv
  <2>2. OneRowInv' /\ NewestInv' /\ \A p \in Products : QueueBound(p)'
    BY <1>4, OneRowReport, RetentionReport DEF FullInv
  <2> QED
    BY <1>1, <2>1, <2>2 DEF FullInv
<1>5. CASE Crash
  <2>1. CrashFields
    BY <1>5, CrashFacts
  <2>2. EvictedInv' /\ DoomedInv' /\ ScopeInv' /\ StoredInv' /\ ReportsInv'
    BY <2>1, EvictedCrash, DoomedCrash, ScopeCrash, StoredCrash, ReportsCrash DEF FullInv
  <2>3. OneRowInv' /\ NewestInv' /\ \A p \in Products : QueueBound(p)'
    BY <2>1, RetentionCrash DEF FullInv
  <2> QED
    BY <1>1, <2>2, <2>3 DEF FullInv
<1> QED
  BY <1>2, <1>3, <1>4, <1>5 DEF Next

LEMMA FullAlways == Spec => []FullInv
BY FullInit, FullStep, PTL DEF Spec

\* The types, the faults within their bound.
THEOREM TypeCorrect == Spec => []TypeOK
<1>1. FullInv => TypeOK
  BY DEF FullInv, Inv, DrawnInv, TypeInv, Scope, StatusType, WorkerType, TypeOK
<1> QED
  BY <1>1, FullAlways, PTL

\* A published result names a completed artifact of its own product and project,
\* whatever jobs share it, reports use it up and restarts lose it.
THEOREM ResultsAreComplete == Spec => []ResultIsComplete
<1>1. FullInv => ResultIsComplete
  BY DEF FullInv, ScopeInv, Complete, ScopeOf, ResultIsComplete
<1> QED
  BY <1>1, FullAlways, PTL

\* The rows that point to an object point to one that is stored.
THEOREM CompletedAreStored == Spec => []CompletedIsStored
<1>1. FullInv => CompletedIsStored
  BY DEF FullInv, StoredInv
<1> QED
  BY <1>1, FullAlways, PTL

\* Without a restart no artifact enters two reports, of two jobs or of one that is
\* reported twice.
THEOREM OneReportEach == Spec => []OneReportPerArtifact
<1>1. FullInv => OneReportPerArtifact
  BY DEF FullInv, ReportsInv, OneReportPerArtifact
<1> QED
  BY <1>1, FullAlways, PTL

\* A product keeps at most MaxEvictable artifacts, its newest, and one more for each
\* deletion that raised.
THEOREM RetentionIsBounded == Spec => []RetentionBounded
<1>1. FullInv => RetentionBounded
  <2> SUFFICES ASSUME FullInv, aggregator.pc = "idle", NEW p \in Products
               PROVE  /\ Cardinality(Evictable(p)) <= MaxEvictable + deleteFailures
                      /\ \A i, k \in DOMAIN evicted :
                           (i < k /\ owner[evicted[i]].product = p
                              /\ owner[evicted[k]].product = p
                              /\ status[evicted[i]] = "EVICTABLE")
                           => status[evicted[k]] = "EVICTABLE"
    BY DEF RetentionBounded
  <2>1. ~Pending(p)
    BY DEF FullInv, DoomedInv, Pending
  <2>2. MaxEvictable + deleteFailures \in Nat
    BY LifecycleAssumption DEF FullInv, TypeInv
  <2>3. Cardinality(Evictable(p)) <= MaxEvictable + deleteFailures
    BY <2>1, <2>2 DEF FullInv, QueueBound
  <2> QED
    BY <2>3 DEF FullInv, NewestInv
<1> QED
  BY <1>1, FullAlways, PTL
=============================================================================
