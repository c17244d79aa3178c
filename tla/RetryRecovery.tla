---------------------------- MODULE RetryRecovery ----------------------------
(* The retry recovery protocol (src/evaluation/protocols/retry_recovery_e2e/ *)
(* run.py) on the system it measures: faults planned per stage, the registry *)
(* that injects them (src/orchtr/utils/eval_faults.py), operations retried   *)
(* by retry_call (src/orchtr/utils/retry.py) in the threads of several jobs, *)
(* one user per job waiting for its end, and the records made from the logs. *)
(* A log line matters by what was before it, so each fault keeps what its    *)
(* line and the first line that shows its recovery say, and no clock.        *)
EXTENDS Naturals, Sequences, FiniteSets, SequencesExt, FiniteSetsExt

CONSTANTS
  None, NoLid,   \* Nothing yet; the lid an operation of a job has
  Groups,        \* The case groups, numbered: one job of one user each
  ImagesOf,      \* The images of each group, in order
  Stages,        \* The stages, in the order an image and then a job meets them
  ImageStages,   \* How many of them, the first ones, are an image's
  LidScoped,     \* The stages whose planned fault names a lid
  OwnLine,       \* The stages whose recovery line must name the image or job
  Skips,         \* Pairs of an image and a stage it has no need of
  Attempts,      \* How often retry_call calls
  MaxErrors,     \* Bound: the failures that were not injected
  MaxTimeouts    \* Bound: the users that stop waiting

Lids == UNION { Range(ImagesOf[g]) : g \in Groups }
Threads == Lids \cup Groups

GroupsAreNumbered == Groups = 1..Cardinality(Groups)

\* Every job has images, no two jobs have one in common, and an operation that
\* fails is called again at least once.
PlanAssumption ==
  /\ GroupsAreNumbered /\ Cardinality(Groups) \in Nat \ {0}
  /\ \A g \in Groups : ImagesOf[g] \in Seq(Lids) /\ ImagesOf[g] # <<>>
  /\ \A g, h \in Groups : g # h => Range(ImagesOf[g]) \cap Range(ImagesOf[h]) = {}
  /\ Lids \cap (Groups \cup {None, NoLid}) = {} /\ NoLid # None
  /\ None \notin {"COMPLETED", "FAILED"}
  /\ Stages \in Seq(STRING) /\ ImageStages \in 0..Len(Stages)
  /\ Attempts \in Nat /\ Attempts > 1

VARIABLES
  used,       \* EvalFaultRegistry: how often each fault was injected
  next,       \* The stage each thread is at; past the last one when it is done
  tries,      \* The calls its operation has had
  outcome,    \* Of an image or a job: "running", "ok" or "failed"
  errors,     \* How many failures were not injected
  timeouts,   \* How many users stopped waiting
  injected,   \* Of the faults: the thread that was hit, the rows there were
  signal,     \* Of the faults: the thread of the first line that matches
  rows,       \* The record of each group's job, when there is one
  protocol    \* "workload", "reported" or "raised"

vars == <<used, next, tries, outcome, errors, timeouts, injected, signal, rows, protocol>>

GroupOf(t) == IF t \in Groups THEN t ELSE CHOOSE g \in Groups : t \in Range(ImagesOf[g])
LidOf(t) == IF t \in Groups THEN NoLid ELSE t

\* build_fault_plan: a fault of one failure for each stage, the groups in turn.
BuildFaultPlan ==
  [i \in DOMAIN Stages |->
     LET g == ((i - 1) % Cardinality(Groups)) + 1 IN
     [stage |-> i, group |-> g,
      lid |-> IF i \in LidScoped THEN Head(ImagesOf[g]) ELSE None]]

Faults == DOMAIN BuildFaultPlan
Matches(f, stage, lid) ==
  /\ BuildFaultPlan[f].stage = stage
  /\ BuildFaultPlan[f].lid \in {None, lid}

\* The stages thread t goes through after stage s; past the last one: done.
After(t, s) ==
  LET own == IF t \in Groups THEN ImageStages + 1 .. Len(Stages) ELSE 1..ImageStages
      left == { n \in own : n > s /\ <<t, n>> \notin Skips }
  IN IF left = {} THEN Len(Stages) + 1 ELSE Min(left)

Init ==
  /\ used = [f \in Faults |-> 0]
  /\ next = [t \in Threads |-> After(t, 0)]
  /\ tries = [t \in Threads |-> 0]
  /\ outcome = [t \in Threads |-> "running"]
  /\ errors = 0 /\ timeouts = 0
  /\ injected = [f \in Faults |-> None]
  /\ signal = [f \in Faults |-> None]
  /\ rows = [g \in Groups |-> None]
  /\ protocol = "workload"

Rows == { g \in Groups : rows[g] # None }

(* A mutant: the failures that were injected are not counted.              *)
MutantConsume(stage, lid) ==
  { [fault |-> f, used |-> used] :
      f \in { f \in Faults : Matches(f, stage, lid) /\ used[f] < 1 } }

\* EvalFaultRegistry._consume, under its lock: the first fault that matches
\* and has failures left, none or one, and the count it leaves.
Consume(stage, lid) ==
  LET hits == { f \in Faults : Matches(f, stage, lid) /\ used[f] < 1 } IN
  IF hits = {} THEN {} ELSE {[fault |-> Min(hits), used |-> [used EXCEPT ![Min(hits)] = @ + 1]]}

\* A thread runs while its operation has calls left. The job's own operations
\* come when every image has a result, if one of them is good.
Runs(t) ==
  /\ outcome[t] = "running" /\ next[t] <= Len(Stages)
  /\ t \in Groups => \A l \in Range(ImagesOf[t]) : outcome[l] # "running"
  /\ t \in Groups => \E l \in Range(ImagesOf[t]) : outcome[l] = "ok"

\* retry_call: the operation is called again, or its last error is raised.
CallFails(t) ==
  /\ tries' = [tries EXCEPT ![t] = @ + 1]
  /\ outcome' = IF tries[t] + 1 >= Attempts THEN [outcome EXCEPT ![t] = "failed"] ELSE outcome
  /\ UNCHANGED next

\* Injection: the fault is consumed and logged, and the call fails.
Inject(t) ==
  /\ Runs(t)
  /\ \E c \in Consume(next[t], LidOf(t)) :
       /\ used' = c.used
       /\ injected' = [injected EXCEPT ![c.fault] = IF @ = None
                         THEN [hit |-> t, before |-> Rows] ELSE @]
  /\ CallFails(t)
  /\ UNCHANGED <<errors, timeouts, signal, rows, protocol>>

\* A failure of the network or of a service.
Err(t) ==
  /\ Runs(t) /\ Consume(next[t], LidOf(t)) = {}
  /\ errors < MaxErrors /\ errors' = errors + 1
  /\ CallFails(t)
  /\ UNCHANGED <<used, timeouts, injected, signal, rows, protocol>>

\* _component_recovery_match: a line of the stage, and where the line is asked
\* to name it, of the job or the image that was hit.
RecoveryLine(f, t) ==
  /\ BuildFaultPlan[f].stage = next[t]
  /\ next[t] \in OwnLine => injected[f].hit = t

Succeed(t) ==
  /\ Runs(t) /\ Consume(next[t], LidOf(t)) = {}
  /\ signal' = [f \in Faults |->
       IF injected[f] # None /\ signal[f] = None /\ RecoveryLine(f, t) THEN t ELSE signal[f]]
  /\ next' = [next EXCEPT ![t] = After(t, next[t])]
  /\ tries' = [tries EXCEPT ![t] = 0]
  /\ outcome' = IF After(t, next[t]) > Len(Stages) THEN [outcome EXCEPT ![t] = "ok"] ELSE outcome
  /\ UNCHANGED <<used, errors, timeouts, injected, rows, protocol>>

\* All the images of the job failed.
AllFailed(g) ==
  /\ outcome[g] = "running"
  /\ \A l \in Range(ImagesOf[g]) : outcome[l] = "failed"
  /\ outcome' = [outcome EXCEPT ![g] = "failed"]
  /\ UNCHANGED <<used, next, tries, errors, timeouts, injected, signal, rows, protocol>>

\* run_user_job: the poll sees the end of the job and makes its record.
Poll(g) ==
  /\ rows[g] = None /\ outcome[g] # "running"
  /\ rows' = [rows EXCEPT ![g] = IF outcome[g] = "ok" THEN "COMPLETED" ELSE "FAILED"]
  /\ UNCHANGED <<used, next, tries, outcome, errors, timeouts, injected, signal, protocol>>

\* run_user_job: the time is up; the job goes on.
PollTimesOut(g) ==
  /\ rows[g] = None /\ timeouts < MaxTimeouts
  /\ timeouts' = timeouts + 1
  /\ rows' = [rows EXCEPT ![g] = "FAILED"]
  /\ UNCHANGED <<used, next, tries, outcome, errors, injected, signal, protocol>>

(* A mutant: the exit code of the workload is not looked at.               *)
MutantReport ==
  /\ protocol = "workload" /\ Rows = Groups
  /\ protocol' = "reported"
  /\ UNCHANGED <<used, next, tries, outcome, errors, timeouts, injected, signal, rows>>

\* run_multi_user_workload and main: a workload that exits with an error, for
\* one of its jobs did not complete, ends the protocol without a report.
Report ==
  /\ protocol = "workload" /\ Rows = Groups
  /\ protocol' = IF \A g \in Groups : rows[g] = "COMPLETED" THEN "reported" ELSE "raised"
  /\ UNCHANGED <<used, next, tries, outcome, errors, timeouts, injected, signal, rows>>

Next ==
  \/ \E t \in Threads : Inject(t) \/ Err(t) \/ Succeed(t)
  \/ \E g \in Groups : AllFailed(g) \/ Poll(g) \/ PollTimesOut(g)
  \/ Report

Spec == Init /\ [][Next]_vars

(* A mutant: the first completed row, of whatever group.                   *)
MutantCompletedRow(f) == { g \in Groups : rows[g] = "COMPLETED" /\ \A h \in 1..g-1 : rows[h] # "COMPLETED" }

\* _completed_row_for_fault: the row of the planned group, none or one.
CompletedRow(f) == { g \in {BuildFaultPlan[f].group} : rows[g] = "COMPLETED" }

\* _build_retry_records: a fault is COMPLETED when its line is in the logs and
\* its row is there.
Recovered(f) == injected[f] # None /\ CompletedRow(f) # {}

\* recovered_at is the end of the row, failure_injected_at the time of the line.
InjectedFirst(f) == \A g \in CompletedRow(f) : g \notin injected[f].before

\* _build_production_retry_records: the fault's own table asks for the order.
ProductionRecovered(f) == Recovered(f) /\ InjectedFirst(f) /\ used[f] > 0

(* The types of the state.                                                 *)
TypeOK ==
  /\ used \in [Faults -> 0..1]
  /\ next \in [Threads -> 1..Len(Stages) + 1]
  /\ tries \in [Threads -> 0..Attempts]
  /\ outcome \in [Threads -> {"running", "ok", "failed"}]
  /\ errors \in 0..MaxErrors /\ timeouts \in 0..MaxTimeouts
  /\ \A f \in Faults : \/ injected[f] = None
                       \/ injected[f] \in [hit : Threads, before : SUBSET Groups]
  /\ signal \in [Faults -> Threads \cup {None}]
  /\ rows \in [Groups -> {None, "COMPLETED", "FAILED"}]
  /\ protocol \in {"workload", "reported", "raised"}

(* What the plan injects, the retries get over: without an error of another *)
(* kind no image and no job fails, whichever threads meet the faults.        *)
FaultsAreSurvived == errors = 0 => \A t \in Threads : outcome[t] # "failed"

(* A report is only made of jobs that completed: a fault it calls recovered *)
(* hit a job that came to its end, whether or not it was the planned one;   *)
(* and the line that shows the recovery, where it is asked to name the image *)
(* or the job, is of the one that was hit.                                   *)
RecoveredJobCompleted ==
  protocol = "reported" =>
    \A f \in Faults : Recovered(f) =>
      /\ outcome[GroupOf(injected[f].hit)] = "ok"
      /\ (signal[f] # None /\ BuildFaultPlan[f].stage \in OwnLine)
           => signal[f] = injected[f].hit

(* The time to recover is positive: what the summary counts as recovered is  *)
(* what the table of the stages does, which asks that the row the fault is   *)
(* given to ended after the fault was injected.                              *)
MttrPositive ==
  protocol = "reported" => \A f \in Faults : Recovered(f) => ProductionRecovered(f)
=============================================================================
