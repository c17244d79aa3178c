-------------------------- MODULE EvaluationProofs --------------------------
(***************************************************************************)
(* Theorems about the protocols of the evaluation harness: EvalRun, for any *)
(* groups, users, limits and faults; below it RetryRecovery, for any plan   *)
(* of stages and faults and any images of the groups; and last the summary  *)
(* of the workers' timeline, WorkerTimeline, for any images, workers and    *)
(* logs.                                                                    *)
(***************************************************************************)
EXTENDS Evaluation, CountingLemmas, SequenceTheorems, TLAPS

\* The jobs the protocol makes.
OwnJobs == [group : Groups, user : {UserOf(g) : g \in Groups},
            status : {"ACTIVE", "COMPLETED", "FAILED"}]

\* The part of the types the records rest on.
TypeInv ==
    /\ jobs \in Seq(OwnJobs)
    /\ polled \in [Groups -> Nat \cup {None}]
    /\ rows \in [Groups -> Record \cup {None}]
    /\ thread \in [Groups -> {"idle", "submit", "poll", "done"}]

\* Job j of the jobs js is there, and is group g's own.
Own(js, j, g) == j \in DOMAIN js /\ js[j].group = g

\* The record r of group g names no job, or the group's own, and says COMPLETED
\* of a job that completed.
Backed(js, r, g) ==
    /\ r.job # None => Own(js, r.job, g)
    /\ r.status = "COMPLETED" => r.job # None /\ js[r.job].status = "COMPLETED"

\* A thread that polls has a job to poll, and it is its group's own.
PolledInv == \A g \in Groups :
    /\ thread[g] = "poll" => polled[g] # None
    /\ polled[g] # None => Own(jobs, polled[g], g)

RowsInv == \A g \in Groups : rows[g] # None => Backed(jobs, rows[g], g)

Inv == TypeInv /\ PolledInv /\ RowsInv

\* The jobs js become ks: they only grow, keep their group and stay COMPLETED.
Extends(js, ks) ==
    /\ DOMAIN js \subseteq DOMAIN ks
    /\ \A j \in DOMAIN js : /\ ks[j].group = js[j].group
                            /\ js[j].status = "COMPLETED" => ks[j].status = "COMPLETED"

----------------------------------------------------------------------------

\* No record is there before the first request (protocols/*/run.py).
THEOREM InvInit == Init => Inv
<1> SUFFICES ASSUME Init PROVE Inv
  OBVIOUS
<1>1. TypeInv
  BY DEF Init, TypeInv
<1>2. PolledInv /\ RowsInv
  BY DEF Init, PolledInv, RowsInv
<1> QED
  BY <1>1, <1>2 DEF Inv

\* What was polled and recorded goes on to be the group's own.
LEMMA OwnStays ==
    ASSUME NEW js, NEW ks, Extends(js, ks), NEW j, NEW g, Own(js, j, g)
    PROVE  Own(ks, j, g)
BY DEF Extends, Own

LEMMA BackedStays ==
    ASSUME NEW js, NEW ks, Extends(js, ks), NEW r, NEW g, Backed(js, r, g)
    PROVE  Backed(ks, r, g)
BY DEF Extends, Backed, Own

\* A step that makes at most the record r of group g, and a good one.
LEMMA OneRecord ==
    ASSUME Inv, Extends(jobs, jobs'), NEW g \in Groups, NEW r \in Record,
           UNCHANGED rows \/ (Backed(jobs', r, g) /\ rows' = [rows EXCEPT ![g] = r])
    PROVE  RowsInv' /\ rows' \in [Groups -> Record \cup {None}]
<1>1. rows' \in [Groups -> Record \cup {None}]
  BY DEF Inv, TypeInv
<1>2. ASSUME NEW h \in Groups, rows'[h] # None PROVE Backed(jobs', rows'[h], h)
  <2>1. CASE rows'[h] = rows[h]
    <3>1. Backed(jobs, rows[h], h)
      BY <1>2, <2>1 DEF Inv, RowsInv
    <3> QED
      BY <2>1, <3>1, BackedStays
  <2>2. CASE rows'[h] # rows[h]
    BY <2>2 DEF Inv, TypeInv
  <2> QED
    BY <2>1, <2>2
<1> QED
  BY <1>1, <1>2 DEF RowsInv

\* A step that polls no other job and lets no other thread poll.
LEMMA PolledStays ==
    ASSUME Inv, Extends(jobs, jobs'), UNCHANGED polled,
           \A g \in Groups : thread'[g] = "poll" => thread[g] = "poll"
    PROVE  PolledInv'
<1>1. ASSUME NEW g \in Groups
      PROVE  /\ thread'[g] = "poll" => polled'[g] # None
             /\ polled'[g] # None => Own(jobs', polled'[g], g)
  BY OwnStays DEF Inv, PolledInv
<1> QED
  BY <1>1 DEF PolledInv

Raised == [job |-> None, status |-> "FAILED"]

LEMMA RaisedIsBacked ==
    ASSUME NEW js, NEW g PROVE Raised \in Record /\ Backed(js, Raised, g)
BY DEF Raised, Record, Backed

\* A request that fails for good, one that is tried again, one that is refused:
\* no record, or one without a job.
LEMMA RaisesOrNot ==
    ASSUME Inv, NEW g \in Groups, Raise(g) \/ TryAgain(g) \/ Refuse(g)
    PROVE  /\ UNCHANGED rows \/ rows' = [rows EXCEPT ![g] = Raised]
           /\ thread' \in [Groups -> {"idle", "submit", "poll", "done"}]
           /\ \A h \in Groups : thread'[h] = "poll" => thread[h] = "poll"
<1>1. Raise(g) \/ UNCHANGED <<rows, thread>>
  BY DEF TryAgain, Refuse
<1> QED
  BY <1>1 DEF Raise, Return, Raised, Inv, TypeInv

\* A step that leaves the jobs, or only ends one, and what is polled.
LEMMA QuietStep ==
    ASSUME Inv, Extends(jobs, jobs'), UNCHANGED polled, NEW g \in Groups, NEW r \in Record,
           jobs' \in Seq(OwnJobs),
           thread' \in [Groups -> {"idle", "submit", "poll", "done"}],
           \A h \in Groups : thread'[h] = "poll" => thread[h] = "poll",
           UNCHANGED rows \/ (Backed(jobs', r, g) /\ rows' = [rows EXCEPT ![g] = r])
    PROVE  Inv'
<1>1. RowsInv' /\ rows' \in [Groups -> Record \cup {None}]
  BY OneRecord
<1>2. PolledInv'
  BY PolledStays
<1> QED
  BY <1>1, <1>2 DEF Inv, TypeInv

LEMMA Same ==
    ASSUME Inv, UNCHANGED jobs
    PROVE  /\ Extends(jobs, jobs')
           /\ jobs' \in Seq(OwnJobs)
BY DEF Inv, TypeInv, Extends

----------------------------------------------------------------------------

\* A submission that is accepted: the job is the group's own, whatever becomes
\* of the answer.
LEMMA SubmitStep ==
    ASSUME Inv, NEW g \in Groups, Submit(g)
    PROVE  Inv'
<1>1. PICK status \in {"ACTIVE", "FAILED"} :
        jobs' = Append(jobs, [group |-> g, user |-> UserOf(g), status |-> status])
  BY DEF Submit
<1> DEFINE job == [group |-> g, user |-> UserOf(g), status |-> status]
<1>2. job \in OwnJobs /\ jobs \in Seq(OwnJobs)
  BY DEF Inv, TypeInv, OwnJobs
<1> HIDE DEF job
<1>3. /\ jobs' \in Seq(OwnJobs)
      /\ Len(jobs') = Len(jobs) + 1 /\ Len(jobs) \in Nat
      /\ DOMAIN jobs = 1..Len(jobs) /\ DOMAIN jobs' = 1..(Len(jobs) + 1)
      /\ \A j \in DOMAIN jobs : jobs'[j] = jobs[j]
      /\ jobs'[Len(jobs) + 1] = job
  BY <1>1, <1>2 DEF job
<1>4. Extends(jobs, jobs')
  BY <1>3 DEF Extends
<1>5. Own(jobs', Len(jobs'), g)
  BY <1>3 DEF Own, job
<1>6. CASE /\ polled' = [polled EXCEPT ![g] = Len(jobs')]
           /\ thread' = [thread EXCEPT ![g] = "poll"]
           /\ UNCHANGED rows
  <2>1. RowsInv' /\ rows' \in [Groups -> Record \cup {None}]
    BY <1>4, <1>6, OneRecord, RaisedIsBacked
  <2>2. polled' \in [Groups -> Nat \cup {None}]
        /\ thread' \in [Groups -> {"idle", "submit", "poll", "done"}]
    BY <1>3, <1>6 DEF Inv, TypeInv
  <2>3. ASSUME NEW h \in Groups
        PROVE  /\ thread'[h] = "poll" => polled'[h] # None
               /\ polled'[h] # None => Own(jobs', polled'[h], h)
    <3>1. CASE h = g
      BY <1>3, <1>5, <1>6, <3>1, NoneAssumption DEF Inv, TypeInv
    <3>2. CASE h # g
      BY <1>4, <1>6, <3>2, OwnStays DEF Inv, TypeInv, PolledInv
    <3> QED
      BY <3>1, <3>2
  <2>4. PolledInv'
    BY <2>3 DEF PolledInv
  <2> QED
    BY <1>3, <2>1, <2>2, <2>4 DEF Inv, TypeInv
<1>7. CASE (TryAgain(g) \/ Raise(g)) /\ UNCHANGED polled
  <2>1. /\ UNCHANGED rows \/ rows' = [rows EXCEPT ![g] = Raised]
        /\ thread' \in [Groups -> {"idle", "submit", "poll", "done"}]
        /\ \A h \in Groups : thread'[h] = "poll" => thread[h] = "poll"
    BY <1>7, RaisesOrNot
  <2> QED
    BY <1>3, <1>4, <1>7, <2>1, RaisedIsBacked, QuietStep
<1> QED
  BY <1>6, <1>7 DEF Submit

LEMMA JobType ==
    ASSUME Inv, NEW j \in DOMAIN jobs
    PROVE  /\ jobs[j] \in OwnJobs /\ jobs[j].group \in Groups
           /\ jobs[j].status \in {"ACTIVE", "COMPLETED", "FAILED"}
<1>1. jobs[j] \in OwnJobs
  BY ElementOfSeq DEF Inv, TypeInv
<1> QED
  BY <1>1 DEF OwnJobs

\* A job that ends: it was active, so no record says COMPLETED of it yet.
LEMMA FinishStep ==
    ASSUME Inv, NEW j \in DOMAIN jobs, Finish(j), NEW g \in Groups
    PROVE  Inv'
<1>1. PICK status \in {"COMPLETED", "FAILED"} : jobs' = [jobs EXCEPT ![j].status = status]
  BY DEF Finish
<1>2. jobs \in Seq(OwnJobs) /\ jobs[j] \in OwnJobs /\ jobs[j].status = "ACTIVE"
  BY JobType DEF Finish, Active, Inv, TypeInv
<1>3. [jobs[j] EXCEPT !.status = status] \in OwnJobs
  BY <1>2 DEF OwnJobs
<1>4. jobs' = [jobs EXCEPT ![j] = [jobs[j] EXCEPT !.status = status]]
  BY <1>1
<1>5. [jobs[j] EXCEPT !.status = status].group = jobs[j].group
  BY <1>2 DEF OwnJobs
<1>6. jobs' \in Seq(OwnJobs) /\ DOMAIN jobs' = DOMAIN jobs
  BY <1>2, <1>3, <1>4, ExceptSeq
<1>7. Extends(jobs, jobs')
  BY <1>2, <1>4, <1>5, <1>6 DEF Extends
<1> QED
  BY <1>6, <1>7, RaisedIsBacked, QuietStep DEF Finish, Inv, TypeInv

\* The end of a job that is polled is recorded as it is.
LEMMA PollStep ==
    ASSUME Inv, NEW g \in Groups, Poll(g) \/ PollTimesOut(g)
    PROVE  Inv'
<1>1. polled[g] # None /\ Own(jobs, polled[g], g)
  BY DEF Inv, PolledInv, Poll, PollTimesOut
<1>2. polled[g] \in Nat /\ jobs[polled[g]].status \in {"ACTIVE", "COMPLETED", "FAILED"}
  BY <1>1, JobType DEF Inv, TypeInv, Own
<1>3. PICK status \in {"COMPLETED", "FAILED"} :
        /\ Return(g, polled[g], status)
        /\ status = "COMPLETED" => jobs[polled[g]].status = "COMPLETED"
  BY <1>1, <1>2 DEF Poll, PollTimesOut, Active, Own
<1> DEFINE r == [job |-> polled[g], status |-> status]
<1>4. r \in Record /\ Backed(jobs, r, g)
  BY <1>1, <1>2, <1>3 DEF Record, Backed
<1>5. UNCHANGED <<jobs, polled>>
  BY DEF Poll, PollTimesOut
<1>6. /\ rows' = [rows EXCEPT ![g] = r]
      /\ thread' = [thread EXCEPT ![g] = "done"]
  BY <1>3 DEF Return
<1>7. /\ thread' \in [Groups -> {"idle", "submit", "poll", "done"}]
      /\ \A h \in Groups : thread'[h] = "poll" => thread[h] = "poll"
  BY <1>6 DEF Inv, TypeInv
<1> HIDE DEF r
<1> QED
  BY <1>4, <1>5, <1>6, <1>7, Same, QuietStep

\* Every step of a group's thread and of the gateway keeps what the records
\* rest on.
THEOREM InvStep == Inv /\ [Next]_vars => Inv'
<1> SUFFICES ASSUME Inv, [Next]_vars PROVE Inv'
  OBVIOUS
<1>1. ASSUME NEW g \in Groups, Submit(g) PROVE Inv'
  BY <1>1, SubmitStep
<1>2. ASSUME NEW g \in Groups, SubmitRefused(g) \/ SubmitFails(g) \/ PollRaises(g) PROVE Inv'
  <2>1. UNCHANGED <<jobs, polled>> /\ (Raise(g) \/ TryAgain(g) \/ Refuse(g))
    BY <1>2 DEF SubmitRefused, SubmitFails, PollRaises
  <2>2. /\ UNCHANGED rows \/ rows' = [rows EXCEPT ![g] = Raised]
        /\ thread' \in [Groups -> {"idle", "submit", "poll", "done"}]
        /\ \A h \in Groups : thread'[h] = "poll" => thread[h] = "poll"
    BY <2>1, RaisesOrNot
  <2> QED
    BY <2>1, <2>2, Same, RaisedIsBacked, QuietStep
<1>3. ASSUME NEW g \in Groups, Poll(g) \/ PollTimesOut(g) PROVE Inv'
  BY <1>3, PollStep
<1>4. ASSUME NEW j \in DOMAIN jobs, Finish(j) PROVE Inv'
  <2>1. jobs[j].group \in Groups
    BY JobType
  <2> QED
    BY <1>4, <2>1, FinishStep
<1>5. CASE NextBatch
  <2>1. PICK g \in Groups : thread' = [h \in Groups |-> IF h \in BatchFrom(g) THEN "submit" ELSE thread[h]]
    BY <1>5 DEF NextBatch
  <2>2. /\ thread' \in [Groups -> {"idle", "submit", "poll", "done"}]
        /\ \A h \in Groups : thread'[h] = "poll" => thread[h] = "poll"
    BY <2>1 DEF Inv, TypeInv
  <2> QED
    BY <1>5, <2>2, Same, RaisedIsBacked, QuietStep DEF NextBatch
<1>6. CASE UNCHANGED vars
  BY <1>6 DEF vars, Inv, TypeInv, PolledInv, RowsInv
<1> QED
  BY <1>1, <1>2, <1>3, <1>4, <1>5, <1>6 DEF Next

----------------------------------------------------------------------------
(* The theorems *)

\* What the records rest on holds always.
THEOREM SpecInv == Spec => []Inv
BY InvInit, InvStep, PTL DEF Spec

\* A record that says COMPLETED is of a job of its own group that completed,
\* whatever was retried, lost or refused.
THEOREM CompletedIsTrueHolds == Spec => []CompletedIsTrue
<1>1. Inv => CompletedIsTrue
  BY DEF Inv, RowsInv, Backed, Own, CompletedIsTrue, Completed
<1> QED
  BY <1>1, SpecInv, PTL

\* No job is counted in two records.
THEOREM OneRecordPerJobHolds == Spec => []OneRecordPerJob
<1>1. Inv => OneRecordPerJob
  BY DEF Inv, RowsInv, Backed, Own, OneRecordPerJob, Accepted
<1> QED
  BY <1>1, SpecInv, PTL

\* The protocol exits with 0 only when every group's project was analysed.
THEOREM SuccessIsCompleteHolds == Spec => []SuccessIsComplete
<1>1. Inv => SuccessIsComplete
  <2> SUFFICES ASSUME Inv, ExitsWithZero, NEW g \in Groups
               PROVE  \E j \in DOMAIN jobs : jobs[j].group = g /\ jobs[j].status = "COMPLETED"
    BY DEF SuccessIsComplete
  <2>1. rows[g] # None /\ rows[g].status = "COMPLETED"
    BY DEF ExitsWithZero, Completed
  <2> QED
    BY <2>1 DEF Inv, RowsInv, Backed, Own
<1> QED
  BY <1>1, SpecInv, PTL

---------------------------------------------------------------------------
(* RetryRecovery                                                           *)

\* The part of the types the proofs rest on.
RTypeInv ==
    /\ used \in [R!Faults -> Nat]
    /\ next \in [R!Threads -> Nat]
    /\ rTries \in [R!Threads -> Nat]
    /\ outcome \in [R!Threads -> {"running", "ok", "failed"}]
    /\ errors \in Nat
    /\ DOMAIN injected = R!Faults /\ DOMAIN signal = R!Faults
    /\ rRows \in [CaseGroups -> {None, "COMPLETED", "FAILED"}]

\* The plan has one fault a stage.
LEMMA PlanFacts ==
    ASSUME R!PlanAssumption
    PROVE  /\ Len(Stages) \in Nat /\ R!Faults = 1..Len(Stages)
           /\ \A f \in R!Faults : R!BuildFaultPlan[f].stage = f
           /\ \A f \in R!Faults : \A s, lid : R!Matches(f, s, lid) =>
                f = s /\ R!BuildFaultPlan[f].lid \in {None, lid}
<1>1. Len(Stages) \in Nat /\ DOMAIN Stages = 1..Len(Stages)
  BY DEF R!PlanAssumption
<1>2. R!Faults = 1..Len(Stages) /\ \A f \in R!Faults : R!BuildFaultPlan[f].stage = f
  BY <1>1 DEF R!Faults, R!BuildFaultPlan
<1> QED
  BY <1>1, <1>2 DEF R!Matches

\* A fault that is consumed is the one of the stage, and it was not spent.
LEMMA ConsumeFacts ==
    ASSUME R!PlanAssumption, RTypeInv, NEW s, NEW lid, NEW c \in R!Consume(s, lid)
    PROVE  /\ c.fault \in R!Faults /\ c.fault = s /\ R!Matches(s, s, lid)
           /\ used[s] = 0
           /\ c.used = [used EXCEPT ![s] = 1]
<1> DEFINE hits == {f \in R!Faults : R!Matches(f, s, lid) /\ used[f] < 1}
<1>1. hits # {} /\ c = [fault |-> R!Min(hits), used |-> [used EXCEPT ![R!Min(hits)] = @ + 1]]
  BY DEF R!Consume
<1>2. hits \subseteq {s}
  BY PlanFacts
<1>3. hits = {s} /\ s \in R!Faults /\ R!Matches(s, s, lid) /\ used[s] < 1
  BY <1>1, <1>2
<1>4. s \in Nat
  BY <1>3, PlanFacts
<1>5. R!Min({s}) = s
  BY <1>4 DEF R!Min
<1> HIDE DEF hits
<1>6. c.fault = s /\ c.used = [used EXCEPT ![s] = @ + 1]
  BY <1>1, <1>3, <1>5
<1>7. used[s] = 0
  BY <1>3 DEF RTypeInv
<1> QED
  BY <1>3, <1>6, <1>7

\* No fault is left for the operation.
LEMMA Spent ==
    ASSUME R!PlanAssumption, RTypeInv, NEW s \in R!Faults, NEW lid,
           R!Consume(s, lid) = {}, R!Matches(s, s, lid)
    PROVE  used[s] > 0
<1> DEFINE hits == {f \in R!Faults : R!Matches(f, s, lid) /\ used[f] < 1}
<1>1. hits = {}
  BY DEF R!Consume
<1> QED
  BY <1>1 DEF RTypeInv

\* What the threads are, and the group a fault is planned for.
LEMMA ThreadFacts ==
    ASSUME R!PlanAssumption
    PROVE  /\ \A f \in R!Faults : R!BuildFaultPlan[f].group \in CaseGroups
           /\ \A f \in R!Faults : R!BuildFaultPlan[f].lid =
                IF f \in LidScoped THEN Head(ImagesOf[R!BuildFaultPlan[f].group]) ELSE None
           /\ \A g \in CaseGroups : /\ R!Range(ImagesOf[g]) \subseteq R!Lids
                                /\ Head(ImagesOf[g]) \in R!Range(ImagesOf[g])
           /\ \A l \in R!Lids : /\ l \notin CaseGroups /\ l # None /\ l # NoLid
                                /\ l \in R!Threads /\ R!LidOf(l) = l
                                /\ \E g \in CaseGroups : l \in R!Range(ImagesOf[g])
           /\ \A g \in CaseGroups : g \in R!Threads /\ R!LidOf(g) = NoLid
           /\ R!Threads = R!Lids \cup CaseGroups /\ NoLid # None
<1> DEFINE N == R!Cardinality(CaseGroups)
<1>1. N \in Nat /\ N > 0 /\ CaseGroups = 1..N
  BY DEF R!PlanAssumption, R!GroupsAreNumbered
<1> HIDE DEF N
<1>2. ASSUME NEW f \in R!Faults
      PROVE  /\ R!BuildFaultPlan[f].group \in CaseGroups
             /\ R!BuildFaultPlan[f].lid =
                  IF f \in LidScoped THEN Head(ImagesOf[R!BuildFaultPlan[f].group]) ELSE None
  <2>1. f \in DOMAIN Stages
    BY <1>2 DEF R!Faults, R!BuildFaultPlan
  <2>2. f \in Nat /\ f > 0
    BY <1>2, PlanFacts
  <2>3. R!BuildFaultPlan[f].group = ((f - 1) % N) + 1
    BY <2>1 DEF R!BuildFaultPlan, N
  <2>4. (f - 1) % N \in 0 .. N - 1
    BY <1>1, <2>2
  <2>5. R!BuildFaultPlan[f].group \in CaseGroups
    BY <1>1, <2>3, <2>4
  <2>6. R!BuildFaultPlan[f].lid =
          IF f \in LidScoped THEN Head(ImagesOf[R!BuildFaultPlan[f].group]) ELSE None
    BY <2>1 DEF R!BuildFaultPlan
  <2> QED
    BY <2>5, <2>6
<1>3. \A g \in CaseGroups : /\ R!Range(ImagesOf[g]) \subseteq R!Lids
                        /\ Head(ImagesOf[g]) \in R!Range(ImagesOf[g])
  <2> TAKE g \in CaseGroups
  <2>1. ImagesOf[g] \in Seq(R!Lids) /\ ImagesOf[g] # <<>>
    BY DEF R!PlanAssumption
  <2>2. 1 \in DOMAIN ImagesOf[g] /\ Head(ImagesOf[g]) = ImagesOf[g][1]
    BY <2>1
  <2> QED
    BY <2>2 DEF R!Range, R!Lids
<1>4. R!Threads = R!Lids \cup CaseGroups /\ NoLid # None
  BY DEF R!Threads, R!PlanAssumption
<1>5. \A l \in R!Lids : /\ l \notin CaseGroups /\ l # None /\ l # NoLid
                        /\ l \in R!Threads /\ R!LidOf(l) = l
                        /\ \E g \in CaseGroups : l \in R!Range(ImagesOf[g])
  <2> TAKE l \in R!Lids
  <2>1. l \notin CaseGroups /\ l # None /\ l # NoLid
    BY DEF R!PlanAssumption
  <2>2. \E g \in CaseGroups : l \in R!Range(ImagesOf[g])
    BY DEF R!Lids
  <2> QED
    BY <1>4, <2>1, <2>2 DEF R!LidOf
<1>6. \A g \in CaseGroups : g \in R!Threads /\ R!LidOf(g) = NoLid
  BY <1>4 DEF R!LidOf
<1> QED
  BY <1>2, <1>3, <1>4, <1>5, <1>6

\* The stages a thread goes through, those it has no need of included.
OwnStages(t) == IF t \in CaseGroups THEN ImageStages + 1 .. Len(Stages) ELSE 1..ImageStages

\* The next stage is one of the thread's, and it passes over none it needs.
LEMMA AfterFacts ==
    ASSUME R!PlanAssumption, NEW t, NEW s \in Nat
    PROVE  /\ R!After(t, s) \in Nat
           /\ R!After(t, s) <= Len(Stages) => R!After(t, s) \in OwnStages(t)
           /\ \A n \in OwnStages(t) : n > s /\ n < R!After(t, s) => <<t, n>> \in Skips
<1> DEFINE left == {n \in OwnStages(t) : n > s /\ <<t, n>> \notin Skips}
<1>1. Len(Stages) \in Nat /\ ImageStages \in Nat /\ ImageStages <= Len(Stages)
  BY PlanFacts DEF R!PlanAssumption
<1>2. OwnStages(t) \subseteq 1..Len(Stages) /\ OwnStages(t) \subseteq Nat
  BY <1>1 DEF OwnStages
<1>3. R!After(t, s) = IF left = {} THEN Len(Stages) + 1 ELSE R!Min(left)
  BY DEF R!After, OwnStages
<1>4. CASE left = {}
  BY <1>1, <1>2, <1>3, <1>4
<1>5. CASE left # {}
  <2>1. left \subseteq Nat
    BY <1>2
  <2> HIDE DEF left
  <2>2. \E m \in left : \A n \in left : m <= n
    BY <1>5, <2>1, LeastNatural
  <2>3. R!Min(left) \in left /\ \A n \in left : R!Min(left) <= n
    BY <2>2 DEF R!Min
  <2>4. R!After(t, s) = R!Min(left)
    BY <1>3, <1>5
  <2>5. R!After(t, s) \in left /\ \A n \in left : R!After(t, s) <= n
    BY <2>3, <2>4
  <2>6. \A n \in OwnStages(t) : n > s /\ n < R!After(t, s) => n \notin left
    <3> TAKE n \in OwnStages(t)
    <3> HAVE n > s /\ n < R!After(t, s)
    <3>1. n \in Nat /\ R!After(t, s) \in Nat
      BY <1>2, <2>1, <2>5
    <3>2. ~ R!After(t, s) <= n
      BY <3>1
    <3> QED
      BY <2>5, <3>2
  <2> USE DEF left
  <2> QED
    BY <2>5, <2>6, <1>2
<1> QED
  BY <1>4, <1>5

\* What an injection does: the fault of the stage is spent, and it was not.
LEMMA InjectFacts ==
    ASSUME R!PlanAssumption, RTypeInv, NEW t \in R!Threads, R!Inject(t)
    PROVE  /\ next[t] \in R!Faults /\ R!Matches(next[t], next[t], R!LidOf(t))
           /\ used[next[t]] = 0 /\ used' = [used EXCEPT ![next[t]] = 1]
           /\ injected' = [injected EXCEPT ![next[t]] = IF @ = None
                             THEN [hit |-> t, before |-> R!Rows] ELSE @]
           /\ R!Runs(t) /\ R!CallFails(t)
           /\ UNCHANGED <<errors, rTimeouts, signal, rRows, protocol>>
<1>1. PICK c \in R!Consume(next[t], R!LidOf(t)) :
        /\ used' = c.used
        /\ injected' = [injected EXCEPT ![c.fault] = IF @ = None
                          THEN [hit |-> t, before |-> R!Rows] ELSE @]
  BY DEF R!Inject
<1>2. /\ c.fault \in R!Faults /\ c.fault = next[t]
      /\ R!Matches(next[t], next[t], R!LidOf(t))
      /\ used[next[t]] = 0 /\ c.used = [used EXCEPT ![next[t]] = 1]
  BY ConsumeFacts
<1>3. /\ R!Runs(t) /\ R!CallFails(t)
      /\ UNCHANGED <<errors, rTimeouts, signal, rRows, protocol>>
  BY DEF R!Inject
<1> QED
  BY <1>1, <1>2, <1>3

\* The retry state before the first operation.
LEMMA RetryTypeInit ==
    ASSUME R!PlanAssumption, R!Init
    PROVE  RTypeInv
<1>1. \A t \in R!Threads : R!After(t, 0) \in Nat
  BY AfterFacts
<1> QED
  BY <1>1 DEF R!Init, RTypeInv

\* And after every step.
LEMMA RetryTypeStep ==
    ASSUME R!PlanAssumption, RTypeInv, [R!Next]_(R!vars)
    PROVE  RTypeInv'
<1>1. ASSUME NEW t \in R!Threads, R!Inject(t)
      PROVE  RTypeInv'
  <2>1. used' \in [R!Faults -> Nat] /\ DOMAIN injected' = R!Faults
    BY <1>1, InjectFacts DEF RTypeInv
  <2>2. /\ next' = next
        /\ rTries' \in [R!Threads -> Nat]
        /\ outcome' \in [R!Threads -> {"running", "ok", "failed"}]
    BY <1>1, InjectFacts DEF RTypeInv, R!CallFails
  <2>3. UNCHANGED <<errors, signal, rRows>>
    BY <1>1, InjectFacts
  <2> QED
    BY <2>1, <2>2, <2>3 DEF RTypeInv
<1>2. ASSUME NEW t \in R!Threads, R!Err(t)
      PROVE  RTypeInv'
  <2>1. /\ next' = next /\ errors' \in Nat
        /\ rTries' \in [R!Threads -> Nat]
        /\ outcome' \in [R!Threads -> {"running", "ok", "failed"}]
    BY <1>2 DEF RTypeInv, R!CallFails, R!Err
  <2>2. UNCHANGED <<used, injected, signal, rRows>>
    BY <1>2 DEF R!Err
  <2> QED
    BY <2>1, <2>2 DEF RTypeInv
<1>3. ASSUME NEW t \in R!Threads, R!Succeed(t)
      PROVE  RTypeInv'
  <2>1. next[t] \in Nat
    BY DEF RTypeInv
  <2>2. R!After(t, next[t]) \in Nat
    BY <2>1, AfterFacts
  <2>3. next' \in [R!Threads -> Nat] /\ rTries' \in [R!Threads -> Nat]
    BY <1>3, <2>2 DEF RTypeInv, R!Succeed
  <2>4. outcome' \in [R!Threads -> {"running", "ok", "failed"}]
    BY <1>3 DEF RTypeInv, R!Succeed
  <2>5. DOMAIN signal' = R!Faults /\ UNCHANGED <<used, errors, injected, rRows>>
    BY <1>3 DEF R!Succeed
  <2> QED
    BY <2>3, <2>4, <2>5 DEF RTypeInv
<1>4. ASSUME NEW g \in CaseGroups, R!AllFailed(g)
      PROVE  RTypeInv'
  BY <1>4 DEF RTypeInv, R!AllFailed
<1>5. ASSUME NEW g \in CaseGroups, R!Poll(g) \/ R!PollTimesOut(g)
      PROVE  RTypeInv'
  BY <1>5 DEF RTypeInv, R!Poll, R!PollTimesOut
<1>6. CASE R!Report
  BY <1>6 DEF RTypeInv, R!Report
<1>7. CASE UNCHANGED R!vars
  BY <1>7 DEF RTypeInv, R!vars
<1> QED
  BY <1>1, <1>2, <1>3, <1>4, <1>5, <1>6, <1>7 DEF R!Next

---------------------------------------------------------------------------
\* What the plan injects is survived: without an error of another kind an
\* operation fails once at most, and then its fault is spent.
Survived ==
    errors = 0 => \A t \in R!Threads :
      /\ outcome[t] # "failed" /\ rTries[t] <= 1
      /\ rTries[t] >= 1 => next[t] \in R!Faults /\ used[next[t]] >= 1

\* An injection spends its fault, so that the next call meets none.
LEMMA SurvivedStep ==
    ASSUME R!PlanAssumption, RTypeInv, Survived, [R!Next]_(R!vars)
    PROVE  Survived'
<1> SUFFICES ASSUME errors' = 0, NEW u \in R!Threads
             PROVE  /\ outcome'[u] # "failed" /\ rTries'[u] <= 1
                    /\ rTries'[u] >= 1 => next'[u] \in R!Faults /\ used'[next'[u]] >= 1
  BY DEF Survived
<1>a. CallAttempts \in Nat /\ CallAttempts > 1
  BY DEF R!PlanAssumption
<1>b. errors \in Nat
  BY DEF RTypeInv
<1>1. ASSUME NEW t \in R!Threads, R!Inject(t)
      PROVE  /\ outcome'[u] # "failed" /\ rTries'[u] <= 1
             /\ rTries'[u] >= 1 => next'[u] \in R!Faults /\ used'[next'[u]] >= 1
  <2>1. /\ next[t] \in R!Faults /\ used[next[t]] = 0
        /\ used' = [used EXCEPT ![next[t]] = 1]
        /\ R!CallFails(t) /\ errors' = errors
    BY <1>1, InjectFacts
  <2>2. /\ outcome[t] # "failed" /\ rTries[t] \in Nat /\ ~(rTries[t] >= 1)
        /\ outcome[u] # "failed" /\ rTries[u] <= 1
        /\ rTries[u] >= 1 => next[u] \in R!Faults /\ used[next[u]] >= 1
    BY <2>1 DEF Survived, RTypeInv
  <2>3. rTries[t] + 1 = 1 /\ ~(rTries[t] + 1 >= CallAttempts)
    BY <1>a, <2>2
  <2>4. next' = next /\ outcome' = outcome /\ rTries' = [rTries EXCEPT ![t] = 1]
    BY <2>1, <2>3 DEF R!CallFails
  <2>5. \A f \in R!Faults : used[f] >= 1 => used'[f] >= 1
    BY <2>1 DEF RTypeInv
  <2>6. used'[next[t]] = 1
    BY <2>1 DEF RTypeInv
  <2>7. CASE u = t
    BY <2>1, <2>2, <2>4, <2>6, <2>7 DEF RTypeInv
  <2>8. CASE u # t
    BY <2>2, <2>4, <2>5, <2>8 DEF RTypeInv
  <2> QED
    BY <2>7, <2>8
<1>2. ASSUME NEW t \in R!Threads, R!Err(t)
      PROVE  FALSE
  BY <1>2, <1>b DEF R!Err
<1>3. ASSUME NEW t \in R!Threads, R!Succeed(t)
      PROVE  /\ outcome'[u] # "failed" /\ rTries'[u] <= 1
             /\ rTries'[u] >= 1 => next'[u] \in R!Faults /\ used'[next'[u]] >= 1
  <2>1. /\ outcome[u] # "failed" /\ rTries[u] <= 1
        /\ rTries[u] >= 1 => next[u] \in R!Faults /\ used[next[u]] >= 1
    BY <1>3 DEF Survived, R!Succeed
  <2>2. outcome'[u] # "failed"
    BY <1>3, <2>1 DEF R!Succeed, RTypeInv
  <2>3. used' = used /\ rTries' = [rTries EXCEPT ![t] = 0]
    BY <1>3 DEF R!Succeed
  <2>4. CASE u = t
    <3>1. rTries'[u] = 0
      BY <2>3, <2>4 DEF RTypeInv
    <3> QED
      BY <2>2, <3>1
  <2>5. CASE u # t
    <3>1. rTries'[u] = rTries[u] /\ next'[u] = next[u]
      BY <1>3, <2>3, <2>5 DEF RTypeInv, R!Succeed
    <3> QED
      BY <2>1, <2>2, <2>3, <3>1
  <2> QED
    BY <2>4, <2>5
<1>4. ASSUME NEW g \in CaseGroups, R!AllFailed(g)
      PROVE  FALSE
  <2>1. Head(ImagesOf[g]) \in R!Range(ImagesOf[g]) /\ R!Range(ImagesOf[g]) \subseteq R!Threads
    BY ThreadFacts
  <2> QED
    BY <1>4, <2>1 DEF R!AllFailed, Survived
<1>5. CASE /\ UNCHANGED <<used, next, rTries, outcome, errors>>
  BY <1>5 DEF Survived
<1>6. ASSUME NEW g \in CaseGroups, R!Poll(g) \/ R!PollTimesOut(g)
      PROVE  UNCHANGED <<used, next, rTries, outcome, errors>>
  BY <1>6 DEF R!Poll, R!PollTimesOut
<1>7. CASE R!Report
  BY <1>5, <1>7 DEF R!Report
<1>8. CASE UNCHANGED R!vars
  BY <1>5, <1>8 DEF R!vars
<1> QED
  BY <1>1, <1>2, <1>3, <1>4, <1>5, <1>6, <1>7, <1>8 DEF R!Next

\* What the plan injects is survived (utils/retry.py): unless something else
\* fails too, no image and no job fails, for any plan of one fault a stage.
THEOREM PlannedFaultsAreSurvived == R!Spec => []FaultsAreSurvived
<1> USE PlanIsSound
<1>1. R!Init => RTypeInv /\ Survived
  BY RetryTypeInit DEF Survived, R!Init
<1>2. RTypeInv /\ Survived /\ [R!Next]_(R!vars) => (RTypeInv /\ Survived)'
  BY RetryTypeStep, SurvivedStep
<1>3. Survived => FaultsAreSurvived
  BY DEF Survived, FaultsAreSurvived, R!FaultsAreSurvived
<1> QED
  BY <1>1, <1>2, <1>3, PTL DEF R!Spec

\* What is recorded of a fault and of a job stays true: a completed row is of a
\* job that came to its end, a line that must name the thread names it, and a
\* report is made of completed rows.
Recorded ==
    /\ \A f \in R!Faults : injected[f] # None => injected[f].hit \in R!Threads
    /\ \A f \in R!Faults : signal[f] # None /\ f \in OwnLine =>
         injected[f] # None /\ signal[f] = injected[f].hit
    /\ \A g \in CaseGroups : rRows[g] = "COMPLETED" => outcome[g] = "ok"
    /\ protocol = "reported" => \A g \in CaseGroups : rRows[g] = "COMPLETED"

\* An end is final.
LEMMA EndsStay ==
    ASSUME R!PlanAssumption, RTypeInv, [R!Next]_(R!vars)
    PROVE  /\ \A u \in R!Threads : outcome[u] # "running" => outcome'[u] = outcome[u]
           /\ \A g \in CaseGroups : rRows[g] # None => rRows'[g] = rRows[g]
           /\ \A f \in R!Faults : injected[f] # None => injected'[f] = injected[f]
           /\ \A f \in R!Faults : used[f] >= 1 => used'[f] >= 1
<1>1. ASSUME NEW t \in R!Threads, R!Inject(t)
      PROVE  /\ \A u \in R!Threads : outcome[u] # "running" => outcome'[u] = outcome[u]
             /\ \A f \in R!Faults : injected[f] # None => injected'[f] = injected[f]
             /\ \A f \in R!Faults : used[f] >= 1 => used'[f] >= 1
             /\ rRows' = rRows
  <2>1. outcome[t] = "running" /\ R!CallFails(t)
    BY <1>1, InjectFacts DEF R!Runs
  <2>2. \A u \in R!Threads : outcome[u] # "running" => outcome'[u] = outcome[u]
    BY <2>1 DEF R!CallFails, RTypeInv
  <2> QED
    BY <1>1, <2>2, InjectFacts DEF RTypeInv
<1>2. ASSUME NEW t \in R!Threads, R!Err(t)
      PROVE  /\ \A u \in R!Threads : outcome[u] # "running" => outcome'[u] = outcome[u]
             /\ UNCHANGED <<rRows, injected, used>>
  BY <1>2 DEF R!Err, R!Runs, R!CallFails, RTypeInv
<1>3. ASSUME NEW t \in R!Threads, R!Succeed(t)
      PROVE  /\ \A u \in R!Threads : outcome[u] # "running" => outcome'[u] = outcome[u]
             /\ UNCHANGED <<rRows, injected, used>>
  BY <1>3 DEF R!Succeed, R!Runs, RTypeInv
<1>4. ASSUME NEW g \in CaseGroups, R!AllFailed(g)
      PROVE  /\ \A u \in R!Threads : outcome[u] # "running" => outcome'[u] = outcome[u]
             /\ UNCHANGED <<rRows, injected, used>>
  BY <1>4 DEF R!AllFailed, RTypeInv
<1>5. ASSUME NEW g \in CaseGroups, R!Poll(g) \/ R!PollTimesOut(g)
      PROVE  /\ \A h \in CaseGroups : rRows[h] # None => rRows'[h] = rRows[h]
             /\ UNCHANGED <<outcome, injected, used>>
  BY <1>5 DEF R!Poll, R!PollTimesOut, RTypeInv
<1>6. CASE R!Report \/ UNCHANGED R!vars
  BY <1>6 DEF R!Report, R!vars
<1> QED
  BY <1>1, <1>2, <1>3, <1>4, <1>5, <1>6 DEF R!Next

\* No step takes back what was recorded.
LEMMA RecordedStep ==
    ASSUME R!PlanAssumption, RTypeInv, Recorded, [R!Next]_(R!vars)
    PROVE  Recorded'
<1>1. \A f \in R!Faults : injected'[f] # None => injected'[f].hit \in R!Threads
  <2>1. ASSUME NEW t \in R!Threads, R!Inject(t), NEW f \in R!Faults, injected'[f] # None
        PROVE  injected'[f].hit \in R!Threads
    <3>1. CASE injected[f] # None
      BY <3>1, EndsStay DEF Recorded
    <3>2. CASE injected[f] = None
      <4>1. injected' = [injected EXCEPT ![next[t]] = IF @ = None
                           THEN [hit |-> t, before |-> R!Rows] ELSE @]
        BY <2>1, InjectFacts
      <4>2. f = next[t]
        BY <2>1, <3>2, <4>1 DEF RTypeInv
      <4>3. injected'[f] = [hit |-> t, before |-> R!Rows]
        BY <3>2, <4>1, <4>2 DEF RTypeInv
      <4> QED
        BY <4>3
    <3> QED
      BY <3>1, <3>2
  <2>2. CASE injected' = injected
    BY <2>2 DEF Recorded
  <2> QED
    BY <2>1, <2>2 DEF R!Next, R!Err, R!Succeed, R!AllFailed, R!Poll, R!PollTimesOut,
       R!Report, R!vars
<1>2. \A f \in R!Faults : signal'[f] # None /\ f \in OwnLine =>
        injected'[f] # None /\ signal'[f] = injected'[f].hit
  <2> TAKE f \in R!Faults
  <2> HAVE signal'[f] # None /\ f \in OwnLine
  <2>1. CASE signal'[f] = signal[f]
    BY <2>1, EndsStay DEF Recorded
  <2>2. CASE signal'[f] # signal[f]
    <3>1. PICK t \in R!Threads : R!Succeed(t)
      <4>1. signal' # signal
        BY <2>2
      <4> QED
        BY <4>1, InjectFacts DEF R!Next, R!Err, R!AllFailed, R!Poll, R!PollTimesOut,
           R!Report, R!vars
    <3>2. signal'[f] = IF injected[f] # None /\ signal[f] = None /\ R!RecoveryLine(f, t)
                         THEN t ELSE signal[f]
      BY <3>1 DEF R!Succeed
    <3>3. injected[f] # None /\ R!RecoveryLine(f, t) /\ signal'[f] = t
      BY <2>2, <3>2
    <3>4. next[t] = f
      BY <3>3, PlanFacts DEF R!RecoveryLine
    <3>5. injected[f].hit = t
      BY <3>3, <3>4 DEF R!RecoveryLine
    <3> QED
      BY <3>3, <3>5, EndsStay
  <2> QED
    BY <2>1, <2>2
<1>3. \A g \in CaseGroups : rRows'[g] = "COMPLETED" => outcome'[g] = "ok"
  <2> TAKE g \in CaseGroups
  <2> HAVE rRows'[g] = "COMPLETED"
  <2>a. g \in R!Threads
    BY ThreadFacts
  <2>1. CASE rRows[g] = "COMPLETED"
    <3>1. outcome[g] = "ok"
      BY <2>1 DEF Recorded
    <3> QED
      BY <2>a, <3>1, EndsStay
  <2>2. CASE rRows[g] # "COMPLETED"
    <3>1. rRows'[g] # rRows[g]
      BY <2>2
    <3>2. PICK h \in CaseGroups : R!Poll(h) \/ R!PollTimesOut(h)
      <4>1. rRows' # rRows
        BY <3>1
      <4> QED
        BY <4>1, InjectFacts DEF R!Next, R!Err, R!Succeed, R!AllFailed, R!Report, R!vars
    <3>3. CASE R!PollTimesOut(h)
      BY <2>2, <3>3 DEF R!PollTimesOut, RTypeInv
    <3>4. CASE R!Poll(h)
      BY <2>2, <3>4 DEF R!Poll, RTypeInv
    <3> QED
      BY <3>2, <3>3, <3>4
  <2> QED
    BY <2>1, <2>2
<1>4. protocol' = "reported" => \A g \in CaseGroups : rRows'[g] = "COMPLETED"
  <2>1. CASE protocol' = protocol
    <3> HAVE protocol' = "reported"
    <3> TAKE g \in CaseGroups
    <3>1. rRows[g] = "COMPLETED"
      BY <2>1 DEF Recorded
    <3>2. rRows[g] = "COMPLETED" => rRows[g] # None
      <4>1. None \notin {"COMPLETED", "FAILED"}
        BY DEF R!PlanAssumption
      <4> QED
        BY <4>1
    <3> QED
      BY <3>1, <3>2, EndsStay
  <2>2. CASE R!Report
    BY <2>2 DEF R!Report
  <2>3. R!Report \/ protocol' = protocol
    BY InjectFacts DEF R!Next, R!Err, R!Succeed, R!AllFailed, R!Poll, R!PollTimesOut,
       R!vars
  <2> QED
    BY <2>1, <2>2, <2>3
<1> QED
  BY <1>1, <1>2, <1>3, <1>4 DEF Recorded

\* A report is made of jobs that completed (retry_recovery_e2e/run.py:150): a
\* fault it calls recovered hit a job that came to its end, and a line that has
\* to name the image or the job names the one that was hit.
THEOREM RecoveredJobsCompleted == R!Spec => []RecoveredJobCompleted
<1> USE PlanIsSound
<1>1. R!Init => RTypeInv /\ Recorded
  <2> SUFFICES ASSUME R!Init PROVE Recorded
    BY RetryTypeInit
  <2>1. None \notin {"COMPLETED", "FAILED"}
    BY DEF R!PlanAssumption
  <2> QED
    BY <2>1 DEF R!Init, Recorded
<1>2. RTypeInv /\ Recorded /\ [R!Next]_(R!vars) => (RTypeInv /\ Recorded)'
  BY RetryTypeStep, RecordedStep
<1>3. Recorded => RecoveredJobCompleted
  <2> SUFFICES ASSUME Recorded, protocol = "reported", NEW f \in R!Faults, R!Recovered(f)
               PROVE  /\ outcome[R!GroupOf(injected[f].hit)] = "ok"
                      /\ (signal[f] # None /\ R!BuildFaultPlan[f].stage \in OwnLine)
                           => signal[f] = injected[f].hit
    BY DEF RecoveredJobCompleted, R!RecoveredJobCompleted
  <2>1. injected[f] # None /\ injected[f].hit \in R!Threads
    BY DEF R!Recovered, Recorded
  <2>2. R!GroupOf(injected[f].hit) \in CaseGroups
    BY <2>1, ThreadFacts DEF R!GroupOf
  <2>3. \A g \in CaseGroups : outcome[g] = "ok"
    BY DEF Recorded
  <2>4. R!BuildFaultPlan[f].stage = f
    BY PlanFacts
  <2> QED
    BY <2>2, <2>3, <2>4 DEF Recorded
<1> QED
  BY <1>1, <1>2, <1>3, PTL DEF R!Spec

---------------------------------------------------------------------------
\* A fault that names no lid is at a stage that the job it is planned for, and
\* each of that job's images, has need of.
PlanIsMet ==
    \A f \in R!Faults : f \notin LidScoped =>
      LET g == R!BuildFaultPlan[f].group IN
      \A t \in {g} \cup R!Range(ImagesOf[g]) : <<t, f>> \notin Skips

\* A thread has met the faults of the stages it has passed.
Passed ==
    /\ \A t \in R!Threads : next[t] \in OwnStages(t) \/ next[t] > Len(Stages)
    /\ \A t \in R!Threads : \A n \in OwnStages(t) :
         n < next[t] /\ <<t, n>> \notin Skips =>
           used[n] >= 1 \/ ~ R!Matches(n, n, R!LidOf(t))
    /\ \A t \in R!Threads : outcome[t] = "ok" => next[t] > Len(Stages)
    /\ \A g \in CaseGroups : outcome[g] = "ok" =>
         /\ \A l \in R!Range(ImagesOf[g]) : outcome[l] # "running"
         /\ \E l \in R!Range(ImagesOf[g]) : outcome[l] = "ok"

\* A fault that was injected is spent, and if the job it is planned for had a
\* record by then, that record is of a failure.
Timed ==
    \A f \in R!Faults : injected[f] # None =>
      /\ used[f] >= 1
      /\ R!BuildFaultPlan[f].group \in injected[f].before =>
           rRows[R!BuildFaultPlan[f].group] = "FAILED"

\* A stage of a thread is a fault of the plan.
LEMMA StageFacts ==
    ASSUME R!PlanAssumption, NEW t
    PROVE  OwnStages(t) \subseteq R!Faults /\ OwnStages(t) \subseteq Nat
<1>1. Len(Stages) \in Nat /\ ImageStages \in Nat /\ ImageStages <= Len(Stages)
  BY PlanFacts DEF R!PlanAssumption
<1> QED
  BY <1>1, PlanFacts DEF OwnStages

\* Only a thread that is through with its stages ends well.
LEMMA OnlySuccessEnds ==
    ASSUME R!PlanAssumption, RTypeInv, [R!Next]_(R!vars),
           NEW u \in R!Threads, outcome'[u] = "ok", outcome[u] # "ok"
    PROVE  R!Succeed(u)
<1>1. ASSUME NEW t \in R!Threads, R!CallFails(t)
      PROVE  FALSE
  BY <1>1 DEF R!CallFails, RTypeInv
<1>2. ASSUME NEW t \in R!Threads, R!Succeed(t)
      PROVE  R!Succeed(u)
  <2>1. t = u
    BY <1>2 DEF R!Succeed, RTypeInv
  <2> QED
    BY <1>2, <2>1
<1>3. ASSUME NEW g \in CaseGroups, R!AllFailed(g)
      PROVE  FALSE
  BY <1>3 DEF R!AllFailed, RTypeInv
<1>4. outcome' # outcome
  OBVIOUS
<1> QED
  BY <1>1, <1>2, <1>3, <1>4 DEF R!Next, R!Inject, R!Err, R!Poll, R!PollTimesOut,
     R!Report, R!vars

\* A thread passes a stage when its fault is spent or not meant for it.
LEMMA PassedStep ==
    ASSUME R!PlanAssumption, RTypeInv, Passed, [R!Next]_(R!vars)
    PROVE  Passed'
<1>a. ASSUME NEW t \in R!Threads, R!Succeed(t)
      PROVE  /\ next[t] \in OwnStages(t) /\ next[t] \in Nat
             /\ used' = used /\ next' = [next EXCEPT ![t] = R!After(t, next[t])]
             /\ used[next[t]] >= 1 \/ ~ R!Matches(next[t], next[t], R!LidOf(t))
  <2>1. next[t] <= Len(Stages) /\ R!Consume(next[t], R!LidOf(t)) = {}
        /\ used' = used /\ next' = [next EXCEPT ![t] = R!After(t, next[t])]
    BY <1>a DEF R!Succeed, R!Runs
  <2>2. next[t] \in Nat /\ Len(Stages) \in Nat
    BY PlanFacts DEF RTypeInv
  <2>3. next[t] \in OwnStages(t)
    BY <2>1, <2>2 DEF Passed
  <2>4. next[t] \in R!Faults
    BY <2>3, StageFacts
  <2>5. used[next[t]] \in Nat
    BY <2>4 DEF RTypeInv
  <2>6. R!Matches(next[t], next[t], R!LidOf(t)) => used[next[t]] > 0
    BY <2>1, <2>4, Spent
  <2> QED
    BY <2>1, <2>2, <2>3, <2>5, <2>6
<1>b. (\E t \in R!Threads : R!Succeed(t)) \/ next' = next
  BY InjectFacts DEF R!Next, R!Err, R!CallFails, R!AllFailed, R!Poll, R!PollTimesOut,
     R!Report, R!vars
<1>c. \A n \in R!Faults : used[n] >= 1 => used'[n] >= 1
  BY EndsStay
<1>1. \A u \in R!Threads : next'[u] \in OwnStages(u) \/ next'[u] > Len(Stages)
  <2> TAKE u \in R!Threads
  <2>1. CASE next'[u] = next[u]
    BY <2>1 DEF Passed
  <2>2. CASE next'[u] # next[u]
    <3>1. PICK t \in R!Threads : R!Succeed(t)
      BY <1>b, <2>2
    <3>2. t = u /\ next'[u] = R!After(u, next[u]) /\ next[u] \in Nat
      BY <1>a, <2>2, <3>1 DEF RTypeInv
    <3>3. R!After(u, next[u]) \in Nat /\ Len(Stages) \in Nat
          /\ (R!After(u, next[u]) <= Len(Stages) => R!After(u, next[u]) \in OwnStages(u))
      BY <3>2, AfterFacts, PlanFacts
    <3> QED
      BY <3>2, <3>3
  <2> QED
    BY <2>1, <2>2
<1>2. \A u \in R!Threads : \A n \in OwnStages(u) :
        n < next'[u] /\ <<u, n>> \notin Skips =>
          used'[n] >= 1 \/ ~ R!Matches(n, n, R!LidOf(u))
  <2> TAKE u \in R!Threads
  <2> TAKE n \in OwnStages(u)
  <2> HAVE n < next'[u] /\ <<u, n>> \notin Skips
  <2>1. n \in R!Faults /\ n \in Nat /\ next[u] \in Nat
    BY StageFacts DEF RTypeInv
  <2>2. CASE n < next[u]
    BY <2>1, <2>2, <1>c DEF Passed
  <2>3. CASE ~(n < next[u])
    <3>1. PICK t \in R!Threads : R!Succeed(t)
      BY <1>b, <2>3
    <3>2. t = u
      BY <1>a, <2>3, <3>1 DEF RTypeInv
    <3>3. /\ used' = used /\ next'[u] = R!After(u, next[u])
          /\ used[next[u]] >= 1 \/ ~ R!Matches(next[u], next[u], R!LidOf(u))
      BY <1>a, <3>1, <3>2 DEF RTypeInv
    <3>4. ~(n > next[u])
      <4>1. n < R!After(u, next[u])
        BY <3>3
      <4> QED
        BY <2>1, <4>1, AfterFacts
    <3>5. n = next[u]
      BY <2>1, <2>3, <3>4
    <3> QED
      BY <3>3, <3>5
  <2> QED
    BY <2>2, <2>3
<1>3. \A u \in R!Threads : outcome'[u] = "ok" => next'[u] > Len(Stages)
  <2> TAKE u \in R!Threads
  <2> HAVE outcome'[u] = "ok"
  <2>1. CASE outcome[u] = "ok"
    <3>1. next[u] > Len(Stages)
      BY <2>1 DEF Passed
    <3>2. next'[u] = next[u]
      <4>1. ASSUME NEW t \in R!Threads, R!Succeed(t)
            PROVE  t # u
        BY <2>1, <4>1 DEF R!Succeed, R!Runs
      <4> QED
        BY <1>a, <1>b, <4>1 DEF RTypeInv
    <3> QED
      BY <3>1, <3>2
  <2>2. CASE outcome[u] # "ok"
    <3>1. R!Succeed(u)
      BY <2>2, OnlySuccessEnds
    <3>2. R!After(u, next[u]) > Len(Stages)
      BY <2>2, <3>1 DEF R!Succeed, RTypeInv
    <3> QED
      BY <1>a, <3>1, <3>2 DEF RTypeInv
  <2> QED
    BY <2>1, <2>2
<1>4. \A g \in CaseGroups : outcome'[g] = "ok" =>
        /\ \A l \in R!Range(ImagesOf[g]) : outcome'[l] # "running"
        /\ \E l \in R!Range(ImagesOf[g]) : outcome'[l] = "ok"
  <2> TAKE g \in CaseGroups
  <2> HAVE outcome'[g] = "ok"
  <2>1. /\ \A l \in R!Range(ImagesOf[g]) : outcome[l] # "running"
        /\ \E l \in R!Range(ImagesOf[g]) : outcome[l] = "ok"
    <3>1. CASE outcome[g] = "ok"
      BY <3>1 DEF Passed
    <3>2. CASE outcome[g] # "ok"
      <4>1. R!Succeed(g)
        BY <3>2, OnlySuccessEnds, ThreadFacts
      <4> QED
        BY <4>1 DEF R!Succeed, R!Runs
    <3> QED
      BY <3>1, <3>2
  <2>2. R!Range(ImagesOf[g]) \subseteq R!Threads
    BY ThreadFacts
  <2>3. \A l \in R!Range(ImagesOf[g]) : outcome'[l] = outcome[l]
    BY <2>1, <2>2, EndsStay
  <2> QED
    BY <2>1, <2>3
<1> QED
  BY <1>1, <1>2, <1>3, <1>4 DEF Passed

\* The job a fault is planned for does not come to its end before the fault has
\* been injected: no thread meets it there.
LEMMA NotAfterItsJob ==
    ASSUME R!PlanAssumption, PlanIsMet, RTypeInv, Passed,
           NEW t \in R!Threads, R!Inject(t)
    PROVE  outcome[R!BuildFaultPlan[next[t]].group] # "ok"
<1> DEFINE f == next[t]
           g == R!BuildFaultPlan[f].group
<1>1. f \in R!Faults /\ R!Matches(f, f, R!LidOf(t)) /\ used[f] = 0 /\ R!Runs(t)
  BY InjectFacts
<1>2. /\ g \in CaseGroups /\ g \in R!Threads /\ R!Range(ImagesOf[g]) \subseteq R!Lids
      /\ R!BuildFaultPlan[f].lid = IF f \in LidScoped THEN Head(ImagesOf[g]) ELSE None
      /\ Head(ImagesOf[g]) \in R!Range(ImagesOf[g])
  BY <1>1, ThreadFacts
<1>3. R!BuildFaultPlan[f].lid \in {None, R!LidOf(t)} /\ R!BuildFaultPlan[f].stage = f
  BY <1>1, PlanFacts
<1>4. /\ Len(Stages) \in Nat /\ ImageStages \in Nat /\ ImageStages <= Len(Stages)
      /\ f \in 1..Len(Stages)
  <2>1. Len(Stages) \in Nat /\ f \in 1..Len(Stages)
    BY <1>1, PlanFacts
  <2>2. ImageStages \in 0..Len(Stages)
    BY DEF R!PlanAssumption
  <2> QED
    BY <2>1, <2>2
<1>5. outcome[t] = "running"
  BY <1>1 DEF R!Runs
<1> SUFFICES ASSUME outcome[g] = "ok" PROVE FALSE
  OBVIOUS
<1> HIDE DEF f, g
<1>6. CASE f \in LidScoped
  <2>1. R!BuildFaultPlan[f].lid \in R!Lids
    BY <1>2, <1>6
  <2>2. R!BuildFaultPlan[f].lid = R!LidOf(t) /\ R!LidOf(t) \in R!Lids
    BY <1>3, <2>1, ThreadFacts
  <2>3. t \in R!Lids /\ R!LidOf(t) = t
    BY <2>2, ThreadFacts
  <2>4. t \in R!Range(ImagesOf[g])
    BY <1>2, <1>6, <2>2, <2>3
  <2> QED
    BY <1>2, <1>5, <2>4 DEF Passed
<1>7. CASE f \notin LidScoped
  <2>1. \A u \in {g} \cup R!Range(ImagesOf[g]) : <<u, f>> \notin Skips
    BY <1>1, <1>7 DEF PlanIsMet, g
  <2>2. \A lid : R!Matches(f, f, lid)
    BY <1>2, <1>3, <1>7 DEF R!Matches
  <2>3. ASSUME NEW u \in {g} \cup R!Range(ImagesOf[g]), outcome[u] = "ok",
               u \in R!Threads, f \in OwnStages(u)
        PROVE  FALSE
    <3>1. next[u] > Len(Stages) /\ next[u] \in Nat
      BY <2>3 DEF Passed, RTypeInv
    <3>2. f < next[u]
      BY <1>4, <3>1
    <3>3. used[f] >= 1
      BY <2>1, <2>2, <2>3, <3>2 DEF Passed
    <3> QED
      BY <1>1, <3>3
  <2>4. CASE f > ImageStages
    <3>1. f \in OwnStages(g)
      BY <1>2, <1>4, <2>4 DEF OwnStages
    <3> QED
      BY <1>2, <2>3, <3>1
  <2>5. CASE ~(f > ImageStages)
    <3>1. PICK l \in R!Range(ImagesOf[g]) : outcome[l] = "ok"
      BY <1>2 DEF Passed
    <3>2. l \in R!Threads /\ l \notin CaseGroups
      BY <1>2, ThreadFacts
    <3>3. f \in OwnStages(l)
      BY <1>4, <2>5, <3>2 DEF OwnStages
    <3> QED
      BY <2>3, <3>1, <3>2, <3>3
  <2> QED
    BY <2>4, <2>5
<1> QED
  BY <1>6, <1>7

\* A fault that is injected now is planned for a job that has not completed.
LEMMA TimedStep ==
    ASSUME R!PlanAssumption, PlanIsMet, RTypeInv, Recorded, Passed, Timed,
           [R!Next]_(R!vars)
    PROVE  Timed'
<1> SUFFICES ASSUME NEW f \in R!Faults, injected'[f] # None
             PROVE  /\ used'[f] >= 1
                    /\ R!BuildFaultPlan[f].group \in injected'[f].before =>
                         rRows'[R!BuildFaultPlan[f].group] = "FAILED"
  BY DEF Timed
<1> DEFINE g == R!BuildFaultPlan[f].group
<1>1. g \in CaseGroups
  BY ThreadFacts
<1>2. None \notin {"COMPLETED", "FAILED"}
  BY DEF R!PlanAssumption
<1>3. CASE injected[f] # None
  <2>1. injected'[f] = injected[f] /\ used'[f] >= 1
    BY <1>3, EndsStay DEF Timed
  <2>2. rRows[g] = "FAILED" => rRows'[g] = "FAILED"
    BY <1>1, <1>2, EndsStay
  <2> QED
    BY <1>3, <2>1, <2>2 DEF Timed
<1>4. CASE injected[f] = None
  <2>1. PICK t \in R!Threads : R!Inject(t)
    <3>1. injected' # injected
      BY <1>4
    <3> QED
      BY <3>1 DEF R!Next, R!Err, R!Succeed, R!AllFailed, R!Poll, R!PollTimesOut,
         R!Report, R!vars
  <2>2. /\ used' = [used EXCEPT ![next[t]] = 1] /\ rRows' = rRows
        /\ injected' = [injected EXCEPT ![next[t]] = IF @ = None
                          THEN [hit |-> t, before |-> R!Rows] ELSE @]
    BY <2>1, InjectFacts
  <2>3. f = next[t]
    BY <1>4, <2>2 DEF RTypeInv
  <2>4. used'[f] = 1 /\ injected'[f] = [hit |-> t, before |-> R!Rows]
    BY <1>4, <2>2, <2>3 DEF RTypeInv
  <2>5. outcome[g] # "ok"
    BY <2>1, <2>3, NotAfterItsJob
  <2>6. rRows[g] # "COMPLETED"
    BY <1>1, <2>5 DEF Recorded
  <2>7. g \in R!Rows => rRows'[g] = "FAILED"
    BY <1>1, <2>2, <2>6 DEF R!Rows, RTypeInv
  <2> QED
    BY <2>4, <2>7
<1> QED
  BY <1>3, <1>4

\* The time to recover is positive (eval_lib.py:83): the row a recovery is read
\* from ended after the fault was injected, for every plan that is met: without
\* that, an image that has no need of the stage lets its job end first.
THEOREM RecoveryTakesTime ==
    ASSUME PlanIsMet
    PROVE  R!Spec => []MttrPositive
<1> USE PlanIsSound
<1>1. R!Init => RTypeInv /\ Recorded /\ Passed /\ Timed
  <2> SUFFICES ASSUME R!Init PROVE Recorded /\ Passed /\ Timed
    BY RetryTypeInit
  <2>1. None \notin {"COMPLETED", "FAILED"}
    BY DEF R!PlanAssumption
  <2>2. Recorded /\ Timed
    BY <2>1 DEF R!Init, Recorded, Timed
  <2>3. \A t \in R!Threads : next[t] = R!After(t, 0) /\ outcome[t] = "running"
    BY DEF R!Init
  <2>4. Len(Stages) \in Nat
    BY PlanFacts
  <2>5. \A t \in R!Threads : next[t] \in OwnStages(t) \/ next[t] > Len(Stages)
    <3> TAKE t \in R!Threads
    <3>1. /\ R!After(t, 0) \in Nat
          /\ R!After(t, 0) <= Len(Stages) => R!After(t, 0) \in OwnStages(t)
      BY AfterFacts
    <3> QED
      BY <2>3, <2>4, <3>1
  <2>6. \A t \in R!Threads : \A n \in OwnStages(t) :
          n < next[t] => <<t, n>> \in Skips
    <3> TAKE t \in R!Threads
    <3> TAKE n \in OwnStages(t)
    <3>1. n > 0
      BY PlanFacts, StageFacts
    <3>2. n > 0 /\ n < R!After(t, 0) => <<t, n>> \in Skips
      BY AfterFacts
    <3> QED
      BY <2>3, <3>1, <3>2
  <2>7. \A g \in CaseGroups : outcome[g] = "running"
    BY <2>3, ThreadFacts
  <2> QED
    BY <2>2, <2>3, <2>5, <2>6, <2>7 DEF Passed
<1>2. RTypeInv /\ Recorded /\ Passed /\ Timed /\ [R!Next]_(R!vars)
        => (RTypeInv /\ Recorded /\ Passed /\ Timed)'
  BY RetryTypeStep, RecordedStep, PassedStep, TimedStep
<1>3. RTypeInv /\ Recorded /\ Timed => MttrPositive
  <2> SUFFICES ASSUME RTypeInv, Timed, NEW f \in R!Faults, R!Recovered(f)
               PROVE  R!ProductionRecovered(f)
    BY DEF MttrPositive, R!MttrPositive
  <2>1. injected[f] # None
    BY DEF R!Recovered
  <2>2. R!InjectedFirst(f)
    BY <2>1 DEF R!InjectedFirst, R!CompletedRow, Timed
  <2>3. used[f] > 0
    BY <2>1 DEF Timed, RTypeInv
  <2> QED
    BY <2>2, <2>3 DEF R!ProductionRecovered
<1> QED
  BY <1>1, <1>2, <1>3, PTL DEF R!Spec

----------------------------------------------------------------------------
(* WorkerTimeline: what is read from the logs                               *)

\* The last of the positions that remain.
LEMMA LastPosition ==
    ASSUME NEW n \in Nat
    PROVE  /\ \A s \in SUBSET (1..n) : s # {} => T!Max(s) \in s
           /\ \A i \in 1..n : /\ 1..i \in SUBSET (1..n) /\ 1..i # {}
                             /\ T!Max(1..i) = i /\ (1..i) \ {i} = 1..(i - 1)
<1>1. ASSUME NEW s \in SUBSET (1..n), s # {} PROVE T!Max(s) \in s
  <2> DEFINE U == {n - k : k \in s}
  <2>1. U \in SUBSET Nat /\ U # {}
    BY <1>1
  <2> HIDE DEF U
  <2>2. PICK u \in U : \A v \in U : u <= v
    BY <2>1, LeastNatural
  <2>3. PICK k \in s : u = n - k
    BY DEF U
  <2>4. \A m \in s : n - k <= n - m
    BY <2>2, <2>3 DEF U
  <2>5. \A m \in s : k >= m
    BY <2>4
  <2> QED
    BY <2>5 DEF T!Max
<1>2. ASSUME NEW i \in 1..n
      PROVE  /\ 1..i \in SUBSET (1..n) /\ 1..i # {}
             /\ T!Max(1..i) = i /\ (1..i) \ {i} = 1..(i - 1)
  <2>1. i \in 1..i /\ \A y \in 1..i : i >= y
    OBVIOUS
  <2>2. \A x \in 1..i : (\A y \in 1..i : x >= y) => x = i
    BY <2>1
  <2>3. T!Max(1..i) = i
    BY <2>1, <2>2 DEF T!Max
  <2> QED
    BY <2>3
<1> QED
  BY <1>1, <1>2

\* What is read so far.
Keys == Workers \X T!Lids
Starts == UNION {[K -> 0..MaxClock] : K \in SUBSET Keys}
Interval == (0..MaxClock) \X (0..MaxClock) \X Workers
Summary == [starts : Starts, images : SUBSET Keys, intervals : Seq(Interval)]

LEMMA ReadProgressType ==
    ASSUME NEW acc \in Summary, NEW p \in T!Progress
    PROVE  T!ReadProgress(acc, p) \in Summary
<1> DEFINE key == <<p.worker, p.lid>>
           start == IF key \in DOMAIN acc.starts THEN acc.starts[key] ELSE p.at
<1>1. key \in Keys /\ p.at \in 0..MaxClock /\ p.worker \in Workers
  BY DEF T!Progress, Keys
<1>2. start \in 0..MaxClock
  BY <1>1 DEF Summary, Starts
<1>3. T!Put(acc.starts, key, p.at) \in Starts
  <2>1. PICK K \in SUBSET Keys : acc.starts \in [K -> 0..MaxClock]
    BY DEF Summary, Starts
  <2>2. K \cup {key} \in SUBSET Keys
    BY <1>1
  <2>3. T!Put(acc.starts, key, p.at) \in [K \cup {key} -> 0..MaxClock]
    BY <1>1, <2>1 DEF T!Put
  <2> QED
    BY <2>2, <2>3 DEF Starts
<1> HIDE DEF key, start
<1>4. Append(acc.intervals, <<start, p.at, p.worker>>) \in Seq(Interval)
  BY <1>1, <1>2 DEF Summary, Interval
<1>5. T!ReadProgress(acc, p) =
        IF p.status = "processing"
        THEN [acc EXCEPT !.starts = T!Put(acc.starts, key, p.at)]
        ELSE [acc EXCEPT !.images = acc.images \cup {key},
                         !.intervals = Append(acc.intervals, <<start, p.at, p.worker>>)]
  BY DEF T!ReadProgress, key, start, Summary
<1> QED
  BY <1>1, <1>3, <1>4, <1>5 DEF Summary

LEMMA NothingStarted == <<>> \in Starts
<1>1. <<>> \in [{} -> 0..MaxClock] /\ {} \in SUBSET Keys
  OBVIOUS
<1> QED
  BY <1>1 DEF Starts

\* The fold over the log of a job, position by position.
LEMMA ReadJobSteps ==
    ASSUME NEW acc \in Summary, NEW log \in Seq(T!Progress)
    PROVE  \E f \in [0..Len(log) -> Summary] :
             /\ f[0] = [acc EXCEPT !.starts = <<>>]
             /\ \A i \in 1..Len(log) : f[i] = T!ReadProgress(f[i - 1], log[i])
             /\ T!ReadJob(acc, log) = f[Len(log)]
<1> DEFINE n == Len(log)
           base == [acc EXCEPT !.starts = <<>>]
           Eq(g) == g = [s \in SUBSET DOMAIN log |->
                           IF s = {} THEN base
                           ELSE T!ReadProgress(g[s \ {T!Max(s)}], log[T!Max(s)])]
           H == [x \in (1..n) \X Summary |-> T!ReadProgress(x[2], log[x[1]])]
           last == [s \in SUBSET (1..n) |-> T!Max(s)]
<1>1. n \in Nat /\ DOMAIN log = 1..n /\ \A i \in 1..n : log[i] \in T!Progress
  OBVIOUS
<1>2. base \in Summary
  BY NothingStarted DEF Summary
<1>3. H \in [(1..n) \X Summary -> Summary]
  BY <1>1, ReadProgressType
<1>4. \A s \in SUBSET (1..n) : s # {} => last[s] \in s /\ last[s] = T!Max(s)
  BY <1>1, LastPosition
<1> HIDE DEF base, n
<1>5. \E g : Eq(g)
  <2>1. PICK g \in [SUBSET (1..n) -> Summary] :
           \A s \in SUBSET (1..n) : Folds(n, base, H, last, g, s)
    <3> HIDE DEF H, last
    <3> QED
      BY <1>1, <1>2, <1>3, <1>4, FoldExists
  <2>2. ASSUME NEW s \in SUBSET (1..n), s # {}
        PROVE  g[s] = T!ReadProgress(g[s \ {T!Max(s)}], log[T!Max(s)])
    <3>1. last[s] = T!Max(s) /\ T!Max(s) \in 1..n /\ g[s \ {T!Max(s)}] \in Summary
      BY <1>4, <2>2
    <3>2. g[s] = H[<<last[s], g[s \ {last[s]}]>>]
      BY <2>1, <2>2 DEF Folds
    <3> HIDE DEF last
    <3> QED
      BY <3>1, <3>2
  <2> QED
    BY <1>1, <2>1, <2>2 DEF Folds
<1> DEFINE g == CHOOSE g : Eq(g)
<1>6. T!ReadJob(acc, log) = g[DOMAIN log]
  BY DEF T!ReadJob, T!FoldLeft, T!MapThenFoldSet, base
<1>7. Eq(g)
  BY <1>5
<1> HIDE DEF g
<1>8. \A s \in SUBSET (1..n) :
        g[s] = IF s = {} THEN base ELSE T!ReadProgress(g[s \ {T!Max(s)}], log[T!Max(s)])
  BY <1>1, <1>7
<1>9. g[{}] = base
  BY <1>8
<1>10. ASSUME NEW i \in 1..n, g[1..(i - 1)] \in Summary
       PROVE  g[1..i] = H[<<i, g[1..(i - 1)]>>]
  <2>1. /\ 1..i \in SUBSET (1..n) /\ 1..i # {}
        /\ T!Max(1..i) = i /\ (1..i) \ {i} = 1..(i - 1)
    BY <1>1, LastPosition
  <2>2. g[1..i] = T!ReadProgress(g[(1..i) \ {T!Max(1..i)}], log[T!Max(1..i)])
    BY <1>8, <2>1
  <2> QED
    BY <1>10, <2>1, <2>2
<1>11. PICK f \in [0..n -> Summary] : Along(n, H, g, f)
  <2>1. GoesOn(n, Summary, H, g)
    <3> HIDE DEF H
    <3> QED
      BY <1>2, <1>9, <1>10 DEF GoesOn
  <2> HIDE DEF H
  <2> QED
    BY <1>1, <1>3, <2>1, FoldChain
<1>12. \A i \in 1..n : f[i] = T!ReadProgress(f[i - 1], log[i])
  <2>1. \A i \in 1..n : f[i - 1] \in Summary
    BY <1>1
  <2> QED
    BY <1>11, <2>1 DEF Along
<1> QED
  BY <1>1, <1>6, <1>9, <1>11, <1>12 DEF Along, base, n

LEMMA ReadJobType ==
    ASSUME NEW acc \in Summary, NEW log \in Seq(T!Progress)
    PROVE  T!ReadJob(acc, log) \in Summary
<1>1. PICK f \in [0..Len(log) -> Summary] : T!ReadJob(acc, log) = f[Len(log)]
  BY ReadJobSteps
<1>2. Len(log) \in 0..Len(log)
  OBVIOUS
<1> QED
  BY <1>1, <1>2

\* The fold over the logs of the jobs fetched so far.
LEMMA ReadSteps ==
    ASSUME fetched \in Seq(Seq(T!Progress))
    PROVE  \E f \in [0..Len(fetched) -> Summary] :
             /\ f[0] = [starts |-> <<>>, images |-> {}, intervals |-> <<>>]
             /\ \A i \in 1..Len(fetched) : f[i] = T!ReadJob(f[i - 1], fetched[i])
             /\ T!Read = f[Len(fetched)]
<1> DEFINE n == Len(fetched)
           base == [starts |-> <<>>, images |-> {}, intervals |-> <<>>]
           Eq(g) == g = [s \in SUBSET DOMAIN fetched |->
                           IF s = {} THEN base
                           ELSE T!ReadJob(g[s \ {T!Max(s)}], fetched[T!Max(s)])]
           H == [x \in (1..n) \X Summary |-> T!ReadJob(x[2], fetched[x[1]])]
           last == [s \in SUBSET (1..n) |-> T!Max(s)]
<1>1. n \in Nat /\ DOMAIN fetched = 1..n /\ \A i \in 1..n : fetched[i] \in Seq(T!Progress)
  OBVIOUS
<1>2. base \in Summary
  BY NothingStarted DEF Summary
<1>3. H \in [(1..n) \X Summary -> Summary]
  BY <1>1, ReadJobType
<1>4. \A s \in SUBSET (1..n) : s # {} => last[s] \in s /\ last[s] = T!Max(s)
  BY <1>1, LastPosition
<1> HIDE DEF base, n
<1>5. \E g : Eq(g)
  <2>1. PICK g \in [SUBSET (1..n) -> Summary] :
           \A s \in SUBSET (1..n) : Folds(n, base, H, last, g, s)
    <3> HIDE DEF H, last
    <3> QED
      BY <1>1, <1>2, <1>3, <1>4, FoldExists
  <2>2. ASSUME NEW s \in SUBSET (1..n), s # {}
        PROVE  g[s] = T!ReadJob(g[s \ {T!Max(s)}], fetched[T!Max(s)])
    <3>1. last[s] = T!Max(s) /\ T!Max(s) \in 1..n /\ g[s \ {T!Max(s)}] \in Summary
      BY <1>4, <2>2
    <3>2. g[s] = H[<<last[s], g[s \ {last[s]}]>>]
      BY <2>1, <2>2 DEF Folds
    <3> HIDE DEF last
    <3> QED
      BY <3>1, <3>2
  <2> QED
    BY <1>1, <2>1, <2>2 DEF Folds
<1> DEFINE g == CHOOSE g : Eq(g)
<1>6. T!Read = g[DOMAIN fetched]
  BY DEF T!Read, T!FoldLeft, T!MapThenFoldSet, base
<1>7. Eq(g)
  BY <1>5
<1> HIDE DEF g
<1>8. \A s \in SUBSET (1..n) :
        g[s] = IF s = {} THEN base ELSE T!ReadJob(g[s \ {T!Max(s)}], fetched[T!Max(s)])
  BY <1>1, <1>7
<1>9. g[{}] = base
  BY <1>8
<1>10. ASSUME NEW i \in 1..n, g[1..(i - 1)] \in Summary
       PROVE  g[1..i] = H[<<i, g[1..(i - 1)]>>]
  <2>1. /\ 1..i \in SUBSET (1..n) /\ 1..i # {}
        /\ T!Max(1..i) = i /\ (1..i) \ {i} = 1..(i - 1)
    BY <1>1, LastPosition
  <2>2. g[1..i] = T!ReadJob(g[(1..i) \ {T!Max(1..i)}], fetched[T!Max(1..i)])
    BY <1>8, <2>1
  <2> QED
    BY <1>10, <2>1, <2>2
<1>11. PICK f \in [0..n -> Summary] : Along(n, H, g, f)
  <2>1. GoesOn(n, Summary, H, g)
    <3> HIDE DEF H
    <3> QED
      BY <1>2, <1>9, <1>10 DEF GoesOn
  <2> HIDE DEF H
  <2> QED
    BY <1>1, <1>3, <2>1, FoldChain
<1>12. \A i \in 1..n : f[i] = T!ReadJob(f[i - 1], fetched[i])
  <2>1. \A i \in 1..n : f[i - 1] \in Summary
    BY <1>1
  <2> QED
    BY <1>11, <2>1 DEF Along
<1> QED
  BY <1>1, <1>6, <1>9, <1>11, <1>12 DEF Along, base, n

LEMMA AddProgressType ==
    ASSUME NEW items \in Seq(T!Progress), NEW row \in T!Progress \cup {T!NoTask}
    PROVE  T!AddProgress(items, row) \in Seq(T!Progress)
BY DEF T!AddProgress

\* The fold that collects the rows with image progress.
LEMMA ParseSteps ==
    ASSUME NEW log \in Seq(T!Progress \cup {T!NoTask})
    PROVE  \E f \in [0..Len(log) -> Seq(T!Progress)] :
             /\ f[0] = <<>>
             /\ \A i \in 1..Len(log) : f[i] = T!AddProgress(f[i - 1], log[i])
             /\ T!ParseJobEvents(log) = f[Len(log)]
<1> DEFINE n == Len(log)
           base == <<>>
           Eq(g) == g = [s \in SUBSET DOMAIN log |->
                           IF s = {} THEN base
                           ELSE T!AddProgress(g[s \ {T!Max(s)}], log[T!Max(s)])]
           H == [x \in (1..n) \X Seq(T!Progress) |-> T!AddProgress(x[2], log[x[1]])]
           last == [s \in SUBSET (1..n) |-> T!Max(s)]
<1>1. n \in Nat /\ DOMAIN log = 1..n /\ \A i \in 1..n : log[i] \in T!Progress \cup {T!NoTask}
  OBVIOUS
<1>2. base \in Seq(T!Progress)
  OBVIOUS
<1>3. H \in [(1..n) \X Seq(T!Progress) -> Seq(T!Progress)]
  BY <1>1, AddProgressType
<1>4. \A s \in SUBSET (1..n) : s # {} => last[s] \in s /\ last[s] = T!Max(s)
  BY <1>1, LastPosition
<1> HIDE DEF base, n
<1>5. \E g : Eq(g)
  <2>1. PICK g \in [SUBSET (1..n) -> Seq(T!Progress)] :
           \A s \in SUBSET (1..n) : Folds(n, base, H, last, g, s)
    <3> HIDE DEF H, last
    <3> QED
      BY <1>1, <1>2, <1>3, <1>4, FoldExists
  <2>2. ASSUME NEW s \in SUBSET (1..n), s # {}
        PROVE  g[s] = T!AddProgress(g[s \ {T!Max(s)}], log[T!Max(s)])
    <3>1. last[s] = T!Max(s) /\ T!Max(s) \in 1..n /\ g[s \ {T!Max(s)}] \in Seq(T!Progress)
      BY <1>4, <2>2
    <3>2. g[s] = H[<<last[s], g[s \ {last[s]}]>>]
      BY <2>1, <2>2 DEF Folds
    <3> HIDE DEF last
    <3> QED
      BY <3>1, <3>2
  <2> QED
    BY <1>1, <2>1, <2>2 DEF Folds
<1> DEFINE g == CHOOSE g : Eq(g)
<1>6. T!ParseJobEvents(log) = g[DOMAIN log]
  BY DEF T!ParseJobEvents, T!FoldLeft, T!MapThenFoldSet, base
<1>7. Eq(g)
  BY <1>5
<1> HIDE DEF g
<1>8. \A s \in SUBSET (1..n) :
        g[s] = IF s = {} THEN base ELSE T!AddProgress(g[s \ {T!Max(s)}], log[T!Max(s)])
  BY <1>1, <1>7
<1>9. g[{}] = base
  BY <1>8
<1>10. ASSUME NEW i \in 1..n, g[1..(i - 1)] \in Seq(T!Progress)
       PROVE  g[1..i] = H[<<i, g[1..(i - 1)]>>]
  <2>1. /\ 1..i \in SUBSET (1..n) /\ 1..i # {}
        /\ T!Max(1..i) = i /\ (1..i) \ {i} = 1..(i - 1)
    BY <1>1, LastPosition
  <2>2. g[1..i] = T!AddProgress(g[(1..i) \ {T!Max(1..i)}], log[T!Max(1..i)])
    BY <1>8, <2>1
  <2> QED
    BY <1>10, <2>1, <2>2
<1>11. PICK f \in [0..n -> Seq(T!Progress)] : Along(n, H, g, f)
  <2>1. GoesOn(n, Seq(T!Progress), H, g)
    <3> HIDE DEF H
    <3> QED
      BY <1>2, <1>9, <1>10 DEF GoesOn
  <2> HIDE DEF H
  <2> QED
    BY <1>1, <1>3, <2>1, FoldChain
<1>12. \A i \in 1..n : f[i] = T!AddProgress(f[i - 1], log[i])
  <2>1. \A i \in 1..n : f[i - 1] \in Seq(T!Progress)
    BY <1>1
  <2> QED
    BY <1>11, <2>1 DEF Along
<1> QED
  BY <1>1, <1>6, <1>9, <1>11, <1>12 DEF Along, base, n

\* The workers at work after a point, and the most there were.
Sweeping == [active : Int, max : Int]
Delta == {p \in Int \X Int : p[2] \in {1, -1}}

LEMMA SweepType ==
    ASSUME NEW acc \in Sweeping, NEW p \in Delta
    PROVE  /\ T!Sweep(acc, p) \in Sweeping
           /\ T!Sweep(acc, p).active = acc.active + p[2]
           /\ T!Sweep(acc, p).max \in {acc.max, acc.active + p[2]}
<1>1. p[2] \in Int /\ acc.active \in Int /\ acc.max \in Int
  BY DEF Sweeping, Delta
<1>2. \A x, y \in Int : T!Max({x, y}) \in {x, y}
  <2> TAKE x \in Int, y \in Int
  <2>1. \E m \in {x, y} : \A k \in {x, y} : m >= k
    OBVIOUS
  <2> QED
    BY <2>1 DEF T!Max
<1>3. T!Max({acc.max, acc.active + p[2]}) \in {acc.max, acc.active + p[2]}
  BY <1>1, <1>2
<1> QED
  BY <1>1, <1>3 DEF T!Sweep, Sweeping

SweepOf(points) == T!FoldLeft(T!Sweep, [active |-> 0, max |-> 0], points)

\* The fold over the points in their order.
LEMMA SweepSteps ==
    ASSUME NEW points \in Seq(Delta)
    PROVE  \E f \in [0..Len(points) -> Sweeping] :
             /\ f[0] = [active |-> 0, max |-> 0]
             /\ \A i \in 1..Len(points) : f[i] = T!Sweep(f[i - 1], points[i])
             /\ SweepOf(points) = f[Len(points)]
<1> DEFINE n == Len(points)
           base == [active |-> 0, max |-> 0]
           Eq(g) == g = [s \in SUBSET DOMAIN points |->
                           IF s = {} THEN base
                           ELSE T!Sweep(g[s \ {T!Max(s)}], points[T!Max(s)])]
           H == [x \in (1..n) \X Sweeping |-> T!Sweep(x[2], points[x[1]])]
           last == [s \in SUBSET (1..n) |-> T!Max(s)]
<1>1. n \in Nat /\ DOMAIN points = 1..n /\ \A i \in 1..n : points[i] \in Delta
  OBVIOUS
<1>2. base \in Sweeping
  BY DEF Sweeping
<1>3. H \in [(1..n) \X Sweeping -> Sweeping]
  BY <1>1, SweepType
<1>4. \A s \in SUBSET (1..n) : s # {} => last[s] \in s /\ last[s] = T!Max(s)
  BY <1>1, LastPosition
<1> HIDE DEF base, n
<1>5. \E g : Eq(g)
  <2>1. PICK g \in [SUBSET (1..n) -> Sweeping] :
           \A s \in SUBSET (1..n) : Folds(n, base, H, last, g, s)
    <3> HIDE DEF H, last
    <3> QED
      BY <1>1, <1>2, <1>3, <1>4, FoldExists
  <2>2. ASSUME NEW s \in SUBSET (1..n), s # {}
        PROVE  g[s] = T!Sweep(g[s \ {T!Max(s)}], points[T!Max(s)])
    <3>1. last[s] = T!Max(s) /\ T!Max(s) \in 1..n /\ g[s \ {T!Max(s)}] \in Sweeping
      BY <1>4, <2>2
    <3>2. g[s] = H[<<last[s], g[s \ {last[s]}]>>]
      BY <2>1, <2>2 DEF Folds
    <3> HIDE DEF last
    <3> QED
      BY <3>1, <3>2
  <2> QED
    BY <1>1, <2>1, <2>2 DEF Folds
<1> DEFINE g == CHOOSE g : Eq(g)
<1>6. SweepOf(points) = g[DOMAIN points]
  BY DEF SweepOf, T!FoldLeft, T!MapThenFoldSet, base
<1>7. Eq(g)
  BY <1>5
<1> HIDE DEF g
<1>8. \A s \in SUBSET (1..n) :
        g[s] = IF s = {} THEN base ELSE T!Sweep(g[s \ {T!Max(s)}], points[T!Max(s)])
  BY <1>1, <1>7
<1>9. g[{}] = base
  BY <1>8
<1>10. ASSUME NEW i \in 1..n, g[1..(i - 1)] \in Sweeping
       PROVE  g[1..i] = H[<<i, g[1..(i - 1)]>>]
  <2>1. /\ 1..i \in SUBSET (1..n) /\ 1..i # {}
        /\ T!Max(1..i) = i /\ (1..i) \ {i} = 1..(i - 1)
    BY <1>1, LastPosition
  <2>2. g[1..i] = T!Sweep(g[(1..i) \ {T!Max(1..i)}], points[T!Max(1..i)])
    BY <1>8, <2>1
  <2> QED
    BY <1>10, <2>1, <2>2
<1>11. PICK f \in [0..n -> Sweeping] : Along(n, H, g, f)
  <2>1. GoesOn(n, Sweeping, H, g)
    <3> HIDE DEF H
    <3> QED
      BY <1>2, <1>9, <1>10 DEF GoesOn
  <2> HIDE DEF H
  <2> QED
    BY <1>1, <1>3, <2>1, FoldChain
<1>12. \A i \in 1..n : f[i] = T!Sweep(f[i - 1], points[i])
  <2>1. \A i \in 1..n : f[i - 1] \in Sweeping
    BY <1>1
  <2> QED
    BY <1>11, <2>1 DEF Along
<1> QED
  BY <1>1, <1>6, <1>9, <1>11, <1>12 DEF Along, base, n

----------------------------------------------------------------------------
(* WorkerTimeline: the invariant                                            *)

\* The messages sent and not lost: on the wire, or in the log of a job.
Logged(j) == { events[j][i] : i \in DOMAIN events[j] } \ {T!NoTask}
Sent == wire \cup UNION { Logged(j) : j \in T!Jobs }

TaskOf(m) == <<m.job, m.lid>>

\* The beginning p and the end d of one task, as its worker told them.
Worked(p, d) ==
    /\ p \in Sent /\ p.status = "processing"
    /\ d \in Sent /\ d.status = "done"
    /\ p.worker = d.worker /\ TaskOf(p) = TaskOf(d)

\* Worker w is at a task, and p told its beginning.
AtWork(w, p) ==
    /\ busy[w] # T!NoTask
    /\ p \in Sent /\ p.status = "processing" /\ p.worker = w /\ TaskOf(p) = busy[w]

TimelineType ==
    /\ clock \in 0..MaxClock /\ todo \subseteq Tasks
    /\ busy \in [Workers -> Tasks \cup {T!NoTask}]
    /\ wire \subseteq T!Progress
    /\ lost \in Nat /\ duplicates \in Nat
    /\ events \in [T!Jobs -> Seq(T!Progress \cup {T!NoTask})]
    /\ fetched \in Seq(Seq(T!Progress)) /\ Len(fetched) <= T!Cardinality(T!Jobs)
    /\ peak \in Nat /\ finished \subseteq Keys /\ again \in BOOLEAN

\* What the messages say: the log of a job is of the job, an answer is of its log,
\* no message is of a later time, an end is of a task that ended.
MessageInv ==
    /\ \A j \in T!Jobs : \A m \in Logged(j) : m.job = j
    /\ \A j \in DOMAIN fetched : \A i \in DOMAIN fetched[j] : fetched[j][i] \in Logged(j)
    /\ \A m \in Sent : m.at <= clock
    /\ \A m \in Sent : m.status = "done" => <<m.worker, m.lid>> \in finished
    /\ lost = 0 => \A k \in finished : \E m \in Sent :
         m.status = "done" /\ <<m.worker, m.lid>> = k

\* What a worker tells of and is at, it began; and unless one began a task again, it
\* tells of each once, and of no end before it is there.
TaskInv ==
    /\ \A m \in Sent : <<m.worker, TaskOf(m)>> \in begun
    /\ \A w \in Workers : busy[w] # T!NoTask => <<w, busy[w]>> \in begun
    /\ ~again =>
         /\ \A m, q \in Sent :
              m.worker = q.worker /\ TaskOf(m) = TaskOf(q) /\ m.status = q.status => m = q
         /\ \A w \in Workers : busy[w] # T!NoTask =>
              \A m \in Sent : m.status = "done" /\ m.worker = w => TaskOf(m) # busy[w]

\* A worker is at one task after the other, and ends each after it began.
InOrder ==
    /\ \A p, d \in Sent : Worked(p, d) => p.at <= d.at
    /\ \A p, q, d, e \in Sent :
         Worked(p, d) /\ Worked(q, e) /\ p.worker = q.worker /\ p # q =>
           d.at <= q.at \/ e.at <= p.at
    /\ \A w \in Workers : \A p, d \in Sent :
         AtWork(w, p) /\ d.status = "done" /\ d.worker = w => d.at <= p.at

OrderInv == ~again => InOrder

\* The workers known to have been at work from time t on.
WorkingAt(t) ==
    { w \in Workers : \/ \E p, d \in Sent : Worked(p, d) /\ p.worker = w /\ p.at <= t /\ t < d.at
                      \/ \E p \in Sent : AtWork(w, p) /\ p.at <= t }

PeakInv ==
    /\ T!Cardinality({w \in Workers : busy[w] # T!NoTask}) <= peak
    /\ ~again => \A t \in 0..(clock - 1) : T!Cardinality(WorkingAt(t)) <= peak

\* No message is twice in a sequence of rows.
Single(rs) == \A i, k \in DOMAIN rs : rs[i] = rs[k] /\ rs[i] # T!NoTask => i = k

\* Unless a message was logged twice or a task begun twice, each message is logged
\* once and read once.
OnceInv ==
    duplicates = 0 /\ ~again =>
      /\ \A j \in T!Jobs : wire \cap Logged(j) = {}
      /\ \A j \in T!Jobs : Single(events[j])
      /\ \A j \in DOMAIN fetched : Single(fetched[j])

TimelineInv == TimelineType /\ MessageInv /\ TaskInv /\ OrderInv /\ PeakInv /\ OnceInv

\* The instance counts as its surroundings do.
LEMMA SameCount ==
    /\ \A S : T!Cardinality(S) = Cardinality(S)
    /\ \A S : T!IsFiniteSet(S) <=> IsFiniteSet(S)
BY DEF T!Cardinality, Cardinality, T!IsFiniteSet, IsFiniteSet

LEMMA TimelineConstants ==
    /\ IsFiniteSet(Workers) /\ MaxClock \in Nat
    /\ Cardinality(T!Jobs) \in Nat /\ T!Jobs = 1..Cardinality(T!Jobs)
    /\ T!NoTask \notin Tasks /\ T!NoTask \notin T!Progress
    /\ Tasks \subseteq T!Jobs \X T!Lids
<1>1. /\ IsFiniteSet(Tasks) /\ IsFiniteSet(Workers) /\ MaxClock \in Nat
      /\ T!Jobs = 1..Cardinality(T!Jobs)
      /\ Tasks \subseteq T!Jobs \X T!Lids
  BY TimelineIsSound, SameCount DEF T!TimelineAssumption
<1>2. Cardinality(T!Jobs) \in Nat
  <2> DEFINE f == [t \in Tasks |-> t[1]]
  <2>1. f \in Surjection(Tasks, T!Jobs)
    BY DEF T!Jobs, Surjection
  <2>2. IsFiniteSet(T!Jobs)
    BY <1>1, <2>1, FS_Surjection
  <2> QED
    BY <2>2, FS_CardinalityType
<1>3. T!NoTask \notin Tasks
  BY <1>1 DEF T!NoTask
<1>4. T!NoTask \notin T!Progress
  BY DEF T!NoTask, T!Progress
<1> QED
  BY <1>1, <1>2, <1>3, <1>4

LEMMA TimelineInit == T!Init => TimelineInv
<1> SUFFICES ASSUME T!Init PROVE TimelineInv
  OBVIOUS
<1>1. \A j \in T!Jobs : events[j] = <<T!NoTask>> /\ Logged(j) = {}
  BY DEF T!Init, Logged
<1>2. Sent = {}
  BY <1>1 DEF T!Init, Sent
<1>3. TimelineType
  <2>1. <<T!NoTask>> \in Seq(T!Progress \cup {T!NoTask})
    OBVIOUS
  <2>2. Len(<<>>) <= T!Cardinality(T!Jobs)
    BY TimelineConstants, SameCount
  <2>3. events \in [T!Jobs -> Seq(T!Progress \cup {T!NoTask})]
    BY <2>1 DEF T!Init
  <2>4. fetched \in Seq(Seq(T!Progress)) /\ Len(fetched) <= T!Cardinality(T!Jobs)
    BY <2>2 DEF T!Init
  <2>5. clock \in 0..MaxClock /\ lost \in Nat /\ duplicates \in Nat /\ peak \in Nat
    BY TimelineConstants DEF T!Init
  <2>6. /\ todo \subseteq Tasks /\ busy \in [Workers -> Tasks \cup {T!NoTask}]
        /\ wire \subseteq T!Progress /\ finished \subseteq Keys /\ again \in BOOLEAN
    BY DEF T!Init
  <2> QED
    BY <2>3, <2>4, <2>5, <2>6 DEF TimelineType
<1>4. MessageInv
  BY <1>1, <1>2 DEF MessageInv, T!Init
<1>5. TaskInv /\ OrderInv
  BY <1>2 DEF TaskInv, OrderInv, InOrder, Worked, AtWork, T!Init
<1>6. PeakInv
  <2>1. {w \in Workers : busy[w] # T!NoTask} = {}
    BY DEF T!Init
  <2>2. \A t \in 0..(clock - 1) : FALSE
    BY DEF T!Init
  <2>3. T!Cardinality({w \in Workers : busy[w] # T!NoTask}) = 0
    BY <2>1, SameCount, FS_EmptySet
  <2>4. peak = 0
    BY DEF T!Init
  <2> QED
    BY <2>2, <2>3, <2>4 DEF PeakInv
<1>7. OnceInv
  BY <1>1 DEF OnceInv, Single, T!Init
<1> QED
  BY <1>3, <1>4, <1>5, <1>6, <1>7 DEF TimelineInv

\* What a step does to the log of each job and to the messages there are.
LEMMA LogStep ==
    ASSUME TimelineType, NEW m \in wire, T!Log(m), m.job \in T!Jobs
    PROVE  /\ \A j \in T!Jobs : Logged(j)' = IF j = m.job THEN Logged(j) \cup {m} ELSE Logged(j)
           /\ Sent' = Sent
           /\ events'[m.job] = Append(events[m.job], m)
           /\ \A j \in T!Jobs : j # m.job => events'[j] = events[j]
           /\ events' \in [T!Jobs -> Seq(T!Progress \cup {T!NoTask})]
<1>1. m \in T!Progress /\ m # T!NoTask
  BY TimelineConstants DEF TimelineType
<1>2. events' = [events EXCEPT ![m.job] = Append(@, m)]
  BY DEF T!Log
<1>3. /\ events'[m.job] = Append(events[m.job], m)
      /\ \A j \in T!Jobs : j # m.job => events'[j] = events[j]
      /\ events' \in [T!Jobs -> Seq(T!Progress \cup {T!NoTask})]
  BY <1>1, <1>2 DEF TimelineType
<1>4. Logged(m.job)' = Logged(m.job) \cup {m}
  <2> DEFINE s == events[m.job]
             r == events'[m.job]
  <2>1. s \in Seq(T!Progress \cup {T!NoTask})
    BY DEF TimelineType
  <2>2. /\ DOMAIN r = DOMAIN s \cup {Len(s) + 1}
        /\ \A i \in DOMAIN s : r[i] = s[i]
        /\ r[Len(s) + 1] = m
    BY <1>3, <2>1
  <2> HIDE DEF s, r
  <2>3. {r[i] : i \in DOMAIN r} = {s[i] : i \in DOMAIN s} \cup {m}
    BY <2>2
  <2> QED
    BY <1>1, <2>3 DEF Logged, s, r
<1>5. \A j \in T!Jobs : Logged(j)' = IF j = m.job THEN Logged(j) \cup {m} ELSE Logged(j)
  <2>1. \A j \in T!Jobs : j # m.job => Logged(j)' = Logged(j)
    BY <1>3 DEF Logged
  <2> QED
    BY <1>4, <2>1
<1>6. wire' = wire \/ wire' = wire \ {m}
  BY DEF T!Log
<1>7. Sent' = wire' \cup UNION {Logged(j)' : j \in T!Jobs}
  BY DEF Sent
<1> QED
  BY <1>3, <1>5, <1>6, <1>7 DEF Sent

\* The messages of a log are read as they are: all of them, each as often as it is there.
LEMMA ParseFacts ==
    ASSUME NEW log \in Seq(T!Progress \cup {T!NoTask})
    PROVE  /\ T!ParseJobEvents(log) \in Seq(T!Progress)
           /\ {T!ParseJobEvents(log)[k] : k \in DOMAIN T!ParseJobEvents(log)}
                = {log[k] : k \in DOMAIN log} \ {T!NoTask}
           /\ Single(log) => Single(T!ParseJobEvents(log))
<1> DEFINE n == Len(log)
<1>0. n \in Nat /\ DOMAIN log = 1..n /\ T!NoTask \notin T!Progress
      /\ \A i \in 1..n : log[i] \in T!Progress \cup {T!NoTask}
  BY TimelineConstants
<1>1. PICK f \in [0..n -> Seq(T!Progress)] :
          /\ f[0] = <<>>
          /\ \A i \in 1..n : f[i] = T!AddProgress(f[i - 1], log[i])
          /\ T!ParseJobEvents(log) = f[n]
  BY ParseSteps
<1> DEFINE Right(i) == /\ {f[i][k] : k \in DOMAIN f[i]} = {log[k] : k \in 1..i} \ {T!NoTask}
                       /\ Single(log) => Single(f[i])
           G == {i \in 0..n : Right(i)}
<1>2. 0 \in G
  BY <1>0, <1>1 DEF Single
<1>3. ASSUME NEW i \in 1..n, i - 1 \in G PROVE i \in G
  <2> DEFINE r == f[i - 1]
             s == f[i]
  <2>1. /\ i - 1 \in 0..n /\ r \in Seq(T!Progress) /\ s \in Seq(T!Progress)
        /\ {r[k] : k \in DOMAIN r} = {log[k] : k \in 1..(i - 1)} \ {T!NoTask}
        /\ Single(log) => Single(r)
    <3> HIDE DEF n
    <3>1. i - 1 \in 0..n /\ i \in 0..n /\ Right(i - 1)
      <4>1. i - 1 \in 0..n /\ i \in 0..n
        BY <1>0
      <4> HIDE DEF Right
      <4> QED
        BY <1>3, <4>1
    <3>2. r \in Seq(T!Progress) /\ s \in Seq(T!Progress)
      BY <1>1, <3>1
    <3> QED
      BY <3>1, <3>2
  <2>2. s = IF log[i] = T!NoTask THEN r ELSE Append(r, log[i])
    BY <1>1 DEF T!AddProgress
  <2>3. 1..i = (1..(i - 1)) \cup {i}
    OBVIOUS
  <2> HIDE DEF r, s
  <2>4. ASSUME log[i] = T!NoTask PROVE Right(i)
    <3>1. {s[k] : k \in DOMAIN s} = {log[k] : k \in 1..i} \ {T!NoTask}
      BY <2>1, <2>2, <2>3, <2>4
    <3>2. Single(log) => Single(s)
      BY <2>1, <2>2, <2>4
    <3> QED
      BY <3>1, <3>2 DEF s
  <2>5. ASSUME log[i] # T!NoTask PROVE Right(i)
    <3>1. /\ DOMAIN s = DOMAIN r \cup {Len(r) + 1} /\ Len(r) + 1 \notin DOMAIN r
          /\ \A k \in DOMAIN r : s[k] = r[k]
          /\ s[Len(r) + 1] = log[i]
      BY <1>0, <2>1, <2>2, <2>5
    <3>2. {s[k] : k \in DOMAIN s} = {r[k] : k \in DOMAIN r} \cup {log[i]}
      BY <3>1
    <3>3. {s[k] : k \in DOMAIN s} = {log[k] : k \in 1..i} \ {T!NoTask}
      BY <2>1, <2>3, <2>5, <3>2
    <3>4. ASSUME Single(log) PROVE Single(s)
      <4>1. \A k \in 1..(i - 1) : log[k] # log[i]
        <5>1. \A k \in 1..(i - 1) : k \in DOMAIN log /\ i \in DOMAIN log /\ k # i
          BY <1>0
        <5> QED
          BY <2>5, <3>4, <5>1 DEF Single
      <4>2. \A k \in DOMAIN r : r[k] # log[i]
        BY <2>1, <4>1
      <4> QED
        BY <2>1, <3>1, <3>4, <4>2 DEF Single
    <3> QED
      BY <3>3, <3>4 DEF s
  <2> HIDE DEF Right
  <2> QED
    BY <2>4, <2>5
<1> HIDE DEF G
<1>4. \A i \in 0..n : i \in G
  BY <1>0, <1>2, <1>3, Positions
<1>5. Right(n) /\ f[n] \in Seq(T!Progress)
  <2>1. n \in 0..n
    BY <1>0
  <2>2. f[n] \in Seq(T!Progress)
    BY <1>1, <2>1
  <2> HIDE DEF Right, n
  <2> QED
    BY <1>4, <2>1, <2>2 DEF G
<1> HIDE DEF n
<1>6. /\ {f[n][k] : k \in DOMAIN f[n]} = {log[k] : k \in DOMAIN log} \ {T!NoTask}
      /\ Single(log) => Single(f[n])
  BY <1>0, <1>5
<1>7. T!ParseJobEvents(log) = f[n]
  BY <1>1
<1> QED
  BY <1>5, <1>6, <1>7

\* What is read of the log of a job, or of an error, is in the log.
LEMMA FetchFacts ==
    ASSUME TimelineType, NEW j \in T!Jobs, NEW log \in T!FetchEvents(j)
    PROVE  /\ T!ParseJobEvents(log) \in Seq(T!Progress)
           /\ \A k \in DOMAIN T!ParseJobEvents(log) : T!ParseJobEvents(log)[k] \in Logged(j)
           /\ Single(events[j]) => Single(T!ParseJobEvents(log))
<1>1. CASE log = events[j]
  <2>1. log \in Seq(T!Progress \cup {T!NoTask})
    BY <1>1 DEF TimelineType
  <2>2. {T!ParseJobEvents(log)[k] : k \in DOMAIN T!ParseJobEvents(log)} = Logged(j)
    BY <1>1, <2>1, ParseFacts DEF Logged
  <2>3. /\ T!ParseJobEvents(log) \in Seq(T!Progress)
        /\ Single(log) => Single(T!ParseJobEvents(log))
    BY <2>1, ParseFacts
  <2> QED
    BY <1>1, <2>2, <2>3
<1>2. CASE log = <<>>
  <2>1. log \in Seq(T!Progress \cup {T!NoTask}) /\ DOMAIN log = {} /\ Single(log)
    BY <1>2 DEF Single
  <2>2. {T!ParseJobEvents(log)[k] : k \in DOMAIN T!ParseJobEvents(log)} = {}
    <3>1. {log[k] : k \in DOMAIN log} \ {T!NoTask} = {}
      BY <2>1
    <3> QED
      BY <2>1, <3>1, ParseFacts
  <2>3. /\ T!ParseJobEvents(log) \in Seq(T!Progress)
        /\ Single(log) => Single(T!ParseJobEvents(log))
    BY <2>1, ParseFacts
  <2> QED
    BY <2>1, <2>2, <2>3
<1> QED
  BY <1>1, <1>2 DEF T!FetchEvents

\* The message a worker sends of its task now.
Now(w, t, status) == [worker |-> w, job |-> t[1], lid |-> t[2],
                      status |-> status, at |-> clock]

LEMMA NowFacts ==
    ASSUME TimelineType, NEW w \in Workers, NEW t \in Tasks,
           NEW status \in {"processing", "done"}, T!Publish(w, t, status), UNCHANGED events
    PROVE  /\ Now(w, t, status) \in T!Progress
           /\ TaskOf(Now(w, t, status)) = t
           /\ Sent' = Sent \cup {Now(w, t, status)}
           /\ \A j \in T!Jobs : Logged(j)' = Logged(j)
<1>1. t = <<t[1], t[2]>> /\ t[1] \in T!Jobs /\ t[2] \in T!Lids
  BY TimelineConstants
<1>2. Now(w, t, status) \in T!Progress
  BY <1>1 DEF Now, T!Progress, TimelineType
<1>3. TaskOf(Now(w, t, status)) = t
  BY <1>1 DEF Now, TaskOf
<1>4. \A j \in T!Jobs : Logged(j)' = Logged(j)
  BY DEF Logged
<1>5. wire' = wire \cup {Now(w, t, status)}
  BY DEF T!Publish, Now
<1>6. Sent' = wire' \cup UNION {Logged(j)' : j \in T!Jobs}
  BY DEF Sent
<1>7. Sent' = Sent \cup {Now(w, t, status)}
  BY <1>4, <1>5, <1>6 DEF Sent
<1> QED
  BY <1>2, <1>3, <1>4, <1>7

LEMMA BeginFacts ==
    ASSUME TimelineType, NEW w \in Workers, NEW t \in todo, T!Begin(w, t)
    PROVE  /\ Now(w, t, "processing") \in T!Progress
           /\ TaskOf(Now(w, t, "processing")) = t /\ t \in Tasks /\ t # T!NoTask
           /\ Sent' = Sent \cup {Now(w, t, "processing")}
           /\ \A j \in T!Jobs : Logged(j)' = Logged(j)
           /\ busy[w] = T!NoTask /\ todo' = todo \ {t}
           /\ busy'[w] = t /\ \A v \in Workers : v # w => busy'[v] = busy[v]
           /\ busy' \in [Workers -> Tasks \cup {T!NoTask}]
           /\ begun' = begun \cup {<<w, t>>} /\ again' = (again \/ <<w, t>> \in begun)
           /\ UNCHANGED <<clock, lost, duplicates, events, fetched, finished>>
<1>1. /\ t \in Tasks /\ busy[w] = T!NoTask /\ todo' = todo \ {t}
      /\ busy' = [busy EXCEPT ![w] = t] /\ T!Publish(w, t, "processing")
      /\ begun' = begun \cup {<<w, t>>} /\ again' = (again \/ <<w, t>> \in begun)
      /\ UNCHANGED <<clock, lost, duplicates, events, fetched, finished>>
  BY DEF T!Begin, TimelineType
<1>2. /\ busy'[w] = t /\ \A v \in Workers : v # w => busy'[v] = busy[v]
      /\ busy' \in [Workers -> Tasks \cup {T!NoTask}]
  BY <1>1 DEF TimelineType
<1>3. t # T!NoTask
  BY <1>1, TimelineConstants
<1>4. /\ Now(w, t, "processing") \in T!Progress
      /\ TaskOf(Now(w, t, "processing")) = t
      /\ Sent' = Sent \cup {Now(w, t, "processing")}
      /\ \A j \in T!Jobs : Logged(j)' = Logged(j)
  BY <1>1, NowFacts
<1> QED
  BY <1>1, <1>2, <1>3, <1>4

LEMMA FinishFacts ==
    ASSUME TimelineType, NEW w \in Workers, T!Finish(w)
    PROVE  /\ Now(w, busy[w], "done") \in T!Progress
           /\ TaskOf(Now(w, busy[w], "done")) = busy[w]
           /\ busy[w] \in Tasks /\ busy[w] # T!NoTask
           /\ Sent' = Sent \cup {Now(w, busy[w], "done")}
           /\ \A j \in T!Jobs : Logged(j)' = Logged(j)
           /\ busy'[w] = T!NoTask /\ \A v \in Workers : v # w => busy'[v] = busy[v]
           /\ busy' \in [Workers -> Tasks \cup {T!NoTask}]
           /\ finished' = finished \cup {<<w, busy[w][2]>>}
           /\ UNCHANGED <<clock, todo, lost, duplicates, events, fetched, peak, begun, again>>
<1>1. /\ busy[w] \in Tasks /\ busy[w] # T!NoTask
      /\ busy' = [busy EXCEPT ![w] = T!NoTask] /\ T!Publish(w, busy[w], "done")
      /\ finished' = finished \cup {<<w, busy[w][2]>>}
      /\ UNCHANGED <<clock, todo, lost, duplicates, events, fetched, peak, begun, again>>
  BY DEF T!Finish, TimelineType
<1>2. /\ busy'[w] = T!NoTask /\ \A v \in Workers : v # w => busy'[v] = busy[v]
      /\ busy' \in [Workers -> Tasks \cup {T!NoTask}]
  BY <1>1 DEF TimelineType
<1>3. /\ Now(w, busy[w], "done") \in T!Progress
      /\ TaskOf(Now(w, busy[w], "done")) = busy[w]
      /\ Sent' = Sent \cup {Now(w, busy[w], "done")}
      /\ \A j \in T!Jobs : Logged(j)' = Logged(j)
  BY <1>1, NowFacts
<1> QED
  BY <1>1, <1>2, <1>3

\* The other steps send nothing, and a worker goes on with what it is at or drops it.
Quiet ==
    \/ T!Tick \/ T!Fetch \/ T!Restart \/ UNCHANGED T!vars
    \/ \E t \in Tasks : T!Redeliver(t)
    \/ \E m \in wire : T!Log(m) \/ T!Lose(m)

LEMMA QuietFacts ==
    ASSUME TimelineType, Quiet
    PROVE  /\ Sent' \subseteq Sent
           /\ \A w \in Workers : busy'[w] \in {busy[w], T!NoTask}
           /\ UNCHANGED <<peak, begun, again, finished>>
           /\ clock' = clock \/ (T!Tick /\ clock' = clock + 1)
           /\ lost \in Nat => lost' \in Nat /\ (lost' = 0 => lost = 0 /\ Sent' = Sent)
<1>1. CASE T!Tick \/ T!Fetch \/ UNCHANGED T!vars
  <2>1. UNCHANGED <<busy, peak, begun, again, finished, lost, wire, events>>
    BY <1>1 DEF T!Tick, T!Fetch, T!vars, T!history
  <2>2. Sent' = Sent
    BY <2>1 DEF Sent, Logged
  <2>3. clock' = clock \/ (T!Tick /\ clock' = clock + 1)
    BY <1>1 DEF T!Tick, T!Fetch, T!vars
  <2> QED
    BY <2>1, <2>2, <2>3
<1>2. ASSUME NEW m \in wire, T!Log(m)
      PROVE  Sent' = Sent /\ UNCHANGED <<busy, peak, begun, again, finished, lost, clock>>
  <2>1. m.job \in T!Jobs
    BY DEF TimelineType, T!Progress
  <2>2. Sent' = Sent
    BY <1>2, <2>1, LogStep
  <2> QED
    BY <1>2, <2>2 DEF T!Log, T!history
<1>3. ASSUME NEW m \in wire, T!Lose(m)
      PROVE  /\ Sent' \subseteq Sent /\ lost' = lost + 1
             /\ UNCHANGED <<busy, peak, begun, again, finished, clock>>
  <2>1. wire' = wire \ {m} /\ UNCHANGED events /\ lost' = lost + 1
        /\ UNCHANGED <<busy, peak, begun, again, finished, clock>>
    BY <1>3 DEF T!Lose, T!history
  <2>2. Sent' \subseteq Sent
    BY <2>1 DEF Sent, Logged
  <2> QED
    BY <2>1, <2>2
<1>4. ASSUME T!Restart \/ \E t \in Tasks : T!Redeliver(t)
      PROVE  /\ Sent' = Sent /\ UNCHANGED <<peak, begun, again, finished, lost, clock>>
             /\ \A w \in Workers : busy'[w] \in {busy[w], T!NoTask}
  <2>1. /\ UNCHANGED <<wire, events, peak, begun, again, finished, lost, clock>>
        /\ busy' = busy \/ busy' = [w \in Workers |-> T!NoTask]
    BY <1>4 DEF T!Restart, T!Redeliver, T!history
  <2>2. Sent' = Sent
    BY <2>1 DEF Sent, Logged
  <2> QED
    BY <2>1, <2>2
<1> QED
  BY <1>1, <1>2, <1>3, <1>4 DEF Quiet

LEMMA TimelineSteps ==
    ASSUME [T!Next]_(T!vars)
    PROVE  \/ \E w \in Workers, t \in todo : T!Begin(w, t)
           \/ \E w \in Workers : T!Finish(w)
           \/ Quiet
BY DEF T!Next, Quiet

LEMMA GreaterOfTwo ==
    ASSUME NEW x \in Int, NEW y \in Int
    PROVE  T!Max({x, y}) \in {x, y} /\ T!Max({x, y}) >= x /\ T!Max({x, y}) >= y
<1>1. \E m \in {x, y} : \A k \in {x, y} : m >= k
  OBVIOUS
<1> QED
  BY <1>1 DEF T!Max

\* The peak is never below the number of the workers that are busy.
LEMMA PeakStep ==
    ASSUME TimelineType, NEW w \in Workers, NEW t \in todo, T!Begin(w, t)
    PROVE  /\ peak' \in Nat /\ peak <= peak'
           /\ T!Cardinality({v \in Workers : busy'[v] # T!NoTask}) <= peak'
<1> DEFINE n == T!Cardinality({v \in Workers : busy'[v] # T!NoTask})
<1>1. n \in Nat
  <2>1. IsFiniteSet({v \in Workers : busy'[v] # T!NoTask})
    BY TimelineConstants, FS_Subset
  <2> QED
    BY <2>1, SameCount, FS_CardinalityType
<1>2. peak' = T!Max({peak, n}) /\ peak \in Nat
  BY DEF T!Begin, TimelineType
<1> HIDE DEF n
<1>3. peak' \in {peak, n} /\ peak' >= peak /\ peak' >= n
  BY <1>1, <1>2, GreaterOfTwo
<1> QED
  BY <1>1, <1>2, <1>3 DEF n

LEMMA FetchStep ==
    ASSUME TimelineType, T!Fetch
    PROVE  \E j \in T!Jobs : \E log \in T!FetchEvents(j) :
             /\ j = Len(fetched) + 1
             /\ fetched' = Append(fetched, T!ParseJobEvents(log))
             /\ T!ParseJobEvents(log) \in Seq(T!Progress)
             /\ fetched' \in Seq(Seq(T!Progress)) /\ Len(fetched') = j
             /\ Len(fetched') <= T!Cardinality(T!Jobs)
             /\ UNCHANGED <<clock, todo, busy, wire, lost, duplicates, events, peak, again,
                            finished>>
<1>1. PICK log \in T!FetchEvents(Len(fetched) + 1) :
         fetched' = Append(fetched, T!ParseJobEvents(log))
  BY DEF T!Fetch
<1>2. /\ Len(fetched) < Cardinality(T!Jobs)
      /\ UNCHANGED <<clock, todo, busy, wire, lost, duplicates, events, peak, again,
                     finished>>
  BY SameCount DEF T!Fetch, T!history
<1>3. Len(fetched) \in Nat /\ Cardinality(T!Jobs) \in Nat
      /\ T!Jobs = 1..Cardinality(T!Jobs) /\ fetched \in Seq(Seq(T!Progress))
  BY TimelineConstants DEF TimelineType
<1>4. Len(fetched) + 1 \in T!Jobs /\ Len(fetched) + 1 <= T!Cardinality(T!Jobs)
  BY <1>2, <1>3, SameCount
<1>5. T!ParseJobEvents(log) \in Seq(T!Progress)
  BY <1>1, <1>4, FetchFacts
<1>6. fetched' \in Seq(Seq(T!Progress)) /\ Len(fetched') = Len(fetched) + 1
  BY <1>1, <1>3, <1>5
<1> QED
  BY <1>1, <1>2, <1>4, <1>5, <1>6

LEMMA TimelineTypeStep ==
    ASSUME TimelineType, [T!Next]_(T!vars)
    PROVE  TimelineType'
<1>0. MaxClock \in Nat /\ lost \in Nat /\ duplicates \in Nat
  BY TimelineConstants DEF TimelineType
<1>1. ASSUME NEW w \in Workers, NEW t \in todo, T!Begin(w, t) PROVE TimelineType'
  <2>1. wire' = wire \cup {Now(w, t, "processing")}
    BY <1>1 DEF T!Begin, T!Publish, Now
  <2>2. wire' \subseteq T!Progress /\ todo' \subseteq Tasks
        /\ busy' \in [Workers -> Tasks \cup {T!NoTask}] /\ again' \in BOOLEAN
        /\ UNCHANGED <<clock, lost, duplicates, events, fetched, finished>>
    BY <1>1, <2>1, BeginFacts DEF TimelineType
  <2>3. peak' \in Nat
    BY <1>1, PeakStep
  <2> QED
    BY <2>2, <2>3 DEF TimelineType
<1>2. ASSUME NEW w \in Workers, T!Finish(w) PROVE TimelineType'
  <2>1. wire' = wire \cup {Now(w, busy[w], "done")}
    BY <1>2 DEF T!Finish, T!Publish, Now
  <2>2. <<w, busy[w][2]>> \in Keys
    <3>1. busy[w] \in Tasks
      BY <1>2, FinishFacts
    <3>2. busy[w][2] \in T!Lids
      BY <3>1, TimelineConstants
    <3> QED
      BY <3>2 DEF Keys
  <2>3. wire' \subseteq T!Progress /\ finished' \subseteq Keys
        /\ busy' \in [Workers -> Tasks \cup {T!NoTask}]
        /\ UNCHANGED <<clock, todo, lost, duplicates, events, fetched, peak, begun, again>>
    BY <1>2, <2>1, <2>2, FinishFacts DEF TimelineType
  <2> QED
    BY <2>3 DEF TimelineType
<1>3. CASE T!Tick
  <2>1. clock' \in 0..MaxClock
    BY <1>0, <1>3 DEF T!Tick, TimelineType
  <2> QED
    BY <1>3, <2>1 DEF T!Tick, T!history, TimelineType
<1>4. CASE T!Fetch
  BY <1>4, FetchStep DEF TimelineType
<1>5. ASSUME NEW m \in wire, T!Log(m) PROVE TimelineType'
  <2>1. m.job \in T!Jobs
    BY DEF TimelineType, T!Progress
  <2>2. events' \in [T!Jobs -> Seq(T!Progress \cup {T!NoTask})]
    BY <1>5, <2>1, LogStep
  <2>3. /\ wire' \subseteq T!Progress /\ duplicates' \in Nat
        /\ UNCHANGED <<clock, todo, busy, lost, fetched, peak, again, finished>>
    BY <1>0, <1>5 DEF T!Log, T!history, TimelineType
  <2> QED
    BY <2>2, <2>3 DEF TimelineType
<1>6. ASSUME NEW m \in wire, T!Lose(m) PROVE TimelineType'
  BY <1>0, <1>6 DEF T!Lose, T!history, TimelineType
<1>7. CASE UNCHANGED T!vars
  BY <1>7 DEF T!vars, T!history, TimelineType
<1>8. ASSUME T!Restart \/ \E t \in Tasks : T!Redeliver(t) PROVE TimelineType'
  <2>1. UNCHANGED <<clock, wire, lost, duplicates, events, fetched, peak, again, finished>>
    BY <1>8 DEF T!Restart, T!Redeliver, T!history
  <2>2. todo' \subseteq Tasks
    BY <1>8 DEF T!Restart, T!Redeliver, TimelineType
  <2>3. busy' \in [Workers -> Tasks \cup {T!NoTask}]
    BY <1>8 DEF T!Restart, T!Redeliver, TimelineType
  <2> QED
    BY <2>1, <2>2, <2>3 DEF TimelineType
<1> QED
  BY <1>1, <1>2, <1>3, <1>4, <1>5, <1>6, <1>7, <1>8, TimelineSteps DEF Quiet

\* An answer of a request is appended to those before it.
LEMMA FetchedStep ==
    ASSUME TimelineType, [T!Next]_(T!vars), ~T!Fetch
    PROVE  UNCHANGED fetched
BY DEF T!Next, T!Tick, T!Finish, T!Begin, T!Redeliver, T!Restart, T!Log, T!Lose, T!vars

LEMMA LoggedGrows ==
    ASSUME TimelineType, [T!Next]_(T!vars), NEW j \in T!Jobs
    PROVE  Logged(j) \subseteq Logged(j)' /\ \A m \in Logged(j)' : m \in Logged(j) \/ m.job = j
<1>1. ASSUME NEW m \in wire, T!Log(m)
      PROVE  Logged(j)' = IF j = m.job THEN Logged(j) \cup {m} ELSE Logged(j)
  <2>1. m.job \in T!Jobs
    BY DEF TimelineType, T!Progress
  <2> QED
    BY <1>1, <2>1, LogStep
<1>2. CASE UNCHANGED events
  BY <1>2 DEF Logged
<1>3. UNCHANGED events \/ \E m \in wire : T!Log(m)
  BY DEF T!Next, T!Tick, T!Finish, T!Begin, T!Redeliver, T!Restart, T!Fetch, T!Lose, T!vars
<1> QED
  BY <1>1, <1>2, <1>3

LEMMA MessageStep ==
    ASSUME TimelineType, MessageInv, [T!Next]_(T!vars)
    PROVE  MessageInv'
<1>0. TimelineType' /\ clock \in Nat /\ lost \in Nat
  BY TimelineTypeStep DEF TimelineType
<1>1. \A j \in T!Jobs : \A m \in Logged(j)' : m.job = j
  BY LoggedGrows DEF MessageInv
<1>2. \A j \in DOMAIN fetched' : \A i \in DOMAIN fetched'[j] : fetched'[j][i] \in Logged(j)'
  <2>1. \A j \in DOMAIN fetched : j \in T!Jobs
    BY TimelineConstants, SameCount DEF TimelineType
  <2>2. \A j \in DOMAIN fetched : \A i \in DOMAIN fetched[j] : fetched[j][i] \in Logged(j)'
    BY <2>1, LoggedGrows DEF MessageInv
  <2>3. CASE UNCHANGED fetched
    BY <2>2, <2>3
  <2>4. CASE T!Fetch
    <3>0. PICK j \in T!Jobs : \E log \in T!FetchEvents(j) :
             /\ j = Len(fetched) + 1
             /\ fetched' = Append(fetched, T!ParseJobEvents(log))
             /\ T!ParseJobEvents(log) \in Seq(T!Progress)
      BY <2>4, FetchStep
    <3>1. PICK log \in T!FetchEvents(j) :
             /\ j = Len(fetched) + 1
             /\ fetched' = Append(fetched, T!ParseJobEvents(log))
             /\ T!ParseJobEvents(log) \in Seq(T!Progress)
      BY <3>0
    <3>2. \A k \in DOMAIN T!ParseJobEvents(log) : T!ParseJobEvents(log)[k] \in Logged(j)'
      BY FetchFacts, LoggedGrows
    <3>3. /\ DOMAIN fetched' = DOMAIN fetched \cup {j}
          /\ fetched'[j] = T!ParseJobEvents(log)
          /\ \A i \in DOMAIN fetched : fetched'[i] = fetched[i]
      BY <3>1 DEF TimelineType
    <3> QED
      BY <2>2, <3>2, <3>3
  <2> QED
    BY <2>3, <2>4, FetchedStep
<1>3. ASSUME NEW w \in Workers, NEW t \in todo, T!Begin(w, t) PROVE MessageInv'
  <2>1. /\ Sent' = Sent \cup {Now(w, t, "processing")}
        /\ UNCHANGED <<clock, lost, finished>>
    BY <1>3, BeginFacts
  <2>2. Now(w, t, "processing").at = clock /\ Now(w, t, "processing").status = "processing"
    BY DEF Now
  <2>3. /\ \A m \in Sent' : m.at <= clock'
        /\ \A m \in Sent' : m.status = "done" => <<m.worker, m.lid>> \in finished'
        /\ lost' = 0 => \A k \in finished' : \E m \in Sent' :
             m.status = "done" /\ <<m.worker, m.lid>> = k
    BY <1>0, <2>1, <2>2 DEF MessageInv
  <2> QED
    BY <1>1, <1>2, <2>3 DEF MessageInv
<1>4. ASSUME NEW w \in Workers, T!Finish(w) PROVE MessageInv'
  <2> DEFINE m == Now(w, busy[w], "done")
  <2>1. /\ Sent' = Sent \cup {m}
        /\ finished' = finished \cup {<<w, busy[w][2]>>}
        /\ UNCHANGED <<clock, lost>>
    BY <1>4, FinishFacts
  <2>2. m.at = clock /\ m.status = "done" /\ m.worker = w /\ m.lid = busy[w][2]
    BY DEF Now
  <2> HIDE DEF m
  <2>3. /\ \A q \in Sent' : q.at <= clock'
        /\ \A q \in Sent' : q.status = "done" => <<q.worker, q.lid>> \in finished'
        /\ lost' = 0 => \A k \in finished' : \E q \in Sent' :
             q.status = "done" /\ <<q.worker, q.lid>> = k
    BY <1>0, <2>1, <2>2 DEF MessageInv
  <2> QED
    BY <1>1, <1>2, <2>3 DEF MessageInv
<1>5. CASE Quiet
  <2>1. /\ Sent' \subseteq Sent /\ UNCHANGED finished
        /\ clock' = clock \/ clock' = clock + 1
        /\ lost' = 0 => lost = 0 /\ Sent' = Sent
    BY <1>0, <1>5, QuietFacts
  <2>2. \A m \in Sent : m.at \in Nat
    <3>1. Sent \subseteq T!Progress
      BY DEF Sent, Logged, TimelineType
    <3> QED
      BY <3>1, TimelineConstants DEF T!Progress
  <2>3. \A m \in Sent' : m.at <= clock'
    BY <1>0, <2>1, <2>2 DEF MessageInv
  <2> QED
    BY <1>1, <1>2, <2>1, <2>3 DEF MessageInv
<1> QED
  BY <1>3, <1>4, <1>5, TimelineSteps

\* Fewer messages, and no more tasks under way.
LEMMA FewerMessages ==
    ASSUME Sent' \subseteq Sent, UNCHANGED <<begun, again>>,
           \A w \in Workers : busy'[w] \in {busy[w], T!NoTask}
    PROVE  /\ \A p, d : Worked(p, d)' => Worked(p, d)
           /\ \A w \in Workers : \A p : AtWork(w, p)' => AtWork(w, p)
           /\ TaskInv => TaskInv'
           /\ OrderInv => OrderInv'
<1>1. /\ \A p, d : Worked(p, d)' => Worked(p, d)
      /\ \A w \in Workers : \A p : AtWork(w, p)' => AtWork(w, p)
  BY DEF Worked, AtWork, TaskOf
<1>2. TaskInv => TaskInv'
  BY DEF TaskInv, TaskOf
<1>3. OrderInv => OrderInv'
  BY <1>1 DEF OrderInv, InOrder
<1> QED
  BY <1>1, <1>2, <1>3

LEMMA TaskStep ==
    ASSUME TimelineType, TaskInv, [T!Next]_(T!vars)
    PROVE  TaskInv'
<1>0. \A m : TaskOf(m)' = TaskOf(m)
  BY DEF TaskOf
<1>1. ASSUME NEW w \in Workers, NEW t \in todo, T!Begin(w, t) PROVE TaskInv'
  <2> DEFINE n == Now(w, t, "processing")
  <2>1. /\ TaskOf(n) = t /\ Sent' = Sent \cup {n}
        /\ begun' = begun \cup {<<w, t>>} /\ again' = (again \/ <<w, t>> \in begun)
        /\ busy'[w] = t /\ \A v \in Workers : v # w => busy'[v] = busy[v]
    BY <1>1, BeginFacts
  <2>2. n.status = "processing" /\ n.worker = w
    BY DEF Now
  <2> HIDE DEF n
  <2>3. /\ \A m \in Sent' : <<m.worker, TaskOf(m)>> \in begun'
        /\ \A v \in Workers : busy'[v] # T!NoTask => <<v, busy'[v]>> \in begun'
    BY <2>1, <2>2 DEF TaskInv
  <2>4. ASSUME ~again'
        PROVE  /\ \A m, q \in Sent' : m.worker = q.worker /\ TaskOf(m) = TaskOf(q)
                                        /\ m.status = q.status => m = q
               /\ \A v \in Workers : busy'[v] # T!NoTask =>
                    \A m \in Sent' : m.status = "done" /\ m.worker = v => TaskOf(m) # busy'[v]
    <3>1. ~again /\ <<w, t>> \notin begun
      BY <2>1, <2>4
    <3>2. \A m \in Sent : m.worker = w => TaskOf(m) # t
      BY <3>1 DEF TaskInv
    <3>3. \A m, q \in Sent' : m.worker = q.worker /\ TaskOf(m) = TaskOf(q)
                               /\ m.status = q.status => m = q
      BY <2>1, <2>2, <3>1, <3>2 DEF TaskInv
    <3>4. ASSUME NEW v \in Workers, busy'[v] # T!NoTask, NEW m \in Sent',
                 m.status = "done", m.worker = v
          PROVE  TaskOf(m) # busy'[v]
      <4>1. m \in Sent
        BY <2>1, <2>2, <3>4
      <4> QED
        BY <2>1, <3>1, <3>2, <3>4, <4>1 DEF TaskInv
    <3> QED
      BY <3>3, <3>4
  <2> QED
    BY <1>0, <2>3, <2>4 DEF TaskInv
<1>2. ASSUME NEW w \in Workers, T!Finish(w) PROVE TaskInv'
  <2> DEFINE n == Now(w, busy[w], "done")
  <2>1. /\ TaskOf(n) = busy[w] /\ busy[w] # T!NoTask
        /\ Sent' = Sent \cup {n} /\ UNCHANGED <<begun, again>>
        /\ busy'[w] = T!NoTask /\ \A v \in Workers : v # w => busy'[v] = busy[v]
    BY <1>2, FinishFacts
  <2>2. n.status = "done" /\ n.worker = w
    BY DEF Now
  <2> HIDE DEF n
  <2>3. /\ \A m \in Sent' : <<m.worker, TaskOf(m)>> \in begun'
        /\ \A v \in Workers : busy'[v] # T!NoTask => <<v, busy'[v]>> \in begun'
    BY <2>1, <2>2 DEF TaskInv
  <2>4. ASSUME ~again
        PROVE  /\ \A m, q \in Sent' : m.worker = q.worker /\ TaskOf(m) = TaskOf(q)
                                        /\ m.status = q.status => m = q
               /\ \A v \in Workers : busy'[v] # T!NoTask =>
                    \A m \in Sent' : m.status = "done" /\ m.worker = v => TaskOf(m) # busy'[v]
    <3>1. \A m \in Sent : m.status = "done" /\ m.worker = w => TaskOf(m) # busy[w]
      BY <2>1, <2>4 DEF TaskInv
    <3>2. \A m, q \in Sent' : m.worker = q.worker /\ TaskOf(m) = TaskOf(q)
                               /\ m.status = q.status => m = q
      BY <2>1, <2>2, <2>4, <3>1 DEF TaskInv
    <3>3. ASSUME NEW v \in Workers, busy'[v] # T!NoTask, NEW m \in Sent',
                 m.status = "done", m.worker = v
          PROVE  TaskOf(m) # busy'[v]
      <4>1. v # w
        BY <2>1, <3>3
      <4>2. m \in Sent /\ busy'[v] = busy[v]
        BY <2>1, <2>2, <3>3, <4>1
      <4> QED
        BY <2>4, <3>3, <4>2 DEF TaskInv
    <3> QED
      BY <3>2, <3>3
  <2> QED
    BY <1>0, <2>1, <2>3, <2>4 DEF TaskInv
<1>3. CASE Quiet
  BY <1>3, QuietFacts, FewerMessages
<1> QED
  BY <1>1, <1>2, <1>3, TimelineSteps

LEMMA SentProgress ==
    ASSUME TimelineType
    PROVE  /\ Sent \subseteq T!Progress
           /\ \A m \in Sent : m.at \in Nat /\ m.worker \in Workers /\ m.job \in T!Jobs
<1>1. Sent \subseteq T!Progress
  BY DEF Sent, Logged, TimelineType
<1> QED
  BY <1>1, TimelineConstants DEF T!Progress

LEMMA OrderStep ==
    ASSUME TimelineType, MessageInv, TaskInv, OrderInv, [T!Next]_(T!vars)
    PROVE  OrderInv'
<1>0. \A m : TaskOf(m)' = TaskOf(m)
  BY DEF TaskOf
<1>1. ASSUME NEW w \in Workers, NEW t \in todo, T!Begin(w, t), ~again' PROVE InOrder'
  <2> DEFINE n == Now(w, t, "processing")
  <2>1. /\ TaskOf(n) = t /\ t \in Tasks /\ t # T!NoTask
        /\ Sent' = Sent \cup {n} /\ again' = (again \/ <<w, t>> \in begun)
        /\ busy'[w] = t /\ \A v \in Workers : v # w => busy'[v] = busy[v]
    BY <1>1, BeginFacts
  <2>2. n.status = "processing" /\ n.at = clock /\ n.worker = w
    BY DEF Now
  <2> HIDE DEF n
  <2>3. InOrder /\ \A m \in Sent : m.worker = w => TaskOf(m) # t
    BY <1>1, <2>1 DEF TaskInv, OrderInv
  <2>4. \A p, d : Worked(p, d)' => Worked(p, d)
    BY <1>0, <2>1, <2>2, <2>3 DEF Worked
  <2>5. ASSUME NEW v \in Workers, NEW p \in Sent', NEW d \in Sent', AtWork(v, p)',
               d.status = "done", d.worker = v
        PROVE  d.at <= p.at
    <3>1. d \in Sent
      BY <2>1, <2>2, <2>5
    <3>2. CASE v = w
      <4>1. p = n
        BY <1>0, <2>1, <2>3, <2>5, <3>2 DEF AtWork
      <4> QED
        BY <2>2, <3>1, <4>1 DEF MessageInv
    <3>3. CASE v # w
      <4>1. AtWork(v, p) /\ p \in Sent
        BY <1>0, <2>1, <2>2, <2>5, <3>3 DEF AtWork
      <4> QED
        BY <2>5, <3>1, <2>3, <4>1 DEF InOrder
    <3> QED
      BY <3>2, <3>3
  <2>6. ASSUME NEW p \in Sent', NEW q \in Sent', NEW d \in Sent', NEW e \in Sent',
               Worked(p, d)', Worked(q, e)', p.worker = q.worker, p # q
        PROVE  d.at <= q.at \/ e.at <= p.at
    <3>1. Worked(p, d) /\ Worked(q, e)
      BY <2>4, <2>6
    <3> QED
      BY <2>3, <2>6, <3>1 DEF InOrder, Worked
  <2>7. \A p, d \in Sent' : Worked(p, d)' => p.at <= d.at
    BY <2>3, <2>4 DEF InOrder, Worked
  <2> QED
    BY <2>5, <2>6, <2>7 DEF InOrder
<1>2. ASSUME NEW w \in Workers, T!Finish(w), ~again' PROVE InOrder'
  <2> DEFINE n == Now(w, busy[w], "done")
  <2>1. /\ TaskOf(n) = busy[w] /\ busy[w] \in Tasks /\ busy[w] # T!NoTask
        /\ Sent' = Sent \cup {n} /\ ~again /\ InOrder
        /\ busy'[w] = T!NoTask /\ \A v \in Workers : v # w => busy'[v] = busy[v]
    BY <1>2, FinishFacts DEF OrderInv
  <2>2. n.status = "done" /\ n.at = clock /\ n.worker = w
    BY DEF Now
  <2> HIDE DEF n
  <2>4. \A p, d : Worked(p, d)' => Worked(p, d) \/ (d = n /\ AtWork(w, p))
    BY <1>0, <2>1, <2>2 DEF Worked, AtWork
  <2>5. ASSUME NEW v \in Workers, NEW p \in Sent', NEW d \in Sent', AtWork(v, p)',
               d.status = "done", d.worker = v
        PROVE  d.at <= p.at
    <3>1. v # w /\ busy'[v] = busy[v]
      BY <2>1, <2>5 DEF AtWork
    <3>2. d \in Sent /\ AtWork(v, p) /\ p \in Sent
      BY <1>0, <2>1, <2>2, <2>5, <3>1 DEF AtWork
    <3> QED
      BY <2>1, <2>5, <3>2 DEF InOrder
  <2>6. ASSUME NEW p \in Sent', NEW q \in Sent', NEW d \in Sent', NEW e \in Sent',
               Worked(p, d)', Worked(q, e)', p.worker = q.worker, p # q
        PROVE  d.at <= q.at \/ e.at <= p.at
    <3>1. CASE Worked(p, d) /\ Worked(q, e)
      BY <2>1, <2>6, <3>1 DEF InOrder, Worked
    <3>2. CASE d = n /\ AtWork(w, p) /\ Worked(q, e)
      BY <2>1, <2>6, <3>2 DEF InOrder, Worked, AtWork
    <3>3. CASE e = n /\ AtWork(w, q) /\ Worked(p, d)
      BY <2>1, <2>6, <3>3 DEF InOrder, Worked, AtWork
    <3>4. CASE AtWork(w, p) /\ AtWork(w, q)
      BY <2>1, <2>6, <3>4 DEF TaskInv, AtWork
    <3> QED
      BY <2>4, <2>6, <3>1, <3>2, <3>3, <3>4
  <2>7. \A p, d \in Sent' : Worked(p, d)' => p.at <= d.at
    BY <2>1, <2>2, <2>4 DEF InOrder, MessageInv, Worked, AtWork
  <2> QED
    BY <2>5, <2>6, <2>7 DEF InOrder
<1>3. CASE Quiet
  BY <1>3, QuietFacts, FewerMessages
<1> QED
  BY <1>1, <1>2, <1>3, TimelineSteps DEF OrderInv

LEMMA CountWorkers ==
    ASSUME NEW S \in SUBSET Workers, NEW U \in SUBSET S
    PROVE  /\ T!Cardinality(S) \in Nat /\ T!Cardinality(U) \in Nat
           /\ T!Cardinality(U) <= T!Cardinality(S)
<1>1. IsFiniteSet(S)
  BY TimelineConstants, FS_Subset
<1>2. IsFiniteSet(U) /\ Cardinality(U) <= Cardinality(S)
  BY <1>1, FS_Subset
<1> QED
  BY <1>1, <1>2, SameCount, FS_CardinalityType

\* Who was known to be at work at a time before this one was so before the step.
LEMMA NoLaterWork ==
    ASSUME TimelineType, MessageInv, TaskInv, [T!Next]_(T!vars), ~again',
           NEW t \in Nat, t < clock
    PROVE  WorkingAt(t)' \subseteq WorkingAt(t)
<1>0. \A m : TaskOf(m)' = TaskOf(m)
  BY DEF TaskOf
<1>a. SUFFICES ASSUME NEW v \in Workers, v \in WorkingAt(t)'
               PROVE  v \in WorkingAt(t)
  BY DEF WorkingAt
<1>b. \/ \E p, d \in Sent' : Worked(p, d)' /\ p.worker = v /\ p.at <= t /\ t < d.at
      \/ \E p \in Sent' : AtWork(v, p)' /\ p.at <= t
  BY <1>a DEF WorkingAt
<1>c. clock \in Nat
  BY DEF TimelineType
<1>1. ASSUME NEW w \in Workers, NEW u \in todo, T!Begin(w, u) PROVE v \in WorkingAt(t)
  <2> DEFINE n == Now(w, u, "processing")
  <2>1. /\ TaskOf(n) = u /\ u # T!NoTask
        /\ Sent' = Sent \cup {n} /\ again' = (again \/ <<w, u>> \in begun)
        /\ busy'[w] = u /\ \A x \in Workers : x # w => busy'[x] = busy[x]
    BY <1>1, BeginFacts
  <2>2. n.status = "processing" /\ n.at = clock /\ n.worker = w
    BY DEF Now
  <2> HIDE DEF n
  <2>3. \A m \in Sent : m.worker = w => TaskOf(m) # u
    BY <2>1 DEF TaskInv
  <2>4. \A p, d : Worked(p, d)' => Worked(p, d)
    BY <1>0, <2>1, <2>2, <2>3 DEF Worked
  <2>5. ~(n.at <= t)
    BY <1>c, <2>2
  <2>6. \A p : AtWork(v, p)' /\ p.at <= t => AtWork(v, p)
    BY <1>0, <2>1, <2>2, <2>3, <2>5 DEF AtWork
  <2> QED
    BY <1>b, <2>4, <2>6 DEF WorkingAt, Worked, AtWork
<1>2. ASSUME NEW w \in Workers, T!Finish(w) PROVE v \in WorkingAt(t)
  <2> DEFINE n == Now(w, busy[w], "done")
  <2>1. /\ TaskOf(n) = busy[w] /\ busy[w] # T!NoTask
        /\ Sent' = Sent \cup {n}
        /\ busy'[w] = T!NoTask /\ \A x \in Workers : x # w => busy'[x] = busy[x]
    BY <1>2, FinishFacts
  <2>2. n.status = "done" /\ n.at = clock /\ n.worker = w
    BY DEF Now
  <2> HIDE DEF n
  <2>4. \A p, d : Worked(p, d)' => Worked(p, d) \/ (d = n /\ AtWork(w, p))
    BY <1>0, <2>1, <2>2 DEF Worked, AtWork
  <2>5. \A p : AtWork(v, p)' => AtWork(v, p)
    BY <1>0, <2>1, <2>2 DEF AtWork
  <2>6. \A p : AtWork(w, p) => p.worker = w
    BY DEF AtWork
  <2> QED
    BY <1>b, <2>4, <2>5, <2>6 DEF WorkingAt, Worked, AtWork
<1>3. CASE Quiet
  <2>1. Sent' \subseteq Sent /\ UNCHANGED <<begun, again>>
        /\ \A w \in Workers : busy'[w] \in {busy[w], T!NoTask}
    BY <1>3, QuietFacts
  <2>2. /\ \A p, d : Worked(p, d)' => Worked(p, d)
        /\ \A p : AtWork(v, p)' => AtWork(v, p)
    BY <2>1, FewerMessages
  <2> QED
    BY <1>b, <2>2 DEF WorkingAt, Worked, AtWork
<1> QED
  BY <1>1, <1>2, <1>3, TimelineSteps

\* At the present time, those known to be at work are busy.
LEMMA NowBusy ==
    ASSUME TimelineType, MessageInv
    PROVE  WorkingAt(clock) \subseteq {w \in Workers : busy[w] # T!NoTask}
<1>1. \A d \in Sent : ~(clock < d.at)
  BY SentProgress DEF MessageInv, TimelineType
<1> QED
  BY <1>1 DEF WorkingAt, AtWork

LEMMA PeakInvStep ==
    ASSUME TimelineType, MessageInv, TaskInv, PeakInv, [T!Next]_(T!vars)
    PROVE  PeakInv'
<1> DEFINE Busy == {w \in Workers : busy[w] # T!NoTask}
<1>0. /\ clock \in Nat /\ peak \in Nat /\ clock' \in Nat /\ peak' \in Nat
      /\ T!Cardinality(Busy) <= peak
  BY TimelineTypeStep DEF TimelineType, PeakInv
<1>1. peak <= peak' /\ T!Cardinality(Busy') <= peak'
  <2>1. ASSUME NEW w \in Workers, NEW t \in todo, T!Begin(w, t)
        PROVE  peak <= peak' /\ T!Cardinality(Busy') <= peak'
    BY <2>1, PeakStep
  <2>2. ASSUME NEW w \in Workers, T!Finish(w)
        PROVE  peak <= peak' /\ T!Cardinality(Busy') <= peak'
    <3>1. Busy' \subseteq Busy /\ UNCHANGED peak
      BY <2>2, FinishFacts
    <3> HIDE DEF Busy
    <3>2. Busy \in SUBSET Workers
      BY DEF Busy
    <3> QED
      BY <1>0, <3>1, <3>2, CountWorkers
  <2>3. CASE Quiet
    <3>1. Busy' \subseteq Busy /\ UNCHANGED peak
      BY <2>3, QuietFacts
    <3> HIDE DEF Busy
    <3>2. Busy \in SUBSET Workers
      BY DEF Busy
    <3> QED
      BY <1>0, <3>1, <3>2, CountWorkers
  <2> QED
    BY <2>1, <2>2, <2>3, TimelineSteps
<1>a. ASSUME ~again' PROVE ~again
  BY <1>a, TimelineSteps, QuietFacts, BeginFacts, FinishFacts DEF TimelineType
<1>2. ASSUME ~again', NEW t \in Nat, t < clock PROVE T!Cardinality(WorkingAt(t)') <= peak'
  <2>1. WorkingAt(t)' \subseteq WorkingAt(t) /\ WorkingAt(t) \in SUBSET Workers
    BY <1>2, NoLaterWork DEF WorkingAt
  <2>2. T!Cardinality(WorkingAt(t)) <= peak
    BY <1>0, <1>2, <1>a DEF PeakInv
  <2>3. /\ T!Cardinality(WorkingAt(t)) \in Nat /\ T!Cardinality(WorkingAt(t)') \in Nat
        /\ T!Cardinality(WorkingAt(t)') <= T!Cardinality(WorkingAt(t))
    BY <2>1, CountWorkers
  <2> QED
    BY <1>0, <1>1, <2>2, <2>3
<1>3. CASE clock' = clock
  BY <1>0, <1>1, <1>2, <1>3 DEF PeakInv
<1>4. CASE T!Tick /\ clock' = clock + 1
  <2>1. WorkingAt(clock)' = WorkingAt(clock)'
    OBVIOUS
  <2>2. UNCHANGED <<wire, events, busy>>
    BY <1>4 DEF T!Tick
  <2>3. ASSUME NEW t, t = clock PROVE T!Cardinality(WorkingAt(t)') <= peak'
    <3>1. WorkingAt(t)' = WorkingAt(t)
      BY <2>2 DEF WorkingAt, Worked, AtWork, TaskOf, Sent, Logged
    <3>2. WorkingAt(t) \subseteq Busy /\ Busy \in SUBSET Workers
      BY <2>3, NowBusy
    <3> HIDE DEF Busy
    <3>3. /\ T!Cardinality(WorkingAt(t)) \in Nat /\ T!Cardinality(Busy) \in Nat
          /\ T!Cardinality(WorkingAt(t)) <= T!Cardinality(Busy)
      BY <3>2, CountWorkers
    <3> QED
      BY <1>0, <1>1, <3>1, <3>3
  <2>4. ASSUME ~again', NEW t \in 0..(clock' - 1) PROVE T!Cardinality(WorkingAt(t)') <= peak'
    <3>1. t \in Nat /\ (t < clock \/ t = clock)
      BY <1>0, <1>4
    <3> QED
      BY <1>2, <2>3, <2>4, <3>1
  <2>5. ~again' => \A t \in 0..(clock' - 1) : T!Cardinality(WorkingAt(t)') <= peak'
    BY <2>4
  <2>6. T!Cardinality({w \in Workers : busy'[w] # T!NoTask}) <= peak'
    BY <1>1
  <2> HIDE DEF Busy
  <2> QED
    BY <2>5, <2>6 DEF PeakInv
<1>5. clock' = clock \/ (T!Tick /\ clock' = clock + 1)
  BY TimelineSteps, QuietFacts, BeginFacts, FinishFacts
<1> QED
  BY <1>3, <1>4, <1>5

LEMMA OnceLogStep ==
    ASSUME TimelineType, MessageInv, TaskInv, OnceInv, [T!Next]_(T!vars)
    PROVE  OnceInv'
<1> SUFFICES ASSUME duplicates' = 0, ~again' PROVE OnceInv'
  BY DEF OnceInv
<1>0. /\ duplicates = 0 /\ ~again
      /\ \A j \in T!Jobs : wire \cap Logged(j) = {}
      /\ \A j \in T!Jobs : Single(events[j])
      /\ \A j \in DOMAIN fetched : Single(fetched[j])
  <2>1. duplicates \in Nat
    BY DEF TimelineType
  <2>2. duplicates' = duplicates \/ duplicates' = duplicates + 1
    BY DEF T!Next, T!Tick, T!Finish, T!Begin, T!Redeliver, T!Restart, T!Fetch, T!Log,
       T!Lose, T!vars
  <2>3. duplicates = 0
    BY <2>1, <2>2
  <2>4. ~again
    BY TimelineSteps, QuietFacts, BeginFacts, FinishFacts DEF TimelineType
  <2> QED
    BY <2>3, <2>4 DEF OnceInv
<1>1. ASSUME NEW n, wire' = wire \cup {n}, n \notin Sent, UNCHANGED <<events, fetched>>
      PROVE  OnceInv'
  <2>1. \A j \in T!Jobs : Logged(j)' = Logged(j) /\ n \notin Logged(j)
    BY <1>1 DEF Logged, Sent
  <2>2. \A j \in T!Jobs : wire' \cap Logged(j)' = {}
    BY <1>0, <1>1, <2>1
  <2> QED
    BY <1>0, <1>1, <2>2 DEF OnceInv, Single
<1>2. ASSUME NEW w \in Workers, NEW t \in todo, T!Begin(w, t) PROVE OnceInv'
  <2>1. Now(w, t, "processing") \notin Sent
    <3>1. Now(w, t, "processing").worker = w /\ <<w, t>> \notin begun
      BY <1>2, BeginFacts DEF Now
    <3> QED
      BY <1>2, <3>1, BeginFacts DEF TaskInv
  <2>2. wire' = wire \cup {Now(w, t, "processing")}
    BY <1>2 DEF T!Begin, T!Publish, Now
  <2> QED
    BY <1>1, <1>2, <2>1, <2>2, BeginFacts
<1>3. ASSUME NEW w \in Workers, T!Finish(w) PROVE OnceInv'
  <2>1. Now(w, busy[w], "done") \notin Sent
    <3>1. Now(w, busy[w], "done").status = "done" /\ Now(w, busy[w], "done").worker = w
      BY DEF Now
    <3> QED
      BY <1>0, <1>3, <3>1, FinishFacts DEF TaskInv
  <2>2. wire' = wire \cup {Now(w, busy[w], "done")}
    BY <1>3 DEF T!Finish, T!Publish, Now
  <2> QED
    BY <1>1, <1>3, <2>1, <2>2, FinishFacts
<1>4. CASE T!Tick \/ T!Restart \/ (\E t \in Tasks : T!Redeliver(t)) \/ UNCHANGED T!vars
  <2>1. UNCHANGED <<wire, events, fetched>>
    BY <1>4 DEF T!Tick, T!Restart, T!Redeliver, T!vars
  <2> QED
    BY <1>0, <2>1 DEF OnceInv, Single, Logged
<1>5. CASE T!Fetch
  <2>0. PICK j \in T!Jobs : \E log \in T!FetchEvents(j) :
           /\ j = Len(fetched) + 1
           /\ fetched' = Append(fetched, T!ParseJobEvents(log))
           /\ T!ParseJobEvents(log) \in Seq(T!Progress)
           /\ UNCHANGED <<wire, events>>
    BY <1>5, FetchStep
  <2>1. PICK log \in T!FetchEvents(j) :
           /\ j = Len(fetched) + 1
           /\ fetched' = Append(fetched, T!ParseJobEvents(log))
           /\ T!ParseJobEvents(log) \in Seq(T!Progress)
           /\ UNCHANGED <<wire, events>>
    BY <2>0
  <2>2. Single(T!ParseJobEvents(log))
    BY <1>0, FetchFacts
  <2>3. /\ DOMAIN fetched' = DOMAIN fetched \cup {j}
        /\ fetched'[j] = T!ParseJobEvents(log)
        /\ \A i \in DOMAIN fetched : fetched'[i] = fetched[i]
    BY <2>1 DEF TimelineType
  <2>4. \A i \in DOMAIN fetched' : Single(fetched'[i])
    BY <1>0, <2>2, <2>3
  <2>5. \A i \in T!Jobs : Logged(i)' = Logged(i) /\ events'[i] = events[i] /\ wire' = wire
    BY <2>1 DEF Logged
  <2> QED
    BY <1>0, <2>4, <2>5 DEF OnceInv, Single
<1>6. ASSUME NEW m \in wire, T!Log(m) PROVE OnceInv'
  <2>0. m.job \in T!Jobs /\ m \in T!Progress
    BY DEF TimelineType, T!Progress
  <2>1. /\ wire' = wire \ {m} /\ UNCHANGED fetched
    BY <1>0, <1>6 DEF T!Log
  <2>2. /\ \A j \in T!Jobs : Logged(j)' = IF j = m.job THEN Logged(j) \cup {m} ELSE Logged(j)
        /\ events'[m.job] = Append(events[m.job], m)
        /\ \A j \in T!Jobs : j # m.job => events'[j] = events[j]
    BY <1>6, <2>0, LogStep
  <2>3. \A j \in T!Jobs : wire' \cap Logged(j)' = {}
    BY <1>0, <2>1, <2>2
  <2>4. Single(events'[m.job])
    <3> DEFINE s == events[m.job]
               r == events'[m.job]
    <3>1. s \in Seq(T!Progress \cup {T!NoTask}) /\ Single(s)
      BY <1>0, <2>0 DEF TimelineType
    <3>2. \A i \in DOMAIN s : s[i] # m
      <4>1. m \notin Logged(m.job) /\ m # T!NoTask
        BY <1>0, <2>0, TimelineConstants
      <4> QED
        BY <4>1 DEF Logged
    <3>3. /\ DOMAIN r = DOMAIN s \cup {Len(s) + 1}
          /\ \A i \in DOMAIN s : r[i] = s[i]
          /\ r[Len(s) + 1] = m
      BY <2>2, <3>1
    <3> HIDE DEF s, r
    <3>4. Single(r)
      BY <3>1, <3>2, <3>3 DEF Single
    <3> QED
      BY <3>4 DEF r
  <2>5. \A j \in T!Jobs : Single(events'[j])
    BY <1>0, <2>2, <2>4
  <2> QED
    BY <1>0, <2>1, <2>3, <2>5 DEF OnceInv, Single
<1>7. ASSUME NEW m \in wire, T!Lose(m) PROVE OnceInv'
  <2>1. wire' = wire \ {m} /\ UNCHANGED <<events, fetched>>
    BY <1>7 DEF T!Lose
  <2>2. \A j \in T!Jobs : wire' \cap Logged(j)' = {}
    BY <1>0, <2>1 DEF Logged
  <2> QED
    BY <1>0, <2>1, <2>2 DEF OnceInv, Single
<1> QED
  BY <1>2, <1>3, <1>4, <1>5, <1>6, <1>7, TimelineSteps DEF Quiet

LEMMA TimelineStep ==
    ASSUME TimelineInv, [T!Next]_(T!vars)
    PROVE  TimelineInv'
BY TimelineTypeStep, MessageStep, TaskStep, OrderStep, PeakInvStep, OnceLogStep
   DEF TimelineInv

----------------------------------------------------------------------------
(* WorkerTimeline: the images a worker is credited with                     *)

\* The messages in a log, and in all logs that were fetched.
Rows(log) == {log[i] : i \in DOMAIN log}
Fetched == UNION {Rows(fetched[j]) : j \in DOMAIN fetched}

\* The pairs of a worker and a lid whose end is among the messages S.
Ended(S) == {<<m.worker, m.lid>> : m \in {q \in S : q.status = "done"}}

LEMMA EndedFacts ==
    ASSUME NEW S, NEW U
    PROVE  Ended(S \cup U) = Ended(S) \cup Ended(U) /\ Ended({}) = {}
BY DEF Ended

\* The first positions of a sequence of messages, and one more.
LEMMA RowsUpTo ==
    ASSUME NEW n \in Nat, NEW log, DOMAIN log = 1..n
    PROVE  /\ {log[k] : k \in 1..0} = {} /\ {log[k] : k \in 1..n} = Rows(log)
           /\ \A i \in 1..n : {log[k] : k \in 1..i} = {log[k] : k \in 1..(i - 1)} \cup {log[i]}
<1>1. \A i \in 1..n : 1..i = (1..(i - 1)) \cup {i}
  OBVIOUS
<1> QED
  BY <1>1 DEF Rows

LEMMA ReadJobImages ==
    ASSUME NEW acc \in Summary, NEW log \in Seq(T!Progress)
    PROVE  T!ReadJob(acc, log).images = acc.images \cup Ended(Rows(log))
<1> DEFINE n == Len(log)
           Upto(i) == {log[k] : k \in 1..i}
<1>0. n \in Nat /\ DOMAIN log = 1..n /\ \A i \in 1..n : log[i] \in T!Progress
  OBVIOUS
<1>1. PICK f \in [0..n -> Summary] :
          /\ f[0] = [acc EXCEPT !.starts = <<>>]
          /\ \A i \in 1..n : f[i] = T!ReadProgress(f[i - 1], log[i])
          /\ T!ReadJob(acc, log) = f[n]
  BY ReadJobSteps
<1> HIDE DEF n
<1> DEFINE G == {i \in 0..n : f[i].images = acc.images \cup Ended(Upto(i))}
<1>2. 0 \in G
  <2>1. Ended(Upto(0)) = {}
    BY <1>0, RowsUpTo, EndedFacts
  <2>2. f[0].images = acc.images
    BY <1>1 DEF Summary
  <2> HIDE DEF Upto
  <2> QED
    BY <1>0, <2>1, <2>2
<1>3. ASSUME NEW i \in 1..n, i - 1 \in G PROVE i \in G
  <2> DEFINE p == log[i]
             r == f[i - 1]
  <2>1. r \in Summary /\ i \in 0..n /\ p \in T!Progress /\ f[i] = T!ReadProgress(r, p)
    BY <1>0, <1>1
  <2>2. Ended(Upto(i)) = Ended(Upto(i - 1)) \cup Ended({p})
    BY <1>0, RowsUpTo, EndedFacts
  <2>3. Ended({p}) = IF p.status = "done" THEN {<<p.worker, p.lid>>} ELSE {}
    BY DEF Ended
  <2>4. r.images = acc.images \cup Ended(Upto(i - 1))
    BY <1>3
  <2> HIDE DEF p, r, Upto
  <2>5. f[i].images = r.images \cup (IF p.status = "done" THEN {<<p.worker, p.lid>>} ELSE {})
    BY <2>1 DEF T!ReadProgress, Summary, T!Progress
  <2> QED
    BY <2>1, <2>2, <2>3, <2>4, <2>5
<1> HIDE DEF G
<1>4. \A i \in 0..n : i \in G
  BY <1>0, <1>2, <1>3, Positions
<1>5. f[n].images = acc.images \cup Ended(Upto(n))
  BY <1>0, <1>4 DEF G
<1> QED
  BY <1>0, <1>1, <1>5, RowsUpTo

\* The images that are read are those whose end is in a log that was fetched.
LEMMA ReadImages ==
    ASSUME fetched \in Seq(Seq(T!Progress))
    PROVE  T!Read \in Summary /\ T!Read.images = Ended(Fetched)
<1> DEFINE n == Len(fetched)
           Upto(i) == UNION {Rows(fetched[k]) : k \in 1..i}
<1>0. n \in Nat /\ DOMAIN fetched = 1..n /\ \A i \in 1..n : fetched[i] \in Seq(T!Progress)
  OBVIOUS
<1>1. PICK f \in [0..n -> Summary] :
          /\ f[0] = [starts |-> <<>>, images |-> {}, intervals |-> <<>>]
          /\ \A i \in 1..n : f[i] = T!ReadJob(f[i - 1], fetched[i])
          /\ T!Read = f[n]
  BY ReadSteps
<1> HIDE DEF n
<1> DEFINE G == {i \in 0..n : f[i].images = Ended(Upto(i))}
<1>2. 0 \in G
  <2>1. Upto(0) = {}
    OBVIOUS
  <2>2. Ended(Upto(0)) = {}
    BY <2>1, EndedFacts
  <2>3. 0 \in 0..n
    BY <1>0
  <2>4. f[0].images = {}
    BY <1>1
  <2> HIDE DEF Upto
  <2> QED
    BY <2>2, <2>3, <2>4
<1>3. ASSUME NEW i \in 1..n, i - 1 \in G PROVE i \in G
  <2>1. f[i - 1] \in Summary /\ i \in 0..n
    BY <1>0, <1>1
  <2>2. Upto(i) = Upto(i - 1) \cup Rows(fetched[i])
    <3>1. 1..i = (1..(i - 1)) \cup {i}
      BY <1>0
    <3> QED
      BY <3>1
  <2>3. f[i - 1].images = Ended(Upto(i - 1))
    BY <1>3
  <2> HIDE DEF Upto
  <2>4. f[i].images = f[i - 1].images \cup Ended(Rows(fetched[i]))
    BY <1>0, <1>1, <2>1, ReadJobImages
  <2>5. Ended(Upto(i)) = Ended(Upto(i - 1)) \cup Ended(Rows(fetched[i]))
    BY <2>2, EndedFacts
  <2> QED
    BY <2>1, <2>3, <2>4, <2>5
<1> HIDE DEF G
<1>4. \A i \in 0..n : i \in G
  BY <1>0, <1>2, <1>3, Positions
<1>5. n \in G /\ n \in 0..n
  BY <1>0, <1>4
<1>6. f[n].images = Ended(Upto(n)) /\ f[n] \in Summary
  BY <1>1, <1>5 DEF G
<1>7. Upto(n) = Fetched
  BY <1>0 DEF Fetched
<1> QED
  BY <1>1, <1>6, <1>7

LEMMA ImagesRead ==
    ASSUME TimelineType, MessageInv
    PROVE  T!ImagesAreReal
<1>0. T!Read.images = Ended(Fetched)
  BY ReadImages DEF TimelineType
<1>1. \A j \in DOMAIN fetched : j \in T!Jobs
  BY TimelineConstants, SameCount DEF TimelineType
<1>2. Fetched \subseteq Sent
  BY <1>1 DEF Fetched, Rows, MessageInv, Sent
<1>3. Ended(Sent) \subseteq finished
  BY DEF Ended, MessageInv
<1>4. Ended(Fetched) \subseteq finished
  BY <1>2, <1>3 DEF Ended
<1>5. ASSUME wire = {}, lost = 0, fetched = [j \in T!Jobs |-> T!ParseJobEvents(events[j])]
      PROVE  finished \subseteq Ended(Fetched)
  <2>1. finished \subseteq Ended(Sent)
    BY <1>5 DEF MessageInv, Ended
  <2>2. ASSUME NEW j \in T!Jobs PROVE Rows(fetched[j]) = Logged(j) /\ j \in DOMAIN fetched
    <3>1. fetched[j] = T!ParseJobEvents(events[j]) /\ j \in DOMAIN fetched
      BY <1>5
    <3>2. events[j] \in Seq(T!Progress \cup {T!NoTask})
      BY DEF TimelineType
    <3>3. {T!ParseJobEvents(events[j])[k] : k \in DOMAIN T!ParseJobEvents(events[j])} = Logged(j)
      BY <3>2, ParseFacts DEF Logged
    <3> QED
      BY <3>1, <3>3 DEF Rows
  <2>3. Sent \subseteq Fetched
    BY <1>5, <2>2 DEF Sent, Fetched
  <2> QED
    BY <2>1, <2>3 DEF Ended
<1> QED
  BY <1>0, <1>4, <1>5 DEF T!ImagesAreReal

\* The images a worker is credited with are images it has finished
\* (summarize_worker_timeline), for any number of jobs, images and workers, any
\* order of the log and any messages lost or logged twice; and all of them when
\* the log is complete.
THEOREM ImagesAreRealHolds == T!Spec => []ImagesAreReal
<1>1. T!Init => TimelineInv
  BY TimelineInit
<1>2. TimelineInv /\ [T!Next]_(T!vars) => TimelineInv'
  BY TimelineStep
<1>3. TimelineInv => ImagesAreReal
  BY ImagesRead DEF TimelineInv, ImagesAreReal
<1> QED
  BY <1>1, <1>2, <1>3, PTL DEF T!Spec

----------------------------------------------------------------------------
(* WorkerTimeline: the sweep over the sorted points                         *)

\* Point k of the sequence comes before point i.
Earlier(P, k, i) == T!Before(P[k], P[i]) \/ (P[k] = P[i] /\ k < i)

\* The order of the points is total.
LEMMA EarlierOrder ==
    ASSUME NEW P \in Seq(Delta)
    PROVE  /\ \A i \in DOMAIN P : ~Earlier(P, i, i)
           /\ \A i, k \in DOMAIN P : i # k => Earlier(P, i, k) \/ Earlier(P, k, i)
           /\ \A i, k, l \in DOMAIN P : Earlier(P, i, k) /\ Earlier(P, k, l) => Earlier(P, i, l)
<1>1. \A i \in DOMAIN P : /\ i \in Int
                          /\ P[i][1] \in Int /\ P[i][2] \in Int /\ P[i] = <<P[i][1], P[i][2]>>
  BY DEF Delta
<1>2. \A i, k \in DOMAIN P : P[i] = P[k] <=> (P[i][1] = P[k][1] /\ P[i][2] = P[k][2])
  BY <1>1
<1>3. \A i, k \in DOMAIN P : Earlier(P, i, k) <=>
        \/ P[i][1] < P[k][1]
        \/ P[i][1] = P[k][1] /\ P[i][2] < P[k][2]
        \/ P[i][1] = P[k][1] /\ P[i][2] = P[k][2] /\ i < k
  BY <1>2 DEF Earlier, T!Before
<1> DEFINE Lower(a, b, c, d, i, k) ==
             a < c \/ (a = c /\ b < d) \/ (a = c /\ b = d /\ i < k)
<1>5. \A i, k \in DOMAIN P :
        Earlier(P, i, k) <=> Lower(P[i][1], P[i][2], P[k][1], P[k][2], i, k)
  BY <1>3
<1> HIDE DEF Lower
<1> HIDE DEF Earlier
<1>6. ASSUME NEW i \in DOMAIN P PROVE ~Earlier(P, i, i)
  <2>1. i \in Int /\ P[i][1] \in Int /\ P[i][2] \in Int
    BY <1>1
  <2>2. ~Lower(P[i][1], P[i][2], P[i][1], P[i][2], i, i)
    BY <2>1 DEF Lower
  <2> QED
    BY <1>5, <2>2
<1>7. ASSUME NEW i \in DOMAIN P, NEW k \in DOMAIN P, i # k
      PROVE  Earlier(P, i, k) \/ Earlier(P, k, i)
  <2>1. /\ i \in Int /\ P[i][1] \in Int /\ P[i][2] \in Int
        /\ k \in Int /\ P[k][1] \in Int /\ P[k][2] \in Int
    BY <1>1
  <2>2. \/ Lower(P[i][1], P[i][2], P[k][1], P[k][2], i, k)
        \/ Lower(P[k][1], P[k][2], P[i][1], P[i][2], k, i)
    BY <1>7, <2>1 DEF Lower
  <2>3. /\ Earlier(P, i, k) <=> Lower(P[i][1], P[i][2], P[k][1], P[k][2], i, k)
        /\ Earlier(P, k, i) <=> Lower(P[k][1], P[k][2], P[i][1], P[i][2], k, i)
    BY <1>5
  <2> QED
    BY <2>2, <2>3
<1>8. ASSUME NEW i \in DOMAIN P, NEW k \in DOMAIN P, NEW l \in DOMAIN P,
             Earlier(P, i, k), Earlier(P, k, l)
      PROVE  Earlier(P, i, l)
  <2>1. /\ i \in Int /\ P[i][1] \in Int /\ P[i][2] \in Int
        /\ k \in Int /\ P[k][1] \in Int /\ P[k][2] \in Int
        /\ l \in Int /\ P[l][1] \in Int /\ P[l][2] \in Int
    BY <1>1
  <2>2. /\ Lower(P[i][1], P[i][2], P[k][1], P[k][2], i, k)
        /\ Lower(P[k][1], P[k][2], P[l][1], P[l][2], k, l)
    BY <1>5, <1>8
  <2>3. Lower(P[i][1], P[i][2], P[l][1], P[l][2], i, l)
    BY <2>1, <2>2 DEF Lower
  <2>4. Earlier(P, i, l) <=> Lower(P[i][1], P[i][2], P[l][1], P[l][2], i, l)
    BY <1>5
  <2> QED
    BY <2>3, <2>4
<1> QED
  BY <1>6, <1>7, <1>8

\* The ranks of the points are the numbers below their number, in their order.
LEMMA RankFacts ==
    ASSUME NEW P \in Seq(Delta)
    PROVE  /\ \A i \in DOMAIN P : T!Rank(P, i) \in 0..(Len(P) - 1)
           /\ \A i, k \in DOMAIN P : Earlier(P, k, i) <=> T!Rank(P, k) < T!Rank(P, i)
           /\ \A i, k \in DOMAIN P : T!Rank(P, i) = T!Rank(P, k) => i = k
           /\ \A r \in 0..(Len(P) - 1) : \E i \in DOMAIN P : T!Rank(P, i) = r
<1> DEFINE n == Len(P)
           D == DOMAIN P
           Prec(i) == {k \in D : Earlier(P, k, i)}
<1>0. n \in Nat /\ D = 1..n
  OBVIOUS
<1>1. /\ IsFiniteSet(D) /\ Cardinality(D) = n
      /\ IsFiniteSet(0..(n - 1)) /\ Cardinality(0..(n - 1)) = n
  <2>1. 1 \in Int /\ n \in Int /\ 0 \in Int /\ n - 1 \in Int
    BY <1>0
  <2>2. /\ IsFiniteSet(1..n) /\ Cardinality(1..n) = IF 1 > n THEN 0 ELSE n - 1 + 1
        /\ IsFiniteSet(0..(n - 1))
        /\ Cardinality(0..(n - 1)) = IF 0 > n - 1 THEN 0 ELSE n - 1 - 0 + 1
    BY <2>1, FS_Interval
  <2> QED
    BY <1>0, <2>2
<1>2. \A i \in D : T!Rank(P, i) = Cardinality(Prec(i))
  BY SameCount DEF T!Rank, Earlier
<1> HIDE DEF n, D
<1>3. ASSUME NEW i \in D PROVE IsFiniteSet(Prec(i)) /\ Cardinality(Prec(i)) \in 0..(n - 1)
  <2>1. Prec(i) \subseteq D \ {i}
    BY EarlierOrder DEF D
  <2>2. IsFiniteSet(D \ {i}) /\ Cardinality(D \ {i}) = n - 1
    BY <1>1, FS_RemoveElement
  <2> HIDE DEF Prec
  <2>3. IsFiniteSet(Prec(i)) /\ Cardinality(Prec(i)) <= n - 1
    BY <2>1, <2>2, FS_Subset
  <2> QED
    BY <1>0, <2>3, FS_CardinalityType
<1>4. ASSUME NEW i \in D, NEW k \in D, Earlier(P, k, i)
      PROVE  Cardinality(Prec(k)) < Cardinality(Prec(i))
  <2>1. Prec(k) \subseteq Prec(i) /\ k \in Prec(i) /\ k \notin Prec(k)
    BY <1>4, EarlierOrder DEF D
  <2> HIDE DEF Prec
  <2>4. IsFiniteSet(Prec(i)) /\ Prec(k) # Prec(i)
    BY <1>3, <2>1
  <2>2. Cardinality(Prec(k)) <= Cardinality(Prec(i)) /\ Cardinality(Prec(k)) # Cardinality(Prec(i))
    BY <2>1, <2>4, FS_Subset
  <2>3. Cardinality(Prec(k)) \in Int /\ Cardinality(Prec(i)) \in Int
    BY <1>3
  <2> QED
    BY <2>2, <2>3
<1> DEFINE before(i) == Cardinality(Prec(i))
<1>5. \A i \in D : before(i) \in 0..(n - 1) /\ T!Rank(P, i) = before(i)
  BY <1>2, <1>3
<1>6. \A i, k \in D : Earlier(P, k, i) => before(k) < before(i)
  BY <1>4
<1> HIDE DEF before
<1>7. \A i, k \in D : i # k => before(i) # before(k)
  <2> TAKE i, k \in D
  <2> HAVE i # k
  <2>1. Earlier(P, i, k) \/ Earlier(P, k, i)
    BY EarlierOrder DEF D
  <2>2. before(i) < before(k) \/ before(k) < before(i)
    BY <1>6, <2>1
  <2>3. before(i) \in Int /\ before(k) \in Int
    BY <1>5
  <2> QED
    BY <2>2, <2>3
<1>8. \A i, k \in D : before(k) < before(i) => Earlier(P, k, i)
  <2> TAKE i, k \in D
  <2> HAVE before(k) < before(i)
  <2>1. ~(before(i) < before(k)) /\ i # k
    BY <1>0, <1>5
  <2>2. Earlier(P, i, k) \/ Earlier(P, k, i)
    BY <2>1, EarlierOrder DEF D
  <2>3. Earlier(P, i, k) => before(i) < before(k)
    BY <1>6
  <2> QED
    BY <2>1, <2>2, <2>3
<1>9. ASSUME NEW r \in 0..(n - 1) PROVE \E i \in D : before(i) = r
  <2> DEFINE f == [i \in D |-> before(i)]
  <2>1. f \in Injection(D, 0..(n - 1))
    BY <1>5, <1>7 DEF Injection, IsInjective
  <2>2. f \in Surjection(D, 0..(n - 1))
    <3> HIDE DEF f
    <3> QED
      BY <1>1, <2>1, FS_Injection
  <2> QED
    BY <2>2 DEF Surjection
<1> QED
  BY <1>5, <1>6, <1>7, <1>8, <1>9 DEF n, D

\* The sorted sequence has at position k the point of rank k - 1.
LEMMA SortedFacts ==
    ASSUME NEW P \in Seq(Delta)
    PROVE  /\ T!Sorted(P) \in Seq(Delta) /\ Len(T!Sorted(P)) = Len(P)
           /\ \A k \in 1..Len(P) : \E i \in DOMAIN P :
                T!Rank(P, i) = k - 1 /\ T!Sorted(P)[k] = P[i]
<1> DEFINE n == Len(P)
           at(k) == CHOOSE i \in DOMAIN P : T!Rank(P, i) = k - 1
<1>0. n \in Nat /\ DOMAIN P = 1..n /\ \A i \in 1..n : P[i] \in Delta
  OBVIOUS
<1>1. T!Sorted(P) = [k \in 1..n |-> P[at(k)]]
  BY <1>0 DEF T!Sorted
<1>2. ASSUME NEW k \in 1..n PROVE at(k) \in DOMAIN P /\ T!Rank(P, at(k)) = k - 1
  <2>1. k - 1 \in 0..(n - 1)
    BY <1>0
  <2>2. \E i \in DOMAIN P : T!Rank(P, i) = k - 1
    BY <2>1, RankFacts
  <2> QED
    BY <2>2
<1> HIDE DEF at
<1>3. \A k \in 1..n : T!Sorted(P)[k] = P[at(k)] /\ P[at(k)] \in Delta
  BY <1>0, <1>1, <1>2
<1>4. T!Sorted(P) \in [1..n -> Delta]
  BY <1>1, <1>3
<1>5. T!Sorted(P) \in Seq(Delta) /\ Len(T!Sorted(P)) = n
  <2>1. T!Sorted(P) \in Seq(Delta)
    BY <1>0, <1>4, SeqDef
  <2> QED
    BY <1>0, <1>4, <2>1, LenProperties
<1> QED
  BY <1>2, <1>3, <1>5

\* The points of m intervals: their beginnings, then their ends.
LEMMA PointsFacts ==
    ASSUME NEW ivs \in Seq(Interval)
    PROVE  /\ T!Points(ivs) \in Seq(Delta) /\ Len(T!Points(ivs)) = Len(ivs) + Len(ivs)
           /\ \A i \in 1..Len(ivs) : /\ T!Points(ivs)[i] = <<ivs[i][1], 1>>
                                     /\ T!Points(ivs)[Len(ivs) + i] = <<ivs[i][2], -1>>
<1> DEFINE m == Len(ivs)
           s == [i \in DOMAIN ivs |-> <<ivs[i][1], 1>>]
           e == [i \in DOMAIN ivs |-> <<ivs[i][2], -1>>]
<1>0. m \in Nat /\ DOMAIN ivs = 1..m /\ \A i \in 1..m : ivs[i] \in Interval
  OBVIOUS
<1>1. \A i \in 1..m : ivs[i][1] \in Int /\ ivs[i][2] \in Int
  <2>1. \A iv \in Interval : iv[1] \in 0..MaxClock /\ iv[2] \in 0..MaxClock
    BY DEF Interval
  <2> QED
    BY <1>0, <2>1, TimelineConstants
<1>2. \A i \in 1..m : <<ivs[i][1], 1>> \in Delta /\ <<ivs[i][2], -1>> \in Delta
  BY <1>1 DEF Delta
<1>3. s \in [1..m -> Delta] /\ e \in [1..m -> Delta]
  BY <1>0, <1>2
<1>4. /\ s \in Seq(Delta) /\ Len(s) = m /\ e \in Seq(Delta) /\ Len(e) = m
      /\ \A i \in 1..m : s[i] = <<ivs[i][1], 1>> /\ e[i] = <<ivs[i][2], -1>>
  <2>1. \A i \in 1..m : s[i] = <<ivs[i][1], 1>> /\ e[i] = <<ivs[i][2], -1>>
    BY <1>0
  <2> HIDE DEF s, e, m
  <2>2. s \in Seq(Delta) /\ e \in Seq(Delta)
    BY <1>0, <1>3, SeqDef
  <2>3. Len(s) = m /\ Len(e) = m
    BY <1>0, <1>3, <2>2, LenProperties
  <2> QED
    BY <2>1, <2>2, <2>3
<1>5. T!Points(ivs) = s \o e
  BY DEF T!Points
<1> HIDE DEF s, e, m
<1>6. /\ s \o e \in Seq(Delta) /\ Len(s \o e) = m + m
      /\ \A i \in 1..m : (s \o e)[i] = s[i] /\ (s \o e)[m + i] = e[i]
  <2>1. /\ s \o e \in Seq(Delta) /\ Len(s \o e) = m + m
        /\ \A k \in 1..(m + m) : (s \o e)[k] = IF k <= m THEN s[k] ELSE e[k - m]
    <3>1. s \in Seq(Delta) /\ e \in Seq(Delta) /\ Len(s) = m /\ Len(e) = m
      BY <1>4
    <3>2. /\ s \o e \in Seq(Delta) /\ Len(s \o e) = Len(s) + Len(e)
          /\ \A k \in 1..(Len(s) + Len(e)) :
               (s \o e)[k] = IF k <= Len(s) THEN s[k] ELSE e[k - Len(s)]
      BY <3>1, ConcatProperties
    <3> QED
      BY <3>1, <3>2
  <2>2. ASSUME NEW i \in 1..m, NEW k, k = m + i
        PROVE  (s \o e)[i] = s[i] /\ (s \o e)[k] = e[i]
    <3>1. /\ i \in 1..(m + m) /\ i <= m
          /\ k \in 1..(m + m) /\ ~(k <= m) /\ k - m = i
      BY <1>0, <2>2
    <3> QED
      BY <2>1, <3>1
  <2> QED
    BY <2>1, <2>2
<1> QED
  BY <1>4, <1>5, <1>6 DEF m

\* The intervals that are open at time t, and that there are never more than N.
Open(ivs, t) == {i \in 1..Len(ivs) : ivs[i][1] <= t /\ ~(ivs[i][2] <= t)}
NeverMore(ivs, N) == \A t \in Nat : Cardinality(Open(ivs, t)) <= N

\* The intervals whose beginning, and whose end, is among the first k points.
BegunBy(ivs, k) == {i \in 1..Len(ivs) : T!Rank(T!Points(ivs), i) < k}
EndedBy(ivs, k) == {i \in 1..Len(ivs) : T!Rank(T!Points(ivs), Len(ivs) + i) < k}

\* The points of the intervals have the ranks of 0..(2 m - 1), each once.
LEMMA PointRanks ==
    ASSUME NEW ivs \in Seq(Interval)
    PROVE  /\ \A i \in 1..Len(ivs) : /\ i \in DOMAIN T!Points(ivs)
                                     /\ Len(ivs) + i \in DOMAIN T!Points(ivs)
                                     /\ T!Rank(T!Points(ivs), i) \in Nat
                                     /\ T!Rank(T!Points(ivs), Len(ivs) + i) \in Nat
           /\ \A i, k \in 1..Len(ivs) :
                /\ T!Rank(T!Points(ivs), i) = T!Rank(T!Points(ivs), k) => i = k
                /\ T!Rank(T!Points(ivs), Len(ivs) + i) = T!Rank(T!Points(ivs), Len(ivs) + k)
                     => i = k
                /\ T!Rank(T!Points(ivs), i) # T!Rank(T!Points(ivs), Len(ivs) + k)
<1> DEFINE m == Len(ivs)
           P == T!Points(ivs)
<1>1. P \in Seq(Delta) /\ Len(P) = m + m /\ m \in Nat
  BY PointsFacts
<1> HIDE DEF m, P
<1>2. DOMAIN P = 1..(m + m)
  <2>1. P \in Seq(Delta)
    BY <1>1
  <2>2. DOMAIN P = 1..Len(P)
    BY <2>1, LenProperties
  <2> QED
    BY <1>1, <2>2
<1>3. /\ \A i \in DOMAIN P : T!Rank(P, i) \in 0..(m + m - 1)
      /\ \A i, k \in DOMAIN P : T!Rank(P, i) = T!Rank(P, k) => i = k
  <2>1. P \in Seq(Delta) /\ Len(P) = m + m
    BY <1>1
  <2>2. /\ \A i \in DOMAIN P : T!Rank(P, i) \in 0..(Len(P) - 1)
        /\ \A i, k \in DOMAIN P : T!Rank(P, i) = T!Rank(P, k) => i = k
    BY <2>1, RankFacts
  <2>3. Len(P) - 1 = m + m - 1
    BY <1>1
  <2> QED
    BY <2>2, <2>3
<1>4. ASSUME NEW i \in 1..m
      PROVE  /\ i \in DOMAIN P /\ m + i \in DOMAIN P
             /\ T!Rank(P, i) \in Nat /\ T!Rank(P, m + i) \in Nat
  <2>1. i \in DOMAIN P /\ m + i \in DOMAIN P
    BY <1>1, <1>2
  <2> QED
    BY <1>1, <1>3, <2>1
<1>5. ASSUME NEW i \in 1..m, NEW k \in 1..m
      PROVE  /\ T!Rank(P, i) = T!Rank(P, k) => i = k
             /\ T!Rank(P, m + i) = T!Rank(P, m + k) => i = k
             /\ T!Rank(P, i) # T!Rank(P, m + k)
  <2>1. /\ i \in DOMAIN P /\ k \in DOMAIN P /\ m + i \in DOMAIN P /\ m + k \in DOMAIN P
    BY <1>4
  <2>2. m + i = m + k => i = k
    BY <1>1
  <2>3. i # m + k
    BY <1>1
  <2> QED
    BY <1>3, <2>1, <2>2, <2>3
<1> QED
  BY <1>4, <1>5 DEF m, P

\* Where an interval begins, those begun and not ended are open: what ends at
\* the same time comes before it.
LEMMA OpenAtStart ==
    ASSUME NEW ivs \in Seq(Interval), NEW i \in 1..Len(ivs),
           NEW k, k = T!Rank(T!Points(ivs), i) + 1
    PROVE  BegunBy(ivs, k) \ EndedBy(ivs, k) \subseteq Open(ivs, ivs[i][1])
<1> DEFINE m == Len(ivs)
           P == T!Points(ivs)
<1>1. /\ P \in Seq(Delta) /\ m \in Nat
      /\ \A x \in 1..m : P[x] = <<ivs[x][1], 1>> /\ P[m + x] = <<ivs[x][2], -1>>
  BY PointsFacts
<1>2. /\ \A x \in 1..m : x \in DOMAIN P /\ m + x \in DOMAIN P
      /\ \A x \in 1..m : T!Rank(P, x) \in Nat /\ T!Rank(P, m + x) \in Nat
  BY PointRanks
<1>3. \A x \in 1..m : ivs[x][1] \in Int /\ ivs[x][2] \in Int
  <2>1. \A iv \in Interval : iv[1] \in 0..MaxClock /\ iv[2] \in 0..MaxClock
    BY DEF Interval
  <2> QED
    BY <2>1, TimelineConstants
<1> SUFFICES ASSUME NEW x \in 1..m, T!Rank(P, x) < k, ~(T!Rank(P, m + x) < k)
             PROVE  ivs[x][1] <= ivs[i][1] /\ ~(ivs[x][2] <= ivs[i][1])
  BY DEF BegunBy, EndedBy, Open
<1> HIDE DEF P
<1>4. i \in 1..m
  OBVIOUS
<1>5. k = T!Rank(P, i) + 1
  BY DEF P
<1> HIDE DEF m
<1>6. ~Earlier(P, i, x)
  <2>1. ~(T!Rank(P, i) < T!Rank(P, x))
    BY <1>2, <1>4, <1>5
  <2> QED
    BY <1>1, <1>2, <1>4, <2>1, RankFacts
<1>7. ~Earlier(P, m + x, i)
  <2>1. ~(T!Rank(P, m + x) < T!Rank(P, i))
    BY <1>2, <1>4, <1>5
  <2> QED
    BY <1>1, <1>2, <1>4, <2>1, RankFacts
<1>8. P[i] = <<ivs[i][1], 1>> /\ P[x] = <<ivs[x][1], 1>> /\ P[m + x] = <<ivs[x][2], -1>>
  BY <1>1, <1>4
<1>9. ~(ivs[i][1] < ivs[x][1])
  BY <1>6, <1>8 DEF Earlier, T!Before
<1>10. ~(ivs[x][2] < ivs[i][1]) /\ ivs[x][2] # ivs[i][1]
  BY <1>7, <1>8 DEF Earlier, T!Before
<1> QED
  BY <1>3, <1>4, <1>9, <1>10

\* What is left of a finite set without the elements of another.
LEMMA CountDifference ==
    ASSUME NEW S, NEW E, IsFiniteSet(S), IsFiniteSet(E)
    PROVE  Cardinality(S) - Cardinality(E) <= Cardinality(S \ E)
<1>1. IsFiniteSet(S \ E)
  BY FS_Subset
<1>2. /\ IsFiniteSet((S \ E) \cup E)
      /\ Cardinality((S \ E) \cup E)
           = Cardinality(S \ E) + Cardinality(E) - Cardinality((S \ E) \cap E)
  BY <1>1, FS_Union
<1>3. Cardinality(S) <= Cardinality((S \ E) \cup E)
  <2>1. S \subseteq (S \ E) \cup E
    OBVIOUS
  <2> QED
    BY <1>2, <2>1, FS_Subset
<1>4. (S \ E) \cap E = {}
  OBVIOUS
<1>5. Cardinality((S \ E) \cap E) = 0
  BY <1>4, FS_EmptySet
<1>6. /\ Cardinality(S) \in Nat /\ Cardinality(E) \in Nat /\ Cardinality(S \ E) \in Nat
  BY <1>1, FS_CardinalityType
<1> QED
  BY <1>2, <1>3, <1>5, <1>6

\* The intervals counted up to one more point: the point of rank k - 1.
LEMMA CountPoint ==
    ASSUME NEW ivs \in Seq(Interval), NEW k \in Nat \ {0}, NEW q \in DOMAIN T!Points(ivs),
           T!Rank(T!Points(ivs), q) = k - 1
    PROVE  LET was == Cardinality(BegunBy(ivs, k - 1)) - Cardinality(EndedBy(ivs, k - 1))
               now == Cardinality(BegunBy(ivs, k)) - Cardinality(EndedBy(ivs, k))
           IN  /\ was \in Int /\ now = was + T!Points(ivs)[q][2]
               /\ T!Points(ivs)[q][2] = -1 \/
                  \E t \in Nat : T!Points(ivs)[q][2] = 1 /\ now <= Cardinality(Open(ivs, t))
<1> DEFINE m == Len(ivs)
           P == T!Points(ivs)
<1>1. /\ P \in Seq(Delta) /\ Len(P) = m + m /\ m \in Nat /\ DOMAIN P = 1..(m + m)
      /\ \A x \in 1..m : P[x] = <<ivs[x][1], 1>> /\ P[m + x] = <<ivs[x][2], -1>>
  BY PointsFacts, LenProperties
<1>2. /\ \A x \in 1..m : T!Rank(P, x) \in Nat /\ T!Rank(P, m + x) \in Nat
      /\ \A x, y \in 1..m : /\ T!Rank(P, x) = T!Rank(P, y) => x = y
                            /\ T!Rank(P, m + x) = T!Rank(P, m + y) => x = y
                            /\ T!Rank(P, x) # T!Rank(P, m + y)
  BY PointRanks
<1> DEFINE B(l) == BegunBy(ivs, l)
           E(l) == EndedBy(ivs, l)
<1>3. \A l : /\ B(l) = {x \in 1..m : T!Rank(P, x) < l}
             /\ E(l) = {x \in 1..m : T!Rank(P, m + x) < l}
  BY DEF BegunBy, EndedBy
<1>4. IsFiniteSet(1..m)
  <2>1. 1 \in Int /\ m \in Int
    BY <1>1
  <2> QED
    BY <2>1, FS_Interval
<1> HIDE DEF m, P, B, E
<1>5. \A l : /\ IsFiniteSet(B(l)) /\ IsFiniteSet(E(l))
             /\ Cardinality(B(l)) \in Nat /\ Cardinality(E(l)) \in Nat
  <2> TAKE l
  <2>1. B(l) \subseteq 1..m /\ E(l) \subseteq 1..m
    BY <1>3
  <2>2. IsFiniteSet(B(l)) /\ IsFiniteSet(E(l))
    BY <1>4, <2>1, FS_Subset
  <2> QED
    BY <2>2, FS_CardinalityType
<1> DEFINE was == Cardinality(B(k - 1)) - Cardinality(E(k - 1))
           now == Cardinality(B(k)) - Cardinality(E(k))
<1>6. ASSUME q \in 1..m
      PROVE  /\ now = was + 1 /\ P[q][2] = 1
             /\ \E t \in Nat : now <= Cardinality(Open(ivs, t))
  <2>1. T!Rank(P, q) = k - 1
    BY DEF P
  <2>2. B(k) = B(k - 1) \cup {q} /\ q \notin B(k - 1)
    <3>1. \A x \in 1..m : T!Rank(P, x) < k <=> (T!Rank(P, x) < k - 1 \/ x = q)
      BY <1>2, <1>6, <2>1
    <3>2. ~(T!Rank(P, q) < k - 1)
      BY <2>1
    <3> QED
      BY <1>3, <1>6, <3>1, <3>2
  <2>3. E(k) = E(k - 1)
    <3>1. \A x \in 1..m : T!Rank(P, m + x) < k <=> T!Rank(P, m + x) < k - 1
      BY <1>2, <1>6, <2>1
    <3> QED
      BY <1>3, <3>1
  <2>4. Cardinality(B(k)) = Cardinality(B(k - 1)) + 1
    BY <1>5, <2>2, FS_AddElement
  <2>5. now = was + 1
    BY <1>5, <2>3, <2>4
  <2>6. P[q][2] = 1
    BY <1>1, <1>6
  <2>7. B(k) \ E(k) \subseteq Open(ivs, ivs[q][1])
    <3>1. q \in 1..Len(ivs) /\ k = T!Rank(T!Points(ivs), q) + 1
      BY <1>6 DEF m
    <3> QED
      BY <3>1, OpenAtStart DEF B, E
  <2>8. now <= Cardinality(Open(ivs, ivs[q][1]))
    <3>1. Open(ivs, ivs[q][1]) \subseteq 1..m
      BY DEF Open, m
    <3>2. IsFiniteSet(Open(ivs, ivs[q][1])) /\ IsFiniteSet(B(k) \ E(k))
      BY <1>4, <1>5, <3>1, FS_Subset
    <3>3. Cardinality(B(k) \ E(k)) <= Cardinality(Open(ivs, ivs[q][1]))
      BY <2>7, <3>2, FS_Subset
    <3>4. now <= Cardinality(B(k) \ E(k))
      BY <1>5, CountDifference
    <3>5. /\ Cardinality(Open(ivs, ivs[q][1])) \in Nat /\ Cardinality(B(k) \ E(k)) \in Nat
          /\ now \in Int
      BY <1>5, <3>2, FS_CardinalityType
    <3> HIDE DEF now
    <3> QED
      BY <3>3, <3>4, <3>5
  <2>9. ivs[q][1] \in Nat
    <3>1. \A iv \in Interval : iv[1] \in 0..MaxClock
      BY DEF Interval
    <3> QED
      BY <1>6, <3>1, TimelineConstants DEF m
  <2> QED
    BY <2>5, <2>6, <2>8, <2>9
<1>7. ASSUME NEW y \in 1..m, q = m + y
      PROVE  now = was - 1 /\ P[q][2] = -1
  <2>1. T!Rank(P, m + y) = k - 1
    BY <1>7 DEF P
  <2>2. E(k) = E(k - 1) \cup {y} /\ y \notin E(k - 1)
    <3>1. \A x \in 1..m : T!Rank(P, m + x) < k <=> (T!Rank(P, m + x) < k - 1 \/ x = y)
      BY <1>2, <2>1
    <3>2. ~(T!Rank(P, m + y) < k - 1)
      BY <2>1
    <3> QED
      BY <1>3, <3>1, <3>2
  <2>3. B(k) = B(k - 1)
    <3>1. \A x \in 1..m : T!Rank(P, x) < k <=> T!Rank(P, x) < k - 1
      BY <1>2, <2>1
    <3> QED
      BY <1>3, <3>1
  <2>4. Cardinality(E(k)) = Cardinality(E(k - 1)) + 1
    BY <1>5, <2>2, FS_AddElement
  <2>5. now = was - 1
    BY <1>5, <2>3, <2>4
  <2>6. P[q] = <<ivs[y][2], -1>>
    BY <1>1, <1>7
  <2> QED
    BY <2>5, <2>6
<1>8. q \in 1..m \/ \E y \in 1..m : q = m + y
  <2>1. q \in 1..(m + m)
    BY <1>1 DEF P
  <2>2. CASE q <= m
    BY <1>1, <2>1, <2>2
  <2>3. CASE ~(q <= m)
    <3>1. q - m \in 1..m /\ q = m + (q - m)
      BY <1>1, <2>1, <2>3
    <3> QED
      BY <3>1
  <2> QED
    BY <2>2, <2>3
<1>9. was \in Int
  BY <1>5
<1>10. /\ was \in Int /\ now = was + P[q][2]
       /\ P[q][2] = -1 \/ \E t \in Nat : P[q][2] = 1 /\ now <= Cardinality(Open(ivs, t))
  <2> HIDE DEF was, now
  <2>1. CASE q \in 1..m
    BY <1>6, <1>9, <2>1
  <2>2. CASE \E y \in 1..m : q = m + y
    <3>1. now = was - 1 /\ P[q][2] = -1
      BY <1>7, <2>2
    <3> QED
      BY <1>9, <3>1
  <2> QED
    BY <1>8, <2>1, <2>2
<1> QED
  BY <1>10 DEF was, now, B, E, P

\* The sweep over the sorted points finds no more than were ever open at once.
LEMMA SweepBound ==
    ASSUME NEW ivs \in Seq(Interval), NEW N \in Nat, NeverMore(ivs, N)
    PROVE  T!MaxActive(ivs) <= N
<1> DEFINE P == T!Points(ivs)
           Q == T!Sorted(P)
           n == Len(P)
           active(k) == Cardinality(BegunBy(ivs, k)) - Cardinality(EndedBy(ivs, k))
<1>1. P \in Seq(Delta) /\ n \in Nat
  BY PointsFacts
<1> HIDE DEF P
<1>2. /\ Q \in Seq(Delta) /\ Len(Q) = n
      /\ \A k \in 1..n : \E q \in DOMAIN P : T!Rank(P, q) = k - 1 /\ Q[k] = P[q]
  BY <1>1, SortedFacts
<1> HIDE DEF Q, n
<1>3. PICK f \in [0..n -> Sweeping] :
          /\ f[0] = [active |-> 0, max |-> 0]
          /\ \A k \in 1..n : f[k] = T!Sweep(f[k - 1], Q[k])
          /\ SweepOf(Q) = f[n]
  BY <1>2, SweepSteps
<1> DEFINE G == {k \in 0..n : f[k].active = active(k) /\ f[k].active <= N /\ f[k].max <= N}
<1>4. 0 \in G
  <2>1. BegunBy(ivs, 0) = {} /\ EndedBy(ivs, 0) = {}
    BY PointRanks DEF BegunBy, EndedBy
  <2>2. active(0) = 0
    <3>1. Cardinality({}) = 0
      BY FS_EmptySet
    <3>2. Cardinality(BegunBy(ivs, 0)) = 0 /\ Cardinality(EndedBy(ivs, 0)) = 0
      BY <2>1, <3>1
    <3> QED
      BY <3>2
  <2>3. 0 \in 0..n
    BY <1>1
  <2>4. f[0].active = 0 /\ f[0].max = 0
    BY <1>3
  <2> HIDE DEF active
  <2> QED
    BY <2>2, <2>3, <2>4
<1>5. ASSUME NEW k \in 1..n, k - 1 \in G PROVE k \in G
  <2> DEFINE a == f[k - 1]
             b == f[k]
  <2>1. /\ k \in 0..n /\ k \in Nat \ {0} /\ k - 1 \in 0..n
        /\ a \in Sweeping /\ b \in Sweeping
    BY <1>1, <1>3
  <2>2. a.active = active(k - 1) /\ a.active <= N /\ a.max <= N
    BY <1>5
  <2>3. PICK q \in DOMAIN P : T!Rank(P, q) = k - 1 /\ Q[k] = P[q]
    BY <1>2
  <2>4. Q[k] \in Delta
    BY <1>2
  <2>5. b = T!Sweep(a, Q[k])
    BY <1>3
  <2>6. /\ active(k) = active(k - 1) + P[q][2]
        /\ P[q][2] = -1 \/
           \E t \in Nat : P[q][2] = 1 /\ active(k) <= Cardinality(Open(ivs, t))
    BY <2>1, <2>3, CountPoint DEF P
  <2> HIDE DEF a, b, active
  <2>7. b.active = a.active + Q[k][2] /\ b.max \in {a.max, a.active + Q[k][2]}
    BY <2>1, <2>4, <2>5, SweepType
  <2>8. a.active \in Int /\ b.active \in Int
    BY <2>1 DEF Sweeping
  <2>9. b.active = active(k)
    BY <2>2, <2>3, <2>6, <2>7
  <2>10. CASE P[q][2] = -1
    <3>1. b.active <= N
      BY <2>2, <2>3, <2>7, <2>8, <2>10
    <3> QED
      BY <2>1, <2>2, <2>7, <2>9, <3>1 DEF b
  <2>11. CASE \E t \in Nat : P[q][2] = 1 /\ active(k) <= Cardinality(Open(ivs, t))
    <3>1. PICK t \in Nat : active(k) <= Cardinality(Open(ivs, t))
      BY <2>11
    <3>2. Cardinality(Open(ivs, t)) <= N
      BY DEF NeverMore
    <3>3. Cardinality(Open(ivs, t)) \in Nat
      <4>1. 1 \in Int /\ Len(ivs) \in Int
        OBVIOUS
      <4>2. IsFiniteSet(1..Len(ivs)) /\ Open(ivs, t) \subseteq 1..Len(ivs)
        BY <4>1, FS_Interval DEF Open
      <4> QED
        BY <4>2, FS_Subset, FS_CardinalityType
    <3>4. b.active <= N
      BY <2>8, <2>9, <3>1, <3>2, <3>3
    <3> QED
      BY <2>1, <2>2, <2>7, <2>9, <3>4 DEF b
  <2> QED
    BY <2>6, <2>10, <2>11
<1> HIDE DEF G
<1>6. \A k \in 0..n : k \in G
  BY <1>1, <1>4, <1>5, Positions
<1>7. f[n].max <= N
  <2>1. n \in 0..n
    BY <1>1
  <2> QED
    BY <1>6, <2>1 DEF G
<1>8. T!MaxActive(ivs) = SweepOf(Q).max
  BY DEF T!MaxActive, SweepOf, Q, P
<1> QED
  BY <1>3, <1>7, <1>8

----------------------------------------------------------------------------
(* WorkerTimeline: where the intervals come from                            *)

\* The beginnings seen so far are told by messages of job j among S.
StartsTold(S, j, starts) ==
    \A key \in DOMAIN starts : \E p \in S :
      /\ p.status = "processing" /\ p.job = j
      /\ <<p.worker, p.lid>> = key /\ p.at = starts[key]

\* Interval iv is told by the end d, and by the beginning unless that was not seen.
Tells(S, iv, d) ==
    /\ d \in S /\ d.status = "done" /\ iv[2] = d.at /\ iv[3] = d.worker
    /\ \/ iv[1] = d.at
       \/ \E p \in S : /\ p.status = "processing" /\ p.worker = d.worker
                       /\ TaskOf(p) = TaskOf(d) /\ p.at = iv[1]

\* Each interval is told by an end among S, and each end tells one.
IntervalsTold(S, ivs) ==
    \E src \in [DOMAIN ivs -> S] :
      /\ \A i, k \in DOMAIN ivs : src[i] = src[k] => i = k
      /\ \A i \in DOMAIN ivs : Tells(S, ivs[i], src[i])

LEMMA ToldAmongMore ==
    ASSUME NEW S, NEW U, S \subseteq U, NEW ivs, IntervalsTold(S, ivs)
    PROVE  IntervalsTold(U, ivs)
<1>1. PICK src \in [DOMAIN ivs -> S] :
          /\ \A i, k \in DOMAIN ivs : src[i] = src[k] => i = k
          /\ \A i \in DOMAIN ivs : Tells(S, ivs[i], src[i])
  BY DEF IntervalsTold
<1>2. src \in [DOMAIN ivs -> U]
  OBVIOUS
<1>3. \A i \in DOMAIN ivs : Tells(U, ivs[i], src[i])
  BY <1>1 DEF Tells
<1> QED
  BY <1>1, <1>2, <1>3 DEF IntervalsTold

\* One more end tells one more interval.
LEMMA ToldOneMore ==
    ASSUME NEW S, NEW d, d \notin S, NEW ivs \in Seq(Interval), NEW iv \in Interval,
           IntervalsTold(S, ivs), Tells(S \cup {d}, iv, d)
    PROVE  IntervalsTold(S \cup {d}, Append(ivs, iv))
<1> DEFINE U == S \cup {d}
           new == Append(ivs, iv)
<1>1. PICK src \in [DOMAIN ivs -> S] :
          /\ \A i, k \in DOMAIN ivs : src[i] = src[k] => i = k
          /\ \A i \in DOMAIN ivs : Tells(S, ivs[i], src[i])
  BY DEF IntervalsTold
<1>2. /\ DOMAIN new = DOMAIN ivs \cup {Len(ivs) + 1} /\ Len(ivs) + 1 \notin DOMAIN ivs
      /\ \A i \in DOMAIN ivs : new[i] = ivs[i]
      /\ new[Len(ivs) + 1] = iv
  OBVIOUS
<1> DEFINE h == [i \in DOMAIN new |-> IF i \in DOMAIN ivs THEN src[i] ELSE d]
<1> HIDE DEF new
<1>3. h \in [DOMAIN new -> U]
  BY <1>2
<1>4. ASSUME NEW i \in DOMAIN new, NEW k \in DOMAIN new, h[i] = h[k] PROVE i = k
  BY <1>1, <1>2, <1>4
<1>5. ASSUME NEW i \in DOMAIN new PROVE Tells(U, new[i], h[i])
  <2>1. CASE i \in DOMAIN ivs
    <3>1. Tells(S, ivs[i], src[i])
      BY <1>1, <2>1
    <3>2. Tells(U, ivs[i], src[i])
      BY <3>1 DEF Tells
    <3> QED
      BY <1>2, <2>1, <3>2
  <2>2. CASE i \notin DOMAIN ivs
    <3>1. i = Len(ivs) + 1 /\ h[i] = d
      BY <1>2, <2>2
    <3> HIDE DEF h
    <3> QED
      BY <1>2, <3>1
  <2> QED
    BY <2>1, <2>2
<1> HIDE DEF h, U
<1>6. IntervalsTold(U, new)
  BY <1>3, <1>4, <1>5 DEF IntervalsTold
<1> QED
  BY <1>6 DEF U, new

LEMMA ReadProgressTold ==
    ASSUME NEW acc \in Summary, NEW p \in T!Progress, NEW S, S \subseteq T!Progress, p \notin S,
           IntervalsTold(S, acc.intervals), StartsTold(S, p.job, acc.starts)
    PROVE  /\ IntervalsTold(S \cup {p}, T!ReadProgress(acc, p).intervals)
           /\ StartsTold(S \cup {p}, p.job, T!ReadProgress(acc, p).starts)
<1> DEFINE key == <<p.worker, p.lid>>
           start == IF key \in DOMAIN acc.starts THEN acc.starts[key] ELSE p.at
           U == S \cup {p}
           iv == <<start, p.at, p.worker>>
<1>1. T!ReadProgress(acc, p) =
        IF p.status = "processing"
        THEN [acc EXCEPT !.starts = T!Put(acc.starts, key, p.at)]
        ELSE [acc EXCEPT !.images = acc.images \cup {key},
                         !.intervals = Append(acc.intervals, iv)]
  BY DEF T!ReadProgress, key, start, Summary
<1>2. acc.intervals \in Seq(Interval) /\ acc.starts \in Starts
  BY DEF Summary
<1>3. StartsTold(U, p.job, acc.starts) /\ IntervalsTold(U, acc.intervals)
  BY ToldAmongMore DEF StartsTold
<1>4. CASE p.status = "processing"
  <2> DEFINE new == T!Put(acc.starts, key, p.at)
  <2>1. /\ DOMAIN new = DOMAIN acc.starts \cup {key} /\ new[key] = p.at
        /\ \A x \in DOMAIN acc.starts : x # key => new[x] = acc.starts[x]
    BY DEF T!Put
  <2> HIDE DEF new, key
  <2>2. ASSUME NEW x \in DOMAIN new
        PROVE  \E q \in U : /\ q.status = "processing" /\ q.job = p.job
                            /\ <<q.worker, q.lid>> = x /\ q.at = new[x]
    <3>1. CASE x = key
      BY <1>4, <2>1, <3>1 DEF key
    <3>2. CASE x # key
      <4>1. x \in DOMAIN acc.starts /\ new[x] = acc.starts[x]
        BY <2>1, <3>2
      <4> QED
        BY <1>3, <4>1 DEF StartsTold
    <3> QED
      BY <3>1, <3>2
  <2>3. StartsTold(U, p.job, new)
    BY <2>2 DEF StartsTold
  <2>4. /\ T!ReadProgress(acc, p).starts = new
        /\ T!ReadProgress(acc, p).intervals = acc.intervals
    BY <1>1, <1>4 DEF new, Summary
  <2> QED
    BY <1>3, <2>3, <2>4
<1>5. CASE p.status # "processing"
  <2>1. p.status = "done"
    BY <1>5 DEF T!Progress
  <2>2. /\ T!ReadProgress(acc, p).starts = acc.starts
        /\ T!ReadProgress(acc, p).intervals = Append(acc.intervals, iv)
    BY <1>1, <1>5 DEF Summary
  <2>3. Tells(U, iv, p)
    <3>1. CASE key \in DOMAIN acc.starts
      <4>1. PICK q \in U : /\ q.status = "processing" /\ q.job = p.job
                           /\ <<q.worker, q.lid>> = key /\ q.at = acc.starts[key]
        BY <1>3, <3>1 DEF StartsTold
      <4>2. q.worker = p.worker /\ TaskOf(q) = TaskOf(p) /\ q.at = iv[1]
        BY <3>1, <4>1 DEF TaskOf
      <4> QED
        BY <2>1, <4>1, <4>2 DEF Tells
    <3>2. CASE key \notin DOMAIN acc.starts
      BY <2>1, <3>2 DEF Tells
    <3> QED
      BY <3>1, <3>2
  <2>4. iv \in Interval
    <3>1. p.at \in 0..MaxClock /\ p.worker \in Workers
      BY DEF T!Progress
    <3>2. start \in 0..MaxClock
      BY <1>2, <3>1 DEF Starts
    <3> QED
      BY <3>1, <3>2 DEF Interval
  <2> HIDE DEF iv
  <2>5. IntervalsTold(U, Append(acc.intervals, iv))
    BY <1>2, <2>3, <2>4, ToldOneMore
  <2> QED
    BY <1>3, <2>2, <2>5
<1> QED
  BY <1>4, <1>5

\* The log of one more job, in which no message is twice.
LEMMA ReadJobTold ==
    ASSUME NEW acc \in Summary, NEW log \in Seq(T!Progress), Single(log),
           NEW j, \A i \in DOMAIN log : log[i].job = j,
           NEW S, S \subseteq T!Progress, \A m \in S : m.job # j,
           IntervalsTold(S, acc.intervals)
    PROVE  IntervalsTold(S \cup Rows(log), T!ReadJob(acc, log).intervals)
<1> DEFINE n == Len(log)
           Upto(i) == {log[k] : k \in 1..i}
<1>0. n \in Nat /\ DOMAIN log = 1..n /\ \A i \in 1..n : log[i] \in T!Progress /\ log[i].job = j
  OBVIOUS
<1>1. PICK f \in [0..n -> Summary] :
          /\ f[0] = [acc EXCEPT !.starts = <<>>]
          /\ \A i \in 1..n : f[i] = T!ReadProgress(f[i - 1], log[i])
          /\ T!ReadJob(acc, log) = f[n]
  BY ReadJobSteps
<1> HIDE DEF n
<1> DEFINE Right(i) == /\ IntervalsTold(S \cup Upto(i), f[i].intervals)
                       /\ StartsTold(S \cup Upto(i), j, f[i].starts)
           G == {i \in 0..n : Right(i)}
<1>2. 0 \in G
  <2>1. S \cup Upto(0) = S
    OBVIOUS
  <2>2. f[0].intervals = acc.intervals /\ f[0].starts = <<>>
    BY <1>1 DEF Summary
  <2>3. StartsTold(S, j, <<>>)
    BY DEF StartsTold
  <2>4. 0 \in 0..n
    BY <1>0
  <2> HIDE DEF Upto
  <2> QED
    BY <2>1, <2>2, <2>3, <2>4
<1>3. ASSUME NEW i \in 1..n, i - 1 \in G PROVE i \in G
  <2> DEFINE p == log[i]
             r == f[i - 1]
             W == S \cup Upto(i - 1)
  <2>1. r \in Summary /\ i \in 0..n /\ p \in T!Progress /\ p.job = j /\ f[i] = T!ReadProgress(r, p)
    BY <1>0, <1>1
  <2>2. S \cup Upto(i) = W \cup {p}
    BY <1>0, RowsUpTo
  <2>3. W \subseteq T!Progress /\ p \notin W
    <3>1. \A k \in 1..(i - 1) : /\ log[k] \in T!Progress
                                /\ k \in DOMAIN log /\ i \in DOMAIN log /\ k # i
      BY <1>0
    <3>2. \A k \in 1..(i - 1) : log[k] # log[i]
      BY <2>1, <3>1, TimelineConstants DEF Single
    <3>3. p \notin S
      BY <2>1
    <3> QED
      BY <3>1, <3>2, <3>3
  <2>4. IntervalsTold(W, r.intervals) /\ StartsTold(W, j, r.starts)
    <3> HIDE DEF Upto
    <3> QED
      BY <1>3
  <2> HIDE DEF p, r, W
  <2>5. /\ IntervalsTold(W \cup {p}, T!ReadProgress(r, p).intervals)
        /\ StartsTold(W \cup {p}, j, T!ReadProgress(r, p).starts)
    BY <2>1, <2>3, <2>4, ReadProgressTold
  <2> HIDE DEF Upto
  <2> QED
    BY <2>1, <2>2, <2>5
<1> HIDE DEF G
<1>4. \A i \in 0..n : i \in G
  BY <1>0, <1>2, <1>3, Positions
<1>5. IntervalsTold(S \cup Upto(n), f[n].intervals)
  <2>1. n \in G
    BY <1>0, <1>4
  <2> HIDE DEF Upto
  <2> QED
    BY <2>1 DEF G
<1>6. Upto(n) = Rows(log)
  BY <1>0, RowsUpTo
<1> HIDE DEF Upto
<1> QED
  BY <1>1, <1>5, <1>6

\* All the logs that were fetched: each message read tells one interval at most.
LEMMA ReadTold ==
    ASSUME TimelineType, MessageInv, OnceInv, duplicates = 0, ~again
    PROVE  /\ T!Read.intervals \in Seq(Interval)
           /\ IntervalsTold(Fetched, T!Read.intervals)
<1> DEFINE n == Len(fetched)
           Upto(i) == UNION {Rows(fetched[k]) : k \in 1..i}
<1>0. n \in Nat /\ DOMAIN fetched = 1..n /\ \A i \in 1..n : fetched[i] \in Seq(T!Progress)
  BY DEF TimelineType
<1>1. PICK f \in [0..n -> Summary] :
          /\ f[0] = [starts |-> <<>>, images |-> {}, intervals |-> <<>>]
          /\ \A i \in 1..n : f[i] = T!ReadJob(f[i - 1], fetched[i])
          /\ T!Read = f[n]
  BY ReadSteps DEF TimelineType
<1>2. \A i \in 1..n : Single(fetched[i])
  BY <1>0 DEF OnceInv
<1>3. \A i \in 1..n : \A m \in Rows(fetched[i]) : m \in T!Progress /\ m.job = i
  <2> TAKE i \in 1..n
  <2>1. i \in T!Jobs /\ i \in DOMAIN fetched
    BY <1>0, TimelineConstants, SameCount DEF TimelineType
  <2>2. \A k \in DOMAIN fetched[i] : fetched[i][k] \in Logged(i) /\ fetched[i][k] \in T!Progress
    BY <1>0, <2>1 DEF MessageInv
  <2> QED
    BY <2>1, <2>2 DEF Rows, MessageInv
<1> HIDE DEF n
<1> DEFINE G == {i \in 0..n : IntervalsTold(Upto(i), f[i].intervals)}
<1>4. 0 \in G
  <2>1. Upto(0) = {}
    OBVIOUS
  <2>2. f[0].intervals = <<>>
    BY <1>1
  <2>3. IntervalsTold({}, <<>>)
    <3>1. <<>> \in [DOMAIN <<>> -> {}] /\ DOMAIN <<>> = {}
      OBVIOUS
    <3> QED
      BY <3>1 DEF IntervalsTold
  <2>4. 0 \in 0..n
    BY <1>0
  <2> HIDE DEF Upto
  <2> QED
    BY <2>1, <2>2, <2>3, <2>4
<1>5. ASSUME NEW i \in 1..n, i - 1 \in G PROVE i \in G
  <2> DEFINE log == fetched[i]
             S == Upto(i - 1)
  <2>1. f[i - 1] \in Summary /\ i \in 0..n /\ log \in Seq(T!Progress) /\ Single(log)
    BY <1>0, <1>1, <1>2
  <2>2. Upto(i) = S \cup Rows(log)
    <3>1. 1..i = (1..(i - 1)) \cup {i}
      BY <1>0
    <3> QED
      BY <3>1
  <2>3. S \subseteq T!Progress /\ \A m \in S : m.job # i
    <3>1. \A k \in 1..(i - 1) : k \in 1..n /\ k # i
      BY <1>0
    <3> QED
      BY <1>3, <3>1
  <2>4. \A k \in DOMAIN log : log[k].job = i
    BY <1>3 DEF Rows
  <2>5. IntervalsTold(S, f[i - 1].intervals)
    <3> HIDE DEF Upto
    <3> QED
      BY <1>5
  <2> HIDE DEF log, S
  <2>6. IntervalsTold(S \cup Rows(log), T!ReadJob(f[i - 1], log).intervals)
    BY <2>1, <2>3, <2>4, <2>5, ReadJobTold
  <2>7. f[i] = T!ReadJob(f[i - 1], log)
    BY <1>1 DEF log
  <2> HIDE DEF Upto
  <2> QED
    BY <2>1, <2>2, <2>6, <2>7
<1> HIDE DEF G
<1>6. \A i \in 0..n : i \in G
  BY <1>0, <1>4, <1>5, Positions
<1>7. IntervalsTold(Upto(n), f[n].intervals) /\ f[n] \in Summary
  <2>1. n \in G /\ n \in 0..n
    BY <1>0, <1>6
  <2> HIDE DEF Upto
  <2> QED
    BY <1>1, <2>1 DEF G
<1>8. Upto(n) = Fetched
  BY <1>0 DEF Fetched
<1> HIDE DEF Upto
<1> QED
  BY <1>1, <1>7, <1>8 DEF Summary

\* The intervals open at one time are those of different workers at work then.
LEMMA OpenWorkers ==
    ASSUME TimelineType, MessageInv, TaskInv, OrderInv, PeakInv, ~again,
           NEW ivs \in Seq(Interval), IntervalsTold(Sent, ivs)
    PROVE  NeverMore(ivs, peak)
<1> SUFFICES ASSUME NEW t \in Nat PROVE Cardinality(Open(ivs, t)) <= peak
  BY DEF NeverMore
<1>1. PICK src \in [DOMAIN ivs -> Sent] :
          /\ \A i, k \in DOMAIN ivs : src[i] = src[k] => i = k
          /\ \A i \in DOMAIN ivs : Tells(Sent, ivs[i], src[i])
  BY DEF IntervalsTold
<1>2. /\ clock \in Nat /\ peak \in Nat
      /\ \A m \in Sent : m \in T!Progress /\ m.at \in Nat /\ m.at <= clock /\ m.worker \in Workers
  BY SentProgress DEF TimelineType, MessageInv, T!Progress
<1> DEFINE O == Open(ivs, t)
<1>3. ASSUME NEW i \in O
      PROVE  /\ i \in DOMAIN ivs /\ src[i] \in Sent /\ ivs[i][3] = src[i].worker /\ t < src[i].at
             /\ \E p \in Sent : Worked(p, src[i]) /\ p.at <= t
  <2>1. i \in DOMAIN ivs /\ ivs[i][1] <= t /\ ~(ivs[i][2] <= t)
    BY DEF Open
  <2>2. Tells(Sent, ivs[i], src[i]) /\ src[i] \in Sent
    BY <1>1, <2>1
  <2>3. t < src[i].at
    BY <1>2, <2>1, <2>2 DEF Tells
  <2>4. ivs[i][1] # src[i].at
    BY <1>2, <2>1, <2>2, <2>3
  <2> QED
    BY <2>1, <2>2, <2>3, <2>4 DEF Tells, Worked
<1> DEFINE g == [i \in O |-> ivs[i][3]]
<1> HIDE DEF O
<1>4. \A i \in O : g[i] \in WorkingAt(t)
  BY <1>2, <1>3 DEF WorkingAt, Worked
<1>5. ASSUME NEW i \in O, NEW k \in O, g[i] = g[k] PROVE i = k
  <2> DEFINE d == src[i]
             e == src[k]
  <2>1. PICK p \in Sent : Worked(p, d) /\ p.at <= t
    BY <1>3
  <2>2. PICK q \in Sent : Worked(q, e) /\ q.at <= t
    BY <1>3
  <2>3. /\ d \in Sent /\ e \in Sent /\ t < d.at /\ t < e.at /\ d.worker = e.worker
        /\ i \in DOMAIN ivs /\ k \in DOMAIN ivs
    BY <1>3, <1>5
  <2> HIDE DEF d, e
  <2>4. ~(d.at <= q.at) /\ ~(e.at <= p.at)
    BY <1>2, <2>1, <2>2, <2>3
  <2>5. p = q
    BY <2>1, <2>2, <2>3, <2>4 DEF OrderInv, InOrder, Worked
  <2>6. d = e
    BY <2>1, <2>2, <2>3, <2>5 DEF TaskInv, Worked
  <2> QED
    BY <1>1, <2>3, <2>6 DEF d, e
<1>6. g \in Injection(O, WorkingAt(t))
  BY <1>4, <1>5 DEF Injection, IsInjective
<1> HIDE DEF g
<1>7. IsFiniteSet(WorkingAt(t))
  BY TimelineConstants, FS_Subset DEF WorkingAt
<1>8. /\ IsFiniteSet(O) /\ Cardinality(O) \in Nat
      /\ Cardinality(WorkingAt(t)) \in Nat /\ Cardinality(O) <= Cardinality(WorkingAt(t))
  BY <1>6, <1>7, FS_Injection, FS_CardinalityType
<1>9. CASE O = {}
  <2>1. Cardinality(O) = 0
    BY <1>9, FS_EmptySet
  <2> QED
    BY <1>2, <2>1 DEF O
<1>10. CASE O # {}
  <2>1. t \in 0..(clock - 1)
    <3>1. PICK i \in O : TRUE
      BY <1>10
    <3>2. t < src[i].at /\ src[i].at <= clock /\ src[i].at \in Nat
      BY <1>2, <1>3
    <3> QED
      BY <1>2, <3>2
  <2>2. Cardinality(WorkingAt(t)) <= peak
    BY <2>1, SameCount DEF PeakInv
  <2> QED
    BY <1>2, <1>8, <2>2 DEF O
<1> QED
  BY <1>9, <1>10

\* The overlap that is reported was there: unless a message was logged twice, or a
\* worker began one task twice, the most workers the sweep over the intervals counts
\* at once (max_concurrent_workers_observed) are no more than were at work at once,
\* for any number of workers and images, any order of the log, any messages lost, any
\* tasks that came again to other workers and any restarts.
THEOREM OverlapIsRealHolds == T!Spec => []OverlapIsReal
<1>1. T!Init => TimelineInv
  BY TimelineInit
<1>2. TimelineInv /\ [T!Next]_(T!vars) => TimelineInv'
  BY TimelineStep
<1>3. TimelineInv => OverlapIsReal
  <2> SUFFICES ASSUME TimelineInv, duplicates = 0, ~again
               PROVE  T!MaxActive(T!Read.intervals) <= peak
    BY DEF OverlapIsReal, T!OverlapIsReal
  <2>1. /\ TimelineType /\ MessageInv /\ TaskInv /\ OrderInv /\ PeakInv /\ OnceInv
        /\ peak \in Nat
    BY DEF TimelineInv, TimelineType
  <2>2. /\ T!Read.intervals \in Seq(Interval)
        /\ IntervalsTold(Fetched, T!Read.intervals)
    BY <2>1, ReadTold
  <2>3. Fetched \subseteq Sent
    <3>1. \A j \in DOMAIN fetched : j \in T!Jobs
      BY <2>1, TimelineConstants, SameCount DEF TimelineType
    <3> QED
      BY <2>1, <3>1 DEF Fetched, Rows, MessageInv, Sent
  <2>4. NeverMore(T!Read.intervals, peak)
    BY <2>1, <2>2, <2>3, ToldAmongMore, OpenWorkers
  <2> QED
    BY <2>1, <2>2, <2>4, SweepBound
<1> QED
  BY <1>1, <1>2, <1>3, PTL DEF T!Spec
=============================================================================
