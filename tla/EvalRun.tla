------------------------------- MODULE EvalRun -------------------------------
(* The multi-user protocols (src/evaluation/protocols/multi_user_project and *)
(* multi_user_project_45, run.py): the case groups in batches, in each batch *)
(* one thread per group that submits the group's project for a user of its   *)
(* own and polls the job until it is terminal or the time is up; against the *)
(* gateway's rules for a submission (src/gateway, JobService.submit), with   *)
(* requests that fail, answers that are lost and jobs that outlast the poll. *)
EXTENDS Naturals, Sequences, FiniteSets

CONSTANTS
  None,
  NumGroups,       \* The case groups, of one job each
  NumUsers,        \* The evaluation users
  MaxJobs,         \* --max-concurrent-jobs, a batch is not larger
  GatewayLimit,    \* MAX_CONCURRENT_JOBS of the gateway
  Attempts,        \* The attempts of http_json
  MaxFaults,       \* Bound: the requests and answers that fail
  MaxTimeouts      \* Bound: the polls whose time is up

Groups == 1..NumGroups

\* A job at the gateway, and a record of the protocol.
Job == [group : Groups, user : Nat, status : {"ACTIVE", "COMPLETED", "FAILED"}]
Record == [job : Nat \cup {None}, status : {"COMPLETED", "FAILED"}]

ASSUME NoneAssumption == None \notin Nat /\ None \notin Record
ASSUME SomeUsers == NumUsers \in Nat \ {0} /\ MaxJobs \in Nat /\ NumGroups \in Nat

VARIABLES
  jobs,      \* The gateway's jobs: group, user and status
  batch,     \* The groups of the batch that runs
  thread,    \* Of each group's thread: "idle", "submit", "poll" or "done"
  tries,     \* The attempts its request has had
  polled,    \* The job it polls, or None
  rows,      \* The records: [job, status], or None
  refused,   \* History: the groups whose submission the gateway refused
  faults, timeouts

vars == <<jobs, batch, thread, tries, polled, rows, refused, faults, timeouts>>

Min2(m, n) == IF m < n THEN m ELSE n

\* _job_batch_size
BatchSize == LET n == Min2(NumUsers, MaxJobs) IN IF n > 1 THEN n ELSE 1

\* The groups of the batch that begins at group g; the user of a group is the
\* one with its number in the batch.
BatchFrom(g) == g .. Min2(g + BatchSize - 1, NumGroups)
UserOf(g) == (g - 1) % BatchSize

Init ==
  /\ jobs = <<>>
  /\ batch = BatchFrom(1)
  /\ thread = [g \in Groups |-> IF g \in BatchFrom(1) THEN "submit" ELSE "idle"]
  /\ tries = [g \in Groups |-> 0]
  /\ polled = [g \in Groups |-> None]
  /\ rows = [g \in Groups |-> None]
  /\ refused = {} /\ faults = 0 /\ timeouts = 0

Active == { j \in DOMAIN jobs : jobs[j].status = "ACTIVE" }

\* JobService.submit: the project has a report, it or the user has an active
\* job, or there are too many. Each thread has a project of its own.
Conflict(g) ==
  \/ \E j \in DOMAIN jobs : jobs[j].group = g /\ jobs[j].status = "COMPLETED"
  \/ \E j \in Active : jobs[j].group = g \/ jobs[j].user = UserOf(g)
Full == Cardinality(Active) >= GatewayLimit

Fault == faults < MaxFaults /\ faults' = faults + 1

\* run_user_job returns: the record of the group.
Return(g, job, status) ==
  /\ rows' = [rows EXCEPT ![g] = [job |-> job, status |-> status]]
  /\ thread' = [thread EXCEPT ![g] = "done"]

\* run_user_job, its except clause: a record without a job.
Raise(g) == Return(g, None, "FAILED")

\* http_json: a 5xx, a 429 and a connection that fails are tried again.
TryAgain(g) ==
  /\ tries' = [tries EXCEPT ![g] = @ + 1]
  /\ IF tries[g] + 1 >= Attempts THEN Raise(g) ELSE UNCHANGED <<rows, thread>>

\* Any other 4xx raises at once.
Refuse(g) ==
  /\ refused' = refused \cup {g}
  /\ IF Conflict(g) THEN Raise(g) /\ UNCHANGED tries ELSE TryAgain(g)

(* A mutant: a refusal that names the job of the user is polled as if it   *)
(* were an acceptance.                                                     *)
MutantSubmitRefused(g) ==
  /\ thread[g] = "submit" /\ (Conflict(g) \/ Full)
  /\ \/ /\ Conflict(g)
        /\ \E j \in Active : polled' = [polled EXCEPT ![g] = j]
        /\ thread' = [thread EXCEPT ![g] = "poll"]
        /\ refused' = refused \cup {g}
        /\ UNCHANGED <<tries, rows>>
     \/ ~Conflict(g) /\ Refuse(g) /\ UNCHANGED polled
  /\ UNCHANGED <<jobs, batch, faults, timeouts>>

SubmitRefused(g) ==
  /\ thread[g] = "submit" /\ (Conflict(g) \/ Full)
  /\ Refuse(g)
  /\ UNCHANGED <<jobs, batch, polled, faults, timeouts>>

\* The request does not arrive.
SubmitFails(g) ==
  /\ thread[g] = "submit" /\ Fault
  /\ TryAgain(g)
  /\ UNCHANGED <<jobs, batch, polled, refused, timeouts>>

\* The job is made, and failed at once where it cannot be published. The answer
\* arrives, or is an error that is tried again, or is waited for in vain.
Submit(g) ==
  /\ thread[g] = "submit" /\ ~Conflict(g) /\ ~Full
  /\ \E status \in {"ACTIVE", "FAILED"} :
       jobs' = Append(jobs, [group |-> g, user |-> UserOf(g), status |-> status])
  /\ \/ /\ polled' = [polled EXCEPT ![g] = Len(jobs')]
        /\ thread' = [thread EXCEPT ![g] = "poll"]
        /\ tries' = [tries EXCEPT ![g] = 0]
        /\ UNCHANGED <<rows, faults>>
     \/ Fault /\ TryAgain(g) /\ UNCHANGED polled
     \/ Fault /\ Raise(g) /\ UNCHANGED <<tries, polled>>
  /\ UNCHANGED <<batch, refused, timeouts>>

\* The job ends, whether it is polled or not.
Finish(j) ==
  /\ j \in Active
  /\ \E status \in {"COMPLETED", "FAILED"} : jobs' = [jobs EXCEPT ![j].status = status]
  /\ UNCHANGED <<batch, thread, tries, polled, rows, refused, faults, timeouts>>

(* A mutant: any answer of the poll ends it.                               *)
MutantPoll(g) ==
  /\ thread[g] = "poll"
  /\ Return(g, polled[g], IF jobs[polled[g]].status = "FAILED" THEN "FAILED" ELSE "COMPLETED")
  /\ UNCHANGED <<jobs, batch, tries, polled, refused, faults, timeouts>>

\* poll_job: the status is terminal, and the record has it.
Poll(g) ==
  /\ thread[g] = "poll" /\ polled[g] \notin Active
  /\ Return(g, polled[g], jobs[polled[g]].status)
  /\ UNCHANGED <<jobs, batch, tries, polled, refused, faults, timeouts>>

\* poll_job: the time is up, and a status that is not terminal is a failure.
PollTimesOut(g) ==
  /\ thread[g] = "poll" /\ polled[g] \in Active
  /\ timeouts < MaxTimeouts /\ timeouts' = timeouts + 1
  /\ Return(g, polled[g], "FAILED")
  /\ UNCHANGED <<jobs, batch, tries, polled, refused, faults>>

\* poll_job: a request fails for good; the record has no job any more.
PollRaises(g) ==
  /\ thread[g] = "poll" /\ Fault
  /\ Raise(g)
  /\ UNCHANGED <<jobs, batch, tries, polled, refused, timeouts>>

\* The pool is left when every thread of the batch has returned.
NextBatch ==
  /\ \A g \in batch : thread[g] = "done"
  /\ \E g \in Groups :
       /\ thread[g] = "idle" /\ \A h \in 1..g-1 : thread[h] # "idle"
       /\ batch' = BatchFrom(g)
       /\ thread' = [h \in Groups |-> IF h \in BatchFrom(g) THEN "submit" ELSE thread[h]]
  /\ UNCHANGED <<jobs, tries, polled, rows, refused, faults, timeouts>>

Next ==
  \/ \E g \in Groups : \/ Submit(g) \/ SubmitRefused(g) \/ SubmitFails(g)
                       \/ Poll(g) \/ PollTimesOut(g) \/ PollRaises(g)
  \/ \E j \in DOMAIN jobs : Finish(j)
  \/ NextBatch

Spec == Init /\ [][Next]_vars

\* main: what the summary counts, and the exit code.
Over == \A g \in Groups : thread[g] = "done"
Accepted == { g \in Groups : rows[g] # None /\ rows[g].job # None }
Completed == { g \in Groups : rows[g] # None /\ rows[g].status = "COMPLETED" }
ExitsWithZero == Over /\ Completed = Groups

(* The types of the state.                                                 *)
TypeOK ==
  /\ jobs \in Seq(Job)
  /\ batch \subseteq Groups
  /\ thread \in [Groups -> {"idle", "submit", "poll", "done"}]
  /\ tries \in [Groups -> 0..Attempts]
  /\ polled \in [Groups -> Nat \cup {None}]
  /\ rows \in [Groups -> Record \cup {None}]
  /\ refused \subseteq Groups /\ faults \in 0..MaxFaults /\ timeouts \in 0..MaxTimeouts

(* A record that says COMPLETED is of a job that completed, and of the      *)
(* group's own: whatever was retried, lost or refused on the way.            *)
CompletedIsTrue ==
  \A g \in Completed : /\ jobs[rows[g].job].status = "COMPLETED"
                       /\ jobs[rows[g].job].group = g

(* No job is in two records: the images and the costs are counted once.     *)
OneRecordPerJob ==
  \A g, h \in Accepted : rows[g].job = rows[h].job => g = h

(* The exit code 0 says that every group's project was analysed.             *)
SuccessIsComplete ==
  ExitsWithZero => \A g \in Groups : \E j \in DOMAIN jobs :
                     jobs[j].group = g /\ jobs[j].status = "COMPLETED"

(* The batches respect the gateway's rules: no submission is refused.        *)
NeverRefused == refused = {}
=============================================================================
