---------------------------- MODULE JobLifecycle ----------------------------
(***************************************************************************)
(* What the gateway promises of a job, as one atomic decision per step: a   *)
(* job is accepted only if neither its project, nor its user, nor the       *)
(* system is already busy; it then moves among the active statuses and      *)
(* ends, once, as COMPLETED with a report or as FAILED without one.  The    *)
(* promises are the refusals and the terminal guard of                      *)
(* gateway/.../job/JobService.java; GatewayJobs is the code's way of        *)
(* keeping them.  One refusal is absent: that of a project which has a      *)
(* report is not kept even by a single request (see ReportedProjectIdle).   *)
(***************************************************************************)
EXTENDS Naturals, FiniteSets

CONSTANTS Jobs, Users, Projects, MaxConcurrentJobs, Null

VARIABLE record \* record[j]: project, user, status and report of job j, or Null

Ended   == {"COMPLETED", "FAILED"}
Running == {"PENDING", "PROCESSING_IMAGES", "GENERATING_PDF"}

Known == {j \in Jobs : record[j] # Null}
Busy  == {j \in Known : record[j].status \in Running}

Init == record = [j \in Jobs |-> Null]

Accept(j, p, u) ==
    /\ record[j] = Null
    /\ \A k \in Busy : record[k].project # p /\ record[k].user # u
    /\ Cardinality(Busy) < MaxConcurrentJobs
    /\ record' = [record EXCEPT ![j] = [project |-> p, user |-> u,
                                        status |-> "PENDING", report |-> FALSE]]

Advance(j) ==
    /\ j \in Busy
    /\ \E s \in Running : record' = [record EXCEPT ![j].status = s]

Finish(j) ==
    /\ j \in Busy
    /\ \E s \in Ended :
         record' = [record EXCEPT ![j] = [@ EXCEPT !.status = s,
                                                   !.report = (s = "COMPLETED")]]

Next == \E j \in Jobs :
    \/ \E p \in Projects, u \in Users : Accept(j, p, u)
    \/ Advance(j)
    \/ Finish(j)

Spec == Init /\ [][Next]_record

=============================================================================
