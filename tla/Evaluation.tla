----------------------------- MODULE Evaluation -----------------------------
(* The numbers an evaluation reports, and whether the system did what they   *)
(* say: its protocols side by side, EvalRun, RetryRecovery and               *)
(* WorkerTimeline. A run is of one of them (one script of                    *)
(* src/evaluation/protocols); the state of the others stays as it is.        *)
EXTENDS EvalRun

CONSTANTS
  NoLid, CaseGroups, ImagesOf, Stages, ImageStages, LidScoped, OwnLine, Skips,
  CallAttempts, MaxErrors, MaxLeavers,   \* RetryRecovery's
  Tasks, Workers, MaxClock, MaxLost, MaxTwice   \* WorkerTimeline's

VARIABLES
  run,   \* The protocol: "multi_user", "retry_recovery" or "timeline"
  used, next, rTries, outcome, errors, rTimeouts, injected, signal, rRows, protocol,
  clock, todo, busy, wire, lost, duplicates, redelivered, events, fetched,
  peak, begun, again, finished

evalVars == vars
retryVars == <<used, next, rTries, outcome, errors, rTimeouts, injected, signal, rRows, protocol>>
timelineVars == <<clock, todo, busy, wire, lost, duplicates, redelivered, events, fetched,
                  peak, begun, again, finished>>

R == INSTANCE RetryRecovery WITH
       Groups <- CaseGroups, Attempts <- CallAttempts, MaxTimeouts <- MaxLeavers,
       tries <- rTries, timeouts <- rTimeouts, rows <- rRows

T == INSTANCE WorkerTimeline

ASSUME PlanIsSound == R!PlanAssumption
ASSUME TimelineIsSound == T!TimelineAssumption

EvaluationInit ==
  /\ run \in {"multi_user", "retry_recovery", "timeline"}
  /\ Init /\ R!Init /\ T!Init

EvaluationNext ==
  /\ UNCHANGED run
  /\ \/ run = "multi_user" /\ Next /\ UNCHANGED <<retryVars, timelineVars>>
     \/ run = "retry_recovery" /\ R!Next /\ UNCHANGED <<evalVars, timelineVars>>
     \/ run = "timeline" /\ T!Next /\ UNCHANGED <<evalVars, retryVars>>

EvaluationSpec ==
  EvaluationInit /\ [][EvaluationNext]_<<run, evalVars, retryVars, timelineVars>>

(* What the plan injects, the retries get over (utils/retry.py): without an  *)
(* error of another kind no image and no job fails.                          *)
FaultsAreSurvived == R!FaultsAreSurvived

(* A report is made of jobs that completed (retry_recovery_e2e/run.py:150):  *)
(* a fault it calls recovered hit a job that came to its end, whether or not *)
(* it was the planned one.                                                   *)
RecoveredJobCompleted == R!RecoveredJobCompleted

(* The time to recover is positive (eval_lib.py:83): the job a recovery is   *)
(* read from ended after the fault was injected, wherever it hit.            *)
MttrPositive == R!MttrPositive

(* The overlap of workers that is reported (eval_lib.py:304) was there, in   *)
(* whatever order the messages were logged, whichever were lost and whatever *)
(* tasks came again, unless a worker began one twice.                        *)
OverlapIsReal == T!OverlapIsReal

(* The images a worker is credited with (eval_lib.py:289) are images it has  *)
(* finished, and all of them if the log was complete.                        *)
ImagesAreReal == T!ImagesAreReal
=============================================================================
