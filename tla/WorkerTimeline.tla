--------------------------- MODULE WorkerTimeline ---------------------------
(* What the evaluation protocols say of the image workers' concurrency     *)
(* (src/evaluation/eval_lib.py): the workers time-stamp what they begin and *)
(* finish and send it to the gateway, which logs it in its own order; the   *)
(* protocol fetches the log of each job once, while a job that was given up *)
(* by the poll may still be running, and rebuilds from it who worked when.  *)
(* The offset of a task is committed after its result was sent              *)
(* (src/orchtr/messaging/image_worker.py), so that a task may come again.   *)
EXTENDS Naturals, Integers, Sequences, FiniteSets, TLC, SequencesExt, FiniteSetsExt

CONSTANTS
  Tasks,          \* The image tasks: pairs of a job and a lid
  Workers,        \* The workers: threads of one process, with one clock
  MaxClock,       \* Bound: the clock stops here
  MaxLost,        \* Bound: the messages that never reach the log
  MaxTwice        \* Bound: the messages logged twice and the tasks that came again

Jobs == { t[1] : t \in Tasks }
Lids == { t[2] : t \in Tasks }

\* Finitely many images of numbered jobs.
TimelineAssumption ==
  /\ IsFiniteSet(Tasks) /\ IsFiniteSet(Workers)
  /\ Tasks \subseteq Jobs \X Lids
  /\ Jobs = 1..Cardinality(Jobs)
  /\ MaxClock \in Nat

VARIABLES
  clock,          \* The time of the workers' process
  todo,           \* The tasks on the topic that no worker has taken
  busy,           \* What each worker is at: a task, or NoTask
  wire,           \* The progress messages that are not logged yet
  lost,           \* How many messages were lost
  duplicates,     \* How many messages were logged and stayed on the wire
  redelivered,    \* How often tasks were delivered again
  events,         \* The gateway's log of each job, in the order of its rows
  fetched,        \* The parsed logs of the jobs that were asked for
  peak,           \* History: the most workers that were busy at once
  begun,          \* History: the pairs of a worker and a task that began
  again,          \* History: whether a worker began a task a second time
  finished        \* History: the pairs of a worker and a lid that ended

history == <<peak, begun, again, finished>>
vars == <<clock, todo, busy, wire, lost, duplicates, redelivered, events, fetched, history>>

NoTask == <<>>
Progress == [worker : Workers, job : Jobs, lid : Lids,
             status : {"processing", "done"}, at : 0..MaxClock]

Init ==
  /\ clock = 0
  /\ todo = Tasks
  /\ busy = [w \in Workers |-> NoTask]
  /\ wire = {}
  /\ lost = 0
  /\ duplicates = 0 /\ redelivered = 0
  /\ events = [j \in Jobs |-> <<NoTask>>]   \* the row of the submission
  /\ fetched = <<>>
  /\ peak = 0 /\ begun = {} /\ again = FALSE /\ finished = {}

MayComeTwice == duplicates + redelivered < MaxTwice

Tick ==
  /\ clock < MaxClock
  /\ clock' = clock + 1
  /\ UNCHANGED <<todo, busy, wire, lost, duplicates, redelivered, events, fetched, history>>

\* _publish_image_progress: the message carries the worker's own time. Two that
\* are equal, of a task that came again at once, are one on the wire.
Publish(w, t, status) ==
  wire' = wire \cup {[worker |-> w, job |-> t[1], lid |-> t[2],
                      status |-> status, at |-> clock]}

Begin(w, t) ==
  /\ busy[w] = NoTask /\ t \in todo
  /\ busy' = [busy EXCEPT ![w] = t]
  /\ todo' = todo \ {t}
  /\ Publish(w, t, "processing")
  /\ peak' = Max({peak, Cardinality({v \in Workers : busy'[v] # NoTask})})
  /\ begun' = begun \cup {<<w, t>>}
  /\ again' = (again \/ <<w, t>> \in begun)
  /\ UNCHANGED <<clock, lost, duplicates, redelivered, events, fetched, finished>>

\* The image has a result, or its error: the summary treats the two alike.
Finish(w) ==
  /\ busy[w] # NoTask
  /\ Publish(w, busy[w], "done")
  /\ finished' = finished \cup {<<w, busy[w][2]>>}
  /\ busy' = [busy EXCEPT ![w] = NoTask]
  /\ UNCHANGED <<clock, todo, lost, duplicates, redelivered, events, fetched,
                 peak, begun, again>>

\* A task whose offset is not committed comes again: its worker lost the partition
\* while it was at it, or its commit failed. It goes on if it is at it.
Redeliver(t) ==
  /\ t \notin todo /\ MayComeTwice
  /\ redelivered' = redelivered + 1
  /\ todo' = todo \cup {t}
  /\ UNCHANGED <<clock, busy, wire, lost, duplicates, events, fetched, history>>

\* The workers' process ends and is started again, with the numbers it had: what
\* was under way comes again.
Restart ==
  /\ MayComeTwice
  /\ redelivered' = redelivered + 1
  /\ busy' = [w \in Workers |-> NoTask]
  /\ todo' = todo \cup ({busy[w] : w \in Workers} \ {NoTask})
  /\ UNCHANGED <<clock, wire, lost, duplicates, events, fetched, history>>

\* The listener appends a message to the log of its job. It may come again:
\* the delivery is at least once, and an evaluation fault sends it twice.
Log(m) ==
  /\ events' = [events EXCEPT ![m.job] = Append(@, m)]
  /\ \/ wire' = wire \ {m} /\ UNCHANGED duplicates
     \/ MayComeTwice /\ duplicates' = duplicates + 1 /\ UNCHANGED wire
  /\ UNCHANGED <<clock, todo, busy, lost, redelivered, fetched, history>>

\* A send that fails, or a message of a job the gateway has closed.
Lose(m) ==
  /\ lost < MaxLost
  /\ lost' = lost + 1
  /\ wire' = wire \ {m}
  /\ UNCHANGED <<clock, todo, busy, duplicates, redelivered, events, fetched, history>>

Put(f, k, v) == [x \in DOMAIN f \cup {k} |-> IF x = k THEN v ELSE f[x]]

(* A mutant: an end whose beginning was not seen is passed over.           *)
MutantReadProgressStarted(acc, p) ==
  LET key == <<p.worker, p.lid>> IN
  IF p.status = "processing" THEN [acc EXCEPT !.starts = Put(@, key, p.at)]
  ELSE IF key \notin DOMAIN acc.starts THEN acc
  ELSE [acc EXCEPT !.images = @ \cup {key},
                   !.intervals = Append(@, <<acc.starts[key], p.at, p.worker>>)]

\* One row of the log: a beginning is remembered, an end makes an interval
\* with the beginning seen so far, or an empty one.
ReadProgress(acc, p) ==
  LET key == <<p.worker, p.lid>>
      start == IF key \in DOMAIN acc.starts THEN acc.starts[key] ELSE p.at IN
  IF p.status = "processing"
  THEN [acc EXCEPT !.starts = Put(@, key, p.at)]
  ELSE [acc EXCEPT !.images = @ \cup {key},
                   !.intervals = Append(@, <<start, p.at, p.worker>>)]

\* The beginnings are the job's own; intervals and images are everyone's.
ReadJob(acc, log) == FoldLeft(ReadProgress, [acc EXCEPT !.starts = <<>>], log)

\* The summary of the jobs fetched so far, in the order of the records.
Read == FoldLeft(ReadJob, [starts |-> <<>>, images |-> {}, intervals |-> <<>>], fetched)

\* One worker more where an interval begins, one less where it ends.
Points(intervals) ==
  [i \in DOMAIN intervals |-> <<intervals[i][1], 1>>]
  \o [i \in DOMAIN intervals |-> <<intervals[i][2], -1>>]

(* A mutant: at one time, what begins is counted before what ends.         *)
MutantBefore(a, b) == a[1] < b[1] \/ (a[1] = b[1] /\ a[2] > b[2])

\* The order of the points: by time, what ends before what begins.
Before(a, b) == a[1] < b[1] \/ (a[1] = b[1] /\ a[2] < b[2])

\* How many points come before the i-th one, equal ones in the order they have.
Rank(points, i) ==
  Cardinality({ k \in DOMAIN points :
                  Before(points[k], points[i]) \/ (points[k] = points[i] /\ k < i) })

Sorted(points) ==
  [n \in DOMAIN points |-> points[CHOOSE i \in DOMAIN points : Rank(points, i) = n - 1]]

Sweep(acc, p) == [active |-> acc.active + p[2], max |-> Max({acc.max, acc.active + p[2]})]

\* max_concurrent_workers_observed: the sweep over the points.
MaxActive(intervals) ==
  FoldLeft(Sweep, [active |-> 0, max |-> 0], Sorted(Points(intervals))).max

\* The rows that have image progress, in the order of the log.
AddProgress(items, row) == IF row = NoTask THEN items ELSE Append(items, row)
ParseJobEvents(rows) == FoldLeft(AddProgress, <<>>, rows)

\* The answers to the request for a log: the log as it is now, or an error.
FetchEvents(j) == { events[j], <<>> }

\* One record after the other; one whose log is not had has no timeline.
Fetch ==
  /\ Len(fetched) < Cardinality(Jobs)
  /\ \E rows \in FetchEvents(Len(fetched) + 1) :
       fetched' = Append(fetched, ParseJobEvents(rows))
  /\ UNCHANGED <<clock, todo, busy, wire, lost, duplicates, redelivered, events, history>>

\* The summary is made when the last log was asked for: what happens after that
\* is in none of its numbers.
Next ==
  /\ Len(fetched) < Cardinality(Jobs)
  /\ \/ Tick \/ Fetch \/ Restart
     \/ \E w \in Workers : Finish(w) \/ \E t \in todo : Begin(w, t)
     \/ \E t \in Tasks : Redeliver(t)
     \/ \E m \in wire : Log(m) \/ Lose(m)

Spec == Init /\ [][Next]_vars

(* The types of the state.                                                 *)
TypeOK ==
  /\ clock \in 0..MaxClock /\ todo \subseteq Tasks
  /\ busy \in [Workers -> Tasks \cup {NoTask}]
  /\ wire \subseteq Progress
  /\ lost \in 0..MaxLost
  /\ duplicates \in 0..MaxTwice /\ redelivered \in 0..(MaxTwice - duplicates)
  /\ \A j \in Jobs : events[j] \in Seq(Progress \cup {NoTask})
  /\ fetched \in Seq(Seq(Progress))
  /\ peak \in 0..Cardinality(Workers) /\ finished \subseteq Workers \X Lids
  /\ begun \subseteq Workers \X Tasks /\ again \in BOOLEAN

(* The overlap the protocol reports was there: at some moment at least as   *)
(* many workers were at work at once, in whatever order the messages were   *)
(* logged, whichever were lost, whenever the log was fetched, even if tasks *)
(* came again to other workers or after a restart. It asks that no message  *)
(* was logged twice, for an end that comes again makes an interval that     *)
(* overlaps with its own, and that no worker began one task twice: its end  *)
(* may then be read with the beginning of the other time.                   *)
OverlapIsReal == duplicates = 0 /\ ~again => MaxActive(Read.intervals) <= peak

(* The images a worker is credited with are images it has finished, even if *)
(* the log was fetched while others were under way, has a message twice or  *)
(* tells of a task that came again; and all of them if no message was lost  *)
(* and all were logged before the log was fetched, even an end that was     *)
(* logged before its beginning.                                             *)
ImagesAreReal ==
  /\ Read.images \subseteq finished
  /\ ( /\ todo = {} /\ wire = {} /\ lost = 0
       /\ \A w \in Workers : busy[w] = NoTask
       /\ fetched = [j \in Jobs |-> ParseJobEvents(events[j])] )
     => Read.images = finished
=============================================================================
