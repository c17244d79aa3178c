-------------------------- MODULE GatewayJobsProofs --------------------------
(***************************************************************************)
(* Proofs about GatewayJobs for any jobs, users, projects, threads and      *)
(* bounds.  The row invariants and the progress of images hold whatever the *)
(* interleaving.  The theorems about terminal rows, the event log and the   *)
(* limit need one assumption more: that no publication of submit() is both  *)
(* delivered and reported as failed.  The last one, that the table          *)
(* implements JobLifecycle, also needs one request at a time.               *)
(***************************************************************************)
EXTENDS GatewayJobs, CountingLemmas

\* A thread within submit() has its request, and from the insert on its row.
HttpInv ==
    \A t \in HttpThreads :
        /\ http[t].pc # "idle" => http[t].project \in Projects /\ http[t].user \in Users
        /\ http[t].pc \in {"log_submitted", "publish", "save_failed", "log_failed"}
             => http[t].job \in Jobs

\* The row that the listener read was active: its guard was evaluated on it.
ConsumerInv ==
    consumer.pc # "idle" =>
        /\ consumer.msg \in StatusMsg
        /\ consumer.copy \in Row
        /\ consumer.copy.status \in ActiveStatus
        /\ ~consumer.copy.pdf

RowInv == TypeOK /\ HttpInv /\ ConsumerInv /\ ReportLinkMatchesVerdict

HttpType == [HttpThreads -> [pc: HttpPC, project: Projects \cup {Null},
                             user: Users \cup {Null}, job: Jobs \cup {Null},
                             attempt: 0..PublishAttempts]]

LEMMA NewRowType ==
    ASSUME NEW p \in Projects, NEW u \in Users
    PROVE  /\ NewRow(p, u) \in Row
           /\ NewRow(p, u).status = "PENDING"
           /\ ~NewRow(p, u).pdf
           /\ [NewRow(p, u) EXCEPT !.status = "FAILED"] \in Row
           /\ [NewRow(p, u) EXCEPT !.status = "FAILED"].status = "FAILED"
           /\ ~[NewRow(p, u) EXCEPT !.status = "FAILED"].pdf
BY DEF NewRow, Row, ImageState, JobStatus, TerminalStatus, ActiveStatus

\* Merging a message into an active row without a report gives a row that has
\* a report exactly when the message says COMPLETED.
LEMMA MergedType ==
    ASSUME NEW row \in Row, NEW body \in StatusKinds, ~row.pdf
    PROVE  /\ Merged(row, body) \in Row
           /\ Merged(row, body).pdf <=> Merged(row, body).status = "COMPLETED"
<1>1. body \in StatusBody /\ (body.pdf <=> body.status = "COMPLETED")
  BY StatusKindsAssumption
<1> QED
  BY <1>1 DEF Merged, Row, StatusBody

\* Without rows and messages no report link is wrong.
THEOREM RowInvInit == Init => RowInv
<1> SUFFICES ASSUME Init PROVE RowInv
  OBVIOUS
<1>1. TypeOK
  BY BoundsAssumption DEF Init, TypeOK, IdleThread, IdleConsumer, HttpPC
<1>2. HttpInv
  BY DEF Init, HttpInv, IdleThread
<1>3. ConsumerInv
  BY DEF Init, ConsumerInv, IdleConsumer
<1>4. ReportLinkMatchesVerdict
  BY DEF Init, ReportLinkMatchesVerdict, Saved
<1> QED
  BY <1>1, <1>2, <1>3, <1>4 DEF RowInv

LEMMA GuardingSteps ==
    ASSUME RowInv, NEW t \in HttpThreads,
           StartSubmit(t) \/ CheckReport(t) \/ CheckProject(t) \/ CheckUser(t)
             \/ CheckCapacity(t)
    PROVE  /\ RowInv'
           /\ UNCHANGED <<job, lastEvent, consumer, jobSubmitted, jobStatus, unread,
                          redelivered>>
           /\ \A u \in HttpThreads : u # t => http'[u] = http[u]
           /\ http'[t].pc \in {"idle", "check_report", "check_project", "check_user",
                               "check_capacity", "insert"}
<1> USE DEF RowInv
<1>1. UNCHANGED <<job, lastEvent, consumer, jobSubmitted, jobStatus, unread, redelivered>>
  BY DEF StartSubmit, CheckReport, CheckProject, CheckUser, CheckCapacity, Guarding
<1>2. \/ \E p \in Projects, u \in Users :
           http' = [http EXCEPT ![t] = NewRequest(p, u)]
      \/ http' = [http EXCEPT ![t] = IdleThread]
      \/ /\ http[t].pc # "idle"
         /\ \E pc \in {"check_project", "check_user", "check_capacity", "insert"} :
              http' = [http EXCEPT ![t].pc = pc]
  BY DEF StartSubmit, CheckReport, CheckProject, CheckUser, CheckCapacity, Guarding, Goto
<1>3. TypeOK' /\ HttpInv'
      /\ (\A u \in HttpThreads : u # t => http'[u] = http[u])
      /\ http'[t].pc \in {"idle", "check_report", "check_project", "check_user",
                          "check_capacity", "insert"}
  <2>1. CASE \E p \in Projects, u \in Users :
           http' = [http EXCEPT ![t] = NewRequest(p, u)]
    BY <1>1, <2>1, BoundsAssumption DEF TypeOK, HttpInv, NewRequest, HttpPC
  <2>2. CASE http' = [http EXCEPT ![t] = IdleThread]
    BY <1>1, <2>2, BoundsAssumption DEF TypeOK, HttpInv, IdleThread, HttpPC
  <2>3. CASE /\ http[t].pc # "idle"
             /\ \E pc \in {"check_project", "check_user", "check_capacity", "insert"} :
                  http' = [http EXCEPT ![t].pc = pc]
    BY <1>1, <2>3 DEF TypeOK, HttpInv, HttpPC
  <2> QED
    BY <1>2, <2>1, <2>2, <2>3
<1>4. ConsumerInv' /\ ReportLinkMatchesVerdict'
  BY <1>1 DEF ConsumerInv, ReportLinkMatchesVerdict, Saved
<1> QED
  BY <1>1, <1>3, <1>4

\* The steps of submit() from the insert on, with the thread's next state.
LEMMA WritingSteps ==
    ASSUME RowInv, NEW t \in HttpThreads,
           InsertJob(t) \/ PayloadRaises(t) \/ LogSubmitted(t)
             \/ PublishAcknowledged(t) \/ PublishAttemptFails(t) \/ SaveFailed(t)
             \/ LogFailed(t)
    PROVE  RowInv'
<1> USE DEF RowInv
<1>1. CASE InsertJob(t)
  <2>1. PICK j \in Jobs \ Saved :
          /\ job' = [job EXCEPT ![j] = NewRow(http[t].project, http[t].user)]
          /\ http' = [http EXCEPT ![t].pc = "log_submitted", ![t].job = j]
    BY <1>1 DEF InsertJob
  <2>2. http[t].project \in Projects /\ http[t].user \in Users
    BY <1>1 DEF InsertJob, HttpInv
  <2>3. /\ NewRow(http[t].project, http[t].user) \in Row
        /\ NewRow(http[t].project, http[t].user).status = "PENDING"
        /\ ~NewRow(http[t].project, http[t].user).pdf
    BY <2>2, NewRowType
  <2>4. UNCHANGED <<lastEvent, consumer, jobSubmitted, jobStatus, unread, redelivered>>
    BY <1>1 DEF InsertJob
  <2>5. TypeOK'
    <3>1. job' \in [Jobs -> Row \cup {Null}]
      BY <2>1, <2>3 DEF TypeOK
    <3> DEFINE there == [http EXCEPT ![t].pc = "log_submitted"]
    <3>2. there \in HttpType
      BY DEF TypeOK, HttpType, HttpPC
    <3>3. http' = [there EXCEPT ![t].job = j]
      BY <2>1
    <3> HIDE DEF there
    <3>4. http' \in HttpType
      BY <3>2, <3>3 DEF HttpType
    <3> QED
      BY <2>4, <3>1, <3>4 DEF TypeOK, HttpType
  <2>6. HttpInv'
    BY <2>1, <2>2 DEF TypeOK, HttpInv
  <2>7. ConsumerInv'
    BY <2>4 DEF ConsumerInv
  <2>8. ReportLinkMatchesVerdict'
    BY <2>1, <2>3 DEF TypeOK, ReportLinkMatchesVerdict, Saved
  <2> QED
    BY <2>5, <2>6, <2>7, <2>8
<1>2. CASE SaveFailed(t)
  <2> DEFINE row == [NewRow(http[t].project, http[t].user) EXCEPT !.status = "FAILED"]
  <2>1. /\ http[t].project \in Projects /\ http[t].user \in Users
        /\ http[t].job \in Jobs
    BY <1>2 DEF SaveFailed, HttpInv
  <2>2. row \in Row /\ row.status = "FAILED" /\ ~row.pdf
    BY <2>1, NewRowType
  <2>3. /\ job' = [job EXCEPT ![http[t].job] = row]
        /\ http' = [http EXCEPT ![t].pc = "log_failed"]
        /\ UNCHANGED <<lastEvent, consumer, jobSubmitted, jobStatus, unread, redelivered>>
    BY <1>2 DEF SaveFailed, Goto
  <2> HIDE DEF row
  <2>4. TypeOK'
    BY <2>2, <2>3 DEF TypeOK, HttpPC
  <2>5. HttpInv'
    BY <2>1, <2>3 DEF TypeOK, HttpInv
  <2>6. ConsumerInv'
    BY <2>3 DEF ConsumerInv
  <2>7. ReportLinkMatchesVerdict'
    BY <2>1, <2>2, <2>3 DEF TypeOK, ReportLinkMatchesVerdict, Saved
  <2> QED
    BY <2>4, <2>5, <2>6, <2>7
<1>3. CASE PayloadRaises(t) \/ LogSubmitted(t) \/ PublishAcknowledged(t)
             \/ PublishAttemptFails(t) \/ LogFailed(t)
  <2>1. UNCHANGED <<job, consumer, jobStatus, unread, redelivered>>
    BY <1>3 DEF PayloadRaises, LogSubmitted, PublishAcknowledged, PublishAttemptFails,
                LogFailed
  <2>2. ConsumerInv' /\ ReportLinkMatchesVerdict'
    BY <2>1 DEF ConsumerInv, ReportLinkMatchesVerdict, Saved
  <2>3. http[t].job \in Jobs /\ http[t].project \in Projects /\ http[t].user \in Users
    BY <1>3 DEF PayloadRaises, LogSubmitted, PublishAcknowledged, PublishAttemptFails,
                LogFailed, HttpInv
  <2>4. \/ http' = [http EXCEPT ![t].pc = "publish", ![t].attempt = 1]
        \/ http' = [http EXCEPT ![t] = IdleThread]
        \/ /\ http[t].attempt < PublishAttempts
           /\ http' = [http EXCEPT ![t].attempt = @ + 1]
        \/ http' = [http EXCEPT ![t].pc = "save_failed"]
    BY <1>3 DEF PayloadRaises, LogSubmitted, PublishAcknowledged, PublishAttemptFails,
                LogFailed, Goto
  <2>5. http' \in HttpType /\ HttpInv'
    <3>1. CASE http' = [http EXCEPT ![t].pc = "publish", ![t].attempt = 1]
      <4> DEFINE there == [http EXCEPT ![t].pc = "publish"]
      <4>1. there \in HttpType
        BY DEF TypeOK, HttpType, HttpPC
      <4>2. http' = [there EXCEPT ![t].attempt = 1]
        BY <3>1
      <4> HIDE DEF there
      <4>3. http' \in HttpType
        BY <4>1, <4>2, BoundsAssumption DEF HttpType
      <4>4. HttpInv'
        BY <2>3, <3>1 DEF TypeOK, HttpInv
      <4> QED
        BY <4>3, <4>4
    <3>2. CASE http' = [http EXCEPT ![t] = IdleThread]
      BY <2>3, <3>2, BoundsAssumption DEF TypeOK, HttpType, HttpInv, HttpPC, IdleThread
    <3>3. CASE /\ http[t].attempt < PublishAttempts
               /\ http' = [http EXCEPT ![t].attempt = @ + 1]
      BY <2>3, <3>3, BoundsAssumption DEF TypeOK, HttpType, HttpInv, HttpPC
    <3>4. CASE http' = [http EXCEPT ![t].pc = "save_failed"]
      BY <2>3, <3>4 DEF TypeOK, HttpType, HttpInv, HttpPC
    <3> QED
      BY <2>4, <3>1, <3>2, <3>3, <3>4
  <2>6. jobSubmitted' \subseteq Jobs
    BY <1>3, <2>3
       DEF TypeOK, PayloadRaises, LogSubmitted, PublishAcknowledged, PublishAttemptFails,
           LogFailed
  <2>7. lastEvent' \in [Jobs -> JobStatus \cup {"NONE"}]
    BY <1>3, <2>3
       DEF TypeOK, PayloadRaises, LogSubmitted, PublishAcknowledged, PublishAttemptFails,
           LogFailed, JobStatus, ActiveStatus, TerminalStatus
  <2> QED
    BY <2>1, <2>2, <2>5, <2>6, <2>7 DEF TypeOK, HttpType
<1> QED
  BY <1>1, <1>2, <1>3

LEMMA ListenerSteps ==
    ASSUME RowInv, Apply \/ OrchestratorPublish
    PROVE  RowInv'
<1> USE DEF RowInv
<1>1. UNCHANGED <<http, jobSubmitted>>
  BY DEF Apply, DropUpdate, ReadForUpdate, LogUpdate, SaveUpdate, OrchestratorPublish
<1>2. HttpInv'
  BY <1>1 DEF HttpInv
<1>3. CASE DropUpdate \/ OrchestratorPublish
  <2>1. UNCHANGED <<job, lastEvent, consumer>>
    BY <1>3 DEF DropUpdate, OrchestratorPublish
  <2>2. jobStatus' \subseteq StatusMsg /\ unread' \subseteq jobStatus'
    <3>1. CASE DropUpdate
      BY <3>1 DEF DropUpdate, Take, TypeOK
    <3>2. CASE OrchestratorPublish
      <4>1. PICK j \in jobSubmitted, k \in StatusKinds :
              LET m == [job |-> j, body |-> k]
              IN  /\ jobStatus' = jobStatus \cup {m}
                  /\ unread' = unread \cup {m}
        BY <3>2 DEF OrchestratorPublish
      <4>2. [job |-> j, body |-> k] \in StatusMsg
        BY DEF StatusMsg, TypeOK
      <4> QED
        BY <4>1, <4>2 DEF TypeOK
    <3> QED
      BY <1>3, <3>1, <3>2
  <2>3. redelivered' \in 0..MaxRedeliveries
    BY <1>3, BoundsAssumption DEF DropUpdate, Take, OrchestratorPublish, TypeOK
  <2>4. ConsumerInv' /\ ReportLinkMatchesVerdict'
    BY <2>1 DEF ConsumerInv, ReportLinkMatchesVerdict, Saved
  <2> QED
    BY <1>1, <1>2, <2>1, <2>2, <2>3, <2>4 DEF TypeOK
<1>4. CASE ReadForUpdate
  <2>1. PICK m \in unread :
          /\ Take(m)
          /\ job[m.job] # Null
          /\ job[m.job].status \notin TerminalStatus
          /\ consumer' = [pc |-> "log", msg |-> m, copy |-> job[m.job]]
    BY <1>4 DEF ReadForUpdate
  <2>2. UNCHANGED <<job, lastEvent, jobStatus>>
    BY <1>4 DEF ReadForUpdate
  <2>3. m \in StatusMsg /\ m.job \in Jobs
    BY <2>1 DEF TypeOK, StatusMsg
  <2>4. job[m.job] \in Row
    BY <2>1, <2>3 DEF TypeOK
  <2>5. job[m.job].status \in ActiveStatus /\ ~job[m.job].pdf
    BY <2>1, <2>3, <2>4
       DEF Row, JobStatus, TerminalStatus, ReportLinkMatchesVerdict, Saved
  <2>6. unread' \subseteq jobStatus' /\ redelivered' \in 0..MaxRedeliveries
    BY <2>1, <2>2, BoundsAssumption DEF Take, TypeOK
  <2>7. TypeOK'
    BY <1>1, <2>1, <2>2, <2>3, <2>4, <2>6 DEF TypeOK
  <2>8. ConsumerInv'
    BY <2>1, <2>3, <2>4, <2>5 DEF ConsumerInv
  <2>9. ReportLinkMatchesVerdict'
    BY <2>2 DEF ReportLinkMatchesVerdict, Saved
  <2> QED
    BY <1>2, <2>7, <2>8, <2>9
<1>5. CASE LogUpdate
  <2>1. consumer.msg \in StatusMsg
    BY <1>5 DEF LogUpdate, ConsumerInv
  <2>2. consumer.msg.body.status \in JobStatus
    BY <2>1, StatusKindsAssumption DEF StatusMsg, StatusBody
  <2>3. TypeOK'
    BY <1>1, <1>5, <2>2 DEF LogUpdate, TypeOK
  <2>4. ConsumerInv' /\ ReportLinkMatchesVerdict'
    BY <1>5 DEF LogUpdate, TypeOK, ConsumerInv, ReportLinkMatchesVerdict, Saved
  <2> QED
    BY <1>2, <2>3, <2>4
<1>6. CASE SaveUpdate
  <2> DEFINE row == Merged(consumer.copy, consumer.msg.body)
  <2>1. /\ consumer.msg \in StatusMsg
        /\ consumer.copy \in Row
        /\ ~consumer.copy.pdf
    BY <1>6 DEF SaveUpdate, ConsumerInv
  <2>2. row \in Row /\ (row.pdf <=> row.status = "COMPLETED")
    BY <2>1, MergedType DEF StatusMsg
  <2>3. /\ job' = [job EXCEPT ![consumer.msg.job] = row]
        /\ consumer' = IdleConsumer
        /\ UNCHANGED <<lastEvent, jobStatus, unread, redelivered>>
    BY <1>6 DEF SaveUpdate
  <2> HIDE DEF row
  <2>4. TypeOK'
    BY <1>1, <2>1, <2>2, <2>3 DEF TypeOK, IdleConsumer
  <2>5. ConsumerInv'
    BY <2>3 DEF ConsumerInv, IdleConsumer
  <2>6. ReportLinkMatchesVerdict'
    BY <2>1, <2>2, <2>3 DEF TypeOK, ReportLinkMatchesVerdict, Saved
  <2> QED
    BY <1>2, <2>4, <2>5, <2>6
<1> QED
  BY <1>3, <1>4, <1>5, <1>6 DEF Apply

\* Every statement of submit() and of applyStatusUpdate() keeps the link with the
\* status, in the row and in the copy that is to be saved.
THEOREM RowInvStep == RowInv /\ [Next]_vars => RowInv'
<1> SUFFICES ASSUME RowInv, [Next]_vars PROVE RowInv'
  OBVIOUS
<1>1. CASE \E t \in HttpThreads : Submit(t)
  BY <1>1, GuardingSteps, WritingSteps DEF Submit
<1>2. CASE Apply \/ OrchestratorPublish
  BY <1>2, ListenerSteps
<1>3. CASE UNCHANGED vars
  BY <1>3 DEF vars, RowInv, TypeOK, HttpInv, ConsumerInv, ReportLinkMatchesVerdict, Saved
<1> QED
  BY <1>1, <1>2, <1>3 DEF Next

\* The variables of the gateway keep their types, for any constants.
THEOREM TypeCorrect == Spec => []TypeOK
<1>1. RowInv => TypeOK
  BY DEF RowInv
<1> QED
  BY <1>1, RowInvInit, RowInvStep, PTL DEF Spec

\* A saved row has a report link exactly when it is COMPLETED, for any
\* constants: publications that are delivered and reported as failed included.
THEOREM ReportLinks == Spec => []ReportLinkMatchesVerdict
<1>1. RowInv => ReportLinkMatchesVerdict
  BY DEF RowInv
<1> QED
  BY <1>1, RowInvInit, RowInvStep, PTL DEF Spec

----------------------------------------------------------------------------
\* Terminal rows.  From the insert to the end of the publication a row belongs
\* to its thread: nobody else has heard of the job.  Once it is published it
\* belongs to the listener, which is alone in writing it.

Unpublished(t) == http[t].pc \in {"log_submitted", "publish", "save_failed"}

OwnerInv ==
    /\ \A t \in HttpThreads : Unpublished(t) =>
         /\ http[t].job \in Saved
         /\ http[t].job \notin jobSubmitted
         /\ job[http[t].job].status = "PENDING"
    /\ \A t, u \in HttpThreads :
         Unpublished(t) /\ Unpublished(u) /\ http[t].job = http[u].job => t = u
    /\ jobSubmitted \subseteq Saved
    /\ \A m \in jobStatus : m.job \in jobSubmitted
    /\ consumer.pc # "idle" =>
         /\ consumer.msg \in jobStatus
         /\ job[consumer.msg.job] = consumer.copy

LEMMA OwnerInvInit == Init => OwnerInv
BY DEF Init, OwnerInv, Unpublished, Saved, IdleThread, IdleConsumer

LEMMA OwnerInvStep ==
    ASSUME ~AmbiguousPublish, RowInv, OwnerInv, [Next]_vars
    PROVE  OwnerInv'
<1> USE DEF RowInv
<1>1. ASSUME NEW t \in HttpThreads,
             StartSubmit(t) \/ CheckReport(t) \/ CheckProject(t) \/ CheckUser(t)
               \/ CheckCapacity(t)
      PROVE  OwnerInv'
  <2>1. /\ UNCHANGED <<job, consumer, jobSubmitted, jobStatus>>
        /\ \A u \in HttpThreads : u # t => http'[u] = http[u]
        /\ ~Unpublished(t)'
    BY <1>1, GuardingSteps DEF Unpublished
  <2>2. \A u \in HttpThreads : Unpublished(u)' => Unpublished(u) /\ http'[u] = http[u]
    BY <2>1 DEF Unpublished
  <2> QED
    BY <2>1, <2>2 DEF OwnerInv, Saved
<1>2. ASSUME NEW t \in HttpThreads, InsertJob(t) PROVE OwnerInv'
  <2>1. PICK j \in Jobs \ Saved :
          /\ job' = [job EXCEPT ![j] = NewRow(http[t].project, http[t].user)]
          /\ http' = [http EXCEPT ![t].pc = "log_submitted", ![t].job = j]
    BY <1>2 DEF InsertJob
  <2>2. UNCHANGED <<consumer, jobSubmitted, jobStatus>>
    BY <1>2 DEF InsertJob
  <2>3. /\ NewRow(http[t].project, http[t].user) \in Row
        /\ NewRow(http[t].project, http[t].user).status = "PENDING"
    BY <1>2, NewRowType DEF InsertJob, HttpInv
  <2>4. /\ job'[j].status = "PENDING" /\ Saved' = Saved \cup {j}
        /\ \A k \in Saved : job'[k] = job[k]
    BY <2>1, <2>3, NullAssumption DEF TypeOK, Saved
  <2>5. http'[t].job = j /\ \A u \in HttpThreads : u # t => http'[u] = http[u]
    BY <2>1 DEF TypeOK
  <2>6. \A u \in HttpThreads : u # t /\ Unpublished(u)' =>
           Unpublished(u) /\ http'[u].job = http[u].job /\ http[u].job # j
    BY <2>1, <2>5 DEF OwnerInv, Unpublished
  <2>7. consumer'.pc # "idle" => job'[consumer'.msg.job] = consumer'.copy
    BY <2>2, <2>4 DEF OwnerInv
  <2>8. \A u \in HttpThreads : Unpublished(u)' =>
          /\ http'[u].job \in Saved'
          /\ http'[u].job \notin jobSubmitted'
          /\ job'[http'[u].job].status = "PENDING"
    <3>1. j \notin jobSubmitted
      BY <2>1 DEF OwnerInv
    <3>2. \A u \in HttpThreads : u # t /\ Unpublished(u)' =>
             /\ http'[u].job \in Saved
             /\ http'[u].job \notin jobSubmitted
             /\ job[http'[u].job].status = "PENDING"
      BY <2>6 DEF OwnerInv
    <3> QED
      BY <2>2, <2>4, <2>5, <3>1, <3>2
  <2>9. \A u, v \in HttpThreads :
          Unpublished(u)' /\ Unpublished(v)' /\ http'[u].job = http'[v].job => u = v
    BY <2>5, <2>6 DEF OwnerInv
  <2>10. /\ jobSubmitted' \subseteq Saved'
         /\ \A m \in jobStatus' : m.job \in jobSubmitted'
         /\ consumer'.pc # "idle" => consumer'.msg \in jobStatus'
    BY <2>2, <2>4 DEF OwnerInv
  <2> QED
    BY <2>7, <2>8, <2>9, <2>10 DEF OwnerInv
<1>3. ASSUME NEW t \in HttpThreads, LogSubmitted(t) \/ PublishAttemptFails(t)
      PROVE  OwnerInv'
  <2>1. UNCHANGED <<job, consumer, jobSubmitted, jobStatus>> /\ Unpublished(t)
    BY <1>3 DEF LogSubmitted, PublishAttemptFails, Unpublished
  <2>2. \A u \in HttpThreads : Unpublished(u)' =>
           Unpublished(u) /\ http'[u].job = http[u].job
    BY <1>3, <2>1 DEF LogSubmitted, PublishAttemptFails, Goto, TypeOK, Unpublished
  <2> QED
    BY <2>1, <2>2 DEF OwnerInv, Saved
<1>4. ASSUME NEW t \in HttpThreads, PublishAcknowledged(t) PROVE OwnerInv'
  <2>1. /\ UNCHANGED <<job, consumer, jobStatus>>
        /\ jobSubmitted' = jobSubmitted \cup {http[t].job}
        /\ Unpublished(t)
    BY <1>4 DEF PublishAcknowledged, Unpublished
  <2>2. \A u \in HttpThreads : Unpublished(u)' =>
           Unpublished(u) /\ http'[u].job = http[u].job /\ u # t
    BY <1>4 DEF PublishAcknowledged, IdleThread, TypeOK, Unpublished
  <2> QED
    BY <2>1, <2>2 DEF OwnerInv, Saved
<1>5. ASSUME NEW t \in HttpThreads, SaveFailed(t) PROVE OwnerInv'
  <2>1. /\ UNCHANGED <<consumer, jobSubmitted, jobStatus>>
        /\ Unpublished(t)
        /\ http[t].job \in Jobs
    BY <1>5 DEF SaveFailed, Unpublished, HttpInv
  <2>2. \A u \in HttpThreads : Unpublished(u)' =>
           Unpublished(u) /\ http'[u].job = http[u].job /\ u # t
    BY <1>5 DEF SaveFailed, Goto, TypeOK, Unpublished
  <2>3. Saved' = Saved /\ \A k \in Jobs : k # http[t].job => job'[k] = job[k]
    <3>1. [NewRow(http[t].project, http[t].user) EXCEPT !.status = "FAILED"] \in Row
      BY <1>5, NewRowType DEF SaveFailed, HttpInv
    <3> QED
      BY <1>5, <2>1, <3>1, NullAssumption DEF SaveFailed, OwnerInv, TypeOK, Saved
  <2>4. consumer'.pc # "idle" => job'[consumer'.msg.job] = consumer'.copy
    BY <2>1, <2>3 DEF OwnerInv, Saved
  <2>5. \A u \in HttpThreads : Unpublished(u)' =>
           http'[u].job # http[t].job /\ http'[u].job \in Jobs
    BY <2>1, <2>2 DEF OwnerInv, Saved
  <2> QED
    BY <2>1, <2>2, <2>3, <2>4, <2>5 DEF OwnerInv
<1>6. ASSUME NEW t \in HttpThreads, LogFailed(t) \/ PayloadRaises(t) PROVE OwnerInv'
  <2>1. UNCHANGED <<job, consumer, jobSubmitted, jobStatus>>
    BY <1>6 DEF LogFailed, PayloadRaises
  <2>2. \A u \in HttpThreads : Unpublished(u)' =>
           Unpublished(u) /\ http'[u].job = http[u].job
    BY <1>6 DEF LogFailed, PayloadRaises, IdleThread, TypeOK, Unpublished
  <2> QED
    BY <2>1, <2>2 DEF OwnerInv, Saved
<1>7. CASE DropUpdate \/ LogUpdate
  <2>1. /\ UNCHANGED <<job, http, jobSubmitted, jobStatus>>
        /\ consumer'.msg = consumer.msg /\ consumer'.copy = consumer.copy
        /\ consumer'.pc # "idle" => consumer.pc # "idle"
    BY <1>7 DEF DropUpdate, LogUpdate, TypeOK
  <2> QED
    BY <2>1 DEF OwnerInv, Unpublished, Saved
<1>8. CASE ReadForUpdate
  <2>1. UNCHANGED <<job, http, jobSubmitted, jobStatus>>
    BY <1>8 DEF ReadForUpdate
  <2>2. consumer'.msg \in jobStatus /\ job[consumer'.msg.job] = consumer'.copy
    BY <1>8 DEF ReadForUpdate, TypeOK
  <2> QED
    BY <2>1, <2>2 DEF OwnerInv, Unpublished, Saved
<1>9. CASE SaveUpdate
  <2>1. /\ UNCHANGED <<http, jobSubmitted, jobStatus>>
        /\ consumer'.pc = "idle"
        /\ consumer.msg.job \in jobSubmitted
        /\ consumer.msg.job \in Jobs
    BY <1>9 DEF SaveUpdate, IdleConsumer, OwnerInv, ConsumerInv, StatusMsg, Saved
  <2>2. Saved' = Saved /\ \A k \in Jobs : k # consumer.msg.job => job'[k] = job[k]
    <3>1. Merged(consumer.copy, consumer.msg.body) \in Row
      BY <1>9, MergedType DEF SaveUpdate, ConsumerInv, StatusMsg
    <3> QED
      BY <1>9, <2>1, <3>1, NullAssumption DEF SaveUpdate, OwnerInv, TypeOK, Saved
  <2> QED
    BY <2>1, <2>2 DEF OwnerInv, Unpublished, Saved
<1>10. CASE OrchestratorPublish
  <2>1. /\ UNCHANGED <<job, http, consumer, jobSubmitted>>
        /\ \E j \in jobSubmitted, k \in StatusKinds :
             jobStatus' = jobStatus \cup {[job |-> j, body |-> k]}
    BY <1>10 DEF OrchestratorPublish
  <2> QED
    BY <2>1 DEF OwnerInv, Unpublished, Saved
<1>11. CASE UNCHANGED vars
  BY <1>11 DEF vars, OwnerInv, Unpublished, Saved
<1> QED
  BY <1>1, <1>2, <1>3, <1>4, <1>5, <1>6, <1>7, <1>8, <1>9, <1>10, <1>11
     DEF Next, Submit, Apply

\* A step writes a row that is not there yet, or an active one.
LEMMA TerminalRowsKept ==
    ASSUME RowInv, OwnerInv, Next
    PROVE  \A j \in Saved : job[j].status \in TerminalStatus => job'[j] = job[j]
<1> USE DEF RowInv
<1>1. ASSUME NEW t \in HttpThreads, InsertJob(t)
      PROVE  \A j \in Saved : job'[j] = job[j]
  BY <1>1 DEF InsertJob, TypeOK, Saved
<1>2. ASSUME NEW t \in HttpThreads, SaveFailed(t), NEW j \in Saved,
             job[j].status \in TerminalStatus
      PROVE  job'[j] = job[j]
  <2>1. j # http[t].job
    BY <1>2 DEF SaveFailed, OwnerInv, Unpublished, TerminalStatus
  <2> QED
    BY <1>2, <2>1 DEF SaveFailed, TypeOK, Saved
<1>3. ASSUME SaveUpdate, NEW j \in Saved, job[j].status \in TerminalStatus
      PROVE  job'[j] = job[j]
  <2>1. j # consumer.msg.job
    BY <1>3 DEF SaveUpdate, OwnerInv, ConsumerInv, TerminalStatus, ActiveStatus
  <2> QED
    BY <1>3, <2>1 DEF SaveUpdate, TypeOK, Saved
<1>4. CASE UNCHANGED job
  BY <1>4
<1> QED
  BY <1>1, <1>2, <1>3, <1>4
     DEF Next, Submit, StartSubmit, CheckReport, CheckProject, CheckUser, CheckCapacity,
         Guarding, PayloadRaises, LogSubmitted, PublishAcknowledged, PublishAttemptFails,
         LogFailed, Apply, DropUpdate, ReadForUpdate, LogUpdate, OrchestratorPublish

\* As long as a publication reported as failed was not delivered, a COMPLETED or
\* FAILED row is never written again, however many requests run at once.
THEOREM TerminalRowsAreFinal ==
    ASSUME ~AmbiguousPublish
    PROVE  Spec => TerminalAbsorbing
<1>1. Init => RowInv /\ OwnerInv
  BY RowInvInit, OwnerInvInit
<1>2. RowInv /\ OwnerInv /\ [Next]_vars => (RowInv /\ OwnerInv)'
  BY RowInvStep, OwnerInvStep
<1>3. RowInv /\ OwnerInv /\ [Next]_vars =>
        [\A j \in Saved : job[j].status \in TerminalStatus => job'[j] = job[j]]_job
  BY TerminalRowsKept DEF vars
<1> QED
  BY <1>1, <1>2, <1>3, PTL DEF Spec, TerminalAbsorbing
----------------------------------------------------------------------------
\* Progress.  The listener reads a row, and later writes over it what it read
\* with one entry more; meanwhile the catch block of submit() may have replaced
\* the row.  No assumption on publications is needed.

\* A job that a message can be about has a row, and rows are never deleted.
PublishedInv ==
    /\ jobSubmitted \subseteq Saved
    /\ \A t \in HttpThreads :
         http[t].pc \in {"log_submitted", "publish", "save_failed", "log_failed"}
           => http[t].job \in Saved
    /\ \A m \in jobStatus : m.job \in jobSubmitted
    /\ consumer.pc # "idle" => consumer.msg \in jobStatus

\* The messages about an image that the listener has finished with.
Finished == {m \in jobStatus \ unread :
               m.body.image # Null /\ (consumer.pc = "idle" \/ m # consumer.msg)}

Recorded(row, m) == row.progress[m.body.image] # "none"

\* Their entries are in the row of an active job and in the copy that the
\* listener will write over the row, whatever the row has become meanwhile.
ProgressInv ==
    \A m \in Finished :
        /\ m.job \in Active => Recorded(job[m.job], m)
        /\ consumer.pc # "idle" /\ m.job = consumer.msg.job => Recorded(consumer.copy, m)

LEMMA PublishedInvInit == Init => PublishedInv /\ ProgressInv
BY DEF Init, PublishedInv, ProgressInv, Finished, IdleThread, IdleConsumer, Saved

\* A step of submit() leaves the listener alone and takes no row away.
LEMMA SubmitFrame ==
    ASSUME RowInv, PublishedInv, NEW t \in HttpThreads, Submit(t)
    PROVE  /\ UNCHANGED <<consumer, jobStatus, unread, redelivered>>
           /\ Saved \subseteq Saved'
           /\ \A j \in Saved : j \in Active' => job'[j] = job[j]
           /\ \A u \in HttpThreads : u # t => http'[u] = http[u]
<1> USE DEF RowInv
<1>1. UNCHANGED <<consumer, jobStatus, unread, redelivered>>
  BY DEF Submit, StartSubmit, CheckReport, CheckProject, CheckUser, CheckCapacity, Guarding,
         InsertJob, PayloadRaises, LogSubmitted, PublishAcknowledged, PublishAttemptFails,
         SaveFailed, LogFailed
<1>2. \A u \in HttpThreads : u # t => http'[u] = http[u]
  BY DEF Submit, StartSubmit, CheckReport, CheckProject, CheckUser, CheckCapacity, Guarding,
         InsertJob, PayloadRaises, LogSubmitted, PublishAcknowledged, PublishAttemptFails,
         SaveFailed, LogFailed, Goto, TypeOK
<1>3. Saved \subseteq Saved' /\ \A j \in Saved : j \in Active' => job'[j] = job[j]
  <2>1. CASE InsertJob(t)
    BY <2>1 DEF InsertJob, TypeOK, Saved
  <2>2. CASE SaveFailed(t)
    <3> DEFINE row == [NewRow(http[t].project, http[t].user) EXCEPT !.status = "FAILED"]
    <3>1. row \in Row /\ row.status = "FAILED"
      BY <2>2, NewRowType DEF SaveFailed, HttpInv
    <3>2. http[t].job \in Saved /\ job' = [job EXCEPT ![http[t].job] = row]
      BY <2>2 DEF SaveFailed, PublishedInv
    <3> HIDE DEF row
    <3> QED
      BY <3>1, <3>2, NullAssumption DEF TypeOK, Saved, Active, ActiveStatus
  <2>3. CASE UNCHANGED job
    BY <2>3 DEF Saved
  <2> QED
    BY <2>1, <2>2, <2>3
       DEF Submit, StartSubmit, CheckReport, CheckProject, CheckUser, CheckCapacity,
           Guarding, PayloadRaises, LogSubmitted, PublishAcknowledged, PublishAttemptFails,
           LogFailed
<1> QED
  BY <1>1, <1>2, <1>3

LEMMA PublishedSubmit ==
    ASSUME RowInv, PublishedInv, NEW t \in HttpThreads, Submit(t)
    PROVE  PublishedInv'
<1> USE DEF RowInv
<1>0. /\ UNCHANGED <<consumer, jobStatus, unread, redelivered>>
      /\ Saved \subseteq Saved'
      /\ \A u \in HttpThreads : u # t => http'[u] = http[u]
  BY SubmitFrame
<1>1. /\ http'[t].pc \in {"log_submitted", "publish", "save_failed", "log_failed"}
           => http'[t].job \in Saved'
      /\ jobSubmitted \subseteq jobSubmitted' /\ jobSubmitted' \subseteq Saved'
  <2>1. CASE StartSubmit(t) \/ CheckReport(t) \/ CheckProject(t) \/ CheckUser(t)
               \/ CheckCapacity(t)
    BY <1>0, <2>1, GuardingSteps DEF PublishedInv
  <2>2. CASE InsertJob(t)
    <3>1. PICK j \in Jobs \ Saved :
            /\ job' = [job EXCEPT ![j] = NewRow(http[t].project, http[t].user)]
            /\ http' = [http EXCEPT ![t].pc = "log_submitted", ![t].job = j]
      BY <2>2 DEF InsertJob
    <3>2. NewRow(http[t].project, http[t].user) \in Row
      BY <2>2, NewRowType DEF InsertJob, HttpInv
    <3>3. j \in Saved'
      BY <3>1, <3>2, NullAssumption DEF TypeOK, Saved
    <3>4. http'[t].job = j /\ jobSubmitted' = jobSubmitted
      BY <2>2, <3>1 DEF InsertJob, TypeOK
    <3> QED
      BY <1>0, <3>3, <3>4 DEF PublishedInv
  <2>3. CASE PayloadRaises(t) \/ LogSubmitted(t) \/ PublishAcknowledged(t)
               \/ PublishAttemptFails(t) \/ SaveFailed(t) \/ LogFailed(t)
    <3>1. http[t].job \in Saved
      BY <2>3 DEF PayloadRaises, LogSubmitted, PublishAcknowledged, PublishAttemptFails,
                  SaveFailed, LogFailed, PublishedInv
    <3>2. http'[t].job = http[t].job \/ http'[t] = IdleThread
      BY <2>3 DEF PayloadRaises, LogSubmitted, PublishAcknowledged, PublishAttemptFails,
                  SaveFailed, LogFailed, Goto, TypeOK
    <3>3. jobSubmitted' = jobSubmitted \/ jobSubmitted' = jobSubmitted \cup {http[t].job}
      BY <2>3 DEF PayloadRaises, LogSubmitted, PublishAcknowledged, PublishAttemptFails,
                  SaveFailed, LogFailed
    <3> QED
      BY <1>0, <3>1, <3>2, <3>3 DEF PublishedInv, IdleThread
  <2> QED
    BY <2>1, <2>2, <2>3 DEF Submit
<1> QED
  BY <1>0, <1>1 DEF PublishedInv

LEMMA ProgressSubmit ==
    ASSUME RowInv, PublishedInv, ProgressInv, NEW t \in HttpThreads, Submit(t)
    PROVE  ProgressInv'
<1>1. /\ UNCHANGED <<consumer, jobStatus, unread, redelivered>>
      /\ \A j \in Saved : j \in Active' => job'[j] = job[j]
  BY SubmitFrame
<1>2. Finished' = Finished
  BY <1>1 DEF Finished
<1>3. \A m \in Finished : m.job \in Saved
  BY DEF Finished, PublishedInv
<1>4. ASSUME NEW m \in Finished, m.job \in Active' PROVE Recorded(job'[m.job], m)
  <2>1. job'[m.job] = job[m.job] /\ m.job \in Active
    BY <1>1, <1>3, <1>4 DEF Active, Saved
  <2> QED
    BY <2>1 DEF ProgressInv
<1> QED
  BY <1>1, <1>2, <1>4 DEF ProgressInv, Recorded

\* A merged row has the new entry and every entry of the copy.
LEMMA MergedProgress ==
    ASSUME NEW row \in Row, NEW body \in StatusKinds
    PROVE  /\ body.image # Null => Merged(row, body).progress[body.image] # "none"
           /\ \A i \in ImageKeys : row.progress[i] # "none"
                                     => Merged(row, body).progress[i] # "none"
<1>1. /\ body.image \in ImageKeys \cup {Null}
      /\ body.image # Null => body.imageState # "none"
  BY StatusKindsAssumption DEF StatusBody
<1>2. row.progress \in [ImageKeys -> ImageState]
  BY DEF Row
<1>3. Merged(row, body).progress =
        IF body.image = Null THEN row.progress
        ELSE [row.progress EXCEPT ![body.image] = body.imageState]
  BY DEF Merged, Row
<1> QED
  BY <1>1, <1>2, <1>3

LEMMA PublishedListener ==
    ASSUME RowInv, PublishedInv, Apply \/ OrchestratorPublish
    PROVE  /\ PublishedInv'
           /\ UNCHANGED <<http, jobSubmitted>>
           /\ Saved' = Saved
<1> USE DEF RowInv
<1>1. UNCHANGED <<http, jobSubmitted>>
  BY DEF Apply, DropUpdate, ReadForUpdate, LogUpdate, SaveUpdate, OrchestratorPublish
<1>2. Saved' = Saved
  <2>1. CASE SaveUpdate
    <3>1. Merged(consumer.copy, consumer.msg.body) \in Row
      BY <2>1, MergedType DEF SaveUpdate, ConsumerInv, StatusMsg
    <3>2. consumer.msg.job \in Saved
      BY <2>1 DEF SaveUpdate, PublishedInv
    <3> QED
      BY <2>1, <3>1, <3>2, NullAssumption DEF SaveUpdate, TypeOK, Saved
  <2>2. CASE UNCHANGED job
    BY <2>2 DEF Saved
  <2> QED
    BY <2>1, <2>2
       DEF Apply, DropUpdate, ReadForUpdate, LogUpdate, SaveUpdate, OrchestratorPublish
<1>3. \A m \in jobStatus' : m.job \in jobSubmitted
  <2>1. CASE OrchestratorPublish
    <3>1. PICK j \in jobSubmitted, k \in StatusKinds :
            jobStatus' = jobStatus \cup {[job |-> j, body |-> k]}
      BY <2>1 DEF OrchestratorPublish
    <3> QED
      BY <3>1 DEF PublishedInv
  <2>2. CASE UNCHANGED jobStatus
    BY <2>2 DEF PublishedInv
  <2> QED
    BY <2>1, <2>2 DEF Apply, DropUpdate, ReadForUpdate, LogUpdate, SaveUpdate
<1>4. jobStatus \subseteq jobStatus'
  BY DEF Apply, DropUpdate, ReadForUpdate, LogUpdate, SaveUpdate, OrchestratorPublish
<1>5. consumer'.pc # "idle" => consumer'.msg \in jobStatus
  <2>1. CASE ReadForUpdate
    BY <2>1 DEF ReadForUpdate, TypeOK
  <2>2. CASE LogUpdate
    BY <2>2 DEF LogUpdate, TypeOK, PublishedInv
  <2>3. CASE SaveUpdate
    BY <2>3 DEF SaveUpdate, IdleConsumer
  <2>4. CASE DropUpdate \/ OrchestratorPublish
    BY <2>4 DEF DropUpdate, OrchestratorPublish, PublishedInv
  <2> QED
    BY <2>1, <2>2, <2>3, <2>4 DEF Apply
<1> QED
  BY <1>1, <1>2, <1>3, <1>4, <1>5 DEF PublishedInv

LEMMA ProgressListener ==
    ASSUME RowInv, PublishedInv, ProgressInv, Apply \/ OrchestratorPublish
    PROVE  ProgressInv'
<1> USE DEF RowInv
<1>1. CASE DropUpdate
  <2>1. PICK m \in unread : /\ Take(m)
                            /\ job[m.job] # Null => job[m.job].status \in TerminalStatus
    BY <1>1 DEF DropUpdate
  <2>2. UNCHANGED <<job, consumer, jobStatus>> /\ consumer.pc = "idle"
    BY <1>1 DEF DropUpdate
  <2>3. Finished' \subseteq Finished \cup {m}
    BY <2>1, <2>2 DEF Take, Finished
  <2>4. m.job \notin Active /\ Active' = Active
    BY <2>1, <2>2 DEF Active, Saved, TerminalStatus, ActiveStatus
  <2> QED
    BY <2>2, <2>3, <2>4 DEF ProgressInv, Recorded
<1>2. CASE ReadForUpdate
  <2>1. PICK m \in unread :
          /\ Take(m)
          /\ job[m.job] # Null
          /\ job[m.job].status \notin TerminalStatus
          /\ consumer' = [pc |-> "log", msg |-> m, copy |-> job[m.job]]
    BY <1>2 DEF ReadForUpdate
  <2>2. UNCHANGED <<job, jobStatus>> /\ consumer.pc = "idle"
    BY <1>2 DEF ReadForUpdate
  <2>3. Finished' \subseteq Finished
    BY <2>1, <2>2 DEF Take, Finished
  <2>4. Active' = Active
    BY <2>2 DEF Active, Saved
  <2>5. m.job \in Active
    <3>1. m.job \in Jobs
      BY DEF TypeOK, StatusMsg
    <3>2. job[m.job] \in Row
      BY <2>1, <3>1 DEF TypeOK
    <3> QED
      BY <2>1, <3>1, <3>2 DEF Row, JobStatus, Active, Saved
  <2>6. consumer'.msg = m /\ consumer'.copy = job[m.job]
    BY <2>1
  <2>7. \A n \in Finished : n.job \in Active => Recorded(job[n.job], n)
    BY DEF ProgressInv
  <2>8. ASSUME NEW n \in Finished, n.job = m.job PROVE Recorded(consumer'.copy, n)
    BY <2>5, <2>6, <2>7, <2>8
  <2> QED
    BY <2>2, <2>3, <2>4, <2>6, <2>7, <2>8 DEF ProgressInv, Recorded
<1>3. CASE LogUpdate
  <2>1. /\ UNCHANGED <<job, jobStatus, unread>>
        /\ consumer.pc # "idle" /\ consumer'.pc # "idle"
        /\ consumer'.msg = consumer.msg /\ consumer'.copy = consumer.copy
    BY <1>3 DEF LogUpdate, TypeOK
  <2>2. Finished' = Finished /\ Active' = Active
    BY <2>1 DEF Finished, Active, Saved
  <2> QED
    BY <2>1, <2>2 DEF ProgressInv, Recorded
<1>4. CASE SaveUpdate
  <2> DEFINE row == Merged(consumer.copy, consumer.msg.body)
  <2>1. /\ UNCHANGED <<jobStatus, unread>>
        /\ consumer.pc = "save" /\ consumer'.pc = "idle"
        /\ consumer.msg \in StatusMsg
        /\ job' = [job EXCEPT ![consumer.msg.job] = row]
    BY <1>4 DEF SaveUpdate, IdleConsumer, ConsumerInv
  <2>2. /\ consumer.msg.body.image # Null => row.progress[consumer.msg.body.image] # "none"
        /\ \A i \in ImageKeys : consumer.copy.progress[i] # "none"
                                  => row.progress[i] # "none"
    BY <2>1, MergedProgress DEF ConsumerInv, StatusMsg
  <2>3. Finished' \subseteq Finished \cup {consumer.msg}
    BY <2>1 DEF Finished
  <2> HIDE DEF row
  <2>4. ASSUME NEW m \in Finished', m.job \in Active' PROVE Recorded(job'[m.job], m)
    <3>1. /\ m \in jobStatus /\ m \in StatusMsg /\ m.body.image # Null
          /\ m.job \in Jobs /\ m.body.image \in ImageKeys
      BY <2>1, StatusKindsAssumption DEF Finished, TypeOK, StatusMsg, StatusBody
    <3>2. CASE m.job = consumer.msg.job
      <4>1. job'[m.job] = row
        BY <2>1, <3>1, <3>2 DEF TypeOK
      <4>2. CASE m = consumer.msg
        BY <2>2, <3>1, <4>1, <4>2 DEF Recorded
      <4>3. CASE m # consumer.msg
        <5>1. Recorded(consumer.copy, m)
          BY <2>1, <2>3, <3>2, <4>3 DEF ProgressInv
        <5> QED
          BY <2>2, <3>1, <4>1, <5>1 DEF Recorded
      <4> QED
        BY <4>2, <4>3
    <3>3. CASE m.job # consumer.msg.job
      <4>1. job'[m.job] = job[m.job] /\ m \in Finished
        BY <2>1, <2>3, <3>1, <3>3 DEF TypeOK
      <4>2. m.job \in Active
        BY <2>4, <4>1 DEF Active, Saved
      <4> QED
        BY <4>1, <4>2 DEF ProgressInv
    <3> QED
      BY <3>2, <3>3
  <2> QED
    BY <2>1, <2>4 DEF ProgressInv
<1>5. CASE OrchestratorPublish
  <2>1. /\ UNCHANGED <<job, consumer>>
        /\ jobStatus' \ unread' \subseteq jobStatus \ unread
    BY <1>5 DEF OrchestratorPublish
  <2>2. Finished' \subseteq Finished /\ Active' = Active
    BY <2>1 DEF Finished, Active, Saved
  <2> QED
    BY <2>1, <2>2 DEF ProgressInv, Recorded
<1> QED
  BY <1>1, <1>2, <1>3, <1>4, <1>5 DEF Apply

LEMMA ProgressStep ==
    RowInv /\ PublishedInv /\ ProgressInv /\ [Next]_vars => (PublishedInv /\ ProgressInv)'
<1> SUFFICES ASSUME RowInv, PublishedInv, ProgressInv, [Next]_vars
             PROVE  PublishedInv' /\ ProgressInv'
  OBVIOUS
<1>1. CASE \E t \in HttpThreads : Submit(t)
  BY <1>1, PublishedSubmit, ProgressSubmit
<1>2. CASE Apply \/ OrchestratorPublish
  BY <1>2, PublishedListener, ProgressListener
<1>3. CASE UNCHANGED vars
  BY <1>3 DEF vars, PublishedInv, ProgressInv, Finished, Recorded, Active, Saved
<1> QED
  BY <1>1, <1>2, <1>3 DEF Next

\* No entry of image_progress is lost, for any constants: messages delivered
\* twice, and rows that the catch block of submit() overwrites, included.
THEOREM ProgressIsKept == Spec => []ProgressKept
<1>1. Init => RowInv /\ PublishedInv /\ ProgressInv
  BY RowInvInit, PublishedInvInit
<1>2. RowInv /\ PublishedInv /\ ProgressInv /\ [Next]_vars
        => (RowInv /\ PublishedInv /\ ProgressInv)'
  BY RowInvStep, ProgressStep
<1>3. ProgressInv => ProgressKept
  BY DEF ProgressInv, ProgressKept, Finished, Recorded
<1> QED
  BY <1>1, <1>2, <1>3, PTL DEF Spec

----------------------------------------------------------------------------
\* The event log.  Row and event are written in separate transactions, by the
\* thread that holds the job or by the listener; the newest event may lag only
\* while one of them is between the two.

Holding(t) == http[t].pc \in {"log_submitted", "publish", "save_failed", "log_failed"}

\* The newest event tells the status of the row.
Told(j) == lastEvent[j] = job[j].status

\* One of the writers of j has yet to write the second of the two.
Awaiting(j) ==
    \/ \E t \in HttpThreads : /\ http[t].pc \in {"log_submitted", "log_failed"}
                              /\ http[t].job = j
    \/ consumer.pc = "save" /\ consumer.msg.job = j

\* The request of j raised, and no thread holds j any more.
LeftAlone(j) ==
    Abandoned(j) /\ \A t \in HttpThreads : Holding(t) => http[t].job # j

LogInv ==
    /\ \A t \in HttpThreads : Holding(t) => http[t].job \in Saved \ jobSubmitted
    /\ \A t, u \in HttpThreads :
         Holding(t) /\ Holding(u) /\ http[t].job = http[u].job => t = u
    /\ \A t \in HttpThreads :
         http[t].pc = "log_failed" => job[http[t].job].status = "FAILED"
    /\ consumer.pc = "save" =>
         lastEvent[consumer.msg.job] = consumer.msg.body.status
    /\ \A j \in Jobs \ Saved : lastEvent[j] = "NONE"
    /\ \A t \in HttpThreads :
         http[t].pc = "log_submitted" => lastEvent[http[t].job] = "NONE"
    /\ \A j \in Saved : Told(j) \/ Awaiting(j) \/ LeftAlone(j)

LEMMA LogInvInit == Init => LogInv
BY NullAssumption DEF Init, LogInv, Holding, Saved, IdleThread, IdleConsumer

LEMMA LogInvSubmit ==
    ASSUME ~AmbiguousPublish, RowInv, OwnerInv, LogInv, NEW t \in HttpThreads, Submit(t)
    PROVE  LogInv'
<1> USE DEF RowInv
<1>1. CASE StartSubmit(t) \/ CheckReport(t) \/ CheckProject(t) \/ CheckUser(t)
             \/ CheckCapacity(t)
  <2>1. /\ UNCHANGED <<job, lastEvent, consumer, jobSubmitted>>
        /\ \A u \in HttpThreads : u # t => http'[u] = http[u]
        /\ ~Holding(t)'
    BY <1>1, GuardingSteps DEF Holding
  <2>2. ~Holding(t)
    BY <1>1 DEF StartSubmit, CheckReport, CheckProject, CheckUser, CheckCapacity, Guarding,
                Holding
  <2>3. \A k \in Saved : Told(k)' \/ Awaiting(k)' \/ LeftAlone(k)'
    <3>1. \A k \in Saved : Told(k) => Told(k)'
      BY <2>1 DEF Told
    <3>2. \A k \in Saved : Awaiting(k) => Awaiting(k)'
      BY <2>1, <2>2 DEF Awaiting, Holding
    <3>3. \A k \in Saved : LeftAlone(k) => LeftAlone(k)'
      BY <2>1 DEF LeftAlone, Abandoned, Holding
    <3> QED
      BY <3>1, <3>2, <3>3 DEF LogInv
  <2> QED
    BY <2>1, <2>2, <2>3 DEF LogInv, Holding, Saved
<1>2. CASE InsertJob(t)
  <2>1. PICK j \in Jobs \ Saved :
          /\ job' = [job EXCEPT ![j] = NewRow(http[t].project, http[t].user)]
          /\ http' = [http EXCEPT ![t].pc = "log_submitted", ![t].job = j]
    BY <1>2 DEF InsertJob
  <2>2. UNCHANGED <<lastEvent, consumer, jobSubmitted>>
    BY <1>2 DEF InsertJob
  <2>3. NewRow(http[t].project, http[t].user) \in Row
    BY <1>2, NewRowType DEF InsertJob, HttpInv
  <2>4. Saved' = Saved \cup {j} /\ \A k \in Saved : job'[k] = job[k]
    BY <2>1, <2>3, NullAssumption DEF TypeOK, Saved
  <2>5. /\ http'[t].job = j /\ http'[t].pc = "log_submitted"
        /\ \A u \in HttpThreads : u # t => http'[u] = http[u]
    BY <2>1 DEF TypeOK
  <2>6. \A u \in HttpThreads : Holding(u) => http[u].job # j /\ u # t
    BY <1>2, <2>1 DEF LogInv, InsertJob, Holding
  <2>7. j \notin jobSubmitted
    BY <2>1 DEF OwnerInv
  <2>8. \A u \in HttpThreads : Holding(u)' => u = t \/ (Holding(u) /\ http'[u] = http[u])
    BY <2>5 DEF Holding
  <2>9. \A u \in HttpThreads : Holding(u)' => http'[u].job \in Saved' \ jobSubmitted'
    BY <2>2, <2>4, <2>5, <2>7, <2>8 DEF LogInv
  <2>10. \A u, v \in HttpThreads :
           Holding(u)' /\ Holding(v)' /\ http'[u].job = http'[v].job => u = v
    BY <2>5, <2>6, <2>8 DEF LogInv
  <2>11. \A u \in HttpThreads :
           http'[u].pc = "log_failed" => job'[http'[u].job].status = "FAILED"
    BY <2>4, <2>5 DEF LogInv, Holding
  <2>12. ASSUME NEW k \in Saved'
         PROVE  Told(k)' \/ Awaiting(k)' \/ LeftAlone(k)'
    <3>1. CASE k = j
      BY <2>5, <3>1 DEF Awaiting
    <3>2. CASE k # j
      <4>1. k \in Saved /\ job'[k] = job[k]
        BY <2>4, <3>2
      <4>2. \A u \in HttpThreads : http[u].pc \in {"log_submitted", "log_failed"}
                                     => http'[u] = http[u]
        BY <2>5, <2>6 DEF Holding
      <4>3. Told(k) => Told(k)'
        BY <2>2, <4>1 DEF Told
      <4>4. Awaiting(k) => Awaiting(k)'
        BY <2>2, <4>2 DEF Awaiting
      <4>5. LeftAlone(k) => LeftAlone(k)'
        BY <2>2, <2>5, <2>8, <3>2, <4>1 DEF LeftAlone, Abandoned
      <4> QED
        BY <4>1, <4>3, <4>4, <4>5 DEF LogInv
    <3> QED
      BY <3>1, <3>2
  <2>13. \A u \in HttpThreads :
           http'[u].pc = "log_submitted" => lastEvent'[http'[u].job] = "NONE"
    <3>1. lastEvent[j] = "NONE"
      BY <2>1 DEF LogInv
    <3>2. \A u \in HttpThreads :
            http[u].pc = "log_submitted" => lastEvent[http[u].job] = "NONE"
      BY DEF LogInv
    <3> QED
      BY <2>2, <2>5, <3>1, <3>2
  <2>14. \A k \in Jobs \ Saved' : lastEvent'[k] = "NONE"
    BY <2>2, <2>4 DEF LogInv
  <2> QED
    BY <2>2, <2>9, <2>10, <2>11, <2>12, <2>13, <2>14 DEF LogInv
<1>3. CASE LogSubmitted(t) \/ LogFailed(t)
  <2>1. /\ UNCHANGED <<job, consumer, jobSubmitted>>
        /\ http[t].pc \in {"log_submitted", "log_failed"}
        /\ Holding(t)
    BY <1>3 DEF LogSubmitted, LogFailed, Holding
  <2>2. http[t].job \in Saved /\ http[t].job \in Jobs /\ http[t].job \notin jobSubmitted
    BY <2>1 DEF LogInv, Saved
  <2>3. lastEvent' = [lastEvent EXCEPT ![http[t].job] = job[http[t].job].status]
    BY <1>3 DEF LogSubmitted, LogFailed, LogInv, OwnerInv, Unpublished
  <2>4. /\ \A u \in HttpThreads : u # t => http'[u] = http[u]
        /\ http'[t].pc \in {"publish", "idle"}
        /\ Holding(t)' => http'[t].job = http[t].job
    BY <1>3 DEF LogSubmitted, LogFailed, TypeOK, IdleThread, Holding
  <2>5. lastEvent'[http[t].job] = job[http[t].job].status
        /\ \A k \in Jobs : k # http[t].job => lastEvent'[k] = lastEvent[k]
    BY <2>2, <2>3 DEF TypeOK
  <2>6. consumer.pc # "idle" => consumer.msg.job # http[t].job /\ consumer.msg.job \in Jobs
    BY <2>2 DEF OwnerInv, ConsumerInv, StatusMsg
  <2>7. \A u \in HttpThreads : Holding(u)' => Holding(u) /\ http'[u].job = http[u].job
    BY <2>1, <2>4 DEF Holding
  <2>8. ASSUME NEW k \in Saved
         PROVE  Told(k)' \/ Awaiting(k)' \/ LeftAlone(k)'
    <3>1. CASE k = http[t].job
      BY <2>1, <2>5, <3>1 DEF Told
    <3>2. CASE k # http[t].job
      <4>1. lastEvent'[k] = lastEvent[k]
        BY <2>5, <3>2 DEF Saved
      <4>2. Told(k) => Told(k)'
        BY <2>1, <4>1 DEF Told
      <4>3. Awaiting(k) => Awaiting(k)'
        BY <2>1, <2>4, <3>2 DEF Awaiting
      <4>4. LeftAlone(k) => LeftAlone(k)'
        BY <2>1, <2>7, <4>1 DEF LeftAlone, Abandoned
      <4> QED
        BY <4>2, <4>3, <4>4 DEF LogInv
    <3> QED
      BY <3>1, <3>2
  <2>9. \A u \in HttpThreads :
          http'[u].pc = "log_failed" => job[http'[u].job].status = "FAILED"
    BY <2>4 DEF LogInv
  <2>10. consumer.pc = "save" => lastEvent'[consumer.msg.job] = consumer.msg.body.status
    BY <2>5, <2>6 DEF LogInv
  <2>11. Saved' = Saved
    BY <2>1 DEF Saved
  <2>12. \A u \in HttpThreads :
           http'[u].pc = "log_submitted" => lastEvent'[http'[u].job] = "NONE"
    <3>1. \A u \in HttpThreads : http'[u].pc = "log_submitted" => u # t /\ Holding(u)
      BY <2>4 DEF Holding
    <3>2. \A u \in HttpThreads : u # t /\ Holding(u) => http[u].job # http[t].job
      BY <2>1 DEF LogInv
    <3> QED
      BY <2>4, <2>5, <3>1, <3>2 DEF LogInv, Saved
  <2>13. \A k \in Jobs \ Saved : lastEvent'[k] = "NONE"
    BY <2>2, <2>5 DEF LogInv
  <2> QED
    BY <2>1, <2>7, <2>8, <2>9, <2>10, <2>11, <2>12, <2>13 DEF LogInv
<1>4. CASE PublishAcknowledged(t) \/ PublishAttemptFails(t)
  <2>1. UNCHANGED <<job, lastEvent, consumer>> /\ http[t].pc = "publish"
    BY <1>4 DEF PublishAcknowledged, PublishAttemptFails
  <2>2. /\ \A u \in HttpThreads : u # t => http'[u] = http[u]
        /\ http'[t].pc \in {"idle", "publish", "save_failed"}
        /\ Holding(t)' => http'[t].job = http[t].job
    BY <1>4 DEF PublishAcknowledged, PublishAttemptFails, Goto, TypeOK, IdleThread, Holding
  <2>3. \/ jobSubmitted' = jobSubmitted
        \/ jobSubmitted' = jobSubmitted \cup {http[t].job} /\ ~Holding(t)'
    BY <1>4 DEF PublishAcknowledged, PublishAttemptFails, TypeOK, IdleThread, Holding
  <2>4. \A u \in HttpThreads : Holding(u)' => Holding(u) /\ http'[u].job = http[u].job
    BY <2>1, <2>2 DEF Holding
  <2>5. \A u \in HttpThreads : Holding(u)' => http'[u].job \in Saved \ jobSubmitted'
    BY <2>1, <2>3, <2>4 DEF LogInv, Holding
  <2>6. Saved' = Saved
    BY <2>1 DEF Saved
  <2>7. \A u \in HttpThreads :
          /\ http[u].pc \in {"log_submitted", "log_failed"} => http'[u] = http[u]
          /\ http'[u].pc \in {"log_submitted", "log_failed"} => http'[u] = http[u]
    BY <2>1, <2>2
  <2>8. \A k \in Saved : Told(k)' \/ Awaiting(k)' \/ LeftAlone(k)'
    <3>1. \A k \in Saved : Told(k) => Told(k)'
      BY <2>1 DEF Told
    <3>2. \A k \in Saved : Awaiting(k) => Awaiting(k)'
      BY <2>1, <2>7 DEF Awaiting
    <3>3. Holding(t)
      BY <2>1 DEF Holding
    <3>4. \A k \in Saved : LeftAlone(k) => k \notin jobSubmitted'
      BY <2>3, <3>3 DEF LeftAlone, Abandoned
    <3>5. \A k \in Saved : LeftAlone(k) => LeftAlone(k)'
      BY <2>1, <2>4, <3>4 DEF LeftAlone, Abandoned
    <3> QED
      BY <3>1, <3>2, <3>5 DEF LogInv
  <2> QED
    BY <2>1, <2>4, <2>5, <2>6, <2>7, <2>8 DEF LogInv
<1>5. CASE SaveFailed(t)
  <2> DEFINE row == [NewRow(http[t].project, http[t].user) EXCEPT !.status = "FAILED"]
  <2>1. row \in Row /\ row.status = "FAILED"
    BY <1>5, NewRowType DEF SaveFailed, HttpInv
  <2>2. /\ http[t].pc = "save_failed"
        /\ job' = [job EXCEPT ![http[t].job] = row]
        /\ http' = [http EXCEPT ![t].pc = "log_failed"]
        /\ UNCHANGED <<lastEvent, consumer, jobSubmitted>>
    BY <1>5 DEF SaveFailed, Goto
  <2> HIDE DEF row
  <2>3. http[t].job \in Saved /\ http[t].job \in Jobs
    BY <2>2 DEF LogInv, Holding, Saved
  <2>4. /\ Saved' = Saved
        /\ job'[http[t].job].status = "FAILED"
        /\ \A k \in Jobs : k # http[t].job => job'[k] = job[k]
    BY <2>1, <2>2, <2>3, NullAssumption DEF TypeOK, Saved
  <2>5. /\ \A u \in HttpThreads : u # t => http'[u] = http[u]
        /\ http'[t].pc = "log_failed" /\ http'[t].job = http[t].job
    BY <2>2 DEF TypeOK
  <2>6. \A u \in HttpThreads : Holding(u)' <=> Holding(u)
    BY <2>2, <2>5 DEF Holding
  <2>7. \A u \in HttpThreads : http'[u].job = http[u].job
    BY <2>5
  <2>8. \A u \in HttpThreads :
          http'[u].pc = "log_failed" => job'[http'[u].job].status = "FAILED"
    <3>1. \A u \in HttpThreads : u # t /\ Holding(u) =>
             http[u].job # http[t].job /\ http[u].job \in Jobs
      BY <2>2 DEF LogInv, Holding, Saved
    <3> QED
      BY <2>4, <2>5, <3>1 DEF LogInv, Holding
  <2>9. ASSUME NEW k \in Saved
         PROVE  Told(k)' \/ Awaiting(k)' \/ LeftAlone(k)'
    <3>1. CASE k = http[t].job
      BY <2>5, <3>1 DEF Awaiting
    <3>2. CASE k # http[t].job
      <4>1. job'[k] = job[k]
        BY <2>4, <3>2 DEF Saved
      <4>2. \A u \in HttpThreads : http[u].pc \in {"log_submitted", "log_failed"}
                                     => http'[u] = http[u]
        BY <2>2, <2>5
      <4>3. Told(k) => Told(k)'
        BY <2>2, <4>1 DEF Told
      <4>4. Awaiting(k) => Awaiting(k)'
        BY <2>2, <4>2 DEF Awaiting
      <4>5. LeftAlone(k) => LeftAlone(k)'
        BY <2>2, <2>6, <2>7, <4>1 DEF LeftAlone, Abandoned
      <4> QED
        BY <4>3, <4>4, <4>5 DEF LogInv
    <3> QED
      BY <3>1, <3>2
  <2>10. \A u \in HttpThreads :
           http'[u].pc = "log_submitted" => lastEvent'[http'[u].job] = "NONE"
    BY <2>2, <2>5 DEF LogInv
  <2> QED
    BY <2>2, <2>4, <2>6, <2>7, <2>8, <2>9, <2>10 DEF LogInv
<1>6. CASE PayloadRaises(t)
  <2>1. /\ UNCHANGED <<job, lastEvent, consumer, jobSubmitted>>
        /\ http[t].pc = "log_submitted" /\ Holding(t) /\ Unpublished(t)
    BY <1>6 DEF PayloadRaises, Holding, Unpublished
  <2>2. /\ \A u \in HttpThreads : u # t => http'[u] = http[u]
        /\ http'[t].pc = "idle"
    BY <1>6 DEF PayloadRaises, TypeOK, IdleThread
  <2>3. \A u \in HttpThreads : Holding(u)' => u # t /\ Holding(u) /\ http'[u] = http[u]
    BY <2>2 DEF Holding
  <2>4. Saved' = Saved
    BY <2>1 DEF Saved
  <2>5. ASSUME NEW k \in Saved
         PROVE  Told(k)' \/ Awaiting(k)' \/ LeftAlone(k)'
    <3>1. Told(k) => Told(k)'
      BY <2>1 DEF Told
    <3>2. LeftAlone(k) => LeftAlone(k)'
      BY <2>1, <2>3 DEF LeftAlone, Abandoned
    <3>3. CASE k = http[t].job
      <4>1. Abandoned(k)
        BY <2>1, <3>3 DEF LogInv, OwnerInv, Abandoned
      <4>2. \A u \in HttpThreads : Holding(u)' => http'[u].job # k
        BY <2>1, <2>3, <3>3 DEF LogInv
      <4> QED
        BY <2>1, <4>1, <4>2 DEF LeftAlone, Abandoned
    <3>4. CASE k # http[t].job
      <4>1. Awaiting(k) => Awaiting(k)'
        BY <2>1, <2>2, <3>4 DEF Awaiting
      <4> QED
        BY <3>1, <3>2, <4>1 DEF LogInv
    <3> QED
      BY <3>3, <3>4
  <2>6. \A u \in HttpThreads :
          http'[u].pc \in {"log_submitted", "log_failed"} => http'[u] = http[u]
    BY <2>2
  <2> QED
    BY <2>1, <2>3, <2>4, <2>5, <2>6 DEF LogInv
<1> QED
  BY <1>1, <1>2, <1>3, <1>4, <1>5, <1>6 DEF Submit

LEMMA LogInvListener ==
    ASSUME RowInv, OwnerInv, LogInv, Apply \/ OrchestratorPublish
    PROVE  LogInv'
<1> USE DEF RowInv
<1>0. UNCHANGED <<http, jobSubmitted>>
  BY DEF Apply, DropUpdate, ReadForUpdate, LogUpdate, SaveUpdate, OrchestratorPublish
<1>1. CASE DropUpdate \/ OrchestratorPublish
  <2>1. UNCHANGED <<job, lastEvent, consumer>>
    BY <1>1 DEF DropUpdate, OrchestratorPublish
  <2> QED
    BY <1>0, <2>1 DEF LogInv, Told, Awaiting, LeftAlone, Abandoned, Holding, Saved
<1>2. CASE ReadForUpdate
  <2>1. UNCHANGED <<job, lastEvent>> /\ consumer.pc = "idle" /\ consumer'.pc = "log"
    BY <1>2 DEF ReadForUpdate
  <2> QED
    BY <1>0, <2>1 DEF LogInv, Told, Awaiting, LeftAlone, Abandoned, Holding, Saved
<1>3. CASE LogUpdate
  <2>1. /\ UNCHANGED job
        /\ lastEvent' = [lastEvent EXCEPT ![consumer.msg.job] = consumer.msg.body.status]
        /\ consumer'.pc = "save" /\ consumer'.msg = consumer.msg
        /\ consumer.pc = "log"
    BY <1>3 DEF LogUpdate, TypeOK
  <2>2. consumer.msg.job \in Jobs /\ consumer.msg.job \in jobSubmitted
    BY <2>1 DEF ConsumerInv, StatusMsg, OwnerInv
  <2>3. /\ lastEvent'[consumer.msg.job] = consumer.msg.body.status
        /\ \A k \in Jobs : k # consumer.msg.job => lastEvent'[k] = lastEvent[k]
    BY <2>1, <2>2 DEF TypeOK
  <2>4. Saved' = Saved /\ jobSubmitted \subseteq Saved
    BY <2>1 DEF Saved, OwnerInv
  <2>5. \A t \in HttpThreads : Holding(t) =>
           http[t].job # consumer.msg.job /\ http[t].job \in Jobs
    BY <2>2 DEF LogInv, Saved
  <2>6. ASSUME NEW k \in Saved
         PROVE  Told(k)' \/ Awaiting(k)' \/ LeftAlone(k)'
    <3>1. CASE k = consumer.msg.job
      BY <2>1, <3>1 DEF Awaiting
    <3>2. CASE k # consumer.msg.job
      <4>1. lastEvent'[k] = lastEvent[k]
        BY <2>3, <3>2 DEF Saved
      <4> QED
        BY <1>0, <2>1, <4>1 DEF LogInv, Told, Awaiting, LeftAlone, Abandoned, Holding
    <3> QED
      BY <3>1, <3>2
  <2>7. \A t \in HttpThreads :
          http[t].pc = "log_submitted" => lastEvent'[http[t].job] = "NONE"
    BY <2>3, <2>5 DEF LogInv, Holding
  <2>8. \A k \in Jobs \ Saved : lastEvent'[k] = "NONE"
    BY <2>2, <2>3, <2>4 DEF LogInv
  <2> QED
    BY <1>0, <2>1, <2>3, <2>4, <2>6, <2>7, <2>8 DEF LogInv, Holding
<1>4. CASE SaveUpdate
  <2> DEFINE row == Merged(consumer.copy, consumer.msg.body)
  <2>1. /\ UNCHANGED lastEvent
        /\ job' = [job EXCEPT ![consumer.msg.job] = row]
        /\ consumer.pc = "save" /\ consumer'.pc = "idle"
        /\ consumer.msg.job \in Jobs
        /\ consumer.msg.job \in jobSubmitted
    BY <1>4 DEF SaveUpdate, IdleConsumer, ConsumerInv, StatusMsg, OwnerInv
  <2>2. row \in Row /\ row.status = consumer.msg.body.status
    <3>1. consumer.copy \in Row /\ ~consumer.copy.pdf /\ consumer.msg.body \in StatusKinds
      BY <2>1 DEF ConsumerInv, StatusMsg
    <3>2. row \in Row
      BY <3>1, MergedType
    <3>3. row.status = consumer.msg.body.status
      BY <3>1 DEF Merged, Row
    <3> QED
      BY <3>2, <3>3
  <2> HIDE DEF row
  <2>3. /\ job'[consumer.msg.job].status = consumer.msg.body.status
        /\ \A k \in Jobs : k # consumer.msg.job => job'[k] = job[k]
        /\ Saved' = Saved
    BY <2>1, <2>2, NullAssumption DEF TypeOK, Saved, OwnerInv
  <2>4. \A t \in HttpThreads : Holding(t) =>
           http[t].job # consumer.msg.job /\ http[t].job \in Jobs
    BY <2>1 DEF LogInv, Saved
  <2>5. ASSUME NEW k \in Saved
         PROVE  Told(k)' \/ Awaiting(k)' \/ LeftAlone(k)'
    <3>1. CASE k = consumer.msg.job
      BY <2>1, <2>3, <3>1 DEF Told, LogInv
    <3>2. CASE k # consumer.msg.job
      <4>1. job'[k] = job[k]
        BY <2>3, <3>2 DEF Saved
      <4> QED
        BY <1>0, <2>1, <3>2, <4>1 DEF LogInv, Told, Awaiting, LeftAlone, Abandoned, Holding
    <3> QED
      BY <3>1, <3>2
  <2> QED
    BY <1>0, <2>1, <2>3, <2>4, <2>5 DEF LogInv, Holding
<1> QED
  BY <1>1, <1>2, <1>3, <1>4 DEF Apply

\* Between handlers the newest event of a job tells the status of its row, or the
\* row is the PENDING one, never published, of a request that raised, as long as
\* a publication reported as failed was not delivered.
THEOREM EventLogFollows ==
    ASSUME ~AmbiguousPublish
    PROVE  Spec => []EventLogAgrees
<1>1. Init => RowInv /\ OwnerInv /\ LogInv
  BY RowInvInit, OwnerInvInit, LogInvInit
<1>2. RowInv /\ OwnerInv /\ LogInv /\ [Next]_vars => (RowInv /\ OwnerInv /\ LogInv)'
  <2> SUFFICES ASSUME RowInv, OwnerInv, LogInv, [Next]_vars
               PROVE  (RowInv /\ OwnerInv /\ LogInv)'
    OBVIOUS
  <2>1. RowInv' /\ OwnerInv'
    BY RowInvStep, OwnerInvStep
  <2>2. CASE Next
    BY <2>2, LogInvSubmit, LogInvListener, <2>1 DEF Next
  <2>3. CASE UNCHANGED vars
    <3>1. LogInv'
      BY <2>3 DEF vars, LogInv, Told, Awaiting, LeftAlone, Abandoned, Holding, Saved
    <3> QED
      BY <2>1, <3>1
  <2> QED
    BY <2>2, <2>3
<1>3. LogInv => EventLogAgrees
  BY DEF LogInv, Told, Awaiting, LeftAlone, EventLogAgrees, IdleThread, IdleConsumer
<1> QED
  BY <1>1, <1>2, <1>3, PTL DEF Spec

----------------------------------------------------------------------------
\* The limit.  Active jobs and the threads past the capacity check are counted
\* together: the check is passed below the limit, and an insert moves a thread
\* from one side to the other.

Inserting == {t \in HttpThreads : http[t].pc = "insert"}

Ceiling == MaxConcurrentJobs + Cardinality(HttpThreads)

CountInv ==
    /\ IsFiniteSet(Active)
    /\ Cardinality(Active) + Cardinality(Inserting) < Ceiling

LEMMA CountTypes ==
    /\ Ceiling \in Nat
    /\ IsFiniteSet(Inserting) /\ IsFiniteSet(Inserting')
    /\ Inserting \subseteq HttpThreads /\ Inserting' \subseteq HttpThreads
<1>1. IsFiniteSet(HttpThreads) /\ MaxConcurrentJobs \in Nat
  BY BoundsAssumption
<1>2. Inserting \subseteq HttpThreads /\ Inserting' \subseteq HttpThreads
  BY DEF Inserting
<1> QED
  BY <1>1, <1>2, FS_Subset, FS_CardinalityType DEF Ceiling

LEMMA CountInvInit == Init => CountInv
<1> SUFFICES ASSUME Init PROVE CountInv
  OBVIOUS
<1>1. Active = {} /\ Inserting = {}
  BY DEF Init, Active, Saved, Inserting, IdleThread
<1>2. IsFiniteSet({}) /\ Cardinality({}) = 0
  BY FS_EmptySet
<1>3. Cardinality(HttpThreads) \in Nat /\ MaxConcurrentJobs \in Nat \ {0}
  BY BoundsAssumption, FS_CardinalityType
<1> QED
  BY <1>1, <1>2, <1>3 DEF CountInv, Ceiling

\* No step but an insert makes a job active.
LEMMA ActiveShrinks ==
    ASSUME RowInv, OwnerInv, [Next]_vars, \A t \in HttpThreads : ~InsertJob(t)
    PROVE  Active' \subseteq Active
<1> USE DEF RowInv
<1>1. ASSUME NEW t \in HttpThreads, SaveFailed(t) PROVE Active' \subseteq Active
  <2> DEFINE row == [NewRow(http[t].project, http[t].user) EXCEPT !.status = "FAILED"]
  <2>1. row.status = "FAILED"
    BY <1>1, NewRowType DEF SaveFailed, HttpInv
  <2>2. job' = [job EXCEPT ![http[t].job] = row]
    BY <1>1 DEF SaveFailed
  <2> HIDE DEF row
  <2> QED
    BY <2>1, <2>2 DEF TypeOK, Active, ActiveStatus, Saved
<1>2. CASE SaveUpdate
  <2>1. consumer.msg.job \in Active
    <3>1. /\ job[consumer.msg.job] = consumer.copy
          /\ consumer.copy.status \in ActiveStatus
          /\ consumer.msg.job \in Saved
      BY <1>2 DEF SaveUpdate, OwnerInv, ConsumerInv
    <3> QED
      BY <3>1 DEF Active
  <2>2. \A k \in Jobs : k # consumer.msg.job => job'[k] = job[k]
    BY <1>2 DEF SaveUpdate, TypeOK
  <2> QED
    BY <2>1, <2>2 DEF Active, Saved
<1>3. CASE UNCHANGED job
  BY <1>3 DEF Active, Saved
<1> QED
  BY <1>1, <1>2, <1>3
     DEF Next, vars, Submit, StartSubmit, CheckReport, CheckProject, CheckUser,
         CheckCapacity, Guarding, PayloadRaises, LogSubmitted, PublishAcknowledged,
         PublishAttemptFails, LogFailed, Apply, DropUpdate, ReadForUpdate, LogUpdate,
         OrchestratorPublish

\* No step but CheckCapacity takes a thread past the check, and it does so below
\* the limit.
LEMMA InsertingGrows ==
    ASSUME RowInv, [Next]_vars, ~(Inserting' \subseteq Inserting)
    PROVE  UNCHANGED job /\ ~(Cardinality(Active) >= MaxConcurrentJobs)
<1> USE DEF RowInv
<1>1. PICK t \in HttpThreads : http'[t].pc = "insert" /\ http[t].pc # "insert"
  BY DEF Inserting
<1>2. PICK u \in HttpThreads : Submit(u)
  BY <1>1 DEF Next, Apply, DropUpdate, ReadForUpdate, LogUpdate, SaveUpdate,
              OrchestratorPublish, vars
<1>3. ASSUME NEW pc \in HttpPC, pc # "insert", Goto(u, pc) PROVE FALSE
  BY <1>1, <1>3 DEF Goto, TypeOK
<1>4. CheckCapacity(u)
  <2>1. CASE StartSubmit(u)
    BY <1>1, <2>1 DEF StartSubmit, NewRequest, TypeOK
  <2>2. CASE CheckReport(u) \/ CheckProject(u) \/ CheckUser(u)
    <3>1. \/ http' = [http EXCEPT ![u] = IdleThread]
          \/ \E pc \in {"check_project", "check_user", "check_capacity"} : Goto(u, pc)
      BY <2>2 DEF CheckReport, CheckProject, CheckUser, Guarding
    <3> QED
      BY <1>1, <1>3, <3>1 DEF IdleThread, TypeOK, HttpPC
  <2>3. CASE InsertJob(u)
    BY <1>1, <2>3 DEF InsertJob, TypeOK
  <2>4. CASE PayloadRaises(u) \/ LogSubmitted(u) \/ PublishAcknowledged(u) \/ LogFailed(u)
    BY <1>1, <2>4 DEF PayloadRaises, LogSubmitted, PublishAcknowledged, LogFailed,
                      IdleThread, TypeOK
  <2>5. CASE PublishAttemptFails(u) \/ SaveFailed(u)
    BY <1>1, <1>3, <2>5 DEF PublishAttemptFails, SaveFailed, TypeOK, HttpPC
  <2> QED
    BY <1>2, <2>1, <2>2, <2>3, <2>4, <2>5 DEF Submit
<1>5. ~(Cardinality(Active) >= MaxConcurrentJobs)
  <2>1. http' # [http EXCEPT ![u] = IdleThread]
    BY <1>1 DEF IdleThread, TypeOK
  <2> QED
    BY <1>4, <2>1 DEF CheckCapacity, Guarding
<1> QED
  BY <1>4, <1>5 DEF CheckCapacity, Guarding

LEMMA CountInvStep ==
    ASSUME RowInv, OwnerInv, CountInv, [Next]_vars
    PROVE  CountInv'
<1>1. /\ Ceiling \in Nat
      /\ IsFiniteSet(Inserting) /\ IsFiniteSet(Inserting')
      /\ Inserting \subseteq HttpThreads /\ Inserting' \subseteq HttpThreads
      /\ IsFiniteSet(Active)
      /\ Cardinality(Active) + Cardinality(Inserting) < Ceiling
  BY CountTypes DEF CountInv
<1>2. ASSUME NEW t \in HttpThreads, InsertJob(t) PROVE CountInv'
  <2>1. PICK j \in Jobs \ Saved :
          /\ job' = [job EXCEPT ![j] = NewRow(http[t].project, http[t].user)]
          /\ http' = [http EXCEPT ![t].pc = "log_submitted", ![t].job = j]
    BY <1>2 DEF InsertJob
  <2>2. Active' \subseteq Active \cup {j}
    BY <2>1 DEF RowInv, TypeOK, Active, Saved
  <2>3. t \in Inserting /\ Inserting' \subseteq Inserting \ {t}
    BY <1>2, <2>1 DEF InsertJob, RowInv, TypeOK, Inserting
  <2>4. IsFiniteSet(Active \cup {j})
    BY <1>1, FS_AddElement
  <2>5. IsFiniteSet(Active')
    BY <2>2, <2>4, FS_Subset
  <2>6. Cardinality(Active') + Cardinality(Inserting') < Ceiling
    BY <1>1, <2>2, <2>3, OneAdded
  <2> QED
    BY <2>5, <2>6 DEF CountInv, Ceiling
<1>3. CASE \A t \in HttpThreads : ~InsertJob(t)
  <2>1. Active' \subseteq Active
    BY <1>3, ActiveShrinks
  <2>2. IsFiniteSet(Active')
    BY <1>1, <2>1, FS_Subset
  <2>3. CASE Inserting' \subseteq Inserting
    <3>1. Cardinality(Active') + Cardinality(Inserting') < Ceiling
      BY <1>1, <2>1, <2>3, NoneAdded
    <3> QED
      BY <2>2, <3>1 DEF CountInv, Ceiling
  <2>4. CASE ~(Inserting' \subseteq Inserting)
    <3>1. UNCHANGED job /\ ~(Cardinality(Active) >= MaxConcurrentJobs)
      BY <2>4, InsertingGrows
    <3>2. Active' = Active
      BY <3>1 DEF Active, Saved
    <3>3. Cardinality(Active) \in Nat /\ MaxConcurrentJobs \in Nat
      BY <1>1, FS_CardinalityType, BoundsAssumption
    <3>4. Cardinality(Active) < MaxConcurrentJobs
      BY <3>1, <3>3
    <3>5. Cardinality(Active) + Cardinality(Inserting')
            < MaxConcurrentJobs + Cardinality(HttpThreads)
      BY <1>1, <3>3, <3>4, BoundsAssumption, BelowLimit
    <3> QED
      BY <2>2, <3>2, <3>5 DEF CountInv, Ceiling
  <2> QED
    BY <2>3, <2>4
<1> QED
  BY <1>2, <1>3

\* Active jobs pass the limit by no more than the threads that were past the
\* check beside the one that reached it, for any number of threads.
THEOREM OvershootIsBounded ==
    ASSUME ~AmbiguousPublish
    PROVE  Spec => []OvershootBounded
<1>1. Init => RowInv /\ OwnerInv /\ CountInv
  BY RowInvInit, OwnerInvInit, CountInvInit
<1>2. RowInv /\ OwnerInv /\ CountInv /\ [Next]_vars => (RowInv /\ OwnerInv /\ CountInv)'
  BY RowInvStep, OwnerInvStep, CountInvStep
<1>3. CountInv => OvershootBounded
  <2> SUFFICES ASSUME CountInv PROVE OvershootBounded
    OBVIOUS
  <2>1. Cardinality(Active) + Cardinality(Inserting) < Ceiling
    BY DEF CountInv
  <2>2. /\ Cardinality(Active) \in Nat /\ Cardinality(Inserting) \in Nat
        /\ Cardinality(HttpThreads) \in Nat /\ MaxConcurrentJobs \in Nat
    BY CountTypes, FS_CardinalityType, BoundsAssumption DEF CountInv
  <2> QED
    BY <2>1, <2>2 DEF OvershootBounded, Ceiling
<1> QED
  BY <1>1, <1>2, <1>3, PTL DEF Spec

----------------------------------------------------------------------------
\* One request at a time.  What a check has found stays true until the insert:
\* meanwhile jobs only end.

OneThread == \A t, u \in HttpThreads : t = u

CheckedInv ==
    \A t \in HttpThreads :
        /\ http[t].pc \in {"check_user", "check_capacity", "insert"} =>
             \A j \in Active : job[j].project # http[t].project
        /\ http[t].pc \in {"check_capacity", "insert"} =>
             \A j \in Active : job[j].user # http[t].user
        /\ http[t].pc = "insert" => Cardinality(Active) < MaxConcurrentJobs

LEMMA CheckedInvInit == Init => CheckedInv
BY DEF Init, CheckedInv, IdleThread

\* A job that stays active keeps its project and its user.
LEMMA ActiveKept ==
    ASSUME RowInv, OwnerInv, [Next]_vars, \A t \in HttpThreads : ~InsertJob(t)
    PROVE  /\ Active' \subseteq Active
           /\ \A j \in Active' : /\ job'[j].project = job[j].project
                                 /\ job'[j].user = job[j].user
<1>1. Active' \subseteq Active
  BY ActiveShrinks
<1> SUFFICES ASSUME NEW j \in Active'
             PROVE  job'[j].project = job[j].project /\ job'[j].user = job[j].user
  BY <1>1
<1>2. j \in Active /\ j \in Jobs
  BY <1>1 DEF Active, Saved
<1> USE DEF RowInv
<1>3. CASE SaveUpdate
  <2>1. CASE j = consumer.msg.job
    <3>1. /\ job[j] = consumer.copy /\ consumer.copy \in Row
          /\ job'[j] = Merged(consumer.copy, consumer.msg.body)
      BY <1>2, <1>3, <2>1 DEF SaveUpdate, OwnerInv, ConsumerInv, TypeOK
    <3> QED
      BY <3>1 DEF Merged, Row
  <2>2. CASE j # consumer.msg.job
    BY <1>2, <1>3, <2>2 DEF SaveUpdate, TypeOK
  <2> QED
    BY <2>1, <2>2
<1>4. ASSUME NEW t \in HttpThreads, SaveFailed(t)
      PROVE  job'[j] = job[j]
  <2>1. CASE j = http[t].job
    <3>1. job'[j].status = "FAILED"
      <4>1. [NewRow(http[t].project, http[t].user) EXCEPT !.status = "FAILED"].status
              = "FAILED"
        BY <1>4, NewRowType DEF SaveFailed, HttpInv
      <4> QED
        BY <1>2, <1>4, <2>1, <4>1 DEF SaveFailed, TypeOK
    <3> QED
      BY <3>1 DEF Active, ActiveStatus
  <2>2. CASE j # http[t].job
    BY <1>2, <1>4, <2>2 DEF SaveFailed, TypeOK
  <2> QED
    BY <2>1, <2>2
<1>5. CASE UNCHANGED job
  BY <1>5
<1> QED
  BY <1>3, <1>4, <1>5
     DEF Next, vars, Submit, StartSubmit, CheckReport, CheckProject, CheckUser,
         CheckCapacity, Guarding, PayloadRaises, LogSubmitted, PublishAcknowledged,
         PublishAttemptFails, LogFailed, Apply, DropUpdate, ReadForUpdate, LogUpdate,
         OrchestratorPublish

\* What the thread has checked, at the moment it goes on to the next statement.
LEMMA CheckResult ==
    ASSUME RowInv, NEW t \in HttpThreads, [Next]_vars, OneThread,
           http'[t].pc \in {"check_user", "check_capacity", "insert"}
    PROVE  \/ UNCHANGED http
           \/ /\ UNCHANGED job
              /\ http'[t].project = http[t].project /\ http'[t].user = http[t].user
              /\ \/ /\ http'[t].pc = "check_user"
                    /\ \A j \in Active : job[j].project # http[t].project
                 \/ /\ http[t].pc = "check_user" /\ http'[t].pc = "check_capacity"
                    /\ \A j \in Active : job[j].user # http[t].user
                 \/ /\ http[t].pc = "check_capacity" /\ http'[t].pc = "insert"
                    /\ ~(Cardinality(Active) >= MaxConcurrentJobs)
<1> USE DEF RowInv
<1>1. CASE \E u \in HttpThreads : Submit(u)
  <2>1. Submit(t)
    BY <1>1 DEF OneThread
  <2>2. http'[t].pc # "idle" /\ http' # [http EXCEPT ![t] = IdleThread]
    BY DEF TypeOK, IdleThread
  <2>3. CASE CheckProject(t)
    BY <2>2, <2>3 DEF CheckProject, Guarding, Goto, TypeOK
  <2>4. CASE CheckUser(t)
    BY <2>2, <2>4 DEF CheckUser, Guarding, Goto, TypeOK
  <2>5. CASE CheckCapacity(t)
    <3>1. /\ http[t].pc = "check_capacity" /\ UNCHANGED job
          /\ ~(Cardinality(Active) >= MaxConcurrentJobs)
          /\ http' = [http EXCEPT ![t].pc = "insert"]
      BY <2>2, <2>5 DEF CheckCapacity, Guarding, Goto
    <3>2. /\ http'[t].pc = "insert" /\ http'[t].project = http[t].project
          /\ http'[t].user = http[t].user
      BY <3>1 DEF TypeOK
    <3> HIDE DEF RowInv
    <3> QED
      BY <3>1, <3>2
  <2>6. ASSUME CheckReport(t) PROVE FALSE
    BY <2>2, <2>6 DEF CheckReport, Guarding, Goto, TypeOK
  <2>7. ASSUME StartSubmit(t) PROVE FALSE
    BY <2>7 DEF StartSubmit, NewRequest, TypeOK
  <2>8. ASSUME InsertJob(t) PROVE FALSE
    BY <2>8 DEF InsertJob, TypeOK
  <2>9. ASSUME PayloadRaises(t) \/ LogSubmitted(t) \/ PublishAcknowledged(t) \/ LogFailed(t)
        PROVE  FALSE
    BY <2>2, <2>9 DEF PayloadRaises, LogSubmitted, PublishAcknowledged, LogFailed, TypeOK
  <2>10. ASSUME PublishAttemptFails(t) \/ SaveFailed(t) PROVE FALSE
    BY <2>2, <2>10 DEF PublishAttemptFails, SaveFailed, Goto, TypeOK
  <2> QED
    BY <2>1, <2>3, <2>4, <2>5, <2>6, <2>7, <2>8, <2>9, <2>10 DEF Submit
<1>2. CASE UNCHANGED http
  BY <1>2
<1> QED
  BY <1>1, <1>2
     DEF Next, vars, Apply, DropUpdate, ReadForUpdate, LogUpdate, SaveUpdate,
         OrchestratorPublish

LEMMA CheckedInvStep ==
    ASSUME RowInv, OwnerInv, CountInv, CheckedInv, OneThread, [Next]_vars
    PROVE  CheckedInv'
<1> SUFFICES ASSUME NEW t \in HttpThreads,
                    http'[t].pc \in {"check_user", "check_capacity", "insert"}
             PROVE  /\ \A j \in Active' : job'[j].project # http'[t].project
                    /\ http'[t].pc \in {"check_capacity", "insert"} =>
                         \A j \in Active' : job'[j].user # http'[t].user
                    /\ http'[t].pc = "insert" =>
                         Cardinality(Active') < MaxConcurrentJobs
  BY DEF CheckedInv
<1>1. ASSUME NEW u \in HttpThreads, InsertJob(u) PROVE FALSE
  BY <1>1 DEF InsertJob, OneThread, RowInv, TypeOK
<1>2. /\ Active' \subseteq Active
      /\ \A j \in Active' : /\ job'[j].project = job[j].project
                            /\ job'[j].user = job[j].user
  BY <1>1, ActiveKept
<1>3. /\ IsFiniteSet(Active)
      /\ Cardinality(Active') <= Cardinality(Active)
      /\ Cardinality(Active) \in Nat /\ Cardinality(Active') \in Nat
      /\ MaxConcurrentJobs \in Nat
  BY <1>2, FS_Subset, FS_CardinalityType, BoundsAssumption DEF CountInv
<1>4. /\ \A j \in Active : job[j].project # http'[t].project
      /\ http'[t].pc \in {"check_capacity", "insert"} =>
           \A j \in Active : job[j].user # http'[t].user
      /\ http'[t].pc = "insert" => Cardinality(Active) < MaxConcurrentJobs
  <2>1. CASE UNCHANGED http
    BY <2>1 DEF CheckedInv
  <2>2. CASE /\ http'[t].project = http[t].project /\ http'[t].user = http[t].user
             /\ http'[t].pc = "check_user"
             /\ \A j \in Active : job[j].project # http[t].project
    BY <2>2
  <2>3. CASE /\ http'[t].project = http[t].project /\ http'[t].user = http[t].user
             /\ http[t].pc = "check_user" /\ http'[t].pc = "check_capacity"
             /\ \A j \in Active : job[j].user # http[t].user
    BY <2>3 DEF CheckedInv
  <2>4. CASE /\ http'[t].project = http[t].project /\ http'[t].user = http[t].user
             /\ http[t].pc = "check_capacity" /\ http'[t].pc = "insert"
             /\ ~(Cardinality(Active) >= MaxConcurrentJobs)
    <3>1. Cardinality(Active) < MaxConcurrentJobs
      BY <1>3, <2>4
    <3> QED
      BY <2>4, <3>1 DEF CheckedInv
  <2> QED
    BY <2>1, <2>2, <2>3, <2>4, CheckResult
<1> QED
  BY <1>2, <1>3, <1>4

\* The row that submit() has inserted and not yet published is that of its request.
RequestInv ==
    \A t \in HttpThreads : Unpublished(t) =>
        /\ job[http[t].job].project = http[t].project
        /\ job[http[t].job].user = http[t].user

LEMMA RequestInvInit == Init => RequestInv
BY DEF Init, RequestInv, Unpublished, IdleThread

LEMMA RequestInvStep ==
    ASSUME RowInv, OwnerInv, RequestInv, OneThread, [Next]_vars
    PROVE  RequestInv'
<1> USE DEF RowInv
<1> SUFFICES ASSUME NEW t \in HttpThreads, Unpublished(t)'
             PROVE  /\ job'[http'[t].job].project = http'[t].project
                    /\ job'[http'[t].job].user = http'[t].user
  BY DEF RequestInv
<1>1. CASE \E u \in HttpThreads : Submit(u)
  <2>1. Submit(t)
    BY <1>1 DEF OneThread
  <2>2. CASE InsertJob(t)
    <3>1. PICK j \in Jobs \ Saved :
            /\ job' = [job EXCEPT ![j] = NewRow(http[t].project, http[t].user)]
            /\ http' = [http EXCEPT ![t].pc = "log_submitted", ![t].job = j]
      BY <2>2 DEF InsertJob
    <3>2. /\ http'[t].job = j /\ http'[t].project = http[t].project
          /\ http'[t].user = http[t].user
      BY <3>1 DEF TypeOK
    <3>3. job'[j] = NewRow(http[t].project, http[t].user)
      BY <3>1 DEF TypeOK
    <3> QED
      BY <3>2, <3>3 DEF NewRow
  <2>3. CASE LogSubmitted(t) \/ PublishAttemptFails(t)
    <3>1. UNCHANGED job /\ Unpublished(t)
      BY <2>3 DEF LogSubmitted, PublishAttemptFails, Unpublished
    <3>2. /\ http'[t].job = http[t].job /\ http'[t].project = http[t].project
          /\ http'[t].user = http[t].user
      BY <2>3 DEF LogSubmitted, PublishAttemptFails, Goto, TypeOK
    <3> QED
      BY <3>1, <3>2 DEF RequestInv
  <2>4. ASSUME PayloadRaises(t) \/ PublishAcknowledged(t) \/ SaveFailed(t) \/ LogFailed(t)
        PROVE  FALSE
    BY <2>4 DEF PayloadRaises, PublishAcknowledged, SaveFailed, LogFailed, Goto, TypeOK,
                IdleThread, Unpublished
  <2>5. ASSUME StartSubmit(t) \/ CheckReport(t) \/ CheckProject(t) \/ CheckUser(t)
                 \/ CheckCapacity(t)
        PROVE  FALSE
    BY <2>5, GuardingSteps DEF Unpublished
  <2> QED
    BY <2>1, <2>2, <2>3, <2>4, <2>5 DEF Submit
<1>2. CASE SaveUpdate
  <2>1. UNCHANGED http /\ Unpublished(t)
    BY <1>2 DEF SaveUpdate, Unpublished
  <2>2. http[t].job # consumer.msg.job /\ http[t].job \in Jobs
    BY <1>2, <2>1 DEF SaveUpdate, OwnerInv, Saved
  <2>3. job'[http[t].job] = job[http[t].job]
    BY <1>2, <2>2 DEF SaveUpdate, TypeOK
  <2> QED
    BY <2>1, <2>3 DEF RequestInv
<1>3. CASE UNCHANGED <<job, http>>
  BY <1>3 DEF RequestInv, Unpublished
<1> QED
  BY <1>1, <1>2, <1>3
     DEF Next, vars, Apply, DropUpdate, ReadForUpdate, LogUpdate, OrchestratorPublish

LEMMA RecordType ==
    ASSUME NEW p \in Projects, NEW u \in Users, NEW s \in JobStatus, NEW b \in BOOLEAN
    PROVE  [project |-> p, user |-> u, status |-> s, report |-> b] \in LifecycleRow
BY DEF LifecycleRow

LEMMA SameCardinality == \A S : Lifecycle!Cardinality(S) = Cardinality(S)
BY DEF Lifecycle!Cardinality, Cardinality

\* The abstract job table is the concrete one, column by column.
LEMMA RecordFacts ==
    ASSUME RowInv
    PROVE  /\ Lifecycle!Known = Saved
           /\ Lifecycle!Busy = Active
           /\ \A j \in Jobs \ Saved : LifecycleRecord[j] = Null
           /\ \A j \in Saved : LifecycleRecord[j] =
                [project |-> job[j].project, user |-> job[j].user,
                 status |-> job[j].status, report |-> job[j].pdf]
<1>1. \A j \in Jobs \ Saved : LifecycleRecord[j] = Null
  BY DEF LifecycleRecord, Saved
<1>2. \A j \in Saved : LifecycleRecord[j] =
        [project |-> job[j].project, user |-> job[j].user,
         status |-> job[j].status, report |-> job[j].pdf]
  BY DEF LifecycleRecord, Saved
<1>3. \A j \in Saved : LifecycleRecord[j] \in LifecycleRow
  <2> SUFFICES ASSUME NEW j \in Saved PROVE LifecycleRecord[j] \in LifecycleRow
    OBVIOUS
  <2>1. job[j] \in Row
    BY DEF RowInv, TypeOK, Saved
  <2>2. /\ job[j].project \in Projects /\ job[j].user \in Users
        /\ job[j].status \in JobStatus /\ job[j].pdf \in BOOLEAN
    BY <2>1 DEF Row
  <2> QED
    BY <1>2, <2>2, RecordType, Zenon
<1>4. Lifecycle!Known = Saved
  BY <1>1, <1>3, LifecycleNullAssumption DEF Lifecycle!Known, Saved
<1>5. Lifecycle!Busy = Active
  <2>1. \A j \in Saved : LifecycleRecord[j].status = job[j].status
    <3> SUFFICES ASSUME NEW j \in Saved PROVE LifecycleRecord[j].status = job[j].status
      OBVIOUS
    <3> DEFINE report == job[j].pdf
    <3>1. LifecycleRecord[j] = [project |-> job[j].project, user |-> job[j].user,
                                status |-> job[j].status, report |-> report]
      BY <1>2
    <3> HIDE DEF report
    <3> QED
      BY <3>1
  <2> QED
    BY <1>4, <2>1 DEF Lifecycle!Busy, Lifecycle!Running, Active, ActiveStatus
<1> QED
  BY <1>1, <1>2, <1>4, <1>5

\* Writing one row of the table writes one record.
LEMMA RecordWritten ==
    ASSUME NEW j \in Jobs, NEW row \in Row, job' = [job EXCEPT ![j] = row], RowInv
    PROVE  LifecycleRecord' =
             [LifecycleRecord EXCEPT ![j] = [project |-> row.project, user |-> row.user,
                                             status |-> row.status, report |-> row.pdf]]
<1>1. job'[j] = row /\ \A k \in Jobs : k # j => job'[k] = job[k]
  BY DEF RowInv, TypeOK
<1>2. row # Null
  BY NullAssumption
<1> QED
  BY <1>1, <1>2 DEF LifecycleRecord

LEMMA LifecycleStep ==
    ASSUME RowInv, OwnerInv, CheckedInv, RequestInv, [Next]_vars
    PROVE  [Lifecycle!Next]_LifecycleRecord
<1> USE DEF RowInv
<1>1. ASSUME NEW t \in HttpThreads, InsertJob(t) PROVE Lifecycle!Next
  <2> DEFINE p == http[t].project
             u == http[t].user
             row == NewRow(p, u)
  <2>1. PICK j \in Jobs \ Saved : job' = [job EXCEPT ![j] = row]
    BY <1>1 DEF InsertJob
  <2>2. p \in Projects /\ u \in Users /\ http[t].pc = "insert"
    BY <1>1 DEF InsertJob, HttpInv
  <2>3. row \in Row
    BY <2>2, NewRowType
  <2>4. /\ row.project = p /\ row.user = u
        /\ row.status = "PENDING" /\ row.pdf = FALSE
    BY DEF NewRow
  <2>5. /\ \A k \in Active : job[k].project # p /\ job[k].user # u
        /\ Cardinality(Active) < MaxConcurrentJobs
    BY <2>2 DEF CheckedInv
  <2> HIDE DEF p, u, row
  <2>6. LifecycleRecord' =
          [LifecycleRecord EXCEPT ![j] = [project |-> p, user |-> u,
                                          status |-> "PENDING", report |-> FALSE]]
    <3>1. LifecycleRecord' =
            [LifecycleRecord EXCEPT ![j] = [project |-> row.project, user |-> row.user,
                                            status |-> row.status, report |-> row.pdf]]
      BY <2>1, <2>3, RecordWritten
    <3> QED
      BY <2>4, <3>1, Zenon
  <2>7. \A k \in Lifecycle!Busy : LifecycleRecord[k].project # p
                                    /\ LifecycleRecord[k].user # u
    <3>1. \A k \in Active : k \in Saved
      BY DEF Active
    <3>2. \A k \in Saved : /\ LifecycleRecord[k].project = job[k].project
                          /\ LifecycleRecord[k].user = job[k].user
      <4> SUFFICES ASSUME NEW k \in Saved
                   PROVE  /\ LifecycleRecord[k].project = job[k].project
                          /\ LifecycleRecord[k].user = job[k].user
        OBVIOUS
      <4> DEFINE report == job[k].pdf
      <4>1. LifecycleRecord[k] = [project |-> job[k].project, user |-> job[k].user,
                                  status |-> job[k].status, report |-> report]
        BY RecordFacts
      <4> HIDE DEF report
      <4> QED
        BY <4>1
    <3> QED
      BY <2>5, <3>1, <3>2, RecordFacts
  <2>8. Cardinality(Lifecycle!Busy) < MaxConcurrentJobs /\ LifecycleRecord[j] = Null
    BY <2>1, <2>5, RecordFacts
  <2>9. Lifecycle!Accept(j, p, u)
    BY <2>6, <2>7, <2>8, SameCardinality DEF Lifecycle!Accept
  <2> QED
    BY <2>2, <2>9 DEF Lifecycle!Next
<1>2. ASSUME NEW j \in Active, NEW row \in Row, job' = [job EXCEPT ![j] = row],
             row.project = job[j].project, row.user = job[j].user,
             row.pdf <=> row.status = "COMPLETED"
      PROVE  Lifecycle!Next
  <2>1. j \in Jobs /\ j \in Saved /\ j \in Lifecycle!Busy
    BY RecordFacts DEF Active, Saved
  <2>2. LifecycleRecord' =
          [LifecycleRecord EXCEPT ![j] = [project |-> row.project, user |-> row.user,
                                          status |-> row.status, report |-> row.pdf]]
    BY <1>2, <2>1, RecordWritten
  <2>3. LifecycleRecord[j] = [project |-> job[j].project, user |-> job[j].user,
                              status |-> job[j].status, report |-> job[j].pdf]
    BY <2>1, RecordFacts
  <2>4. /\ row.status \in JobStatus /\ row.pdf \in BOOLEAN
        /\ job[j].status # "COMPLETED" /\ job[j].pdf = FALSE
    <3>1. job[j] \in Row /\ (job[j].pdf <=> job[j].status = "COMPLETED")
      BY <2>1 DEF TypeOK, Saved, ReportLinkMatchesVerdict
    <3>2. job[j].status # "COMPLETED"
      BY DEF Active, ActiveStatus
    <3> QED
      BY <3>1, <3>2 DEF Row
  <2>5. CASE row.status \in ActiveStatus
    <3>1. row.pdf = job[j].pdf
      BY <1>2, <2>4, <2>5 DEF ActiveStatus
    <3>2. [LifecycleRecord[j] EXCEPT !.status = row.status]
            = [project |-> row.project, user |-> row.user,
               status |-> row.status, report |-> row.pdf]
      <4> DEFINE report == job[j].pdf
      <4>1. LifecycleRecord[j] = [project |-> row.project, user |-> row.user,
                                  status |-> job[j].status, report |-> report]
        BY <1>2, <2>3, Zenon
      <4>2. row.pdf = report
        BY <3>1
      <4> HIDE DEF report
      <4>3. [LifecycleRecord[j] EXCEPT !.status = row.status]
              = [project |-> row.project, user |-> row.user,
                 status |-> row.status, report |-> report]
        BY <4>1, SMT
      <4> QED
        BY <4>2, <4>3, Zenon
    <3>3. LifecycleRecord' = [LifecycleRecord EXCEPT ![j].status = row.status]
      BY <2>2, <3>2, Zenon
    <3>4. Lifecycle!Advance(j)
      BY <2>1, <2>5, <3>3 DEF Lifecycle!Advance, Lifecycle!Running, ActiveStatus
    <3> QED
      BY <2>1, <3>4 DEF Lifecycle!Next
  <2>6. CASE row.status \in TerminalStatus
    <3> DEFINE s == row.status
               c == (s = "COMPLETED")
    <3>1. row.pdf = c
      BY <1>2, <2>4
    <3>2. s \in Lifecycle!Ended
      BY <2>6 DEF Lifecycle!Ended, TerminalStatus
    <3>3. LifecycleRecord' = [LifecycleRecord EXCEPT
                                ![j] = [@ EXCEPT !.status = s, !.report = c]]
      <4> HIDE DEF c
      <4>1. [LifecycleRecord[j] EXCEPT !.status = s, !.report = c]
              = [project |-> row.project, user |-> row.user,
                 status |-> s, report |-> c]
        <5> DEFINE report == job[j].pdf
        <5>1. LifecycleRecord[j] = [project |-> row.project, user |-> row.user,
                                    status |-> job[j].status, report |-> report]
          BY <1>2, <2>3, Zenon
        <5> HIDE DEF report
        <5> QED
          <6>1. [LifecycleRecord[j] EXCEPT !.status = s]
                  = [project |-> row.project, user |-> row.user,
                     status |-> s, report |-> report]
            BY <5>1, SMT
          <6>2. [[project |-> row.project, user |-> row.user,
                  status |-> s, report |-> report] EXCEPT !.report = c]
                  = [project |-> row.project, user |-> row.user,
                     status |-> s, report |-> c]
            BY SMT
          <6> QED
            BY <6>1, <6>2, Zenon
      <4> QED
        BY <2>2, <3>1, <4>1, Zenon
    <3>4. Lifecycle!Finish(j)
      BY <2>1, <3>2, <3>3, Zenon DEF Lifecycle!Finish
    <3> QED
      BY <2>1, <3>4 DEF Lifecycle!Next
  <2> QED
    BY <2>4, <2>5, <2>6 DEF JobStatus
<1>3. ASSUME NEW t \in HttpThreads, SaveFailed(t) PROVE Lifecycle!Next
  <2> DEFINE row == [NewRow(http[t].project, http[t].user) EXCEPT !.status = "FAILED"]
  <2>1. row \in Row /\ row.status = "FAILED" /\ ~row.pdf
    BY <1>3, NewRowType DEF SaveFailed, HttpInv
  <2>2. /\ http[t].job \in Saved /\ job[http[t].job].status = "PENDING"
    BY <1>3 DEF SaveFailed, OwnerInv, Unpublished
  <2>3. row.project = job[http[t].job].project /\ row.user = job[http[t].job].user
    <3>1. /\ job[http[t].job].project = http[t].project
          /\ job[http[t].job].user = http[t].user
      BY <1>3 DEF RequestInv, SaveFailed, Unpublished
    <3>2. row.project = http[t].project /\ row.user = http[t].user
      BY DEF NewRow
    <3> QED
      BY <3>1, <3>2
  <2>4. job' = [job EXCEPT ![http[t].job] = row] /\ http[t].job \in Active
    BY <1>3, <2>2 DEF SaveFailed, Active, ActiveStatus
  <2>5. row.pdf <=> row.status = "COMPLETED"
    BY <2>1
  <2> HIDE DEF row
  <2> QED
    BY <1>2, <2>1, <2>3, <2>4, <2>5
<1>4. CASE SaveUpdate
  <2> DEFINE row == Merged(consumer.copy, consumer.msg.body)
  <2>1. /\ consumer.copy \in Row /\ ~consumer.copy.pdf
        /\ consumer.msg.body \in StatusKinds
        /\ consumer.msg.job \in Active
        /\ job[consumer.msg.job] = consumer.copy
    BY <1>4 DEF SaveUpdate, ConsumerInv, OwnerInv, StatusMsg, Active, Saved
  <2>2. row \in Row /\ (row.pdf <=> row.status = "COMPLETED")
    BY <2>1, MergedType
  <2>3. row.project = consumer.copy.project /\ row.user = consumer.copy.user
    BY <2>1 DEF Merged, Row
  <2>4. job' = [job EXCEPT ![consumer.msg.job] = row]
    BY <1>4 DEF SaveUpdate
  <2> HIDE DEF row
  <2> QED
    BY <1>2, <2>1, <2>2, <2>3, <2>4
<1>5. CASE UNCHANGED job
  BY <1>5 DEF LifecycleRecord
<1> QED
  BY <1>1, <1>3, <1>4, <1>5
     DEF Next, vars, Submit, StartSubmit, CheckReport, CheckProject, CheckUser,
         CheckCapacity, Guarding, PayloadRaises, LogSubmitted, PublishAcknowledged,
         PublishAttemptFails, LogFailed, Apply, DropUpdate, ReadForUpdate, LogUpdate,
         OrchestratorPublish

\* One request at a time, and no publication both delivered and reported as
\* failed: the table is an implementation of JobLifecycle.
THEOREM LifecycleImplemented ==
    ASSUME ~AmbiguousPublish, OneThread
    PROVE  Spec => ImplementsLifecycle
<1> DEFINE I == RowInv /\ OwnerInv /\ CountInv /\ CheckedInv /\ RequestInv
<1>1. Init => I
  BY RowInvInit, OwnerInvInit, CountInvInit, CheckedInvInit, RequestInvInit
<1>2. I /\ [Next]_vars => I'
  BY RowInvStep, OwnerInvStep, CountInvStep, CheckedInvStep, RequestInvStep
<1>3. Init => Lifecycle!Init
  BY DEF Init, Lifecycle!Init, LifecycleRecord
<1>4. I /\ [Next]_vars => [Lifecycle!Next]_LifecycleRecord
  BY LifecycleStep
<1> QED
  BY <1>1, <1>2, <1>3, <1>4, PTL DEF Spec, ImplementsLifecycle, Lifecycle!Spec
=============================================================================
