----------------------------- MODULE PatientProofs -----------------------------
(***************************************************************************)
(* Theorems about patient callers: when a render is asked for only after   *)
(* the last one is dealt with, the job manager is safe whatever the names, *)
(* the one name previewd gives every render included, and whatever fails.  *)
(***************************************************************************)
EXTENDS JobManagerProofs

\* A report of a clean success among the changes after one is published.
LEMMA PublishedReport ==
  ASSUME TypeOK, TypeOK', NEW r \in Requests, NEW kind \in Kinds,
         Publish(kind, r), UNCHANGED <<ipc, ievent>>,
         mpc' = "deleteJob" => mpc = "deleteJob", CleanPending'
  PROVE  CleanPending \/ Clean(r)'
<1>1. /\ failed' \in [Requests -> 0..BackoffLimit + 1]
      /\ succeeded' \in [Requests -> 0..1]
  BY DEF TypeOK, ClusterTypeOK
<1>2. Event(kind, r) \in Events
  BY <1>1, PublishType DEF TypeOK
<1>3. PICK e \in Events : e = Event(kind, r)
  BY <1>2
<1>4. /\ Len(stream) \in Nat
      /\ Len(stream') = Len(stream) + 1
      /\ \A i \in 1..Len(stream) + 1 :
           stream'[i] = IF i = Len(stream) + 1 THEN e ELSE stream[i]
  BY <1>3, AppendEntries, LenProperties DEF Publish, TypeOK, ClusterTypeOK
<1>5. CleanReport(e) => Clean(r)'
  BY <1>3 DEF CleanReport, Event, Clean
<1>6. ASSUME NEW i \in 1..Len(stream'), CleanReport(stream'[i])
      PROVE  CleanPending \/ Clean(r)'
  <2>1. CASE i = Len(stream) + 1
    BY <1>4, <1>5, <1>6, <2>1
  <2>2. CASE i # Len(stream) + 1
    BY <1>4, <1>6, <2>2 DEF CleanPending
  <2> QED
    BY <2>1, <2>2
<1> QED
  BY <1>6 DEF CleanPending, CleanReport

\* The initial state.
LEMMA InitPatience == Init => Patience
<1> SUFFICES ASSUME Init PROVE Patience
  OBVIOUS
<1>1. Range(jobqueue) = {} /\ Len(stream) = 0
  BY DEF Init, ClusterInit, Range
<1> QED
  BY <1>1
  DEF Init, ClusterInit, SessionInit, Patience, OneUnclean, AllClean, OneWaiting,
      WaitingIsQuiet, Waiting, Queued, CleanPending, Exists

-----------------------------------------------------------------------------
\* A step that leaves the jobs alone, brings no report and lets nobody wait.
CalmStep ==
  /\ UNCHANGED <<object, failed, succeeded>>
  /\ CleanPending' => CleanPending
  /\ \A r \in Requests : Waiting(r)' => Waiting(r)

LEMMA CalmPatience == Patience /\ CalmStep => Patience'
<1> SUFFICES ASSUME Patience, CalmStep PROVE Patience'
  OBVIOUS
<1> USE DEF CalmStep, Patience
<1>1. OneUnclean'
  BY DEF OneUnclean, Clean
<1>2. AllClean'
  BY DEF AllClean, Clean, Exists
<1>3. OneWaiting'
  BY DEF OneWaiting
<1>4. WaitingIsQuiet'
  BY DEF WaitingIsQuiet, Exists
<1> QED
  BY <1>1, <1>2, <1>3, <1>4

\* As CalmStep, where the stream and the queue are left alone too.
LEMMA StillPatience ==
  ASSUME Patience,
         UNCHANGED <<object, failed, succeeded, stream, jobqueue>>,
         ipc' = "notify" => ipc = "notify" /\ UNCHANGED ievent,
         mpc' = "deleteJob" => mpc = "deleteJob",
         \A r \in Requests : request'[r] = "sending" => request[r] = "sending"
  PROVE  Patience'
<1>1. CleanPending' => CleanPending
  BY DEF CleanPending
<1>2. \A r \in Requests : Waiting(r)' => Waiting(r)
  BY DEF Waiting, Queued
<1> QED
  BY <1>1, <1>2, CalmPatience DEF CalmStep

-----------------------------------------------------------------------------
\* A caller begins to send when all is settled.
LEMMA AddPatience ==
  ASSUME PatientIInv, Settled, NEW r \in Requests, AddJobtoQueue(r)
  PROVE  Patience'
<1> USE DEF PatientIInv, Patience
<1>1. /\ UNCHANGED <<object, failed, succeeded, stream, jobqueue, ipc, ievent, mpc>>
      /\ Settled
      /\ request' = [request EXCEPT ![r] = "sending"]
  BY DEF AddJobtoQueue, clusterVars, sessionVars
<1>2. Range(jobqueue) = {} /\ Len(stream) = 0
  BY <1>1 DEF Settled, Range
<1>3. \A s \in Requests : Waiting(s)' => s = r
  BY <1>1, <1>2 DEF Waiting, Queued, Settled, IInv, TypeOK, ManagerTypeOK
<1>4. ~CleanPending /\ ~CleanPending'
  BY <1>1, <1>2 DEF CleanPending, Settled
<1>5. OneUnclean' /\ AllClean'
  BY <1>1, <1>4 DEF OneUnclean, AllClean, Clean, Exists
<1>6. OneWaiting' /\ WaitingIsQuiet'
  BY <1>1, <1>3, <1>4 DEF OneWaiting, WaitingIsQuiet, Settled, Exists
<1> QED
  BY <1>5, <1>6

\* The monitor accepts a job.
LEMMA ReceiveJobPatience ==
  ASSUME PatientIInv, NEW r \in Requests, ReceiveJob(r)
  PROVE  Patience'
<1> USE DEF PatientIInv
<1>1. /\ UNCHANGED <<object, failed, succeeded, stream, ipc, ievent>>
      /\ mpc' = "schedule" /\ request[r] = "sending"
      /\ request' = [request EXCEPT ![r] = "accepted"]
  BY DEF ReceiveJob, clusterVars, sessionVars
<1>2. Range(jobqueue') \subseteq Range(jobqueue) \cup {r}
  <2>1. CASE NameOf[r] # NoName
    <3>1. r \in Named /\ jobqueue' = Append(jobqueue, r)
      BY <2>1 DEF ReceiveJob, Named
    <3> QED
      BY <3>1, AppendEntries DEF IInv, TypeOK, ManagerTypeOK
  <2>2. CASE NameOf[r] = NoName
    BY <2>2 DEF ReceiveJob
  <2> QED
    BY <2>1, <2>2
<1>3. \A s \in Requests : Waiting(s)' => Waiting(s)
  BY <1>1, <1>2 DEF Waiting, Queued, IInv, TypeOK, ManagerTypeOK
<1>4. CleanPending' => CleanPending
  BY <1>1 DEF CleanPending
<1> QED
  BY <1>1, <1>3, <1>4, CalmPatience DEF CalmStep

\* The monitor receives an update: it deletes only on a clean report.
LEMMA ReceiveUpdateReports ==
  ASSUME TypeOK, ReceiveUpdate
  PROVE  /\ UNCHANGED <<object, failed, succeeded, stream, request, jobqueue, jobRefs>>
         /\ CleanPending' => CleanPending
<1>1. /\ UNCHANGED <<object, failed, succeeded, stream, request, jobqueue, jobRefs>>
      /\ ipc = "notify" /\ ievent \in Events
      /\ ipc' # "notify"
  BY DEF ReceiveUpdate, NotifierReturns, clusterVars, TypeOK, SessionTypeOK
<1>2. mpc' = "deleteJob" => CleanReport(ievent)
  <2>1. ievent.failed \in Nat /\ ievent.succeeded \in 0..1
    BY <1>1 DEF Events, BackoffLimit
  <2> QED
    BY <2>1 DEF ReceiveUpdate, ReadyNext, Failed, CleanReport
<1> QED
  BY <1>1, <1>2 DEF CleanPending

LEMMA ReceiveUpdatePatience ==
  ASSUME PatientIInv, ReceiveUpdate
  PROVE  Patience'
<1>1. /\ UNCHANGED <<object, failed, succeeded, request, jobqueue>>
      /\ CleanPending' => CleanPending
  BY ReceiveUpdateReports DEF PatientIInv, IInv
<1> QED
  BY <1>1, CalmPatience DEF CalmStep, PatientIInv, Waiting, Queued

\* The informer takes a change from the stream: a report it hands to the
\* monitor was in the stream.
LEMMA DispatchReports ==
  ASSUME TypeOK, Dispatch, UNCHANGED managerVars
  PROVE  /\ UNCHANGED <<object, failed, succeeded, request, jobqueue, jobRefs>>
         /\ CleanPending' => CleanPending
<1>1. /\ UNCHANGED <<object, failed, succeeded, request, jobqueue, jobRefs, mpc>>
      /\ stream # <<>> /\ stream' = Tail(stream)
      /\ ipc' = "notify" => ievent' = Head(stream)
  BY DEF Dispatch, managerVars
<1>2. /\ Head(stream) = stream[1]
      /\ Len(stream') = Len(stream) - 1 /\ Len(stream) \in Nat \ {0}
      /\ \A i \in 1..Len(stream') : stream'[i] = stream[i + 1]
  BY <1>1, TailEntries DEF TypeOK, ClusterTypeOK
<1>3. ASSUME NEW i \in 1..Len(stream'), CleanReport(stream'[i])
      PROVE  CleanPending
  <2>1. i + 1 \in 1..Len(stream) /\ CleanReport(stream[i + 1])
    BY <1>2, <1>3
  <2> QED
    BY <2>1 DEF CleanPending
<1>4. CASE ipc' = "notify" /\ CleanReport(ievent')
  <2>1. 1 \in 1..Len(stream) /\ CleanReport(stream[1])
    BY <1>1, <1>2, <1>4
  <2> QED
    BY <1>1, <2>1 DEF CleanPending
<1> QED
  BY <1>1, <1>3, <1>4 DEF CleanPending, CleanReport

LEMMA DispatchPatience ==
  ASSUME PatientIInv, Dispatch, UNCHANGED managerVars
  PROVE  Patience'
<1>1. /\ UNCHANGED <<object, failed, succeeded, request, jobqueue>>
      /\ CleanPending' => CleanPending
  BY DispatchReports DEF PatientIInv, IInv
<1> QED
  BY <1>1, CalmPatience DEF CalmStep, PatientIInv, Waiting, Queued

\* A job changes: if it is a clean success now, nobody waits and all the
\* others have succeeded before.
LEMMA ChangePatience ==
  ASSUME PatientIInv, TypeOK', NEW r \in Requests,
         MarkDeleted(r) \/ PodSucceeds(r) \/ PodFails(r) \/ Finalize(r),
         UNCHANGED <<ipc, ievent, request, jobqueue>>,
         mpc' = "deleteJob" => mpc = "deleteJob"
  PROVE  Patience'
<1> USE DEF PatientIInv, Patience
<1>1. /\ Stable
      /\ \A s \in Requests : object'[s] = "none" <=> object[s] = "none"
      /\ \A s \in Requests : s # r =>
           failed'[s] = failed[s] /\ succeeded'[s] = succeeded[s]
      /\ object[r] # "none"
  BY ChangeEffect DEF IInv
<1>2. /\ \A s \in Requests : Exists(s)' => Exists(s)
      /\ \A s \in Requests : failed[s] > 0 => failed'[s] > 0
      /\ Exists(r)
      /\ Clean(r)' => failed[r] = 0
      /\ failed[r] \in Nat
  BY DEF MarkDeleted, PodSucceeds, PodFails, Finalize, Running, Exists, Clean, IInv,
         TypeOK, ClusterTypeOK, BackoffLimit
<1>3. CleanPending' => CleanPending \/ Clean(r)'
  <2>1. PICK kind \in Kinds : Publish(kind, r)
    BY DEF MarkDeleted, PodSucceeds, PodFails, Finalize, Kinds
  <2> QED
    BY <2>1, PublishedReport DEF IInv
<1>4. \A s \in Requests : Waiting(s)' <=> Waiting(s)
  BY DEF Waiting, Queued
<1>5. OneUnclean'
  BY <1>1 DEF OneUnclean, Stable
<1>6. AllClean'
  <2>1. Clean(r)' => \A s \in Requests : object'[s] # "none" => Clean(s)'
    <3>1. CASE Clean(r)
      BY <1>1, <1>2, <3>1 DEF AllClean, Stable
    <3>2. CASE ~Clean(r)
      BY <1>1, <3>2 DEF OneUnclean, Stable
    <3> QED
      BY <3>1, <3>2
  <2>2. (\E s \in Requests : Exists(s)' /\ Clean(s)') =>
          Clean(r)' \/ \E s \in Requests : Exists(s) /\ Clean(s)
    BY <1>1, <1>2 DEF Clean
  <2> QED
    BY <1>1, <1>3, <2>1, <2>2 DEF AllClean, Stable
<1>7. WaitingIsQuiet'
  BY <1>2, <1>3, <1>4 DEF WaitingIsQuiet
<1> QED
  BY <1>4, <1>5, <1>6, <1>7 DEF OneWaiting

\* The delete call.
LEMMA DeleteJobPatience ==
  ASSUME PatientIInv, TypeOK', DeleteJob
  PROVE  Patience'
<1>1. UNCHANGED <<ipc, ievent, request, jobqueue>> /\ mpc' = "schedule"
  BY DEF DeleteJob, sessionVars
<1>2. CASE UNCHANGED clusterVars
  BY <1>1, <1>2, StillPatience DEF PatientIInv, clusterVars
<1>3. ASSUME NEW r \in Requests, MarkDeleted(r) PROVE Patience'
  BY <1>1, <1>3, ChangePatience
<1> QED
  BY <1>2, <1>3 DEF DeleteJob, ApiDeleteJob, Holders

\* The head of the queue is in it once.
LEMMA HeadLeaves ==
  ASSUME IInv, jobqueue # <<>>, jobqueue' = Tail(jobqueue),
         NEW h, h = Head(jobqueue)
  PROVE  ~Queued(h)'
<1>1. /\ Len(jobqueue') = Len(jobqueue) - 1 /\ Len(jobqueue) \in Nat \ {0}
      /\ h = jobqueue[1]
      /\ \A i \in 1..Len(jobqueue') : jobqueue'[i] = jobqueue[i + 1]
      /\ DOMAIN jobqueue' = 1..Len(jobqueue')
  BY TailEntries, LenProperties DEF IInv, TypeOK, ManagerTypeOK
<1>2. ASSUME NEW i \in 1..Len(jobqueue') PROVE jobqueue'[i] # h
  <2>1. i + 1 \in 1..Len(jobqueue) /\ 1 \in 1..Len(jobqueue) /\ i + 1 # 1
    BY <1>1
  <2> QED
    BY <1>1, <2>1 DEF IInv, QueueOK
<1> QED
  BY <1>1, <1>2 DEF Queued, Range

\* The create call is made for the only job that waits: then no report of a
\* success is pending, and every earlier job has succeeded.
LEMMA ScheduleNextPatience ==
  ASSUME PatientIInv, TypeOK', ScheduleNext
  PROVE  Patience'
<1> USE DEF PatientIInv, Patience
<1>0. PICK h \in Named : h = Head(jobqueue)
  BY TailEntries DEF ScheduleNext, MaySchedule, IInv, TypeOK, ManagerTypeOK
<1>1. /\ jobqueue # <<>> /\ jobRefs = {}
      /\ jobqueue' = Tail(jobqueue)
      /\ UNCHANGED <<ipc, ievent, request>>
      /\ mpc' # "deleteJob"
      /\ CreateTakesEffect(h) \/ UNCHANGED clusterVars
  BY <1>0 DEF ScheduleNext, MaySchedule, InProgress, sessionVars, CreateRefused
<1>2. Range(jobqueue) = Range(jobqueue') \cup {h}
  BY <1>0, <1>1, TailEntries DEF IInv, TypeOK, ManagerTypeOK
<1>3. /\ h \in Requests /\ Waiting(h)
      /\ object[h] = "none" /\ request[h] = "accepted"
  BY <1>2 DEF Named, IInv, FreshHasNoJob, QueueOK, Queued, Waiting
<1>4. \A s \in Requests : Waiting(s)' => Waiting(s)
  BY <1>1, <1>2 DEF Waiting, Queued
<1>5. CASE UNCHANGED clusterVars
  <2>1. CleanPending' => CleanPending
    BY <1>1, <1>5 DEF CleanPending, clusterVars
  <2> QED
    BY <1>4, <1>5, <2>1, CalmPatience DEF CalmStep, clusterVars
<1>6. CASE CreateTakesEffect(h)
  <2>1. /\ object' = [object EXCEPT ![h] = "live"]
        /\ UNCHANGED <<failed, succeeded>>
        /\ Publish("ADDED", h)
        /\ failed[h] = 0 /\ succeeded[h] = 0
    BY <1>3, <1>6 DEF CreateTakesEffect, IInv, FreshHasNoJob
  <2>2. ~Clean(h)'
    BY <2>1 DEF Clean
  <2>3. ~CleanPending'
    BY <1>1, <1>3, <2>1, <2>2, PublishedReport DEF WaitingIsQuiet, IInv, Kinds
  <2>4. \A s \in Requests : object[s] # "none" => Clean(s)
    BY <1>1 DEF IInv, ForgottenIsClean
  <2>5. \A s \in Requests : s # h => object'[s] = object[s]
    BY <2>1 DEF IInv, TypeOK, ClusterTypeOK
  <2>6. OneUnclean'
    BY <2>1, <2>4, <2>5 DEF OneUnclean, Clean
  <2>7. AllClean'
    <3>1. \A s \in Requests : Exists(s) => failed[s] > 0
      BY <1>3 DEF WaitingIsQuiet
    <3> QED
      BY <2>1, <2>2, <2>3, <2>5, <3>1 DEF AllClean, Exists, Clean
  <2>8. \A s \in Requests : ~Waiting(s)'
    <3>1. ~Waiting(h)'
      BY <1>0, <1>1, <1>3, HeadLeaves DEF Waiting
    <3> QED
      BY <1>3, <1>4, <3>1 DEF OneWaiting
  <2> QED
    BY <2>6, <2>7, <2>8 DEF OneWaiting, WaitingIsQuiet
<1> QED
  BY <1>1, <1>5, <1>6

-----------------------------------------------------------------------------
\* Every step of the program keeps the callers' patience worthwhile.
LEMMA NextPatience ==
  ASSUME PatientIInv, [Next]_vars, TypeOK',
         \A r \in Requests : AddJobtoQueue(r) => Settled
  PROVE  Patience'
<1> USE DEF PatientIInv
<1>1. CASE Monitor
  <2>1. ASSUME NEW r \in Requests, ReceiveJob(r) PROVE Patience'
    BY <2>1, ReceiveJobPatience
  <2>2. CASE StartMonitor \/ NothingToSchedule \/ Register \/ ReceiveDone
    BY <2>2, StillPatience
    DEF StartMonitor, NothingToSchedule, Register, RegisterNotifier, ReceiveDone,
        clusterVars, sessionVars
  <2> QED
    BY <1>1, <2>1, <2>2, ReceiveUpdatePatience, DeleteJobPatience,
       ScheduleNextPatience DEF Monitor
<1>2. CASE Informer
  <2>1. CASE Dispatch
    BY <1>2, <2>1, DispatchPatience DEF Informer
  <2>2. CASE Unregister
    BY <1>2, <2>2, StillPatience DEF Informer, Unregister, clusterVars, managerVars
  <2> QED
    BY <1>2, <2>1, <2>2 DEF Informer
<1>3. CASE Session \/ MapRaceCrash \/ StopMonitor \/ StopReturns \/ UNCHANGED vars
  BY <1>3, StillPatience
  DEF Session, StartWatchers, Cancel, MapRaceCrash, StopMonitor, StopReturns, vars,
      clusterVars, sessionVars, managerVars
<1>4. ASSUME NEW r \in Requests, AddJobtoQueue(r) PROVE Patience'
  BY <1>4, AddPatience
<1>5. ASSUME NEW r \in Requests, PodEnds(r) \/ Removed(r) \/ Interfere(r)
      PROVE  Patience'
  BY <1>5, ChangePatience
  DEF PodEnds, Removed, Interfere, OperatorDelete, sessionVars, managerVars
<1> QED
  BY <1>1, <1>2, <1>3, <1>4, <1>5 DEF Next

\* A deletion by name hits only jobs that have succeeded.
LEMMA PatientNamesakes == PatientIInv => NamesakesClean
BY DEF PatientIInv, Patience, AllClean, CleanPending, NamesakesClean

\* PatientIInv always holds when callers are patient.
THEOREM PatientInvariance ==
  ASSUME "overlap" \notin Env PROVE Spec => []PatientIInv
<1>1. Init => PatientIInv
  BY InitIInv, InitPatience DEF PatientIInv
<1>2. PatientIInv /\ [Next]_vars => PatientIInv'
  <2> SUFFICES ASSUME PatientIInv, [Next]_vars PROVE PatientIInv'
    OBVIOUS
  <2>1. IInv'
    BY NextIInv, PatientNamesakes DEF PatientIInv
  <2>2. Patience'
    BY <2>1, NextPatience DEF IInv, AddJobtoQueue
  <2> QED
    BY <2>1, <2>2 DEF PatientIInv
<1> QED
  BY <1>1, <1>2, PTL DEF Spec

-----------------------------------------------------------------------------
\* With patient callers jobRefs holds the name of every unfinished job, also
\* when all jobs have one name.
THEOREM PatientInProgressIsTruthful ==
  ASSUME "overlap" \notin Env PROVE Spec => []InProgressTruthful
<1>1. PatientIInv => InProgressTruthful
  BY DEF PatientIInv, IInv, ForgottenIsClean, InProgressTruthful, Unfinished, Exists
<1> QED
  BY <1>1, PatientInvariance, PTL

\* With patient callers two renders never share the volumes.
THEOREM PatientMutualExclusion ==
  ASSUME "overlap" \notin Env PROVE Spec => []MutualExclusion
<1>1. PatientIInv => MutualExclusion
  BY DEF PatientIInv, Patience, OneUnclean, MutualExclusion, Unfinished, Exists
<1> QED
  BY <1>1, PatientInvariance, PTL

\* With patient callers no job is created after a pod has failed.
THEOREM PatientHaltAfterFailure ==
  ASSUME "overlap" \notin Env PROVE Spec => HaltAfterFailure
<1>1. PatientIInv => IInv
  BY DEF PatientIInv
<1> QED
  BY <1>1, StepHalts, PatientInvariance, PTL DEF Spec, HaltAfterFailure

\* With patient callers the monitor deletes only jobs that have succeeded,
\* although it deletes by name and the names may be the same.
THEOREM PatientDeletesOnlySucceeded ==
  ASSUME "overlap" \notin Env PROVE Spec => DeletesOnlySucceeded
<1>1. PatientIInv => IInv /\ NamesakesClean
  BY PatientNamesakes DEF PatientIInv
<1> QED
  BY <1>1, StepDeletesClean, PatientInvariance, PTL DEF Spec, DeletesOnlySucceeded

=============================================================================
