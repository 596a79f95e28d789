--------------------------- MODULE JobManagerRefines ---------------------------
(***************************************************************************)
(* The job manager implements SerialRunner when no two jobs share a name:  *)
(* every step of Spec is a step of SerialRunner, or changes nothing there. *)
(* The invariant IInv says enough about the states the steps start from.   *)
(***************************************************************************)
EXTENDS JobManagerProofs

\* What SerialRunner sees of a step.
Abstract == Serial!SerialNext \/ UNCHANGED Serial!serialVars

\* The request whose name is in jobRefs is the running job.
LEMMA OccupantIs ==
  ASSUME DistinctNames, IInv, NEW r \in Requests, NameOf[r] \in jobRefs
  PROVE  Occupant = r
<1>1. \A s \in Requests : NameOf[s] \in jobRefs => s = r
  BY NameAssumption DEF DistinctNames, IInv, OneInProgress, TypeOK, ManagerTypeOK
<1> QED
  BY <1>1 DEF Occupant

\* A running job has been accepted and has left the queue; there is one
\* exactly when jobRefs is not empty.
LEMMA OccupantIsAccepted ==
  ASSUME DistinctNames, IInv
  PROVE  /\ jobRefs = {} <=> Occupant = NoRequest
         /\ Occupant # NoRequest => /\ Occupant \in Requests
                                    /\ NameOf[Occupant] \in jobRefs
                                    /\ request[Occupant] = "accepted"
                                    /\ ~Queued(Occupant)
<1>1. CASE jobRefs = {}
  BY <1>1 DEF Occupant
<1>2. ASSUME NEW n \in jobRefs
      PROVE  /\ Occupant \in Requests /\ NameOf[Occupant] \in jobRefs
             /\ request[Occupant] = "accepted" /\ ~Queued(Occupant)
  <2>1. PICK r \in Requests : NameOf[r] = n /\ request[r] = "accepted" /\ ~Queued(r)
    BY <1>2 DEF IInv, OneInProgress
  <2> QED
    BY <1>2, <2>1, OccupantIs
<1> QED
  BY <1>1, <1>2, NameAssumption

\* A job that exists and has not succeeded without a failure is the running one.
LEMMA UnfinishedIsOccupant ==
  ASSUME DistinctNames, IInv, NEW r \in Requests, object[r] # "none", ~Clean(r)
  PROVE  Occupant = r
BY OccupantIs DEF IInv, ForgottenIsClean

\* A step that leaves the queue, jobRefs and the status of the jobs alone is
\* not visible.
LEMMA Invisible ==
  UNCHANGED <<jobqueue, jobRefs, failed, succeeded>> => UNCHANGED Serial!serialVars
BY DEF Serial!serialVars, Occupant, CleanJobs, SomePodFailed, Clean

\* Init is an initial state of SerialRunner.
LEMMA InitSerial == Init => Serial!SerialInit
BY DEF Init, ClusterInit, Serial!SerialInit, Occupant, CleanJobs, SomePodFailed,
       Clean

\* A named job that is received is submitted.
LEMMA ReceiveJobSubmits ==
  ASSUME DistinctNames, IInv, NEW r \in Requests, ReceiveJob(r)
  PROVE  Abstract
<1>1. /\ request[r] = "sending"
      /\ UNCHANGED <<failed, succeeded, jobRefs>>
  BY DEF ReceiveJob, clusterVars
<1>2. CASE NameOf[r] = NoName
  BY <1>1, <1>2, Invisible DEF ReceiveJob, Abstract
<1>3. CASE NameOf[r] # NoName
  <2>1. UNCHANGED <<Occupant, CleanJobs, SomePodFailed>>
    BY <1>1 DEF Occupant, CleanJobs, SomePodFailed, Clean
  <2>2. jobqueue' = Append(jobqueue, r)
    BY <1>3 DEF ReceiveJob
  <2>3. r \notin Range(jobqueue)
    BY <1>1 DEF IInv, QueueOK, Queued
  <2>4. r \notin CleanJobs
    BY <1>1 DEF IInv, FreshHasNoJob, CleanJobs, Clean
  <2>5. r # Occupant
    BY <1>1, OccupantIsAccepted, NameAssumption
  <2>6. Serial!Submit(r)
    BY <2>1, <2>2, <2>3, <2>4, <2>5 DEF Serial!Submit, Serial!Range, Range
  <2> QED
    BY <2>6 DEF Abstract, Serial!SerialNext
<1> QED
  BY <1>2, <1>3

\* The job that leaves the queue starts.
LEMMA ScheduleNextStarts ==
  ASSUME DistinctNames, IInv, ScheduleNext
  PROVE  Abstract
<1> DEFINE h == Head(jobqueue)
<1>1. /\ jobqueue # <<>> /\ jobRefs = {} /\ jobRefs' = {NameOf[h]}
      /\ jobqueue' = Tail(jobqueue)
      /\ UNCHANGED <<failed, succeeded>>
  BY DEF ScheduleNext, MaySchedule, InProgress, CreateTakesEffect, CreateRefused,
         clusterVars
<1>2. h \in Requests /\ NameOf[h] # NoName
  BY <1>1, TailEntries DEF IInv, TypeOK, ManagerTypeOK, Named
<1>3. Occupant = NoRequest
  BY <1>1 DEF Occupant
<1>4. Occupant' = h
  <2>1. \A r \in Requests : NameOf[r] \in jobRefs' => r = h
    BY <1>1, <1>2 DEF DistinctNames
  <2>2. NameOf[h] \in jobRefs'
    BY <1>1
  <2> QED
    BY <1>2, <2>1, <2>2 DEF Occupant
<1>5. UNCHANGED <<CleanJobs, SomePodFailed>>
  BY <1>1 DEF CleanJobs, SomePodFailed, Clean
<1>6. Serial!Start
  BY <1>1, <1>3, <1>4, <1>5 DEF Serial!Start
<1> QED
  BY <1>6 DEF Abstract, Serial!SerialNext

\* The job the monitor deletes is released, unless it had been before.
LEMMA DeleteJobReleases ==
  ASSUME DistinctNames, IInv, DeleteJob
  PROVE  Abstract
<1>1. /\ current \in Requests /\ Clean(current)
      /\ jobRefs' = jobRefs \ {NameOf[current]}
      /\ UNCHANGED <<jobqueue, failed, succeeded>>
  BY DEF DeleteJob, ApiDeleteJob, MarkDeleted, clusterVars, IInv, CurrentOK, TypeOK,
         ManagerTypeOK
<1>2. CASE NameOf[current] \notin jobRefs
  BY <1>1, <1>2, Invisible DEF Abstract
<1>3. CASE NameOf[current] \in jobRefs
  <2>1. Occupant = current
    BY <1>1, <1>3, OccupantIs
  <2>2. Occupant' = NoRequest
    BY <1>1, <1>3 DEF Occupant, IInv, OneInProgress
  <2>3. UNCHANGED <<CleanJobs, SomePodFailed>> /\ Occupant \in CleanJobs
    BY <1>1, <2>1 DEF CleanJobs, SomePodFailed, Clean
  <2>4. Serial!Release
    BY <1>1, <2>2, <2>3 DEF Serial!Release
  <2> QED
    BY <2>4 DEF Abstract, Serial!SerialNext
<1> QED
  BY <1>2, <1>3

\* A pod that succeeds ends the running job, unless an earlier pod failed.
LEMMA PodSucceedsSerial ==
  ASSUME DistinctNames, IInv, NEW r \in Requests, PodSucceeds(r),
         UNCHANGED <<jobqueue, jobRefs>>
  PROVE  Abstract
<1>1. /\ object[r] # "none" /\ ~Clean(r)
      /\ succeeded' = [succeeded EXCEPT ![r] = 1] /\ UNCHANGED failed
  BY DEF PodSucceeds, Running, Exists, Clean
<1>2. Occupant = r /\ Occupant' = r /\ UNCHANGED SomePodFailed
  BY <1>1, UnfinishedIsOccupant DEF Occupant, SomePodFailed
<1>3. CASE failed[r] = 0
  <2>1. CleanJobs' = CleanJobs \cup {r} /\ r \notin CleanJobs
    BY <1>1, <1>3 DEF CleanJobs, Clean, IInv, TypeOK, ClusterTypeOK
  <2>2. ~SomePodFailed
    <3> SUFFICES ASSUME NEW s \in Requests, failed[s] > 0 PROVE FALSE
      BY DEF SomePodFailed
    <3>1. object[s] # "none" /\ ~Clean(s)
      BY DEF IInv, FreshHasNoJob, Clean
    <3> QED
      BY <1>2, <1>3, <3>1, UnfinishedIsOccupant
  <2>3. Serial!Succeed
    BY <1>2, <2>1, <2>2, NameAssumption DEF Serial!Succeed
  <2> QED
    BY <2>3 DEF Abstract, Serial!SerialNext
<1>4. CASE failed[r] # 0
  <2>1. UNCHANGED CleanJobs
    BY <1>1, <1>4 DEF CleanJobs, Clean, IInv, TypeOK, ClusterTypeOK
  <2> QED
    BY <1>2, <2>1 DEF Abstract, Serial!serialVars
<1> QED
  BY <1>3, <1>4

\* The first pod that fails breaks the line.
LEMMA PodFailsSerial ==
  ASSUME DistinctNames, IInv, NEW r \in Requests, PodFails(r),
         UNCHANGED <<jobqueue, jobRefs>>
  PROVE  Abstract
<1>1. /\ object[r] # "none" /\ ~Clean(r) /\ succeeded[r] = 0
      /\ failed' = [failed EXCEPT ![r] = @ + 1] /\ UNCHANGED succeeded
  BY DEF PodFails, Running, Exists, Clean
<1>2. Occupant = r /\ Occupant' = r
  BY <1>1, UnfinishedIsOccupant DEF Occupant
<1>3. UNCHANGED CleanJobs /\ r \notin CleanJobs
  BY <1>1 DEF CleanJobs, Clean, IInv, TypeOK, ClusterTypeOK
<1>4. SomePodFailed'
  BY <1>1 DEF SomePodFailed, IInv, TypeOK, ClusterTypeOK
<1>5. CASE SomePodFailed
  BY <1>2, <1>3, <1>4, <1>5 DEF Abstract, Serial!serialVars, SomePodFailed
<1>6. CASE ~SomePodFailed
  <2>1. Serial!Fail
    BY <1>2, <1>3, <1>4, <1>6, NameAssumption DEF Serial!Fail
  <2> QED
    BY <2>1 DEF Abstract, Serial!SerialNext
<1> QED
  BY <1>5, <1>6

\* Every step is one of SerialRunner, or is not visible there.
LEMMA NextSerial == DistinctNames /\ IInv /\ [Next]_vars => Abstract
<1> SUFFICES ASSUME DistinctNames, IInv, [Next]_vars PROVE Abstract
  OBVIOUS
<1>1. ASSUME NEW r \in Requests, ReceiveJob(r) PROVE Abstract
  BY <1>1, ReceiveJobSubmits
<1>2. CASE ScheduleNext
  BY <1>2, ScheduleNextStarts
<1>3. CASE DeleteJob
  BY <1>3, DeleteJobReleases
<1>4. ASSUME NEW r \in Requests, PodEnds(r) PROVE Abstract
  BY <1>4, PodSucceedsSerial, PodFailsSerial DEF PodEnds, managerVars
<1>5. CASE UNCHANGED <<jobqueue, jobRefs, failed, succeeded>>
  BY <1>5, Invisible DEF Abstract
<1>6. ASSUME NEW r \in Requests, AddJobtoQueue(r) \/ Removed(r) \/ Interfere(r)
      PROVE  UNCHANGED <<jobqueue, jobRefs, failed, succeeded>>
  BY <1>6 DEF AddJobtoQueue, Removed, Interfere, Finalize, OperatorDelete,
              MarkDeleted,
              managerVars, clusterVars
<1> QED
  BY <1>1, <1>2, <1>3, <1>4, <1>5, <1>6
  DEF Next, Monitor, StartMonitor, ReceiveUpdate, NotifierReturns,
      NothingToSchedule, Register, RegisterNotifier, ReceiveDone, Informer,
      Dispatch, Unregister, Session,
      StartWatchers, Cancel, MapRaceCrash, StopMonitor, StopReturns, clusterVars,
      managerVars, vars

\* The job manager implements SerialRunner: jobs run one at a time in the
\* order in which the monitor accepted them, each after the one before has
\* succeeded, and none after a failure.
THEOREM ImplementsSerialRunnerHolds ==
  ASSUME DistinctNames PROVE Spec => ImplementsSerialRunner
<1>1. IInv /\ [Next]_vars => [Serial!SerialNext]_(Serial!serialVars)
  BY NextSerial DEF Abstract
<1> QED
  BY <1>1, InitSerial, Invariance, PTL DEF Spec, ImplementsSerialRunner,
         Serial!SerialSpec

=============================================================================
