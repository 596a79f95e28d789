----------------------------- MODULE PatientRefines -----------------------------
(***************************************************************************)
(* With patient callers the job manager implements SerialRunner whatever   *)
(* the names, whatever fails and whoever deletes a job: a job's turn lasts *)
(* from the step that takes it from the queue to the one in which its name *)
(* is forgotten, or it is over and gone.                                   *)
(***************************************************************************)
EXTENDS PatientProofs

\* What SerialRunner sees of a step.
AbstractTurn == InTurn!SerialNext \/ UNCHANGED InTurn!serialVars

\* A request with a job has been started.
LEMMA CreatedIsStarted ==
  ASSUME IInv, NEW r \in Requests, object[r] # "none"
  PROVE  Started(r)
<1>1. request[r] \in {"new", "sending", "accepted"}
  BY DEF IInv, TypeOK, ManagerTypeOK
<1> QED
  BY <1>1 DEF IInv, FreshHasNoJob, Started

\* The one request that has its turn is the holder.
LEMMA HolderIs ==
  ASSUME OneHeld, NEW r \in Requests, Held(r), jobRefs # {}
  PROVE  Holder = r
BY DEF OneHeld, Holder

LEMMA NoHolder ==
  ASSUME jobRefs = {} \/ \A r \in Requests : ~Held(r)
  PROVE  Holder = NoRequest
BY DEF Holder

\* The holder has its turn, and a name is in progress.
LEMMA HolderHolds ==
  ASSUME Holder # NoRequest
  PROVE  Holder \in Requests /\ Held(Holder) /\ jobRefs # {}
BY DEF Holder

\* When nobody's name is in progress and somebody waits, nobody has a turn:
\* what was created has succeeded, and would still wait for its deletion if
\* it existed; what was refused has its name in progress.
LEMMA NobodyHeld ==
  ASSUME TurnIInv, jobRefs = {}, NEW h \in Requests, Waiting(h)
  PROVE  \A r \in Requests : ~Held(r)
<1> SUFFICES ASSUME NEW r \in Requests, Held(r) PROVE FALSE
  OBVIOUS
<1> USE DEF TurnIInv, PatientIInv
<1>1. object[r] # "none"
  BY DEF RefusedBlocks, Held
<1>2. Clean(r)
  BY <1>1 DEF IInv, ForgottenIsClean
<1>3. Exists(r)
  BY <1>1, <1>2 DEF Held, Exists, IInv, TypeOK, ClusterTypeOK
<1>4. failed[r] > 0
  BY <1>3 DEF Patience, WaitingIsQuiet
<1> QED
  BY <1>2, <1>4 DEF Clean

-----------------------------------------------------------------------------
(***************************************************************************)
(* OneHeld and RefusedBlocks are invariants.                               *)
(***************************************************************************)
\* A step that starts no request, creates no job and takes no name out of
\* progress while there may be a refused one.
QuietTurn ==
  /\ \A r \in Requests : Started(r)' => Started(r)
  /\ \A r \in Requests : Held(r)' => Held(r)
  /\ \A r \in Requests : object'[r] = "none" <=> object[r] = "none"
  /\ \A r \in Requests : Exists(r)' => Exists(r)
  /\ CleanPending' => CleanPending \/ \E s \in Requests : Exists(s)
  /\ ~CleanPending => jobRefs \subseteq jobRefs'

LEMMA QuietTurnKeeps ==
  TurnIInv /\ QuietTurn => OneHeld' /\ RefusedBlocks'
<1> SUFFICES ASSUME TurnIInv, QuietTurn PROVE OneHeld' /\ RefusedBlocks'
  OBVIOUS
<1> USE DEF TurnIInv, QuietTurn
<1>1. OneHeld'
  BY DEF OneHeld
<1>2. RefusedBlocks'
  BY DEF RefusedBlocks
<1> QED
  BY <1>1, <1>2

\* A step that leaves the jobs, the stream and the queue alone.
LEMMA StillTurn ==
  ASSUME TurnIInv,
         UNCHANGED <<object, failed, succeeded, stream, jobqueue, jobRefs>>,
         ipc' = "notify" => ipc = "notify" /\ UNCHANGED ievent,
         mpc' = "deleteJob" => mpc = "deleteJob",
         \A r \in Requests : request'[r] = "accepted" => request[r] = "accepted"
  PROVE  OneHeld' /\ RefusedBlocks'
<1>1. CleanPending' => CleanPending
  BY DEF CleanPending
<1>2. \A r \in Requests : Started(r)' => Started(r)
  BY DEF Started, Queued
<1> QED
  BY <1>1, <1>2, QuietTurnKeeps DEF QuietTurn, Held, Clean, Exists

\* The monitor accepts a job.  A named one is in the queue, not started.
LEMMA ReceiveJobStarts ==
  ASSUME IInv, NEW r \in Requests, ReceiveJob(r)
  PROVE  \A s \in Requests : Started(s)' <=> Started(s)
<1>1. /\ request[r] = "sending"
      /\ request' = [request EXCEPT ![r] = "accepted"]
      /\ request \in [Requests -> {"new", "sending", "accepted"}]
  BY DEF ReceiveJob, IInv, TypeOK, ManagerTypeOK
<1>2. CASE NameOf[r] # NoName
  <2>1. r \in Named /\ jobqueue' = Append(jobqueue, r)
    BY <1>2 DEF ReceiveJob, Named
  <2>2. Range(jobqueue') = Range(jobqueue) \cup {r}
    BY <2>1, AppendEntries DEF IInv, TypeOK, ManagerTypeOK
  <2> QED
    BY <1>1, <2>2 DEF Started, Queued
<1>3. CASE NameOf[r] = NoName
  BY <1>1, <1>3 DEF ReceiveJob, Started, Queued, Named
<1> QED
  BY <1>2, <1>3

LEMMA ReceiveJobTurn ==
  ASSUME TurnIInv, NEW r \in Requests, ReceiveJob(r)
  PROVE  OneHeld' /\ RefusedBlocks'
<1>1. /\ UNCHANGED <<object, failed, succeeded, stream, ipc, ievent, jobRefs>>
      /\ mpc' = "schedule"
  BY DEF ReceiveJob, clusterVars, sessionVars
<1>2. \A s \in Requests : Started(s)' <=> Started(s)
  BY ReceiveJobStarts DEF TurnIInv, PatientIInv
<1>3. CleanPending' => CleanPending
  BY <1>1 DEF CleanPending
<1> QED
  BY <1>1, <1>2, <1>3, QuietTurnKeeps DEF QuietTurn, Held, Clean, Exists

LEMMA ReportTurn ==
  ASSUME TurnIInv,
         UNCHANGED <<object, failed, succeeded, request, jobqueue, jobRefs>>,
         CleanPending' => CleanPending
  PROVE  OneHeld' /\ RefusedBlocks'
<1>1. \A r \in Requests : Started(r)' => Started(r)
  BY DEF Started, Queued
<1> QED
  BY <1>1, QuietTurnKeeps DEF QuietTurn, Held, Clean, Exists

\* A job changes.  It exists, so no create call was refused.
LEMMA ChangeTurn ==
  ASSUME TurnIInv, TypeOK', NEW r \in Requests,
         MarkDeleted(r) \/ PodSucceeds(r) \/ PodFails(r) \/ Finalize(r),
         UNCHANGED <<ipc, ievent, request, jobqueue>>,
         mpc' = "deleteJob" => mpc = "deleteJob",
         ~CleanPending => jobRefs \subseteq jobRefs'
  PROVE  OneHeld' /\ RefusedBlocks'
<1> USE DEF TurnIInv, PatientIInv
<1>1. /\ Stable
      /\ \A s \in Requests : object'[s] = "none" <=> object[s] = "none"
  BY ChangeEffect DEF IInv
<1>2. /\ Exists(r)
      /\ \A s \in Requests : Exists(s)' => Exists(s)
      /\ \A s \in Requests : object[s] = "gone" => object'[s] = "gone"
  BY DEF MarkDeleted, PodSucceeds, PodFails, Finalize, Running, Exists, IInv,
         TypeOK, ClusterTypeOK
<1>3. \A s \in Requests : Started(s)' => Started(s)
  BY DEF Started, Queued
<1>4. \A s \in Requests : Held(s)' => Held(s)
  BY <1>1, <1>2, <1>3 DEF Held, Stable
<1> QED
  BY <1>1, <1>2, <1>3, <1>4, QuietTurnKeeps DEF QuietTurn

\* The delete call.
LEMMA DeleteJobTurn ==
  ASSUME TurnIInv, TypeOK', DeleteJob
  PROVE  OneHeld' /\ RefusedBlocks'
<1>1. /\ UNCHANGED <<ipc, ievent, request, jobqueue>>
      /\ mpc = "deleteJob" /\ mpc' = "schedule"
      /\ CleanPending
  BY DEF DeleteJob, sessionVars, CleanPending
<1>2. CASE UNCHANGED clusterVars
  <2>1. /\ \A r \in Requests : Started(r)' => Started(r)
        /\ CleanPending' => CleanPending
    BY <1>1 DEF Started, Queued, CleanPending
  <2> QED
    BY <1>1, <1>2, <2>1, QuietTurnKeeps DEF QuietTurn, Held, Clean, Exists, clusterVars
<1>3. ASSUME NEW r \in Requests, MarkDeleted(r) PROVE OneHeld' /\ RefusedBlocks'
  BY <1>1, <1>3, ChangeTurn
<1> QED
  BY <1>2, <1>3 DEF DeleteJob, ApiDeleteJob, Holders

\* What scheduleIfPossible does to the queue.
LEMMA ScheduleNextEffect ==
  ASSUME TurnIInv, ScheduleNext
  PROVE  /\ Head(jobqueue) \in Named
         /\ Waiting(Head(jobqueue))
         /\ object[Head(jobqueue)] = "none"
         /\ jobRefs = {} /\ jobRefs' = {NameOf[Head(jobqueue)]}
         /\ jobqueue # <<>> /\ jobqueue' = Tail(jobqueue)
         /\ mpc' # "deleteJob"
         /\ UNCHANGED <<failed, succeeded, request, ipc, ievent>>
         /\ CreateTakesEffect(Head(jobqueue)) \/ UNCHANGED clusterVars
         /\ \A r \in Requests : Started(r)' => Started(r) \/ r = Head(jobqueue)
<1> USE DEF TurnIInv, PatientIInv
<1>1. PICK h \in Named : h = Head(jobqueue)
  BY TailEntries DEF ScheduleNext, MaySchedule, IInv, TypeOK, ManagerTypeOK
<1>2. /\ jobqueue # <<>> /\ jobRefs = {} /\ jobRefs' = {NameOf[h]}
      /\ jobqueue' = Tail(jobqueue)
      /\ UNCHANGED <<failed, succeeded, request, ipc, ievent>>
      /\ mpc' # "deleteJob"
      /\ CreateTakesEffect(h) \/ UNCHANGED clusterVars
  BY <1>1 DEF ScheduleNext, MaySchedule, InProgress, CreateTakesEffect, CreateRefused,
              clusterVars, sessionVars
<1>3. Range(jobqueue) = Range(jobqueue') \cup {h}
  BY <1>1, <1>2, TailEntries DEF IInv, TypeOK, ManagerTypeOK
<1>4. Waiting(h) /\ object[h] = "none"
  BY <1>3 DEF Named, IInv, FreshHasNoJob, Queued, Waiting
<1>5. \A r \in Requests : Started(r)' => Started(r) \/ r = h
  BY <1>2, <1>3 DEF Started, Queued
<1> QED
  BY <1>1, <1>2, <1>4, <1>5

\* The create call: nobody had a turn, and now only the head of the queue has.
LEMMA ScheduleNextTurn ==
  ASSUME TurnIInv, TypeOK', ScheduleNext
  PROVE  /\ \A r \in Requests : ~Held(r)
         /\ \A r \in Requests : Held(r)' => r = Head(jobqueue)
         /\ RefusedBlocks'
<1> USE DEF TurnIInv, PatientIInv
<1>1. PICK h \in Named : h = Head(jobqueue)
  BY ScheduleNextEffect
<1>2. /\ Waiting(h) /\ object[h] = "none"
      /\ jobRefs = {} /\ jobRefs' = {NameOf[h]}
      /\ mpc' # "deleteJob"
      /\ UNCHANGED <<failed, succeeded, request, ipc, ievent>>
      /\ CreateTakesEffect(h) \/ UNCHANGED clusterVars
      /\ \A r \in Requests : Started(r)' => Started(r) \/ r = h
  BY <1>1, ScheduleNextEffect
<1>3. h \in Requests
  BY DEF Named
<1>4. \A r \in Requests : ~Held(r)
  BY <1>2, <1>3, NobodyHeld
<1>5. \A r \in Requests : Started(r) => object[r] = "gone" /\ Clean(r)
  BY <1>4 DEF Held
<1>6. \A r \in Requests : r # h => object'[r] = object[r]
  BY <1>2, <1>3 DEF CreateTakesEffect, clusterVars, IInv, TypeOK, ClusterTypeOK
<1>7. \A r \in Requests : Held(r)' => r = h
  BY <1>2, <1>5, <1>6 DEF Held, Clean
<1>8. RefusedBlocks'
  <2> SUFFICES ASSUME NEW r \in Requests, Started(r)', object'[r] = "none"
               PROVE  /\ NameOf[r] \in jobRefs' /\ ~CleanPending'
                      /\ \A s \in Requests : ~Exists(s)'
    BY DEF RefusedBlocks
  <2>1. r = h
    BY <1>2, <1>5, <1>6
  <2>2. UNCHANGED clusterVars
    BY <1>2, <1>3, <2>1 DEF CreateTakesEffect, IInv, TypeOK, ClusterTypeOK
  <2>3. ~CleanPending /\ \A s \in Requests : Exists(s) => failed[s] > 0
    BY <1>2, <1>3 DEF Patience, WaitingIsQuiet
  <2>4. \A s \in Requests : Exists(s) => Clean(s)
    BY <1>2 DEF IInv, ForgottenIsClean, Exists
  <2>5. ~CleanPending'
    BY <1>2, <2>2, <2>3 DEF CleanPending, clusterVars
  <2>6. \A s \in Requests : ~Exists(s)'
    BY <2>2, <2>3, <2>4 DEF Clean, Exists, clusterVars
  <2> QED
    BY <1>2, <2>1, <2>5, <2>6
<1> QED
  BY <1>1, <1>4, <1>7, <1>8

\* The initial state.
LEMMA InitTurn == Init => OneHeld /\ RefusedBlocks
BY DEF Init, OneHeld, RefusedBlocks, Held, Started

\* Every step keeps it to one turn at a time.
LEMMA NextTurn ==
  ASSUME TurnIInv, [Next]_vars, TypeOK'
  PROVE  OneHeld' /\ RefusedBlocks'
<1> USE DEF TurnIInv, PatientIInv
<1>1. CASE Monitor
  <2>1. ASSUME NEW r \in Requests, ReceiveJob(r) PROVE OneHeld' /\ RefusedBlocks'
    BY <2>1, ReceiveJobTurn
  <2>2. CASE ReceiveUpdate
    BY <2>2, ReceiveUpdateReports, ReportTurn DEF IInv
  <2>3. CASE ScheduleNext
    BY <2>3, ScheduleNextTurn DEF OneHeld
  <2>4. CASE StartMonitor \/ NothingToSchedule \/ Register \/ ReceiveDone
    BY <2>4, StillTurn
    DEF StartMonitor, NothingToSchedule, Register, RegisterNotifier, ReceiveDone,
        clusterVars, sessionVars
  <2> QED
    BY <1>1, <2>1, <2>2, <2>3, <2>4, DeleteJobTurn DEF Monitor
<1>2. CASE Informer
  <2>1. CASE Dispatch
    BY <1>2, <2>1, DispatchReports, ReportTurn DEF Informer, IInv
  <2>2. CASE Unregister
    BY <1>2, <2>2, StillTurn DEF Informer, Unregister, clusterVars, managerVars
  <2> QED
    BY <1>2, <2>1, <2>2 DEF Informer
<1>3. CASE Session \/ MapRaceCrash \/ StopMonitor \/ StopReturns \/ UNCHANGED vars
  BY <1>3, StillTurn
  DEF Session, StartWatchers, Cancel, MapRaceCrash, StopMonitor, StopReturns, vars,
      clusterVars, sessionVars, managerVars
<1>4. ASSUME NEW r \in Requests, AddJobtoQueue(r) PROVE OneHeld' /\ RefusedBlocks'
  <2>1. /\ UNCHANGED <<object, failed, succeeded, stream, jobqueue, jobRefs, ipc,
                       ievent, mpc>>
        /\ request' = [request EXCEPT ![r] = "sending"]
    BY <1>4 DEF AddJobtoQueue, clusterVars, sessionVars
  <2>2. \A s \in Requests : request'[s] = "accepted" => request[s] = "accepted"
    BY <2>1 DEF IInv, TypeOK, ManagerTypeOK
  <2> QED
    BY <2>1, <2>2, StillTurn
<1>5. ASSUME NEW r \in Requests, PodEnds(r) \/ Removed(r) \/ Interfere(r)
      PROVE  OneHeld' /\ RefusedBlocks'
  BY <1>5, ChangeTurn
  DEF PodEnds, Removed, Interfere, OperatorDelete, sessionVars, managerVars
<1> QED
  BY <1>1, <1>2, <1>3, <1>4, <1>5 DEF Next

\* One request has its turn, and one whose create call was refused keeps it.
THEOREM TurnInvariance ==
  ASSUME "overlap" \notin Env PROVE Spec => []TurnIInv
<1>1. Init => TurnIInv
  BY InitIInv, InitPatience, InitTurn DEF TurnIInv, PatientIInv
<1>2. TurnIInv /\ PatientIInv' /\ [Next]_vars => TurnIInv'
  BY NextTurn DEF TurnIInv, PatientIInv, IInv
<1> QED
  BY <1>1, <1>2, PatientInvariance, PTL DEF Spec

-----------------------------------------------------------------------------
(***************************************************************************)
(* The refinement, step by step.                                           *)
(***************************************************************************)
\* The holder stays when the turns stay.
LEMMA HolderKept ==
  ASSUME OneHeld, OneHeld', jobRefs = {} <=> jobRefs' = {},
         \A r \in Requests : Held(r)' <=> Held(r)
  PROVE  UNCHANGED Holder
<1>1. CASE jobRefs # {} /\ \E r \in Requests : Held(r)
  <2>1. PICK r \in Requests : Held(r)
    BY <1>1
  <2>2. Holder = r
    BY <1>1, <2>1, HolderIs
  <2>3. Held(r)' /\ jobRefs' # {}
    BY <1>1, <2>1
  <2>4. Holder' = r
    BY <2>3 DEF OneHeld, Holder
  <2> QED
    BY <2>2, <2>4
<1>2. CASE jobRefs = {} \/ \A r \in Requests : ~Held(r)
  BY <1>2 DEF Holder
<1> QED
  BY <1>1, <1>2

\* A step that leaves the queue, jobRefs, the turns and the status of the
\* jobs alone is not visible.
LEMMA InvisibleTurn ==
  ASSUME OneHeld, OneHeld', UNCHANGED <<jobqueue, failed, succeeded>>,
         jobRefs = {} <=> jobRefs' = {},
         \A r \in Requests : Held(r)' <=> Held(r)
  PROVE  AbstractTurn
BY HolderKept DEF AbstractTurn, InTurn!serialVars, CleanJobs, SomePodFailed, Clean

\* Init is an initial state of SerialRunner.
LEMMA InitInTurn == Init => InTurn!SerialInit
BY DEF Init, ClusterInit, InTurn!SerialInit, Holder, CleanJobs, SomePodFailed, Clean

\* A named job that is received is submitted.
LEMMA ReceiveJobInTurn ==
  ASSUME TurnIInv, OneHeld', NEW r \in Requests, ReceiveJob(r)
  PROVE  AbstractTurn
<1> USE DEF TurnIInv, PatientIInv
<1>1. /\ request[r] = "sending"
      /\ UNCHANGED <<object, failed, succeeded, jobRefs>>
  BY DEF ReceiveJob, clusterVars
<1>2. \A s \in Requests : Held(s)' <=> Held(s)
  BY <1>1, ReceiveJobStarts DEF Held, Clean
<1>3. CASE NameOf[r] = NoName
  BY <1>1, <1>2, <1>3, InvisibleTurn DEF ReceiveJob
<1>4. CASE NameOf[r] # NoName
  <2>1. UNCHANGED <<Holder, CleanJobs, SomePodFailed>>
    BY <1>1, <1>2, HolderKept DEF CleanJobs, SomePodFailed, Clean
  <2>2. jobqueue' = Append(jobqueue, r)
    BY <1>4 DEF ReceiveJob
  <2>3. r \notin Range(jobqueue)
    BY <1>1 DEF IInv, QueueOK, Queued
  <2>4. r \notin CleanJobs
    BY <1>1 DEF IInv, FreshHasNoJob, CleanJobs, Clean
  <2>5. r # Holder
    BY <1>1, HolderHolds, NameAssumption DEF Held, Started
  <2>6. InTurn!Submit(r)
    BY <2>1, <2>2, <2>3, <2>4, <2>5 DEF InTurn!Submit, InTurn!Range, Range
  <2> QED
    BY <2>6 DEF AbstractTurn, InTurn!SerialNext
<1> QED
  BY <1>3, <1>4

\* The job that leaves the queue starts.
LEMMA ScheduleNextInTurn ==
  ASSUME TurnIInv, TypeOK', ScheduleNext
  PROVE  AbstractTurn
<1>1. PICK h \in Named : h = Head(jobqueue)
  BY ScheduleNextEffect
<1>2. /\ jobqueue # <<>> /\ jobqueue' = Tail(jobqueue)
      /\ jobRefs = {} /\ jobRefs' # {}
      /\ UNCHANGED <<failed, succeeded>>
      /\ request' = request /\ object[h] = "none"
      /\ Waiting(h)
  BY <1>1, ScheduleNextEffect
<1>3. h \in Requests /\ NoRequest \notin Requests
  BY NameAssumption DEF Named
<1>4. Holder = NoRequest
  BY <1>2 DEF Holder
<1>5. Held(h)'
  <2>1. request[h] = "accepted" /\ ~Clean(h)
    <3>1. h \in Range(jobqueue)
      BY <1>1, <1>2, TailEntries DEF TurnIInv, PatientIInv, IInv, TypeOK, ManagerTypeOK
    <3> QED
      BY <1>2, <1>3, <3>1
      DEF TurnIInv, PatientIInv, IInv, QueueOK, Queued, FreshHasNoJob, Clean
  <2>2. ~Queued(h)'
    BY <1>1, <1>2, HeadLeaves DEF TurnIInv, PatientIInv
  <2> QED
    BY <1>2, <2>1, <2>2 DEF Held, Started, Clean
<1>6. Holder' = h
  <2>1. \A r \in Requests : Held(r)' <=> r = h
    BY <1>1, <1>3, <1>5, ScheduleNextTurn
  <2> QED
    BY <1>2, <1>3, <2>1 DEF Holder
<1>7. UNCHANGED <<CleanJobs, SomePodFailed>>
  BY <1>2 DEF CleanJobs, SomePodFailed, Clean
<1>8. InTurn!Start
  BY <1>1, <1>2, <1>4, <1>6, <1>7 DEF InTurn!Start
<1> QED
  BY <1>8 DEF AbstractTurn, InTurn!SerialNext

\* The job the monitor deletes, which has succeeded, is released.
LEMMA DeleteJobInTurn ==
  ASSUME TurnIInv, TurnIInv', DeleteJob
  PROVE  AbstractTurn
<1> USE DEF TurnIInv, PatientIInv
<1>1. /\ UNCHANGED <<jobqueue, failed, succeeded, request>>
      /\ jobRefs' \subseteq jobRefs
      /\ mpc = "deleteJob"
  BY DEF DeleteJob, ApiDeleteJob, MarkDeleted, clusterVars
<1>2. \A r \in Requests : Held(r)' <=> Held(r)
  <2>1. \A r \in Requests : object'[r] = "gone" <=> object[r] = "gone"
    <3>1. CASE UNCHANGED object
      BY <3>1
    <3>2. ASSUME NEW d \in Requests, MarkDeleted(d)
          PROVE  \A r \in Requests : object'[r] = "gone" <=> object[r] = "gone"
      BY <3>2 DEF MarkDeleted, IInv, TypeOK, ClusterTypeOK
    <3> QED
      BY <3>1, <3>2 DEF DeleteJob, ApiDeleteJob, Holders, clusterVars
  <2> QED
    BY <1>1, <2>1 DEF Held, Started, Queued, Clean
<1>3. UNCHANGED <<CleanJobs, SomePodFailed>>
  BY <1>1 DEF CleanJobs, SomePodFailed, Clean
<1>4. CASE jobRefs = {} <=> jobRefs' = {}
  BY <1>1, <1>2, <1>4, InvisibleTurn
<1>5. CASE jobRefs # {} /\ jobRefs' = {}
  <2>1. Holder' = NoRequest
    BY <1>5 DEF Holder
  <2>2. CASE Holder = NoRequest
    BY <1>1, <1>3, <2>1, <2>2 DEF AbstractTurn, InTurn!serialVars
  <2>3. CASE Holder # NoRequest
    <3>1. CleanPending
      BY <1>1 DEF CleanPending
    <3>2. Holder \in Requests /\ Started(Holder)
      BY <2>3, HolderHolds DEF Held
    <3>3. object[Holder] # "none"
      BY <3>1, <3>2 DEF RefusedBlocks
    <3>4. Holder \in CleanJobs
      BY <3>1, <3>2, <3>3 DEF Patience, AllClean, CleanJobs
    <3>5. InTurn!Release
      BY <1>1, <1>3, <2>1, <3>4 DEF InTurn!Release
    <3> QED
      BY <3>5 DEF AbstractTurn, InTurn!SerialNext
  <2> QED
    BY <2>2, <2>3
<1> QED
  BY <1>1, <1>4, <1>5

\* A job that exists and has not succeeded without a failure has its turn.
LEMMA UncleanHolds ==
  ASSUME TurnIInv, NEW r \in Requests, object[r] # "none", ~Clean(r)
  PROVE  Held(r) /\ jobRefs # {} /\ Holder = r
<1>1. Held(r) /\ jobRefs # {}
  BY CreatedIsStarted DEF TurnIInv, PatientIInv, IInv, ForgottenIsClean, Held
<1> QED
  BY <1>1, HolderIs DEF TurnIInv

\* A pod that succeeds ends the running job, unless an earlier pod failed.
LEMMA PodSucceedsInTurn ==
  ASSUME TurnIInv, TurnIInv', NEW r \in Requests, PodSucceeds(r),
         UNCHANGED <<jobqueue, jobRefs, request>>
  PROVE  AbstractTurn
<1> USE DEF TurnIInv, PatientIInv
<1>1. /\ object[r] # "none" /\ object[r] # "gone" /\ ~Clean(r)
      /\ succeeded' = [succeeded EXCEPT ![r] = 1] /\ UNCHANGED <<object, failed>>
  BY DEF PodSucceeds, Running, Exists, Clean
<1>2. Holder = r /\ jobRefs # {} /\ Held(r)
  BY <1>1, UncleanHolds
<1>3. Held(r)'
  BY <1>1, <1>2 DEF Held, Started, Queued
<1>4. Holder' = r /\ UNCHANGED SomePodFailed
  BY <1>1, <1>2, <1>3 DEF OneHeld, Holder, SomePodFailed
<1>5. CASE failed[r] = 0
  <2>1. CleanJobs' = CleanJobs \cup {r} /\ r \notin CleanJobs
    BY <1>1, <1>5 DEF CleanJobs, Clean, IInv, TypeOK, ClusterTypeOK
  <2>2. ~SomePodFailed
    <3> SUFFICES ASSUME NEW s \in Requests, failed[s] > 0 PROVE FALSE
      BY DEF SomePodFailed
    <3>1. object[s] # "none" /\ ~Clean(s)
      BY DEF IInv, FreshHasNoJob, Clean
    <3> QED
      BY <1>2, <1>5, <3>1, UncleanHolds
  <2>3. InTurn!Succeed
    BY <1>2, <1>4, <2>1, <2>2, NameAssumption DEF InTurn!Succeed
  <2> QED
    BY <2>3 DEF AbstractTurn, InTurn!SerialNext
<1>6. CASE failed[r] # 0
  <2>1. UNCHANGED CleanJobs
    BY <1>1, <1>6 DEF CleanJobs, Clean, IInv, TypeOK, ClusterTypeOK
  <2> QED
    BY <1>2, <1>4, <2>1 DEF AbstractTurn, InTurn!serialVars
<1> QED
  BY <1>5, <1>6

\* The first pod that fails breaks the line.
LEMMA PodFailsInTurn ==
  ASSUME TurnIInv, TurnIInv', NEW r \in Requests, PodFails(r),
         UNCHANGED <<jobqueue, jobRefs, request>>
  PROVE  AbstractTurn
<1> USE DEF TurnIInv, PatientIInv
<1>1. /\ object[r] # "none" /\ object[r] # "gone" /\ ~Clean(r) /\ succeeded[r] = 0
      /\ failed' = [failed EXCEPT ![r] = @ + 1] /\ UNCHANGED <<object, succeeded>>
  BY DEF PodFails, Running, Exists, Clean
<1>2. Holder = r /\ jobRefs # {} /\ Held(r)
  BY <1>1, UncleanHolds
<1>3. Held(r)'
  BY <1>1, <1>2 DEF Held, Started, Queued
<1>4. Holder' = r
  BY <1>2, <1>3 DEF OneHeld, Holder
<1>5. UNCHANGED CleanJobs /\ r \notin CleanJobs
  BY <1>1 DEF CleanJobs, Clean, IInv, TypeOK, ClusterTypeOK
<1>6. SomePodFailed'
  BY <1>1 DEF SomePodFailed, IInv, TypeOK, ClusterTypeOK
<1>7. CASE SomePodFailed
  BY <1>2, <1>4, <1>5, <1>6, <1>7 DEF AbstractTurn, InTurn!serialVars, SomePodFailed
<1>8. CASE ~SomePodFailed
  <2>1. InTurn!Fail
    BY <1>2, <1>4, <1>5, <1>6, <1>8, NameAssumption DEF InTurn!Fail
  <2> QED
    BY <2>1 DEF AbstractTurn, InTurn!SerialNext
<1> QED
  BY <1>7, <1>8

\* A job that is deleted behind the manager's back is still there; one that
\* goes before the manager forgot its name, having succeeded, is released.
LEMMA RemovedInTurn ==
  ASSUME TurnIInv, TurnIInv', NEW r \in Requests, MarkDeleted(r) \/ Finalize(r),
         UNCHANGED <<jobqueue, jobRefs, request>>
  PROVE  AbstractTurn
<1> USE DEF TurnIInv, PatientIInv
<1>1. /\ UNCHANGED <<failed, succeeded>>
      /\ \A s \in Requests : s # r => object'[s] = object[s]
      /\ object[r] # "none" /\ object[r] # "gone"
  BY DEF MarkDeleted, Finalize, IInv, TypeOK, ClusterTypeOK
<1>2. UNCHANGED <<CleanJobs, SomePodFailed>>
  BY <1>1 DEF CleanJobs, SomePodFailed, Clean
<1>3. Held(r)
  BY <1>1, CreatedIsStarted DEF Held
<1>4. \A s \in Requests : s # r => (Held(s)' <=> Held(s))
  BY <1>1 DEF Held, Started, Queued, Clean
<1>5. CASE Held(r)' \/ jobRefs = {}
  <2>1. CASE jobRefs = {}
    BY <1>2, <2>1 DEF Holder, AbstractTurn, InTurn!serialVars
  <2>2. CASE Held(r)'
    BY <1>1, <1>3, <1>4, <2>2, InvisibleTurn
  <2> QED
    BY <1>5, <2>1, <2>2
<1>6. CASE ~Held(r)' /\ jobRefs # {}
  <2>1. Holder = r
    BY <1>3, <1>6, HolderIs
  <2>2. Holder' = NoRequest
    BY <1>3, <1>4, <1>6 DEF OneHeld, Holder
  <2>3. r \in CleanJobs
    BY <1>1, <1>3, <1>6 DEF Held, Started, Queued, Clean, CleanJobs
  <2>4. InTurn!Release
    BY <1>2, <2>1, <2>2, <2>3 DEF InTurn!Release
  <2> QED
    BY <2>4 DEF AbstractTurn, InTurn!SerialNext
<1> QED
  BY <1>5, <1>6

\* Every step is one of SerialRunner, or is not visible there.
LEMMA NextInTurn == TurnIInv /\ TurnIInv' /\ [Next]_vars => AbstractTurn
<1> SUFFICES ASSUME TurnIInv, TurnIInv', [Next]_vars PROVE AbstractTurn
  OBVIOUS
<1> USE DEF TurnIInv, PatientIInv
<1>1. ASSUME NEW r \in Requests, ReceiveJob(r) PROVE AbstractTurn
  BY <1>1, ReceiveJobInTurn
<1>2. CASE ScheduleNext
  BY <1>2, ScheduleNextInTurn DEF IInv
<1>3. CASE DeleteJob
  BY <1>3, DeleteJobInTurn
<1>4. ASSUME NEW r \in Requests, PodEnds(r) \/ Removed(r) \/ Interfere(r)
      PROVE  AbstractTurn
  BY <1>4, PodSucceedsInTurn, PodFailsInTurn, RemovedInTurn
  DEF PodEnds, Removed, Interfere, OperatorDelete, managerVars
<1>5. ASSUME NEW r \in Requests, AddJobtoQueue(r) PROVE AbstractTurn
  <2>1. /\ UNCHANGED <<object, failed, succeeded, jobqueue, jobRefs>>
        /\ request' = [request EXCEPT ![r] = "sending"] /\ request[r] = "new"
    BY <1>5 DEF AddJobtoQueue, clusterVars
  <2>2. \A s \in Requests : Held(s)' <=> Held(s)
    BY <2>1 DEF Held, Started, Queued, Clean, IInv, TypeOK, ManagerTypeOK
  <2> QED
    BY <2>1, <2>2, InvisibleTurn
<1>6. CASE UNCHANGED <<object, failed, succeeded, request, jobqueue, jobRefs>>
  <2>1. \A s \in Requests : Held(s)' <=> Held(s)
    BY <1>6 DEF Held, Started, Queued, Clean
  <2> QED
    BY <1>6, <2>1, InvisibleTurn
<1> QED
  BY <1>1, <1>2, <1>3, <1>4, <1>5, <1>6
  DEF Next, Monitor, StartMonitor, ReceiveUpdate, NotifierReturns,
      NothingToSchedule, Register, RegisterNotifier, ReceiveDone, Informer,
      Dispatch, Unregister, Session,
      StartWatchers, Cancel, MapRaceCrash, StopMonitor, StopReturns, clusterVars,
      managerVars, vars

\* With patient callers the job manager implements SerialRunner, the one
\* name previewd gives every render included: jobs run one at a time in the
\* order in which the monitor accepted them, each after the one before has
\* succeeded, and none after a failure.
THEOREM PatientImplementsSerialRunner ==
  ASSUME "overlap" \notin Env PROVE Spec => ImplementsSerialRunnerInTurn
<1>1. TurnIInv /\ TurnIInv' /\ [Next]_vars => [InTurn!SerialNext]_(InTurn!serialVars)
  BY NextInTurn DEF AbstractTurn
<1> QED
  BY <1>1, InitInTurn, TurnInvariance, PTL DEF Spec, ImplementsSerialRunnerInTurn,
         InTurn!SerialSpec

=============================================================================
