---------------------------- MODULE PipelineRefines ----------------------------
(***************************************************************************)
(* previewd as a whole behaves as its parts were described: as long as the *)
(* process does not end, what it does to the cluster and in the job        *)
(* manager is a behaviour of JobManager, and what it does to the clone is  *)
(* one of LocalRepo.  What was proved of either holds of previewd.         *)
(* Nobody in previewd waits for a render: that renders were asked for one  *)
(* after the other is a premise, []spaced.                                 *)
(***************************************************************************)
EXTENDS PipelineProofs, PatientRefines

-----------------------------------------------------------------------------
\* The first process has not ended; it started in an empty cluster, and
\* without a clone.
FirstProcess ==
  /\ crashes = 0 /\ leftOver = {}
  /\ watch = "off" =>
       mpc = "off" /\ stream = <<>> /\ \A r \in Requests : object[r] = "none"
  /\ pc = "uncloned" => head = Absent

LEMMA InitFirst == PipelineInit => FirstProcess
BY DEF PipelineInit, Init, ClusterInit, SessionInit, RepoInit, FirstProcess

\* Without a job in the cluster the informers list nothing.
LEMMA NothingListed ==
  ASSUME TypeOK, StartInformers, \A r \in Requests : object[r] = "none"
  PROVE  stream' = <<>>
<1>1. PICK q \in SetToSeqs({r \in Requests : Exists(r)}) :
         stream' = [i \in DOMAIN q |-> Event("ADDED", q[i])]
  BY DEF StartInformers
<1>2. {r \in Requests : Exists(r)} = {}
  BY DEF Exists
<1>3. Cardinality({}) = 0
  BY FS_EmptySet
<1>4. q \in [1..0 -> {}]
  BY <1>1, <1>2, <1>3 DEF SetToSeqs
<1>5. stream' \in Seq(Events) /\ Len(stream') = 0
  <2>1. stream' \in Seq(Events)
    BY ListedJobs
  <2>2. DOMAIN stream' = 1..0
    BY <1>1, <1>4
  <2> QED
    BY <2>1, <2>2
<1> QED
  BY <1>5, EmptySeq

\* The process that does not end makes the steps of the job manager, ...
LEMMA FirstJobStep ==
  ASSUME MaxCrashes = 0, TypeOK, FirstProcess, [PipelineNext]_pipelineVars
  PROVE  [Next]_vars
<1>1. ~Restart
  BY DEF Restart, FirstProcess
<1>2. CASE StartInformers
  <2>1. watch = "off" /\ mpc = "off" /\ \A r \in Requests : object[r] = "none"
    BY <1>2 DEF StartInformers, FirstProcess
  <2>2. stream' = stream
    BY <1>2, <2>1, NothingListed DEF FirstProcess
  <2>3. Session
    BY <1>2, <2>1, <2>2 DEF StartInformers, Session, StartWatchers, clusterVars
  <2> QED
    BY <2>3 DEF Next
<1>3. CASE UNCHANGED pipelineVars
  BY <1>3 DEF pipelineVars
<1> QED
  BY <1>1, <1>2, <1>3, JobStep

\* ... and those of the clone.
LEMMA FirstRepoStep ==
  ASSUME MaxCrashes = 0, CloneOK, FirstProcess, [PipelineNext]_pipelineVars
  PROVE  [RepoNext]_repoVars
<1>1. ~Restart
  BY DEF Restart, FirstProcess
<1>2. CASE CreateLocalRepoManager
  BY <1>2 DEF CreateLocalRepoManager, CloneOK, FirstProcess, repoVars
<1>3. CASE CloneSource \/ Git \/ Pushes
  BY <1>3 DEF CloneSource, Git, Pushes, RepoNext
<1>4. CASE MonitorStep
  BY <1>4 DEF MonitorStep, Accept, RepoNext
<1>5. CASE \/ StartInformers \/ InitialBuild \/ HookSubmits
           \/ Informer /\ UNCHANGED <<repoVars, processVars>>
           \/ (\E r \in Requests : Cluster(r)) \/ UNCHANGED pipelineVars
  BY <1>5
  DEF StartInformers, InitialBuild, HookSubmits, CreateJekyllJob, Cluster, pipelineVars
<1> QED
  BY <1>1, <1>2, <1>3, <1>4, <1>5 DEF PipelineNext

\* Until the informers are started nothing happens in the cluster, and until
\* the clone nothing in the working tree.
LEMMA NextFirst ==
  ASSUME MaxCrashes = 0, TypeOK, CloneOK, FirstProcess, [PipelineNext]_pipelineVars
  PROVE  FirstProcess'
<1>1. [Next]_vars /\ [RepoNext]_repoVars
  BY FirstJobStep, FirstRepoStep
<1>2. crashes' = 0 /\ leftOver' = {}
  BY DEF FirstProcess, PipelineNext, Restart, StartInformers, CreateLocalRepoManager,
         CloneSource, InitialBuild, HookSubmits, CreateJekyllJob, MonitorStep, Accept,
         Git, Pushes, Cluster, processVars, pipelineVars
<1>3. watch' = "off" =>
        mpc' = "off" /\ stream' = <<>> /\ \A r \in Requests : object'[r] = "none"
  <2> SUFFICES ASSUME watch' = "off" PROVE UNCHANGED <<watch, mpc, stream, object>>
    BY DEF FirstProcess
  <2>1. watch = "off"
    BY <1>1
    DEF Next, Monitor, StartMonitor, ReceiveJob, ReceiveUpdate, NotifierReturns, DeleteJob,
        NothingToSchedule, ScheduleNext, Register, RegisterNotifier, ReceiveDone,
        Informer, Dispatch, Unregister, Session, StartWatchers, Cancel, MapRaceCrash,
        StopMonitor, StopReturns, AddJobtoQueue, PodEnds, Removed, Interfere,
        sessionVars, vars
  <2>2. mpc = "off" /\ \A r \in Requests : object[r] = "none"
    BY <2>1 DEF FirstProcess
  <2>3. ~Monitor /\ ~Session /\ ~Dispatch /\ ~MapRaceCrash /\ ~StopMonitor
    BY <2>1, <2>2
    DEF Monitor, StartMonitor, ReceiveJob, ReceiveUpdate, DeleteJob, NothingToSchedule,
        ScheduleNext, Register, ReceiveDone, Session, StartWatchers, Cancel, Dispatch,
        MapRaceCrash, StopMonitor
  <2>4. \A r \in Requests : ~PodEnds(r) /\ ~Removed(r) /\ ~Interfere(r)
    BY <2>2
    DEF PodEnds, PodSucceeds, PodFails, Running, Exists, Removed, Finalize, Interfere,
        OperatorDelete, MarkDeleted
  <2> QED
    BY <1>1, <2>3, <2>4
    DEF Next, Informer, Unregister, StopReturns, AddJobtoQueue, clusterVars, sessionVars,
        managerVars, vars
<1>4. pc' = "uncloned" => head' = Absent
  BY <1>1
  DEF FirstProcess, RepoNext, Push, DeleteBranch, Move, HandleWebhook, InitialClone,
      Fetch, Checkout, Pull, NoRenderDir, SubmitJob, Fails, repoVars
<1> QED
  BY <1>2, <1>3, <1>4 DEF FirstProcess

-----------------------------------------------------------------------------
\* As long as the process does not end, previewd as a whole implements the
\* specification of its job manager and that of its clone: neither the main
\* goroutine nor the hook processor drives them in a way they do not foresee.
THEOREM ImplementsItsParts ==
  ASSUME MaxCrashes = 0 PROVE PipelineSpec => Spec /\ RepoSpec
<1> DEFINE First == TypeOK /\ CloneOK /\ FirstProcess
<1>1. PipelineInit => First /\ Init /\ RepoInit
  BY InitType, InitClone, InitFirst DEF PipelineInit
<1>2. First /\ [PipelineNext]_pipelineVars => First'
  BY PipelineType, CloneType, NextFirst
<1>3. First /\ [PipelineNext]_pipelineVars => [Next]_vars /\ [RepoNext]_repoVars
  BY FirstJobStep, FirstRepoStep
<1> QED
  BY <1>1, <1>2, <1>3, PTL DEF PipelineSpec, Spec, RepoSpec

\* Only CreateJekyllJob makes a request: while renders are spaced, when all is
\* settled.
LEMMA SpacedIsPatient ==
  ASSUME MaxCrashes = 0, TypeOK, FirstProcess, [PipelineNext]_pipelineVars, spaced',
         NEW r \in Requests, AddJobtoQueue(r)
  PROVE  Settled
<1>1. request[r] = "new" /\ request'[r] = "sending"
  BY DEF AddJobtoQueue, TypeOK, ManagerTypeOK
<1>2. CASE InitialBuild \/ HookSubmits
  <2>1. Quiet /\ leftOver = {}
    BY <1>2 DEF InitialBuild, HookSubmits, CreateJekyllJob, FirstProcess
  <2> QED
    BY <2>1 DEF Quiet, Settled
<1>3. ASSUME NEW q \in Requests, Accept(q) PROVE FALSE
  BY <1>1, <1>3 DEF Accept, ReceiveJob, TypeOK, ManagerTypeOK
<1>4. ~UNCHANGED request /\ ~UNCHANGED vars /\ ~Restart
  BY <1>1 DEF vars, managerVars, Restart, FirstProcess
<1>5. CASE MonitorStep
  BY <1>3, <1>4, <1>5
  DEF MonitorStep, StartMonitor, ReceiveUpdate, DeleteJob, NothingToSchedule,
      ScheduleNext, Register
<1>6. CASE \/ StartInformers \/ Informer
           \/ \E q \in Requests : Cluster(q)
  BY <1>4, <1>6
  DEF StartInformers, Informer, Cluster, PodEnds, Removed, managerVars
<1>7. CASE \/ CreateLocalRepoManager \/ CloneSource \/ Git \/ Pushes
           \/ UNCHANGED pipelineVars
  BY <1>4, <1>7 DEF CreateLocalRepoManager, CloneSource, Git, Pushes, pipelineVars
<1> QED
  BY <1>2, <1>4, <1>5, <1>6, <1>7 DEF PipelineNext

\* So the invariant of patient callers survives the steps of previewd.
LEMMA NextSpacedTurn ==
  ASSUME MaxCrashes = 0, TypeOK, FirstProcess, TurnIInv, [PipelineNext]_pipelineVars,
         spaced'
  PROVE  TurnIInv'
<1>1. [Next]_vars
  BY FirstJobStep
<1>2. IInv'
  BY <1>1, NextIInv, PatientNamesakes DEF TurnIInv, PatientIInv
<1>3. Patience'
  BY <1>1, <1>2, NextPatience, SpacedIsPatient DEF TurnIInv, IInv
<1> QED
  BY <1>1, <1>2, <1>3, NextTurn DEF TurnIInv, PatientIInv, IInv

\* So the render jobs of its start and of its webhooks, which all have one
\* name, run one at a time in the order they were accepted, and stop at a
\* failure, in every behaviour in which each is asked for when those before it
\* are over.
THEOREM PipelineImplementsSerialRunner ==
  ASSUME MaxCrashes = 0
  PROVE  PipelineSpec /\ []spaced => ImplementsSerialRunnerInTurn
<1> DEFINE First == TypeOK /\ CloneOK /\ FirstProcess
<1>1. PipelineInit => First /\ TurnIInv
  BY InitType, InitClone, InitFirst, InitIInv, InitPatience, InitTurn
  DEF PipelineInit, TurnIInv, PatientIInv
<1>2. First /\ [PipelineNext]_pipelineVars => First'
  BY PipelineType, CloneType, NextFirst
<1>3. First /\ TurnIInv /\ [PipelineNext]_pipelineVars /\ spaced' => TurnIInv'
  BY NextSpacedTurn
<1>4. First /\ [PipelineNext]_pipelineVars => [Next]_vars
  BY FirstJobStep
<1>5. TurnIInv /\ TurnIInv' /\ [Next]_vars => [InTurn!SerialNext]_(InTurn!serialVars)
  BY NextInTurn DEF AbstractTurn
<1>6. PipelineInit => InTurn!SerialInit
  BY InitInTurn DEF PipelineInit
<1> HIDE DEF First
<1> QED
  BY <1>1, <1>2, <1>3, <1>4, <1>5, <1>6, PTL
  DEF PipelineSpec, ImplementsSerialRunnerInTurn, InTurn!SerialSpec

=============================================================================
