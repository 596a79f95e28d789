----------------------------- MODULE PipelineProofs -----------------------------
(***************************************************************************)
(* Theorems about previewd as a whole, for any branches, commits, webhooks *)
(* and numbers of restarts: with the one name of its renders, and as long  *)
(* as they are asked for one after the other, the site is the clone's.     *)
(***************************************************************************)
EXTENDS Pipeline, JobManagerProofs, LocalRepoProofs, FiniteSetTheorems

-----------------------------------------------------------------------------
(***************************************************************************)
(* Type correctness.                                                       *)
(***************************************************************************)
\* A new process finds the jobs that exist, each with its present status.
LEMMA ListedJobs ==
  ASSUME TypeOK, StartInformers
  PROVE  stream' \in Seq(Events)
<1>1. PICK q \in SetToSeqs({r \in Requests : Exists(r)}) :
         stream' = [i \in DOMAIN q |-> Event("ADDED", q[i])]
  BY DEF StartInformers
<1> DEFINE n == Cardinality({r \in Requests : Exists(r)})
<1>2. n \in Nat
  BY FS_CardinalityType, FS_Subset, PipelineAssumption
<1>3. q \in [1..n -> Requests]
  BY DEF SetToSeqs
<1>4. \A r \in Requests : Event("ADDED", r) \in Events
  BY DEF StartInformers, Event, Events, Kinds, TypeOK, ClusterTypeOK
<1>5. stream' \in [1..n -> Events]
  BY <1>1, <1>3, <1>4
<1> QED
  <2> DEFINE m == n
  <2>1. m \in Nat /\ stream' \in [1..m -> Events]
    BY <1>2, <1>5
  <2> HIDE DEF m
  <2> QED
    BY <2>1, SeqDef

\* The steps that are not steps of the job manager.
LEMMA StartInformersType == TypeOK /\ StartInformers => TypeOK'
<1> SUFFICES ASSUME TypeOK, StartInformers PROVE TypeOK'
  OBVIOUS
<1>1. stream' \in Seq(Events)
  BY ListedJobs
<1> QED
  BY <1>1 DEF StartInformers, managerVars, TypeOK, ClusterTypeOK, SessionTypeOK,
              ManagerTypeOK

LEMMA RestartType == TypeOK /\ Restart => TypeOK'
<1> SUFFICES ASSUME TypeOK, Restart PROVE TypeOK'
  OBVIOUS
<1>1. stream' \in Seq(Events) /\ jobqueue' \in Seq(Named)
  BY EmptySeq DEF Restart
<1> QED
  BY <1>1 DEF Restart, TypeOK, ClusterTypeOK, SessionTypeOK, ManagerTypeOK

\* The variables of the job manager change in its own steps and in these two.
LEMMA JobStep ==
  PipelineNext => [Next]_vars \/ StartInformers \/ Restart
BY DEF PipelineNext, Next, Monitor, InitialBuild, HookSubmits, CreateJekyllJob,
       CreateLocalRepoManager, CloneSource, MonitorStep, Accept, Git, Pushes,
       Cluster

LEMMA PipelineType == TypeOK /\ [PipelineNext]_pipelineVars => TypeOK'
<1> SUFFICES ASSUME TypeOK, [PipelineNext]_pipelineVars PROVE TypeOK'
  OBVIOUS
<1>1. CASE UNCHANGED pipelineVars
  BY <1>1, NextType DEF pipelineVars
<1> QED
  BY <1>1, JobStep, NextType, StartInformersType, RestartType

\* CloneOK survives every step: of LocalRepo (NextRepoIInv), and of the process
\* that begins anew.
LEMMA CloneType == CloneOK /\ [PipelineNext]_pipelineVars => CloneOK'
<1> SUFFICES ASSUME CloneOK, [PipelineNext]_pipelineVars PROVE CloneOK'
  OBVIOUS
<1>1. CASE /\ [RepoNext]_repoVars
           /\ main' \in {main, "wait"} /\ (pc = pc' \/ pc # "uncloned")
  <2>1. RepoIInv'
    BY <1>1, NextRepoIInv DEF CloneOK
  <2>2. pc = "uncloned" => pc' = "uncloned"
    BY <1>1
  <2> QED
    BY <1>1, <2>1, <2>2 DEF CloneOK
<1>2. CASE CloneSource
  BY <1>2, NextRepoIInv DEF CloneSource, CloneOK, RepoNext
<1>3. CASE CreateLocalRepoManager
  <2>1. RepoIInv /\ pc = "uncloned"
    BY <1>3 DEF CreateLocalRepoManager, CloneOK
  <2>2. RepoTypeOK' /\ DefaultExists'
    BY <1>3, <2>1 DEF CreateLocalRepoManager, RepoIInv, RepoTypeOK, DefaultExists
  <2> QED
    BY <1>3, <2>1, <2>2
    DEF CreateLocalRepoManager, CloneOK, RepoIInv, MasterAtFirst, BranchOK, TipsOK,
        FetchedOK, PullOK, ErrOK, TrackingBehind, HeadBehind, Behind, Assumed,
        SubmitsWhatWasPushed, SubmitsTheBranch, SteadyBranchIsBuilt
<1>4. CASE Restart
  <2>1. RepoTypeOK' /\ DefaultExists'
    BY <1>4, RepoAssumption DEF Restart, CloneOK, RepoIInv, RepoTypeOK, DefaultExists
  <2> QED
    BY <1>4, <2>1
    DEF Restart, CloneOK, RepoIInv, MasterAtFirst, BranchOK, TipsOK, FetchedOK, PullOK,
        ErrOK, TrackingBehind, HeadBehind, SubmitsWhatWasPushed, SubmitsTheBranch,
        SteadyBranchIsBuilt
<1>5. CASE Git \/ Pushes
  <2>1. RepoNext /\ UNCHANGED main
    BY <1>5 DEF Git, Pushes, RepoNext, processVars
  <2>2. pc = pc' \/ pc # "uncloned"
    BY <1>5 DEF Git, Pushes, HandleWebhook, Fetch, Checkout, Pull, NoRenderDir, Push,
                Move
  <2> QED
    BY <1>1, <2>1, <2>2
<1>6. CASE MonitorStep
  <2>1. SubmitJob => RepoNext /\ pc # "uncloned"
    BY DEF SubmitJob, RepoNext
  <2>2. UNCHANGED repoVars => pc' = pc
    BY DEF repoVars
  <2> QED
    BY <1>1, <1>6, <2>1, <2>2 DEF MonitorStep, Accept, processVars
<1>7. CASE \/ StartInformers \/ InitialBuild \/ HookSubmits
           \/ Informer /\ UNCHANGED <<repoVars, processVars>>
           \/ (\E r \in Requests : Cluster(r)) \/ UNCHANGED pipelineVars
  <2>1. UNCHANGED repoVars /\ UNCHANGED main
    BY <1>7
    DEF StartInformers, InitialBuild, HookSubmits, CreateJekyllJob, Cluster, processVars,
        pipelineVars
  <2> QED
    BY <1>1, <2>1 DEF repoVars
<1> QED
  BY <1>2, <1>3, <1>4, <1>5, <1>6, <1>7 DEF PipelineNext

LEMMA InitClone == PipelineInit => CloneOK
BY InitRepoIInv DEF PipelineInit, CloneOK, RepoInit

\* What RepoIInv says of a clone is true of every clone previewd makes: also of
\* the one a process makes that was started again, on a remote that was moved
\* and rewritten meanwhile.
THEOREM CloneInvariance == PipelineSpec => []CloneOK
BY InitClone, CloneType, PTL DEF PipelineSpec

\* However often previewd is restarted, and in the middle of whichever call of
\* git: the render jobs it asks for are of source that was pushed, for a branch
\* that only moved forward of that branch, and such a branch is always built.
THEOREM PipelineSubmitsWhatWasPushed ==
  PipelineSpec => [](SubmitsWhatWasPushed /\ SubmitsTheBranch /\ SteadyBranchIsBuilt)
<1>1. CloneOK => SubmitsWhatWasPushed /\ SubmitsTheBranch /\ SteadyBranchIsBuilt
  BY DEF CloneOK, RepoIInv
<1> QED
  BY <1>1, CloneInvariance, PTL

-----------------------------------------------------------------------------
(***************************************************************************)
(* Lemmas about the parts of the invariant.                                *)
(***************************************************************************)
\* A change that is published joins the stream at its end.
LEMMA Published ==
  ASSUME TypeOK, TypeOK', NEW r \in Requests, NEW kind \in Kinds,
         Publish(kind, r)
  PROVE  /\ Len(stream) \in Nat
         /\ Len(stream') = Len(stream) + 1
         /\ \A i \in 1..Len(stream) : stream'[i] = stream[i]
         /\ stream'[Len(stream')].kind = kind
         /\ CleanReport(stream'[Len(stream')]) <=> Clean(r)'
<1>1. /\ failed' \in [Requests -> 0..BackoffLimit + 1]
      /\ succeeded' \in [Requests -> 0..1]
  BY DEF TypeOK, ClusterTypeOK
<1>2. Event(kind, r) \in Events
  BY <1>1, PublishType DEF TypeOK
<1>3. PICK e \in Events : e = Event(kind, r)
  BY <1>2
<1>4. /\ Len(stream) \in Nat
      /\ Len(stream') = Len(stream) + 1
      /\ \A i \in 1..Len(stream) + 1 :
           stream'[i] = IF i = Len(stream) + 1 THEN e ELSE stream[i]
  BY <1>3, AppendEntries, LenProperties DEF Publish, TypeOK, ClusterTypeOK
<1>5. e.kind = kind /\ (CleanReport(e) <=> Clean(r)')
  BY <1>3 DEF CleanReport, Event, Clean
<1> QED
  BY <1>4, <1>5

\* Steps that leave the jobs and the requests alone.
LEMMA SameJobs ==
  ASSUME JobsOK, UNCHANGED <<object, failed, succeeded, leftOver, request, jobqueue>>
  PROVE  /\ FreshJobs' /\ OneRequest' /\ OneObject' /\ FailedStays'
         /\ SomeWaiting' <=> SomeWaiting
         /\ SomePodFailed' <=> SomePodFailed
         /\ \A r \in Requests : Waiting(r)' <=> Waiting(r)
<1>1. \A r \in Requests : Waiting(r)' <=> Waiting(r)
  BY DEF Waiting, Queued
<1>2. FreshJobs' /\ OneObject' /\ FailedStays'
  BY <1>1 DEF JobsOK, FreshJobs, OneObject, FailedStays, Exists, Clean
<1>3. OneRequest'
  BY <1>1 DEF JobsOK, OneRequest, OneWaiting, Queued
<1> QED
  BY <1>1, <1>2, <1>3 DEF SomeWaiting, SomePodFailed

\* A request that waits keeps the monitor from every job that is deleted.
LEMMA WaitingIsUnreported ==
  ASSUME JobsOK, SomeWaiting, ~SomePodFailed
  PROVE  ~Reported /\ ~Looked
BY DEF JobsOK, Calm, Reported, Looked

-----------------------------------------------------------------------------
(***************************************************************************)
(* The jobs: one lemma per step.                                           *)
(***************************************************************************)
\* A goroutine begins to hand over a job, when all is quiet.
LEMMA AddJobs ==
  ASSUME OneRenderName, TypeOK, JobsOK, NEW g \in Goroutines, CreateJekyllJob(g),
         spaced'
  PROVE  JobsOK'
<1> USE DEF JobsOK
<1>1. PICK r \in Requests : AddJobtoQueue(r)
  BY DEF CreateJekyllJob
<1>2. /\ Quiet
      /\ request[r] = "new" /\ request' = [request EXCEPT ![r] = "sending"]
      /\ UNCHANGED <<object, failed, succeeded, stream, notifiers, watch, ipc, ievent,
                    jobqueue, jobRefs, mpc, current, leftOver>>
  BY <1>1 DEF CreateJekyllJob, AddJobtoQueue, clusterVars, sessionVars
<1>3. /\ Len(jobqueue) = 0 /\ Range(jobqueue) = {} /\ stream = <<>> /\ Len(stream) = 0
      /\ ipc = "idle" /\ mpc = "select"
      /\ \A s \in Requests : Waiting(s)' => s = r
  BY <1>2 DEF Quiet, Range, Waiting, Queued, TypeOK, ManagerTypeOK
<1>4. NotStarted' /\ NamesKept' /\ OneObject' /\ FailedStays'
  BY <1>2, <1>3 DEF NotStarted, NamesKept, OneObject, FailedStays, Exists, Clean
<1>8. DeletedIsForgotten'
  BY <1>2 DEF DeletedIsForgotten
<1>5. FreshJobs' /\ OneRequest'
  BY <1>2, <1>3
  DEF FreshJobs, OneRequest, OneWaiting, Queued, Quiet, TypeOK, ManagerTypeOK
<1>6. ReportedIsClean' /\ LookedAfter'
  BY <1>2, <1>3
  DEF ReportedIsClean, Reported, Looked, LookedAfter, Exists, Clean
<1>7. Calm'
  <2> SUFFICES ASSUME ~SomePodFailed PROVE Calm'
    BY <1>2 DEF Calm, SomePodFailed
  <2>1. \A s \in Requests : Exists(s) => s \in leftOver /\ object[s] = "live"
    BY <1>2 DEF Quiet, SomePodFailed
  <2>2. notifiers = {}
    BY <1>3, <2>1 DEF LookedAfter
  <2>3. \A s \in Requests : object[s] # "terminating"
    BY <2>1 DEF Exists
  <2> QED
    BY <1>2, <1>3, <2>2, <2>3 DEF Calm
<1> QED
  BY <1>4, <1>5, <1>6, <1>7, <1>8

\* The monitor receives it: it waits in the queue now.
LEMMA ReceiveJobs ==
  ASSUME OneRenderName, TypeOK, JobsOK, NEW r \in Requests, ReceiveJob(r),
         UNCHANGED leftOver
  PROVE  JobsOK' /\ SomeWaiting'
<1> USE DEF JobsOK
<1>1. /\ request[r] = "sending" /\ request' = [request EXCEPT ![r] = "accepted"]
      /\ mpc = "select" /\ mpc' = "schedule"
      /\ UNCHANGED <<object, failed, succeeded, stream, notifiers, watch, ipc, ievent,
                    jobRefs, current, leftOver>>
  BY DEF ReceiveJob, clusterVars, sessionVars
<1>2. jobqueue = <<>> /\ jobqueue' = Append(jobqueue, r)
  BY <1>1, NameAssumption DEF OneRequest, OneRenderName, ReceiveJob
<1>3. jobqueue' = <<r>> /\ Len(jobqueue') = 1 /\ Range(jobqueue') = {r}
  <2>1. jobqueue' = <<r>>
    BY <1>2
  <2> QED
    BY <2>1 DEF Range
<1>4. \A s \in Requests : Waiting(s)' <=> s = r
  BY <1>1, <1>2, <1>3
  DEF Waiting, Queued, OneRequest, OneWaiting, TypeOK, ManagerTypeOK
<1>5. Waiting(r)
  BY <1>1 DEF Waiting
<1>6. NotStarted' /\ NamesKept' /\ OneObject' /\ FailedStays' /\ DeletedIsForgotten'
  BY <1>1
  DEF NotStarted, NamesKept, OneObject, FailedStays, DeletedIsForgotten, Exists, Clean
<1>7. FreshJobs' /\ OneRequest'
  BY <1>1, <1>3, <1>4, <1>5
  DEF FreshJobs, OneRequest, OneWaiting, Waiting, Queued, TypeOK, ManagerTypeOK
<1>8. ReportedIsClean' /\ LookedAfter'
  BY <1>1 DEF ReportedIsClean, Reported, Looked, LookedAfter, Exists, Clean
<1>9. Calm' /\ SomeWaiting'
  BY <1>1, <1>4, <1>5 DEF Calm, SomeWaiting, SomePodFailed, Exists
<1> QED
  BY <1>6, <1>7, <1>8, <1>9

\* The monitor starts, or finds that it may not schedule.
LEMMA IdleJobs ==
  ASSUME OneRenderName, TypeOK, JobsOK, StartMonitor \/ NothingToSchedule,
         UNCHANGED leftOver
  PROVE  JobsOK'
<1> USE DEF JobsOK
<1>1. /\ mpc \in {"off", "schedule"} /\ mpc' = "select"
      /\ mpc = "off" => watch = "on"
      /\ UNCHANGED <<object, failed, succeeded, stream, notifiers, watch, ipc, ievent,
                    request, jobqueue, jobRefs, current, leftOver>>
  BY DEF StartMonitor, NothingToSchedule, clusterVars, sessionVars
<1>2. NotStarted' /\ NamesKept' /\ DeletedIsForgotten'
  BY <1>1 DEF NotStarted, NamesKept, DeletedIsForgotten
<1>3. ReportedIsClean' /\ LookedAfter'
  BY <1>1 DEF ReportedIsClean, Reported, Looked, LookedAfter, Exists, Clean
<1>4. Calm'
  BY <1>1, SameJobs DEF Calm, NotStarted, Exists
<1> QED
  BY <1>1, <1>2, <1>3, <1>4, SameJobs

\* The notifier of the job just created is registered.
LEMMA RegisterJobs ==
  ASSUME OneRenderName, TypeOK, JobsOK, Register, UNCHANGED leftOver
  PROVE  JobsOK'
<1> USE DEF JobsOK
<1>1. /\ mpc = "register" /\ mpc' = "select" /\ current \in Requests
      /\ notifiers' = notifiers \cup {NameOf[current]}
      /\ UNCHANGED <<object, failed, succeeded, stream, watch, ipc, ievent,
                    request, jobqueue, jobRefs, leftOver>>
  BY DEF Register, RegisterNotifier, clusterVars, TypeOK, ManagerTypeOK, Named
<1>2. NotStarted' /\ NamesKept' /\ DeletedIsForgotten'
  BY <1>1 DEF NotStarted, NamesKept, DeletedIsForgotten, OneRenderName
<1>3. ReportedIsClean' /\ LookedAfter'
  BY <1>1 DEF ReportedIsClean, Reported, Looked, LookedAfter, Exists, Clean
<1>4. Calm'
  BY <1>1, SameJobs DEF Calm
<1> QED
  BY <1>1, <1>2, <1>3, <1>4, SameJobs

\* The monitor receives a report.
LEMMA ReceiveUpdateJobs ==
  ASSUME OneRenderName, TypeOK, JobsOK, ReceiveUpdate, UNCHANGED leftOver
  PROVE  JobsOK' /\ (Reported' => Reported)
<1> USE DEF JobsOK
<1>1. /\ ipc = "notify" /\ ievent \in Events
      /\ ipc' \in {"idle", "unregister"}
      /\ ievent.kind = "DELETED" => ipc' = "unregister"
      /\ mpc = "select" /\ mpc' \in {"deleteJob", "schedule"}
      /\ UNCHANGED <<object, failed, succeeded, stream, notifiers, watch,
                    request, jobqueue, jobRefs, leftOver>>
  BY DEF ReceiveUpdate, NotifierReturns, clusterVars, TypeOK, SessionTypeOK
<1>2. ASSUME mpc' = "deleteJob" PROVE CleanReport(ievent)
  BY <1>1, <1>2 DEF ReceiveUpdate, ReadyNext, Failed, TypeOf, Update, Create, Delete,
                    Events, Kinds, CleanReport, BackoffLimit
<1>3. Reported' => Reported
  BY <1>1, <1>2 DEF Reported, Looked
<1>4. NotStarted' /\ NamesKept' /\ DeletedIsForgotten'
  BY <1>1 DEF NotStarted, NamesKept, DeletedIsForgotten
<1>5. ReportedIsClean' /\ LookedAfter'
  BY <1>1, <1>3 DEF ReportedIsClean, LookedAfter, Exists, Clean
<1>6. Calm'
  BY <1>1, SameJobs DEF Calm
<1> QED
  BY <1>1, <1>3, <1>4, <1>5, <1>6, SameJobs

\* The informer takes the next change.
LEMMA DispatchJobs ==
  ASSUME OneRenderName, TypeOK, JobsOK, Dispatch, UNCHANGED <<managerVars, leftOver>>
  PROVE  JobsOK' /\ (Reported' => Reported)
<1> USE DEF JobsOK
<1>1. /\ ipc = "idle" /\ stream # <<>> /\ stream' = Tail(stream)
      /\ UNCHANGED <<object, failed, succeeded, notifiers, watch, request,
                    jobqueue, jobRefs, mpc, current, leftOver>>
  BY DEF Dispatch, managerVars
<1>2. /\ Head(stream) = stream[1] /\ Head(stream) \in Events
      /\ Len(stream) \in Nat \ {0} /\ Len(stream') = Len(stream) - 1
      /\ \A i \in 1..Len(stream') : stream'[i] = stream[i + 1]
  BY <1>1, TailEntries DEF TypeOK, ClusterTypeOK
<1>3. Head(stream).req \in Requests
  BY <1>2 DEF Events
<1>4. /\ notifiers # {} => ipc' = "notify" /\ ievent' = stream[1]
      /\ notifiers = {} => UNCHANGED <<ipc, ievent>>
  BY <1>2, <1>3 DEF Dispatch, NamesKept
<1>5. ASSUME NEW i \in 1..Len(stream'), CleanReport(stream'[i])
      PROVE  \E j \in 1..Len(stream) : CleanReport(stream[j])
  <2>1. i + 1 \in 1..Len(stream) /\ stream'[i] = stream[i + 1]
    BY <1>2
  <2> QED
    BY <1>5, <2>1
<1>6. Reported' => Reported
  <2>1. CASE notifiers = {}
    BY <1>1, <1>4, <1>5, <2>1 DEF Reported, Looked
  <2>2. CASE notifiers # {} /\ CleanReport(stream[1])
    BY <1>2, <2>2 DEF Reported, Looked
  <2>3. CASE notifiers # {} /\ ~CleanReport(stream[1])
    BY <1>1, <1>4, <1>5, <2>3 DEF Reported, Looked
  <2> QED
    BY <2>1, <2>2, <2>3
<1>7. NotStarted' /\ NamesKept' /\ DeletedIsForgotten'
  BY <1>1, <1>4, SameJobs DEF NotStarted, NamesKept, DeletedIsForgotten
<1>8. ReportedIsClean'
  BY <1>1, <1>6 DEF ReportedIsClean, Exists, Clean
<1>9. LookedAfter'
  <2> SUFFICES ASSUME notifiers # {},
                      \A r \in Requests \ leftOver : ~Exists(r)
               PROVE  \/ \E i \in 1..Len(stream') : stream'[i].kind = "DELETED"
                      \/ ipc' = "notify" /\ ievent'.kind = "DELETED"
    BY <1>1 DEF LookedAfter, Exists
  <2>1. PICK i \in 1..Len(stream) : stream[i].kind = "DELETED"
    BY <1>1 DEF LookedAfter
  <2>2. CASE i = 1
    BY <1>4, <2>1, <2>2
  <2>3. CASE i # 1
    <3>1. i - 1 \in 1..Len(stream') /\ stream'[i - 1] = stream[i]
      BY <1>2, <2>3
    <3> QED
      BY <2>1, <3>1
  <2> QED
    BY <2>2, <2>3
<1>10. Calm'
  BY <1>1, <1>4, SameJobs DEF Calm, Exists
<1> QED
  BY <1>1, <1>6, <1>7, <1>8, <1>9, <1>10, SameJobs

\* The informer forgets the notifier of a deleted job: the only one.
LEMMA UnregisterJobs ==
  ASSUME OneRenderName, TypeOK, JobsOK, Unregister, UNCHANGED <<managerVars, leftOver>>
  PROVE  JobsOK' /\ (Reported' => Reported)
<1> USE DEF JobsOK
<1>1. /\ ipc = "unregister" /\ ipc' = "idle" /\ ievent.req \in Requests
      /\ notifiers' = notifiers \ {NameOf[ievent.req]}
      /\ UNCHANGED <<object, failed, succeeded, stream, watch, request,
                    jobqueue, jobRefs, mpc, current, leftOver>>
  BY DEF Unregister, clusterVars, managerVars, TypeOK, SessionTypeOK, Events
<1>2. notifiers' = {}
  BY <1>1 DEF NamesKept
<1>3. Reported' => Reported
  BY <1>1, <1>2 DEF Reported, Looked
<1>4. NotStarted' /\ NamesKept' /\ DeletedIsForgotten'
  BY <1>1, <1>2 DEF NotStarted, NamesKept, DeletedIsForgotten
<1>5. ReportedIsClean' /\ LookedAfter'
  BY <1>1, <1>2, <1>3 DEF ReportedIsClean, LookedAfter, Exists, Clean
<1>6. Calm'
  BY <1>1, SameJobs DEF Calm
<1> QED
  BY <1>1, <1>3, <1>4, <1>5, <1>6, SameJobs

\* The monitor deletes: what has the name has succeeded.
LEMMA DeleteJobs ==
  ASSUME OneRenderName, TypeOK, TypeOK', JobsOK, DeleteJob, UNCHANGED leftOver
  PROVE  JobsOK' /\ Reported
<1> USE DEF JobsOK
<1>1. /\ mpc = "deleteJob" /\ mpc' = "schedule"
      /\ current \in Requests /\ jobRefs' = jobRefs \ {NameOf[current]}
      /\ ApiDeleteJob(NameOf[current])
      /\ UNCHANGED <<failed, succeeded, notifiers, watch, ipc, ievent, request,
                    jobqueue, leftOver>>
  BY DEF DeleteJob, ApiDeleteJob, MarkDeleted, clusterVars, sessionVars, TypeOK,
         ManagerTypeOK
<1>2. Reported /\ \A r \in Requests : Exists(r) => Clean(r)
  BY <1>1 DEF Reported, ReportedIsClean
<1>3. NotStarted' /\ NamesKept' /\ DeletedIsForgotten'
  BY <1>1 DEF NotStarted, NamesKept, DeletedIsForgotten
<1>4. CASE UNCHANGED clusterVars
  <2>1. UNCHANGED <<object, stream>>
    BY <1>4 DEF clusterVars
  <2>2. ReportedIsClean' /\ LookedAfter'
    BY <1>1, <1>2, <2>1 DEF ReportedIsClean, LookedAfter, Exists, Clean
  <2>3. Calm'
    BY <1>1, <2>1, SameJobs DEF Calm
  <2> QED
    BY <1>1, <1>2, <1>3, <2>1, <2>2, <2>3, SameJobs
<1>5. ASSUME NEW d \in Requests, MarkDeleted(d) PROVE JobsOK'
  <2>1. /\ object[d] = "live" /\ object' = [object EXCEPT ![d] = "terminating"]
        /\ Publish("MODIFIED", d)
    BY <1>5 DEF MarkDeleted
  <2>2. Clean(d) /\ \A r \in Requests : Exists(r)' <=> Exists(r)
    BY <1>2, <2>1 DEF Exists, TypeOK, ClusterTypeOK
  <2>3. \A r \in Requests : Waiting(r)' <=> Waiting(r)
    BY <1>1 DEF Waiting, Queued
  <2>4. FreshJobs' /\ FailedStays'
    BY <1>1, <2>1, <2>2, <2>3
    DEF FreshJobs, FailedStays, Clean, TypeOK, ClusterTypeOK
  <2>5. OneRequest' /\ OneObject'
    BY <1>1, <2>2, <2>3 DEF OneRequest, OneWaiting, Queued, OneObject
  <2>6. ReportedIsClean'
    BY <1>1, <1>2, <2>2 DEF ReportedIsClean, Clean
  <2>7. LookedAfter'
    BY <1>1, <2>1, <2>2, Published DEF LookedAfter, Kinds
  <2>8. Calm'
    BY <1>1, <2>3 DEF Calm, SomeWaiting, SomePodFailed
  <2> QED
    BY <1>3, <2>4, <2>5, <2>6, <2>7, <2>8
<1> QED
  BY <1>1, <1>2, <1>4, <1>5 DEF ApiDeleteJob, Holders

\* The monitor takes the request from the queue.  It can create a job only
\* when there is none, and then nothing is left of the jobs before.
LEMMA ScheduleJobs ==
  ASSUME OneRenderName, TypeOK, TypeOK', JobsOK, ScheduleNext, UNCHANGED leftOver
  PROVE  /\ JobsOK' /\ jobRefs' # {}
         /\ \/ UNCHANGED clusterVars /\ (Looked' <=> Looked)
               /\ (Reported' <=> Reported)
            \/ /\ ~Reported' /\ UNCHANGED succeeded
               /\ \A r \in Requests : ~Exists(r)
<1> USE DEF JobsOK
<1> DEFINE h == Head(jobqueue)
<1>1. /\ mpc = "schedule" /\ mpc' \in {"select", "register"}
      /\ jobqueue # <<>> /\ jobqueue' = Tail(jobqueue)
      /\ jobRefs = {} /\ jobRefs' = {NameOf[h]}
      /\ UNCHANGED <<failed, succeeded, notifiers, watch, ipc, ievent, request, leftOver>>
  BY DEF ScheduleNext, MaySchedule, InProgress, CreateTakesEffect, CreateRefused,
         clusterVars, sessionVars
<1>2. /\ h \in Requests /\ Queued(h) /\ Len(jobqueue') = 0 /\ jobqueue' = <<>>
  <2>1. /\ h \in Named /\ Tail(jobqueue) \in Seq(Named)
        /\ Len(jobqueue) \in Nat \ {0}
        /\ Len(Tail(jobqueue)) = Len(jobqueue) - 1
        /\ Range(jobqueue) = Range(Tail(jobqueue)) \cup {h}
    BY <1>1, TailEntries DEF TypeOK, ManagerTypeOK
  <2>2. Len(jobqueue) <= 1
    BY DEF OneRequest
  <2>3. Len(jobqueue') = 0
    BY <1>1, <2>1, <2>2
  <2> QED
    BY <1>1, <2>1, <2>3, EmptySeq DEF Named, Queued
<1>3. /\ SomeWaiting /\ Waiting(h) /\ request[h] = "accepted" /\ object[h] = "none"
      /\ succeeded[h] = 0 /\ failed[h] = 0 /\ h \notin leftOver
  BY <1>2 DEF Waiting, SomeWaiting, OneRequest, FreshJobs
<1>4. \A r \in Requests : ~Waiting(r)'
  <2>1. Range(jobqueue') = {}
    BY <1>2 DEF Range
  <2> QED
    BY <1>1, <2>1 DEF OneRequest, Waiting, Queued
<1>5. NotStarted' /\ OneRequest' /\ Calm'
  BY <1>1, <1>2, <1>4 DEF NotStarted, OneRequest, OneWaiting, Calm, SomeWaiting, Waiting
<1>6. NamesKept'
  BY <1>1, <1>2 DEF NamesKept, OneRenderName
<1>7. CASE CreateRefused(h) /\ mpc' = "select"
  <2>1. UNCHANGED <<object, stream>> /\ UNCHANGED clusterVars
    BY <1>7 DEF CreateRefused, clusterVars
  <2>2. (Looked' <=> Looked) /\ (Reported' <=> Reported)
    BY <1>1, <1>7, <2>1 DEF Looked, Reported
  <2>3. FreshJobs' /\ OneObject' /\ FailedStays'
    BY <1>1, <1>4, <2>1 DEF FreshJobs, OneObject, FailedStays, Exists, Clean
  <2>4. ReportedIsClean' /\ LookedAfter'
    BY <1>1, <1>7, <2>1, <2>2 DEF ReportedIsClean, LookedAfter, Exists, Clean
  <2>5. DeletedIsForgotten'
    BY <1>3, <2>1 DEF DeletedIsForgotten, Calm, SomePodFailed, FailedStays, OneObject,
                      Exists, Clean
  <2> QED
    BY <1>1, <1>5, <1>6, <2>1, <2>2, <2>3, <2>4, <2>5
<1>8. CASE CreateTakesEffect(h) /\ (mpc' = "register" => current' = h)
  <2>1. /\ object' = [object EXCEPT ![h] = "live"]
        /\ Publish("ADDED", h)
        /\ \A r \in Requests : ~Exists(r)
    BY <1>2, <1>8 DEF CreateTakesEffect, Holders, OneRenderName
  <2>2. ~SomePodFailed
    BY <2>1 DEF SomePodFailed, FailedStays, Exists
  <2>3. notifiers = {} /\ ipc = "idle" /\ Len(stream) = 0
    BY <1>3, <2>1, <2>2 DEF Calm
  <2>4. Len(stream') = 1 /\ ~CleanReport(stream'[1])
    BY <1>1, <1>2, <1>3, <2>1, <2>3, Published DEF Kinds, Clean
  <2>5. ~Reported'
    BY <1>1, <2>3, <2>4 DEF Reported
  <2>6. \A r \in Requests : Exists(r)' <=> r = h
    BY <1>2, <2>1 DEF Exists, TypeOK, ClusterTypeOK
  <2>7. FreshJobs' /\ FailedStays'
    BY <1>1, <1>2, <1>3, <1>4, <2>1
    DEF FreshJobs, FailedStays, Clean, TypeOK, ClusterTypeOK
  <2>8. OneObject' /\ ReportedIsClean' /\ LookedAfter' /\ DeletedIsForgotten'
    BY <1>1, <1>2, <1>3, <1>8, <2>1, <2>3, <2>5, <2>6
    DEF OneObject, ReportedIsClean, LookedAfter, DeletedIsForgotten, Exists, TypeOK,
        ClusterTypeOK
  <2> QED
    BY <1>1, <1>5, <1>6, <2>1, <2>5, <2>7, <2>8
<1> QED
  BY <1>1, <1>7, <1>8 DEF ScheduleNext

\* A pod ends.  Its job is the only one, and nothing is deleted before the
\* informer has looked at it.
LEMMA PodEndsJobs ==
  ASSUME TypeOK, TypeOK', JobsOK, NEW r \in Requests, PodSucceeds(r) \/ PodFails(r),
         UNCHANGED <<sessionVars, managerVars, leftOver>>
  PROVE  /\ JobsOK' /\ ~Reported
         /\ Reported' => Looked /\ PodSucceeds(r)
<1> USE DEF JobsOK
<1>1. /\ Running(r) /\ Publish("MODIFIED", r) /\ "MODIFIED" \in Kinds
      /\ UNCHANGED <<object, notifiers, watch, ipc, ievent, request, jobqueue,
                    jobRefs, mpc, current, leftOver>>
      /\ \A s \in Requests \ {r} : succeeded'[s] = succeeded[s] /\ failed'[s] = failed[s]
      /\ succeeded'[r] >= 0 /\ failed'[r] >= failed[r]
  BY DEF PodSucceeds, PodFails, sessionVars, managerVars, Kinds, TypeOK,
         ClusterTypeOK, BackoffLimit
<1>2. object[r] = "live" /\ Exists(r) /\ ~Clean(r)
  BY <1>1 DEF Running, FailedStays, Exists, Clean
<1>3. ~Reported
  BY <1>2 DEF ReportedIsClean
<1>4. Reported' => Looked /\ Clean(r)'
  BY <1>1, <1>3, Published DEF Reported, Looked
<1>5. Clean(r)' => PodSucceeds(r)
  BY DEF PodFails, Running, Clean, TypeOK, ClusterTypeOK, BackoffLimit
<1>6. \A s \in Requests : (Waiting(s)' <=> Waiting(s)) /\ (Exists(s)' <=> Exists(s))
  BY <1>1 DEF Waiting, Queued, Exists
<1>7. NotStarted' /\ NamesKept' /\ DeletedIsForgotten' /\ OneObject'
  BY <1>1, <1>6 DEF NotStarted, NamesKept, DeletedIsForgotten, OneObject, SomeWaiting
<1>8. OneRequest'
  BY <1>1, <1>6 DEF OneRequest, OneWaiting, Queued
<1>9. FreshJobs' /\ FailedStays'
  BY <1>1, <1>2, <1>6 DEF FreshJobs, FailedStays, Clean
<1>10. ReportedIsClean'
  BY <1>2, <1>4, <1>6 DEF ReportedIsClean, OneObject
<1>11. LookedAfter'
  BY <1>1, <1>6, Published DEF LookedAfter
<1>12. Calm'
  <2>1. ASSUME NEW s \in Requests, failed[s] > 0 PROVE failed'[s] > 0
    <3>1. failed[s] \in 0..2 /\ failed'[s] \in 0..2
      BY DEF TypeOK, ClusterTypeOK, BackoffLimit
    <3>2. failed'[s] >= failed[s]
      BY <1>1, <3>1
    <3> QED
      BY <2>1, <3>1, <3>2
  <2> QED
    BY <1>1, <1>2, <1>6, <2>1 DEF Calm, SomeWaiting, SomePodFailed
<1> QED
  BY <1>3, <1>4, <1>5, <1>7, <1>8, <1>9, <1>10, <1>11, <1>12

\* A job that was marked deleted is removed: the only one.
LEMMA FinalizeJobs ==
  ASSUME TypeOK, TypeOK', JobsOK, NEW r \in Requests, Finalize(r),
         UNCHANGED <<sessionVars, managerVars, leftOver>>
  PROVE  JobsOK' /\ jobRefs = {} /\ ~(SomeWaiting /\ ~SomePodFailed)
<1> USE DEF JobsOK
<1>1. /\ object[r] = "terminating" /\ object' = [object EXCEPT ![r] = "gone"]
      /\ Publish("DELETED", r) /\ "DELETED" \in Kinds
      /\ UNCHANGED <<failed, succeeded, notifiers, watch, ipc, ievent, request,
                    jobqueue, jobRefs, mpc, current, leftOver>>
  BY DEF Finalize, sessionVars, managerVars, Kinds
<1>2. Clean(r) /\ jobRefs = {}
  BY <1>1 DEF FailedStays, DeletedIsForgotten
<1>3. \A s \in Requests : ~Exists(s)'
  BY <1>1 DEF OneObject, Exists, TypeOK, ClusterTypeOK
<1>4. \A s \in Requests : Waiting(s)' <=> Waiting(s)
  BY <1>1 DEF Waiting, Queued
<1>5. NotStarted' /\ NamesKept'
  BY <1>1, <1>4 DEF NotStarted, NamesKept, SomeWaiting
<1>6. OneRequest' /\ OneObject' /\ ReportedIsClean'
  BY <1>1, <1>3, <1>4 DEF OneRequest, OneWaiting, Queued, OneObject, ReportedIsClean
<1>7. FreshJobs' /\ FailedStays' /\ DeletedIsForgotten'
  BY <1>1, <1>2, <1>4
  DEF FreshJobs, FailedStays, DeletedIsForgotten, Clean, TypeOK, ClusterTypeOK
<1>8. LookedAfter'
  <2>1. mpc = "register" => object[current] = "live" /\ current # r
    BY <1>1 DEF LookedAfter
  <2>2. Len(stream') \in 1..Len(stream') /\ stream'[Len(stream')].kind = "DELETED"
    BY <1>1, Published
  <2>3. mpc' = "register" => object'[current'] = "live" /\ current' \notin leftOver'
    <3>1. mpc = "register" => current \in Requests
      BY DEF TypeOK, ManagerTypeOK, Named
    <3> QED
      BY <1>1, <2>1, <3>1 DEF LookedAfter, TypeOK, ClusterTypeOK
  <2> QED
    BY <2>2, <2>3 DEF LookedAfter
<1>9. Calm' /\ ~(SomeWaiting /\ ~SomePodFailed)
  BY <1>1, <1>4 DEF Calm, SomeWaiting, SomePodFailed
<1> QED
  BY <1>2, <1>5, <1>6, <1>7, <1>8, <1>9

\* A process that has just started looks after nothing, whatever it finds.
LEMMA StartInformersJobs ==
  ASSUME TypeOK, JobsOK, StartInformers
  PROVE  JobsOK' /\ ~Reported' /\ ~Looked' /\ ~Looked
<1> USE DEF JobsOK
<1>1. /\ watch = "off" /\ mpc = "off"
      /\ UNCHANGED <<object, failed, succeeded, notifiers, ipc, ievent, request,
                    jobqueue, jobRefs, mpc, current, leftOver>>
  BY DEF StartInformers, managerVars, processVars, NotStarted
<1>2. notifiers = {} /\ ipc = "idle" /\ ~SomeWaiting /\ ~Looked' /\ ~Reported' /\ ~Looked
  BY <1>1 DEF NotStarted, Looked, Reported
<1>3. NotStarted' /\ NamesKept' /\ DeletedIsForgotten'
  BY <1>1, <1>2, SameJobs DEF NotStarted, NamesKept, DeletedIsForgotten
<1>4. ReportedIsClean' /\ LookedAfter' /\ Calm'
  BY <1>1, <1>2, SameJobs DEF ReportedIsClean, LookedAfter, Calm
<1> QED
  BY <1>1, <1>2, <1>3, <1>4, SameJobs

\* A restart forgets every request and every notifier.
LEMMA RestartJobs ==
  ASSUME TypeOK, JobsOK, Restart
  PROVE  JobsOK' /\ ~Reported' /\ ~Looked'
<1> USE DEF JobsOK
<1>1. /\ notifiers' = {} /\ watch' = "off" /\ ipc' = "idle" /\ jobRefs' = {}
      /\ mpc' = "off" /\ jobqueue' = <<>> /\ leftOver' = {r \in Requests : Exists(r)}
      /\ UNCHANGED <<object, failed, succeeded>>
      /\ \A r \in Requests : /\ request'[r] # "sending"
                             /\ request'[r] = "new" => request[r] = "new"
  BY DEF Restart, TypeOK, ManagerTypeOK
<1>2. Range(jobqueue') = {} /\ Len(jobqueue') = 0
  BY <1>1 DEF Range
<1>3. \A r \in Requests : ~Waiting(r)' /\ ~Queued(r)'
  BY <1>1, <1>2 DEF Waiting, Queued
<1>4. ~Looked' /\ ~Reported' /\ ~SomeWaiting'
  BY <1>1, <1>3 DEF Looked, Reported, SomeWaiting
<1>5. NotStarted' /\ NamesKept' /\ DeletedIsForgotten' /\ LookedAfter'
  BY <1>1, <1>4 DEF NotStarted, NamesKept, DeletedIsForgotten, LookedAfter
<1>6. FreshJobs' /\ OneObject' /\ FailedStays'
  BY <1>1, <1>3 DEF FreshJobs, OneObject, FailedStays, Exists, Clean
<1>7. OneRequest' /\ ReportedIsClean' /\ Calm'
  BY <1>2, <1>3, <1>4 DEF OneRequest, OneWaiting, ReportedIsClean, Calm
<1> QED
  BY <1>4, <1>5, <1>6, <1>7

\* The clone's own steps leave the job manager alone.
LEMMA SameVars ==
  ASSUME JobsOK, UNCHANGED <<vars, leftOver>>
  PROVE  /\ JobsOK'
         /\ (Reported' <=> Reported) /\ (Looked' <=> Looked)
<1> USE DEF vars, clusterVars, sessionVars, managerVars, JobsOK
<1>1. (Reported' <=> Reported) /\ (Looked' <=> Looked)
  BY DEF Reported, Looked
<1>2. NotStarted' /\ NamesKept' /\ DeletedIsForgotten'
  BY SameJobs DEF NotStarted, NamesKept, DeletedIsForgotten
<1>3. ReportedIsClean' /\ LookedAfter' /\ Calm'
  BY <1>1, SameJobs DEF ReportedIsClean, LookedAfter, Calm, Exists, Clean
<1> QED
  BY <1>1, <1>2, <1>3, SameJobs

\* Init establishes the part about the jobs.
LEMMA InitJobs == PipelineInit => JobsOK
<1> SUFFICES ASSUME PipelineInit PROVE JobsOK
  OBVIOUS
<1>1. /\ object = [r \in Requests |-> "none"] /\ failed = [r \in Requests |-> 0]
      /\ succeeded = [r \in Requests |-> 0] /\ leftOver = {}
      /\ notifiers = {} /\ jobRefs = {} /\ ipc = "idle" /\ mpc = "off"
      /\ jobqueue = <<>> /\ Len(jobqueue) = 0 /\ Range(jobqueue) = {}
      /\ request = [r \in Requests |-> "new"]
  BY DEF PipelineInit, Init, ClusterInit, SessionInit, Range
<1>2. ~SomeWaiting /\ ~Looked /\ ~Reported
  BY <1>1 DEF SomeWaiting, Waiting, Queued, Looked, Reported
<1>3. NotStarted /\ NamesKept /\ FreshJobs /\ OneObject /\ FailedStays
  BY <1>1, <1>2 DEF NotStarted, NamesKept, FreshJobs, OneObject, FailedStays, Exists
<1>4. OneRequest /\ ReportedIsClean /\ DeletedIsForgotten /\ LookedAfter /\ Calm
  BY <1>1, <1>2
  DEF OneRequest, OneWaiting, Waiting, Queued, ReportedIsClean, DeletedIsForgotten,
      LookedAfter, Calm
<1> QED
  BY <1>3, <1>4 DEF JobsOK

-----------------------------------------------------------------------------
(***************************************************************************)
(* The sources.                                                            *)
(***************************************************************************)
\* A render that nobody runs has read nothing.
LEMMA StillNotReading == Renders => NotReading'
BY DEF Renders, NotReading

\* Steps in which no pod ends and no job is created, and the clone stays.
LEMMA SameSource ==
  ASSUME JobsOK, SourceOK, Renders,
         UNCHANGED <<failed, succeeded, head, main, pc, err>>,
         \A r \in Requests : Running(r)' => Running(r),
         Looked' => Looked,
         ~SomePodFailed /\ Reported' => Reported \/ (jobRefs = {} /\ ~SomeWaiting),
         jobRefs' = {} /\ ~SomeWaiting' => Reported \/ (jobRefs = {} /\ ~SomeWaiting)
  PROVE  SourceOK'
<1> SUFFICES ASSUME Asked, ~SomePodFailed
             PROVE  /\ jobRefs' = {} /\ ~SomeWaiting' =>
                         output' = {head} /\ \A r \in Requests : ~Running(r)'
                    /\ Reported' => output' = {head}
                    /\ Looked' => \A r \in Requests : Running(r)' => reads'[r] = {head}
  BY DEF SourceOK, Asked, SomePodFailed
<1>1. output' = output
  BY DEF Renders
<1>2. \A r \in Requests : Running(r)' => reads'[r] = reads[r] \cup {head}
  BY DEF Renders
<1>3. Reported => \A r \in Requests : ~Running(r)
  BY DEF JobsOK, ReportedIsClean, Running, Clean
<1> QED
  BY <1>1, <1>2, <1>3 DEF SourceOK

\* While a request waits there is nothing to look after.
LEMMA WaitingSource ==
  ASSUME JobsOK', SomeWaiting'
  PROVE  SourceOK'
<1>1. ~SomePodFailed' => ~Reported' /\ ~Looked'
  BY DEF JobsOK, Calm, Reported, Looked
<1> QED
  BY <1>1 DEF SourceOK

\* A job is created when no other runs, and reads what the clone holds.
LEMMA ScheduleSource ==
  ASSUME OneRenderName, TypeOK, TypeOK', JobsOK, SourceOK, NotReading, ScheduleNext,
         UNCHANGED <<leftOver, head, main, pc, err>>, Renders
  PROVE  SourceOK'
<1>1. jobRefs' # {}
  BY ScheduleJobs
<1>2. CASE UNCHANGED clusterVars /\ (Looked' <=> Looked) /\ (Reported' <=> Reported)
  BY <1>1, <1>2, SameSource DEF clusterVars, Running, Exists
<1>3. CASE /\ ~Reported' /\ UNCHANGED succeeded
           /\ \A r \in Requests : ~Exists(r)
  <2>1. \A r \in Requests : reads[r] = {}
    BY <1>3 DEF NotReading, Running
  <2>2. \A r \in Requests : Running(r)' => reads'[r] = {head'}
    BY <2>1 DEF Renders
  <2> QED
    BY <1>1, <1>3, <2>2 DEF SourceOK
<1> QED
  BY <1>2, <1>3, ScheduleJobs

\* A pod ends: what is looked after has read the clone's source alone.
LEMMA PodEndsSource ==
  ASSUME TypeOK, TypeOK', JobsOK, SourceOK, NEW r \in Requests,
         PodSucceeds(r) \/ PodFails(r),
         UNCHANGED <<sessionVars, managerVars, leftOver, head, main, pc, err>>, Renders
  PROVE  SourceOK'
<1>1. CASE PodFails(r)
  <2>1. failed'[r] > 0
    BY <1>1 DEF PodFails, TypeOK, ClusterTypeOK, BackoffLimit
  <2> QED
    BY <2>1 DEF SourceOK, SomePodFailed
<1>2. CASE PodSucceeds(r)
  <2>1. /\ Running(r) /\ UNCHANGED <<failed, object>>
        /\ succeeded' = [succeeded EXCEPT ![r] = 1] /\ succeeded[r] = 0
    BY <1>2 DEF PodSucceeds, Running
  <2>2. SUFFICES ASSUME Asked, ~SomePodFailed
                 PROVE  /\ jobRefs' = {} /\ ~SomeWaiting' => FALSE
                        /\ Reported' => output' = {head}
                        /\ Looked' => \A s \in Requests : Running(s)' => reads'[s] = {head}
    BY <2>1 DEF SourceOK, Asked, SomePodFailed
  <2>3. (jobRefs' = {} /\ ~SomeWaiting') => (jobRefs = {} /\ ~SomeWaiting)
    BY DEF managerVars, SomeWaiting, Waiting, Queued
  <2>4. ~(jobRefs' = {} /\ ~SomeWaiting')
    BY <2>1, <2>2, <2>3 DEF SourceOK
  <2>5. output' = reads[r]
    <3>1. {q \in Requests : succeeded'[q] # succeeded[q]} = {r}
      BY <2>1 DEF TypeOK, ClusterTypeOK
    <3>2. UNION {reads[q] : q \in {r}} = reads[r]
      OBVIOUS
    <3> QED
      BY <3>1, <3>2 DEF Renders
  <2>6. Reported' => output' = {head}
    BY <2>1, <2>2, <2>5, PodEndsJobs DEF SourceOK
  <2>7. \A s \in Requests : Running(s)' => Running(s) /\ reads'[s] = reads[s] \cup {head}
    BY <2>1 DEF Running, Exists, Renders, TypeOK, ClusterTypeOK
  <2>8. Looked' => Looked
    BY DEF Looked, sessionVars, managerVars
  <2> QED
    BY <2>2, <2>4, <2>6, <2>7, <2>8 DEF SourceOK
<1> QED
  BY <1>1, <1>2

-----------------------------------------------------------------------------
(***************************************************************************)
(* The invariant, one step of previewd at a time.                          *)
(***************************************************************************)
\* A call of CreateJekyllJob.
LEMMA CreateJobsSource ==
  ASSUME OneRenderName, TypeOK, JobsOK, NEW g \in Goroutines, CreateJekyllJob(g),
         spaced'
  PROVE  JobsOK' /\ SourceOK'
<1>1. JobsOK'
  BY AddJobs
<1>2. SomeWaiting'
  BY DEF CreateJekyllJob, AddJobtoQueue, SomeWaiting, Waiting, TypeOK, ManagerTypeOK
<1> QED
  BY <1>1, <1>2, WaitingSource

\* A step of the monitor goroutine.
LEMMA MonitorJobsSource ==
  ASSUME OneRenderName, TypeOK, TypeOK', JobsOK, SourceOK, NotReading, MonitorStep,
         Renders
  PROVE  JobsOK' /\ SourceOK'
<1>1. CASE \E r \in Requests : Accept(r)
  BY <1>1, ReceiveJobs, WaitingSource DEF Accept
<1> SUFFICES ASSUME \/ StartMonitor \/ ReceiveUpdate \/ DeleteJob
                    \/ NothingToSchedule \/ ScheduleNext \/ Register,
                    UNCHANGED <<head, main, pc, err, leftOver>>
             PROVE  JobsOK' /\ SourceOK'
  BY <1>1 DEF MonitorStep, repoVars, processVars
<1>2. CASE StartMonitor \/ NothingToSchedule
  <2>1. /\ UNCHANGED <<object, failed, succeeded, stream, notifiers, ipc, ievent,
                       request, jobqueue, jobRefs>>
        /\ mpc' = "select"
    BY <1>2 DEF StartMonitor, NothingToSchedule, clusterVars, sessionVars
  <2>2. /\ Looked' => Looked
        /\ Reported' => Reported
        /\ SomeWaiting' <=> SomeWaiting
    BY <2>1 DEF Looked, Reported, SomeWaiting, Waiting, Queued
  <2> QED
    BY <1>2, <2>1, <2>2, IdleJobs, SameSource DEF Running, Exists
<1>3. CASE ReceiveUpdate
  <2>1. /\ UNCHANGED <<object, failed, succeeded, notifiers, request, jobqueue, jobRefs>>
        /\ mpc' # "register"
    BY <1>3 DEF ReceiveUpdate, NotifierReturns, clusterVars
  <2>2. (Looked' => Looked) /\ (SomeWaiting' <=> SomeWaiting)
    BY <2>1 DEF Looked, SomeWaiting, Waiting, Queued
  <2> QED
    BY <1>3, <2>1, <2>2, ReceiveUpdateJobs, SameSource DEF Running, Exists
<1>4. CASE DeleteJob
  <2>1. /\ UNCHANGED <<failed, succeeded, notifiers>> /\ mpc' = "schedule"
        /\ \A r \in Requests : Exists(r)' => Exists(r)
    BY <1>4 DEF DeleteJob, ApiDeleteJob, MarkDeleted, clusterVars, sessionVars, Exists,
                TypeOK, ClusterTypeOK
  <2>2. Looked' => Looked
    BY <2>1 DEF Looked
  <2> QED
    BY <1>4, <2>1, <2>2, DeleteJobs, SameSource DEF Running
<1>5. CASE ScheduleNext
  BY <1>5, ScheduleJobs, ScheduleSource
<1>6. CASE Register
  <2>1. /\ UNCHANGED <<object, failed, succeeded, stream, ipc, ievent, request, jobqueue,
                       jobRefs>>
        /\ mpc = "register" /\ mpc' = "select"
    BY <1>6 DEF Register, RegisterNotifier, clusterVars
  <2>2. Looked /\ (SomeWaiting' <=> SomeWaiting) /\ (Reported' => Reported)
    BY <2>1 DEF Looked, Reported, SomeWaiting, Waiting, Queued
  <2> QED
    BY <1>6, <2>1, <2>2, RegisterJobs, SameSource DEF Running, Exists
<1> QED
  BY <1>2, <1>3, <1>4, <1>5, <1>6

\* A step of the informer's goroutine.
LEMMA InformerJobsSource ==
  ASSUME OneRenderName, TypeOK, JobsOK, SourceOK, Informer,
         UNCHANGED <<head, main, pc, err, leftOver>>, Renders
  PROVE  JobsOK' /\ SourceOK'
<1>1. /\ UNCHANGED <<object, failed, succeeded, request, jobqueue, jobRefs, mpc>>
      /\ notifiers' \subseteq notifiers
  BY DEF Informer, Dispatch, Unregister, clusterVars, managerVars
<1>2. (Looked' => Looked) /\ (SomeWaiting' <=> SomeWaiting)
  BY <1>1 DEF Looked, SomeWaiting, Waiting, Queued
<1>3. JobsOK' /\ (Reported' => Reported)
  BY DispatchJobs, UnregisterJobs DEF Informer
<1> QED
  BY <1>1, <1>2, <1>3, SameSource DEF Running, Exists

\* A step of the cluster.
LEMMA ClusterJobsSource ==
  ASSUME TypeOK, TypeOK', JobsOK, SourceOK, NEW r \in Requests, Cluster(r), Renders
  PROVE  JobsOK' /\ SourceOK'
<1> USE DEF Cluster, repoVars, processVars
<1>1. CASE PodEnds(r)
  BY <1>1, PodEndsJobs, PodEndsSource DEF PodEnds
<1>2. CASE Removed(r)
  <2>1. /\ JobsOK' /\ jobRefs = {} /\ ~(SomeWaiting /\ ~SomePodFailed)
    BY <1>2, FinalizeJobs DEF Removed
  <2>2. /\ UNCHANGED <<failed, succeeded, notifiers, mpc, head, main, pc, err>>
        /\ \A s \in Requests : Exists(s)' => Exists(s)
    BY <1>2 DEF Removed, Finalize, sessionVars, managerVars, Exists, TypeOK,
                ClusterTypeOK
  <2>3. (Looked' => Looked) /\ (SomeWaiting' <=> SomeWaiting)
    BY <1>2 DEF Removed, sessionVars, managerVars, Looked, SomeWaiting, Waiting, Queued
  <2>4. CASE SomePodFailed
    BY <2>1, <2>2, <2>4 DEF SourceOK, SomePodFailed
  <2>5. CASE ~SomePodFailed
    BY <2>1, <2>2, <2>3, <2>5, SameSource DEF Running
  <2> QED
    BY <2>1, <2>4, <2>5
<1> QED
  BY <1>1, <1>2

\* A step of the clone: the webhook that moves it has yet to ask for a render,
\* or has failed.
LEMMA CloneJobsSource ==
  ASSUME JobsOK, SourceOK, Renders,
         CreateLocalRepoManager \/ CloneSource \/ Git \/ Pushes
  PROVE  JobsOK' /\ SourceOK'
<1>1. UNCHANGED <<vars, leftOver>>
  BY DEF CreateLocalRepoManager, CloneSource, Git, Pushes, processVars
<1>2. JobsOK' /\ (Reported' <=> Reported) /\ (Looked' <=> Looked)
  BY <1>1, SameVars
<1>3. CASE CreateLocalRepoManager \/ CloneSource
  BY <1>2, <1>3 DEF CreateLocalRepoManager, CloneSource, SourceOK, Asked
<1>4. CASE Git
  <2>1. ~Asked'
    BY <1>4
    DEF Git, Asked, HandleWebhook, Fetch, Checkout, Pull, NoRenderDir, Fails
  <2> QED
    BY <1>2, <2>1 DEF SourceOK
<1>5. CASE Pushes
  <2>1. UNCHANGED <<head, main, pc, err>>
    BY <1>5 DEF Pushes, Push, Move, processVars
  <2> QED
    BY <1>1, <1>2, <2>1, SameSource
    DEF vars, clusterVars, managerVars, Running, Exists, SomeWaiting, Waiting, Queued
<1> QED
  BY <1>2, <1>3, <1>4, <1>5

\* A process starts or ends.
LEMMA ProcessJobsSource ==
  ASSUME TypeOK, JobsOK, SourceOK, Renders, StartInformers \/ Restart
  PROVE  JobsOK' /\ SourceOK'
<1>1. CASE Restart
  BY <1>1, RestartJobs DEF Restart, SourceOK, Asked
<1>2. CASE StartInformers
  <2>1. UNCHANGED <<object, failed, succeeded, request, jobqueue, jobRefs, head, main,
                    pc, err>>
    BY <1>2 DEF StartInformers, managerVars, repoVars, processVars
  <2> QED
    BY <1>2, <2>1, StartInformersJobs, SameSource
    DEF Running, Exists, SomeWaiting, Waiting, Queued
<1> QED
  BY <1>1, <1>2

\* Renders that were not asked for one after the other stay so.
LEMMA SpacedStays ==
  ASSUME [PipelineNext]_pipelineVars, spaced'
  PROVE  spaced
BY DEF PipelineNext, StartInformers, CreateLocalRepoManager, CloneSource, InitialBuild,
       HookSubmits, CreateJekyllJob, MonitorStep, Accept, Git, Pushes, Cluster, Restart,
       processVars, pipelineVars

\* The part that holds while renders are spaced.
LEMMA NextSpaced ==
  ASSUME OneRenderName, PipelineIInv, TypeOK', PipelineNext, spaced'
  PROVE  JobsOK' /\ SourceOK'
<1>1. TypeOK /\ TypeOK' /\ JobsOK /\ SourceOK /\ NotReading
  BY SpacedStays DEF PipelineIInv
<1>2. Renders
  BY DEF PipelineNext
<1>3. CASE InitialBuild \/ HookSubmits
  BY <1>1, <1>3, CreateJobsSource DEF InitialBuild, HookSubmits, Goroutines
<1>4. CASE StartInformers \/ Restart
  BY <1>1, <1>2, <1>4, ProcessJobsSource
<1>5. CASE CreateLocalRepoManager \/ CloneSource \/ Git \/ Pushes
  BY <1>1, <1>2, <1>5, CloneJobsSource
<1>6. CASE MonitorStep
  BY <1>1, <1>2, <1>6, MonitorJobsSource
<1>7. CASE Informer /\ UNCHANGED <<repoVars, processVars>>
  BY <1>1, <1>2, <1>7, InformerJobsSource DEF repoVars, processVars
<1>8. CASE \E r \in Requests : Cluster(r)
  BY <1>1, <1>2, <1>8, ClusterJobsSource
<1> QED
  BY <1>3, <1>4, <1>5, <1>6, <1>7, <1>8 DEF PipelineNext

\* PipelineIInv is inductive.
LEMMA NextPipelineIInv ==
  ASSUME OneRenderName, PipelineIInv, [PipelineNext]_pipelineVars
  PROVE  PipelineIInv'
<1>1. TypeOK'
  BY PipelineType DEF PipelineIInv
<1>2. CASE UNCHANGED pipelineVars
  <2> SUFFICES ASSUME spaced' PROVE NotReading' /\ JobsOK' /\ SourceOK'
    BY <1>1, <1>2
    DEF PipelineIInv, pipelineVars, volumeVars, vars, clusterVars, NotReading, Running,
        Exists
  <2>1. JobsOK /\ SourceOK
    BY SpacedStays DEF PipelineIInv
  <2>2. JobsOK' /\ (Reported' <=> Reported) /\ (Looked' <=> Looked)
    BY <1>2, <2>1, SameVars DEF pipelineVars, processVars
  <2>3. SourceOK' /\ NotReading'
    BY <1>2, <2>1, <2>2
    DEF pipelineVars, vars, clusterVars, managerVars, repoVars, processVars, volumeVars,
        PipelineIInv, SourceOK, NotReading, Asked, SomePodFailed, SomeWaiting, Waiting,
        Queued, Running, Exists
  <2> QED
    BY <2>2, <2>3
<1>3. CASE PipelineNext
  <2>1. NotReading'
    BY <1>3, StillNotReading DEF PipelineNext
  <2> QED
    BY <1>1, <1>3, <2>1, NextSpaced DEF PipelineIInv
<1> QED
  BY <1>2, <1>3

\* The initial state satisfies it.
LEMMA InitPipelineIInv == PipelineInit => PipelineIInv
<1> SUFFICES ASSUME PipelineInit PROVE PipelineIInv
  OBVIOUS
<1>1. TypeOK /\ JobsOK
  BY InitType, InitJobs DEF PipelineInit
<1>2. SourceOK /\ NotReading
  BY DEF PipelineInit, SourceOK, Asked, NotReading
<1> QED
  BY <1>1, <1>2 DEF PipelineIInv

\* PipelineIInv always holds, when all renders have one name: what it says of
\* jobs and sources for as long as the renders are asked for one after the
\* other, across webhooks, pushes, failures and restarts.
THEOREM PipelineInvariance ==
  ASSUME OneRenderName PROVE PipelineSpec => []PipelineIInv
<1>1. PipelineIInv /\ [PipelineNext]_pipelineVars => PipelineIInv'
  BY NextPipelineIInv
<1> QED
  BY <1>1, InitPipelineIInv, PTL DEF PipelineSpec

\* Whatever the renders read while a webhook, or a process that started again,
\* moved the clone under them: once the last has been looked after the site is
\* that of the commit checked out, made from that commit alone, unless a render
\* was asked for before those before it were over.
THEOREM OutputIsCurrentHolds ==
  ASSUME OneRenderName PROVE PipelineSpec => []OutputIsCurrent
<1>1. PipelineIInv => OutputIsCurrent
  BY DEF PipelineIInv, SourceOK, Asked, OutputIsCurrent, NobodyWaits, SomeWaiting
<1> QED
  BY <1>1, PipelineInvariance, PTL

\* Once a pod has failed, no process creates a job again: the failed job keeps
\* the one name, also from a process that has forgotten it.
THEOREM HaltAcrossRestartsHolds ==
  ASSUME OneRenderName PROVE PipelineSpec => HaltAcrossRestarts
<1> DEFINE Halts == spaced /\ SomePodFailed =>
                      \A r \in Requests : object[r] = "none" => object'[r] = "none"
<1>1. PipelineIInv /\ PipelineIInv' /\ [PipelineNext]_pipelineVars => [Halts]_pipelineVars
  <2> SUFFICES ASSUME PipelineIInv, TypeOK', PipelineNext, spaced,
                      NEW s \in Requests, failed[s] > 0,
                      NEW r \in Requests, object[r] = "none"
               PROVE  object'[r] = "none"
    BY DEF PipelineIInv, SomePodFailed
  <2>1. Exists(s)
    BY DEF PipelineIInv, JobsOK, FailedStays, Exists
  <2>2. CASE ScheduleNext /\ UNCHANGED leftOver
    BY <2>1, <2>2, ScheduleJobs DEF PipelineIInv, clusterVars
  <2>3. CASE DeleteJob
    BY <2>3
    DEF DeleteJob, ApiDeleteJob, Holders, MarkDeleted, clusterVars, PipelineIInv, TypeOK,
        ClusterTypeOK
  <2>4. ASSUME NEW q \in Requests, Cluster(q) PROVE object'[r] = "none"
    BY <2>4 DEF Cluster, PodEnds, Removed, PodSucceeds, PodFails, Finalize,
                PipelineIInv, TypeOK, ClusterTypeOK
  <2>5. CASE UNCHANGED object
    BY <2>5
  <2> QED
    BY <2>2, <2>3, <2>4, <2>5
    DEF PipelineNext, StartInformers, CreateLocalRepoManager, CloneSource, InitialBuild,
        HookSubmits, CreateJekyllJob, AddJobtoQueue, MonitorStep, Accept, ReceiveJob,
        StartMonitor, ReceiveUpdate, NotifierReturns, NothingToSchedule, Register,
        RegisterNotifier, Informer, Dispatch, Unregister, Git, Pushes, Restart,
        processVars, vars, clusterVars
<1> QED
  BY <1>1, PipelineInvariance, PTL DEF PipelineSpec, HaltAcrossRestarts

\* Whatever job has the one name when the monitor deletes it, it is a job that
\* has succeeded, also when an earlier process created it.
THEOREM DeletesOnlyOverHolds ==
  ASSUME OneRenderName PROVE PipelineSpec => DeletesOnlyOver
<1> DEFINE Deletes == spaced /\ DeleteStep =>
                        \A r \in Requests : object'[r] # object[r] => Clean(r)
<1>1. PipelineIInv /\ [PipelineNext]_pipelineVars => [Deletes]_pipelineVars
  <2> SUFFICES ASSUME PipelineIInv, PipelineNext, spaced, DeleteStep,
                      NEW r \in Requests, object'[r] # object[r]
               PROVE  Clean(r)
    OBVIOUS
  <2>1. Exists(r) => Clean(r)
    BY DEF PipelineIInv, JobsOK, ReportedIsClean, Reported, DeleteStep
  <2>2. DeleteJob
    BY DEF DeleteStep, PipelineNext, StartInformers, CreateLocalRepoManager,
        CloneSource, InitialBuild, HookSubmits, CreateJekyllJob, AddJobtoQueue,
        MonitorStep, Accept, ReceiveJob, StartMonitor, ReceiveUpdate, NothingToSchedule,
        ScheduleNext, Register, Informer, Git, Pushes, Cluster, PodEnds, Removed,
        Restart, processVars, vars, managerVars
  <2>3. PICK d \in Requests : MarkDeleted(d)
    BY <2>2 DEF DeleteJob, ApiDeleteJob, Holders, clusterVars
  <2>4. r = d /\ Exists(r)
    BY <2>3 DEF MarkDeleted, Exists, PipelineIInv, TypeOK, ClusterTypeOK
  <2> QED
    BY <2>1, <2>4
<1> QED
  BY <1>1, PipelineInvariance, PTL DEF PipelineSpec, DeletesOnlyOver

-----------------------------------------------------------------------------
\* One name is held by one object at a time.
LEMMA OneObjectStep ==
  ASSUME OneRenderName, TypeOK, OneObject, [PipelineNext]_pipelineVars
  PROVE  OneObject'
<1> USE DEF TypeOK, ClusterTypeOK
<1>1. CASE \A r \in Requests : Exists(r)' => Exists(r)
  BY <1>1 DEF OneObject
<1>2. ASSUME NEW q \in Requests, CreateTakesEffect(q) PROVE OneObject'
  <2>1. \A r \in Requests : ~Exists(r)
    BY <1>2 DEF CreateTakesEffect, Holders, OneRenderName
  <2> QED
    BY <1>2, <2>1 DEF CreateTakesEffect, OneObject, Exists
<1>3. ASSUME NEW q \in Requests, MarkDeleted(q) \/ Finalize(q) PROVE OneObject'
  BY <1>1, <1>3 DEF MarkDeleted, Finalize, Exists
<1>4. CASE UNCHANGED object
  BY <1>1, <1>4 DEF Exists
<1>5. CASE StartInformers \/ Restart \/ UNCHANGED vars
  BY <1>4, <1>5 DEF StartInformers, Restart, vars, clusterVars
<1>6. CASE ScheduleNext
  <2>1. Head(jobqueue) \in Requests
    BY <1>6, TailEntries DEF ScheduleNext, MaySchedule, ManagerTypeOK, Named
  <2> QED
    BY <1>2, <1>4, <1>6, <2>1 DEF ScheduleNext, CreateRefused, clusterVars
<1>7. CASE DeleteJob
  BY <1>3, <1>4, <1>7 DEF DeleteJob, ApiDeleteJob, Holders, clusterVars
<1>8. ASSUME NEW r \in Requests, PodEnds(r) \/ Removed(r) \/ Interfere(r)
      PROVE  OneObject'
  BY <1>3, <1>4, <1>8
  DEF PodEnds, PodSucceeds, PodFails, Removed, Interfere, OperatorDelete
<1> QED
  BY <1>4, <1>5, <1>6, <1>7, <1>8, JobStep
  DEF Next, Monitor, StartMonitor, ReceiveJob, ReceiveUpdate, NotifierReturns,
      NothingToSchedule, Register, RegisterNotifier, ReceiveDone, Informer, Dispatch,
      Unregister, Session, StartWatchers, Cancel, MapRaceCrash, StopMonitor, StopReturns,
      AddJobtoQueue, clusterVars, pipelineVars

\* With the one name of its renders the cluster itself keeps previewd from
\* running two of them on the volumes: whoever asks for how many, whatever the
\* manager has forgotten or believes, and across restarts.
THEOREM PipelineMutualExclusion ==
  ASSUME OneRenderName PROVE PipelineSpec => []MutualExclusion
<1> DEFINE One == TypeOK /\ OneObject
<1>1. PipelineInit => One
  BY InitType DEF PipelineInit, Init, ClusterInit, OneObject, Exists
<1>2. One /\ [PipelineNext]_pipelineVars => One'
  BY PipelineType, OneObjectStep
<1>3. One => MutualExclusion
  BY DEF OneObject, MutualExclusion, Unfinished
<1> HIDE DEF One
<1> QED
  BY <1>1, <1>2, <1>3, PTL DEF PipelineSpec

-----------------------------------------------------------------------------
\* What joins the parts has its types: the volumes hold commits, and the calls
\* are of requests.
LEMMA JoinType ==
  PipelineTypeOK /\ TypeOK' /\ CloneOK' /\ [PipelineNext]_pipelineVars => PipelineTypeOK'
<1> SUFFICES ASSUME PipelineTypeOK, TypeOK', CloneOK', [PipelineNext]_pipelineVars
             PROVE  PipelineTypeOK'
  OBVIOUS
<1> USE DEF PipelineTypeOK
<1>1. head' \in Commits \cup {Absent}
  BY DEF CloneOK, RepoIInv, RepoTypeOK
<1>2. /\ reads' \in [Requests -> SUBSET (Commits \cup {Absent})]
      /\ output' \subseteq Commits \cup {Absent}
  <2>1. CASE UNCHANGED pipelineVars
    BY <2>1 DEF pipelineVars, volumeVars
  <2>2. CASE Renders
    <3>1. reads' \in [Requests -> SUBSET (Commits \cup {Absent})]
      BY <1>1, <2>2 DEF Renders
    <3>2. \A S \in SUBSET Requests :
            UNION {reads[r] : r \in S} \subseteq Commits \cup {Absent}
      OBVIOUS
    <3> QED
      BY <2>2, <3>1, <3>2 DEF Renders
  <2> QED
    BY <2>1, <2>2 DEF PipelineNext
<1>3. /\ main' \in {"init", "clone", "build", "wait"}
      /\ calls' \in [Goroutines -> Requests \cup {NoRequest}]
      /\ crashes' \in 0..MaxCrashes /\ leftOver' \subseteq Requests
      /\ spaced' \in BOOLEAN
  <2>1. CASE UNCHANGED processVars
    BY <2>1 DEF processVars
  <2>2. CASE Restart
    BY <2>2, PipelineAssumption DEF Restart
  <2>3. CASE CreateLocalRepoManager \/ CloneSource
    BY <2>3 DEF CreateLocalRepoManager, CloneSource
  <2>4. CASE InitialBuild \/ HookSubmits
    BY <2>4 DEF InitialBuild, HookSubmits, CreateJekyllJob, Goroutines, Quiet
  <2>5. ASSUME NEW r \in Requests, Accept(r)
        PROVE  /\ main' \in {main, "wait"} /\ UNCHANGED <<crashes, leftOver, spaced>>
               /\ calls' \in [Goroutines -> Requests \cup {NoRequest}]
    BY <2>5 DEF Accept, Goroutines
  <2> QED
    BY <2>1, <2>2, <2>3, <2>4, <2>5
    DEF PipelineNext, StartInformers, MonitorStep, Git, Pushes, Cluster, pipelineVars
<1> QED
  BY <1>1, <1>2, <1>3 DEF CloneOK, RepoIInv

\* Every variable of previewd as a whole stays in its type, whoever asks for
\* renders and whatever their names.
THEOREM PipelineTypeInvariant == PipelineSpec => []PipelineTypeOK
<1> DEFINE Types == PipelineTypeOK /\ CloneOK
<1>1. PipelineInit => Types
  <2> SUFFICES ASSUME PipelineInit PROVE Types
    OBVIOUS
  <2>1. CloneOK /\ TypeOK
    BY InitClone, InitType DEF PipelineInit
  <2> QED
    BY <2>1, PipelineAssumption DEF PipelineInit, PipelineTypeOK, CloneOK, RepoIInv
<1>2. Types /\ [PipelineNext]_pipelineVars => Types'
  BY PipelineType, CloneType, JoinType DEF PipelineTypeOK
<1>3. Types => PipelineTypeOK
  OBVIOUS
<1> QED
  BY <1>1, <1>2, <1>3, PTL DEF PipelineSpec

=============================================================================
