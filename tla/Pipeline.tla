------------------------------- MODULE Pipeline -------------------------------
(***************************************************************************)
(* previewd as a whole: the clone (LocalRepo), the job queue (JobManager)  *)
(* and the main goroutine of runwebhookserver beside each other, with the  *)
(* two volumes that connect them.  A render job reads the working tree     *)
(* while the hook processor may already change it for the next webhook.    *)
(* The process may end at any time and is started again, as a Deployment   *)
(* does: what it kept in memory is lost; the job objects, the volumes and  *)
(* the remote repository stay.                                             *)
(***************************************************************************)
EXTENDS JobManagerProps, LocalRepo, SequencesExt

CONSTANT MaxCrashes  \* how often the process ends (a bound)

\* Neither the hook processor nor the main goroutine waits for a render.
ASSUME PipelineAssumption ==
  IsFiniteSet(Requests) /\ MaxCrashes \in Nat /\ "overlap" \in Env

VARIABLES main,      \* where PerformActions is
          calls,     \* the request each goroutine is handing to the monitor
          reads,     \* the sources each running render has read so far
          output,    \* the sources the render volume was made from
          crashes,   \* how often the process has ended
          leftOver,  \* the jobs an earlier process left in the cluster
          spaced     \* ghost: every render was asked for when all was quiet

processVars == <<main, calls, crashes, leftOver, spaced>>
volumeVars == <<reads, output>>
stepVars == <<vars, repoVars, processVars>>
pipelineVars == <<vars, repoVars, processVars, volumeVars>>

\* The goroutines that ask for a render.
Goroutines == {"main", "hook"}

PipelineTypeOK ==
  /\ TypeOK
  /\ RepoTypeOK
  /\ main \in {"init", "clone", "build", "wait"}
  /\ calls \in [Goroutines -> Requests \cup {NoRequest}]
  /\ reads \in [Requests -> SUBSET (Commits \cup {Absent})]
  /\ output \subseteq Commits \cup {Absent}
  /\ crashes \in 0..MaxCrashes
  /\ leftOver \subseteq Requests
  /\ spaced \in BOOLEAN

PipelineInit ==
  /\ Init
  /\ RepoInit
  /\ main = "init"
  /\ calls = [g \in Goroutines |-> NoRequest]
  /\ reads = [r \in Requests |-> {}]
  /\ output = {}
  /\ crashes = 0
  /\ leftOver = {}
  /\ spaced = TRUE

-----------------------------------------------------------------------------
(***************************************************************************)
(* The volumes, in every step: a running render may read the working tree  *)
(* at any moment; when its pod ends the render volume holds what it made,  *)
(* after a failure together with what was there.                           *)
(***************************************************************************)
Renders ==
  /\ reads' = [r \in Requests |->
                 IF Running(r)' THEN reads[r] \cup {head'} ELSE {}]
  /\ output' =
       IF \E r \in Requests : succeeded'[r] # succeeded[r]
       THEN UNION {reads[r] : r \in {q \in Requests : succeeded'[q] # succeeded[q]}}
       ELSE output \cup
            UNION {reads[r] : r \in {q \in Requests : failed'[q] # failed[q]}}

\* No render is on its way but those that will never finish: failed ones, and
\* live ones that no goroutine of this process looks after.
Quiet ==
  /\ stream = <<>> /\ ipc = "idle"
  /\ mpc = "select"
  /\ jobqueue = <<>>
  /\ \A r \in Requests :
       /\ request[r] # "sending"
       /\ Exists(r) => failed[r] > 0 \/ (r \in leftOver /\ object[r] = "live")

\* CreateJekyllJob begins: its job goes to the monitor's channel, whatever is
\* going on.  The ghost spaced records whether that was nothing, so far.
CreateJekyllJob(g) ==
  /\ calls[g] = NoRequest
  /\ \E r \in Requests : AddJobtoQueue(r) /\ calls' = [calls EXCEPT ![g] = r]
  /\ spaced' = (spaced /\ Quiet)
  /\ UNCHANGED <<repoVars, crashes, leftOver>>

\* The hook processor: the rest of HandleWebhook.
HookSubmits ==
  /\ pc = "submit"
  /\ CreateJekyllJob("hook")
  /\ UNCHANGED main

\* Newjobmanager first starts the informers.  They list the jobs that exist,
\* in any order, as added.
StartInformers ==
  /\ watch = "off"
  /\ watch' = "on"
  /\ UNCHANGED <<object, failed, succeeded, notifiers, ipc, ievent, managerVars>>
  /\ \E q \in SetToSeqs({r \in Requests : Exists(r)}) :
       stream' = [i \in DOMAIN q |-> Event("ADDED", q[i])]
  /\ UNCHANGED <<repoVars, processVars>>

\* CreateLocalRepoManager empties the volume with the source, whoever reads it.
CreateLocalRepoManager ==
  /\ main = "init" /\ mpc # "off"
  /\ main' = "clone"
  /\ head' = Absent
  /\ UNCHANGED <<remote, tracking, currentBranch, pc, branch, err, hooks, tips,
                 headBranch, rewritten, vars, calls, crashes, leftOver, spaced>>

CloneSource ==
  /\ main = "clone"
  /\ InitialClone
  /\ main' = "build"
  /\ UNCHANGED <<vars, calls, crashes, leftOver, spaced>>

\* initialBuild, while the listener is up already.
InitialBuild ==
  /\ main = "build"
  /\ CreateJekyllJob("main")
  /\ UNCHANGED main

\* The monitor receives a job; the goroutine that sent it goes on.
Accept(r) ==
  /\ ReceiveJob(r)
  /\ \/ /\ calls["main"] = r
        /\ calls' = [calls EXCEPT !["main"] = NoRequest]
        /\ main' = "wait"
        /\ UNCHANGED repoVars
     \/ /\ calls["hook"] = r
        /\ calls' = [calls EXCEPT !["hook"] = NoRequest]
        /\ SubmitJob
        /\ UNCHANGED main
  /\ UNCHANGED <<crashes, leftOver, spaced>>

MonitorStep ==
  \/ \E r \in Requests : Accept(r)
  \/ /\ \/ StartMonitor \/ ReceiveUpdate \/ DeleteJob
        \/ NothingToSchedule \/ ScheduleNext \/ Register
     /\ UNCHANGED <<repoVars, processVars>>

\* The hook processor's git calls, and the render directory it makes before it
\* asks for a render.
Git ==
  /\ \/ \E b \in Branches : HandleWebhook(b)
     \/ Fetch \/ Checkout \/ Pull
     \/ calls["hook"] = NoRequest /\ NoRenderDir
  /\ UNCHANGED <<vars, processVars>>

Pushes ==
  /\ \E b \in Branches, c \in Commits : Push(b, c)
  /\ UNCHANGED <<vars, processVars>>

(***************************************************************************)
(* The process ends, for whatever reason, and begins anew.  A call of      *)
(* AddJobtoQueue that is cut off will not come again.                      *)
(***************************************************************************)
Restart ==
  /\ crashes < MaxCrashes /\ mpc # "off"
  /\ crashes' = crashes + 1
  /\ leftOver' = {r \in Requests : Exists(r)}
  /\ notifiers' = {} /\ watch' = "off" /\ ipc' = "idle" /\ ievent' = NoEvent
  /\ stream' = <<>>
  /\ request' = [r \in Requests |->
                   IF request[r] = "sending" THEN "accepted" ELSE request[r]]
  /\ jobqueue' = <<>> /\ jobRefs' = {} /\ haveFailedJob' = FALSE
  /\ mpc' = "off" /\ current' = NoRequest /\ stopper' = "idle"
  /\ main' = "init" /\ calls' = [g \in Goroutines |-> NoRequest]
  /\ tracking' = [b \in Branches |-> Absent]
  /\ currentBranch' = Master /\ branch' = Master
  /\ pc' = "uncloned" /\ err' = "none" /\ tips' = {}
  /\ headBranch' = DefaultBranch
  /\ UNCHANGED <<object, failed, succeeded, remote, head, hooks, rewritten, spaced>>

Cluster(r) == (PodEnds(r) \/ Removed(r)) /\ UNCHANGED <<repoVars, processVars>>

PipelineNext ==
  /\ \/ StartInformers
     \/ CreateLocalRepoManager
     \/ CloneSource
     \/ InitialBuild
     \/ HookSubmits
     \/ MonitorStep
     \/ Informer /\ UNCHANGED <<repoVars, processVars>>
     \/ Git
     \/ Pushes
     \/ \E r \in Requests : Cluster(r)
     \/ Restart
  /\ Renders

PipelineSpec == PipelineInit /\ [][PipelineNext]_pipelineVars

\* No fair step leaves all of these as they are; the volumes go along with any.
PipelineFairness ==
  /\ WF_stepVars(StartInformers)
  /\ WF_stepVars(MonitorStep)
  /\ WF_stepVars(Informer /\ UNCHANGED <<repoVars, processVars>>)
  /\ \A r \in Requests : WF_stepVars(Cluster(r))

-----------------------------------------------------------------------------
\* Nothing is asked for and nothing waits.
NobodyWaits == \A r \in Requests : ~Waiting(r)

\* When the last webhook has been dealt with without an error and the manager
\* is not busy, the site is the one the clone holds, made from that source
\* alone: whatever the renders read while a webhook or a new process moved the
\* clone under them.  It is claimed as long as every render was asked for when
\* those before it were over; one that comes too soon is lost (RequestLost),
\* and the site can stay what the render before made of a moving clone.
OutputIsCurrent ==
  spaced /\ main = "wait" /\ pc = "idle" /\ err = "none"
    /\ jobRefs = {} /\ NobodyWaits /\ ~SomePodFailed => output = {head}

\* A render that was asked for when all was quiet runs, succeeds and is removed
\* again, in the first process or in a later one, unless a pod fails, the
\* process ends, or a job of an earlier process keeps the name.
RendersAreMade ==
  \A r \in Requests :
    (request[r] = "sending" /\ spaced) ~>
      \/ Clean(r) /\ object[r] = "gone"
      \/ ~spaced \/ SomePodFailed \/ mpc = "off"
      \/ \E s \in leftOver : object[s] = "live"

\* A goroutine that asks for a render gets away, however many renders of the
\* one name are on their way and whatever the informer has yet to report: the
\* next webhook is heard.
CallsReturn ==
  \A g \in Goroutines : calls[g] # NoRequest ~> calls[g] = NoRequest

\* After a pod has failed no process creates a job ("halt all jobs due to
\* locked volumes", workbacklog.md:41), those that know nothing of the failure
\* included, as long as the renders were asked for one after the other.
HaltAcrossRestarts ==
  [][spaced /\ SomePodFailed =>
       \A r \in Requests : object[r] = "none" => object'[r] = "none"]_pipelineVars

\* The job that is deleted by its name has succeeded ("failed job doesn't get
\* deleted", workbacklog.md:41), also when it is one of an earlier process, as
\* long as the renders were asked for one after the other.
DeletesOnlyOver ==
  [][spaced /\ DeleteStep =>
       \A r \in Requests : object'[r] # object[r] => Clean(r)]_pipelineVars

\* A process that has been started again performs its initial render
\* ("perform an initial markdown->html render by scheduling a kubernetes
\* job", README.md:51).
InitialRenderScheduled ==
  \A r \in Requests :
    (calls["main"] = r /\ crashes = MaxCrashes) ~> object[r] # "none"

-----------------------------------------------------------------------------
(***************************************************************************)
(* The inductive invariant behind the safety properties, when all renders  *)
(* have one name: what holds as long as they are spaced.                   *)
(***************************************************************************)
OneRenderName == \E n \in Names : \A r \in Requests : NameOf[r] = n

SomeWaiting == \E r \in Requests : Waiting(r)

\* The informer has a notifier to call, or will have one presently.
Looked == notifiers # {} \/ mpc = "register"

\* The monitor is deleting, or will when it gets to a report.
Reported ==
  \/ Looked /\ \E i \in 1..Len(stream) : CleanReport(stream[i])
  \/ ipc = "notify" /\ CleanReport(ievent)
  \/ mpc = "deleteJob"

\* A process that has just started looks after nothing.
NotStarted ==
  /\ watch = "off" => mpc = "off"
  /\ mpc = "off" => notifiers = {} /\ ipc = "idle" /\ ~SomeWaiting

\* Names that previewd keeps are the name of its renders.
NamesKept == \A n \in notifiers \cup jobRefs, r \in Requests : n = NameOf[r]

\* A request that has not left the queue has no job.
FreshJobs ==
  \A r \in Requests :
    /\ request[r] = "new" \/ Waiting(r) => object[r] = "none"
    /\ object[r] = "none" =>
         succeeded[r] = 0 /\ failed[r] = 0 /\ r \notin leftOver

OneRequest ==
  /\ OneWaiting
  /\ Len(jobqueue) <= 1
  /\ jobqueue # <<>> => \A r \in Requests : request[r] # "sending"
  /\ \A r \in Requests : Queued(r) => request[r] = "accepted"

OneObject == \A r, s \in Requests : Exists(r) /\ Exists(s) => r = s

\* A deletion that is to come cannot hit a job that has not succeeded.
ReportedIsClean == Reported => \A r \in Requests : Exists(r) => Clean(r)

\* A failed job stays, and keeps the name.
FailedStays ==
  \A r \in Requests :
    /\ object[r] \in {"terminating", "gone"} => Clean(r)
    /\ failed[r] > 0 => object[r] = "live"

\* A job is deleted when the monitor has forgotten it.
DeletedIsForgotten ==
  (\E r \in Requests : object[r] = "terminating") => jobRefs = {}

\* A notifier is there as long as a job of this process, or the event of its
\* deletion.
LookedAfter ==
  /\ mpc = "register" => object[current] = "live" /\ current \notin leftOver
  /\ notifiers # {} =>
       \/ \E r \in Requests \ leftOver : Exists(r)
       \/ \E i \in 1..Len(stream) : stream[i].kind = "DELETED"
       \/ ipc = "notify" /\ ievent.kind = "DELETED"
       \/ ipc = "unregister"

\* While a request waits nothing else goes on, but for the job of an earlier
\* process, which is never deleted then.
Calm ==
  SomeWaiting /\ ~SomePodFailed =>
    /\ notifiers = {} /\ ipc = "idle" /\ mpc \in {"select", "schedule"}
    /\ \A r \in Requests : object[r] # "terminating"
    /\ stream = <<>> \/ \E r \in Requests : Exists(r)

JobsOK ==
  /\ NotStarted
  /\ NamesKept
  /\ FreshJobs
  /\ OneRequest
  /\ OneObject
  /\ ReportedIsClean
  /\ FailedStays
  /\ DeletedIsForgotten
  /\ LookedAfter
  /\ Calm

\* Every webhook that moved the clone has asked for its render.
Asked == main = "wait" /\ pc = "idle" /\ err = "none"

\* From then on the render that is looked after reads that source alone, and
\* nothing else runs when it is done.
SourceOK ==
  Asked /\ ~SomePodFailed =>
    /\ jobRefs = {} /\ ~SomeWaiting =>
         output = {head} /\ \A r \in Requests : ~Running(r)
    /\ Reported => output = {head}
    /\ Looked => \A r \in Requests : Running(r) => reads[r] = {head}

\* A render that does not run has been forgotten with what it read, spaced or
\* not.
NotReading == \A r \in Requests : ~Running(r) => reads[r] = {}

\* All of it.
PipelineIInv == TypeOK /\ NotReading /\ (spaced => JobsOK /\ SourceOK)

\* What LocalRepo says of a clone; every process makes it anew.
CloneOK ==
  /\ RepoIInv
  /\ main \in {"init", "clone"} => pc = "uncloned"

=============================================================================
