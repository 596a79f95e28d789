# A TLA+ model of previewd

previewd watches a Git repository of a static site: a webhook brings the clone
up to date and submits a render job, which a job manager runs in a Kubernetes
cluster, one at a time, on volumes that the jobs share. This directory holds
TLA+ modules that model its concurrent core, TLC configurations that check them
on small instances, and theorems that TLAPS proves for every instance.
`PROJECT.json` lists the runs, what each module's definitions translate, the
hazards the properties are for, and where code and documentation disagree.

## The system

| Component | State | Operations | Interacts with |
|---|---|---|---|
| Job manager, `pkg/jobmanager` | queue (local to the monitor goroutine), `jobRefs`, `haveFailedJob`, channels `addQueue`, `monitorDone`, `monitorExit` and the notifier channel | `AddJobtoQueue`, the monitor's select, `scheduleIfPossible`, `stopMonitor` | callers and the informer send to the monitor over unbuffered channels; the monitor calls the session |
| Kubernetes session, `kubesession.go` | `jobnotifiers`, `namespacenotifiers`, a context | `CreateJob`, `DeleteJob`, `StartWatchers`, `Close`, the informer's handlers | the informer's goroutine calls notifiers, which block on the monitor |
| Kubernetes layer, `kubelayer.go` | none of its own | API calls on jobs, volumes, namespaces | the API server, whose changes come back as a watch stream |
| Local repository, `pkg/localrepomanager` | the clone, `currentBranch` | `InitialClone`, `SwitchBranch`, `HandleWebhook` | the remote repository; submits jobs |
| HTTP server, `pkg/basicserver` | `http.Server`, `exitchan`, a context | `StartListen`, `WaitforInterupt`, `Shutdown` | requests, signals |
| Webhook listener, `pkg/webhooklistener` | `exitchan`, the event channel | `StartListen`, the hook processor, `Shutdown` | the hook processor calls `HandleWebhook` |
| Start-up, `cmd/runwebhookserver.go`, `cmd/testserver.go`, `internal/env.go` | package variables, the flags, the settings | `PerformActions`, the test server, `ValidateEnv` | creates everything above |
| The whole | the volumes `source` and `render`, the job objects in the cluster | render jobs read one volume and write the other | outlives the process, which is restarted |
| Not modelled: middlewares, root and version commands, logging, test utilities | | | `PROJECT.json` gives the reasons |

What is hard about it:

* A completion is reported through a stream of updates that arrive late and in
  a burst (status, deletion mark, deletion event). The monitor acts on each by
  *name*, `jobRefs` and the notifiers are keyed by name, and previewd gives
  every render the same name.
* Three goroutines meet on unbuffered channels; the informer blocks in a
  notifier while the monitor calls the API.
* Deletion is asynchronous: the old object keeps its name after the delete call.
* API calls fail, with or without effect; pods fail and are retried once.
* The clone follows a remote that moves between any two network calls, and a
  webhook can fail half-way.
* Start-up, signals, shutdown and requests in flight overlap.
* A render reads the working tree through a shared volume while the next webhook
  already changes it.
* Queue, `jobRefs` and notifiers live in memory; the job objects and the volumes
  stay when the process ends and a new one starts.

What makes each component correct: at most one render uses the volumes;
a failure halts the queue; a failed or running job is never deleted; accepted
jobs run in order and all run; nobody blocks for ever; a submitted render uses
a source its branch has had since the webhook; the clone is used by one
goroutine at a time; a signal ends the process and leaves no request
unanswered; when the last render is over, the site is the one the clone holds.

## The modules

    KubeLayer <- KubeSession <- JobManager <- JobManagerProps <- MCJobManager
    JobManagerProps <- JobManagerProofs <- JobManagerRefines
                                        <- PatientProofs <- PatientRefines
    LocalRepo <- MCLocalRepo
              <- LocalRepoProofs
    JobManagerProps, LocalRepo <- Pipeline <- MCPipeline
    Pipeline, JobManagerProofs, LocalRepoProofs <- PipelineProofs
    PipelineProofs, PatientRefines <- PipelineRefines
    BasicServer <- WebhookListener <- Startup <- MCStartup
                                              <- StartupProofs

An arrow is EXTENDS. Two abstract specifications stand beside these:
`JobManagerProps` has two INSTANCEs of `SerialRunner`, and `Startup` has one of
`HookQueue`.

**KubeLayer** is the batch API as the code uses it. Each call of
`AddJobtoQueue` is a *request*, and a request becomes at most one job object, so
it stands for that object's UID; its name `NameOf[r]` may be shared. `object`
gives the life of each job (`none`, `live`, `terminating`, `gone`), `failed` and
`succeeded` its status counters, `stream` the watch events on their way. The
job controller and the garbage collector are external actions: pods succeed or
fail (`BackoffLimit` is 1 in the code, so a pod is retried once), foreground
deletion marks an object and removes it later. The creation call is refused
when the name is held. A failing create call may have taken effect; a failing
delete call is modelled without effect (one with an effect differs only in the
error that is logged).

**KubeSession** is the job informer: one handler goroutine takes one event at a
time, looks the job's name up in `jobnotifiers` and calls the notifier, which
returns when the monitor has received the update (`Dispatch`,
`NotifierReturns`, `Unregister`). `Create`, `Update` and `Delete` are all 0, as
in the code.

**JobManager** is the monitor. `mpc` is where its goroutine is: in its select,
in the delete call, before `scheduleIfPossible`, between the create call and
the registration of the notifier. Each arm of the select and each of those
steps is an action. `AddJobtoQueue` begins a send (`sending`), `ReceiveJob`
meets it. The constant `Env` names what the surroundings may do in a run.

**SerialRunner** is what the job manager promises its callers: jobs run one at
a time, in order, and a failure stops the line. `JobManagerProps` maps the
queue, `jobRefs` and the job status onto it, in two ways: where names are
distinct, `jobRefs` names the running job (`Occupant`); where they are not, it
is the request that has left the queue and whose job is not yet over and gone
(`Holder`).

**LocalRepo** is the clone beside a remote that moves. `SwitchBranch` is split
at its network calls. Commits have a given ancestry; a push may move a branch
forward, and with `force` anywhere, back to a commit it had before included.
`err` says why a webhook ended without a job, which the code logs. Three ghost
variables record history that the properties need: `tips`, what the branch has
pointed to since the webhook was taken up, `headBranch`, the branch that HEAD was
last taken from, and `rewritten`, the branches that were ever deleted or replaced
by a commit that does not descend from them. With `local`, the hard reset or the
making of the render directory fails, which ends a webhook before or after the clone
has moved. The remote's `DefaultBranch` is any
branch, while `CreateLocalRepoManager` assumes master; `Assumed` says that nothing
has corrected that yet. What go-git's `Pull` answers is external, and modelled from
the one error string that `gitlayer.pull` lets pass: HEAD moves when it is an
ancestor of the branch; "already up-to-date" is answered when the fetch brought
nothing and HEAD contains the branch; anything else is an error. The
call of `SwitchBranch` that `initialClone` makes is the same one; its failure ends
the process, so the webhooks after it are a subset of those modelled.

**BasicServer**, **WebhookListener** and **Startup** are the process: the
server's goroutine, requests, both callers of `Shutdown`, the hook processor,
and the main goroutine through `PerformActions` with a set of flags. The clone
and the job queue are single steps here; their insides are the other modules.
`main = "wait"` is inside `WaitforInterupt` after `signal.Notify`; a signal
before that kills the process. The test server command is one more command line:
it goes from the start of its listener to the wait for a signal, and its
handler answers without an event. So is the listener without a local repository
manager that the tests start (`norepo`), which ignores the events it gets.
`WebhookListener.Shutdown` first closes `exitchan` (`CloseExit`), then calls the
server's `Shutdown` (`ListenerShutdown`); anything may come between the two, and
before `StartListen` the second is refused. A missing setting ends the start
(`SettingsRefused`). hookserve, an imported library, hands each event
over in a goroutine of its own, so the events are received in any order.

**HookQueue** is what the hook processor promises: events are taken up one at a
time, each once; while one is handled at most one job is handed over; and a
processor that is stopped takes up no more.

**Pipeline** is previewd as a whole: the actions of `LocalRepo` and `JobManager`
side by side under the main goroutine of a process with the flags of the deployment (clone,
listen, build). `CreateJekyllJob` joins them: it sends at once, whatever is going
on, and the goroutine that called it, main or the hook processor inside
`HandleWebhook`, waits until the monitor has received its job (`Accept`). Nothing
in previewd waits for the render before, and nothing in the model does. What
several properties need to know is recorded instead: the ghost variable `spaced`
is true as long as each render so far was asked for at a moment when no other was
on its way (`Quiet`). It restricts no step.

Every step goes together with `Renders`, the volumes: a running render may read
the working tree at any moment, and what its pod has read when it ends is what the
render volume is made from (`reads`, `output`; `cd /src/source`, `build -d /site`).
A failed pod may have written something before it failed. `Restart` ends the
process at any point after the start of the monitor, a panic or an eviction
alike, and what is in memory is lost; a new
process empties the source volume, lists the jobs of the cluster, clones and asks
for its initial render, while a job of the process before (`leftOver`) may still
run or terminate. Pushes, webhooks and the restart may come between any two steps,
so a render may read several sources, or none. Branches are not deleted here
(`LocalRepo` has that), and `GitEnv` is what the remote side may do otherwise.

Operators commented as *seeded fault* are plausible mistakes in the definition
that follows them. They are not part of any specification; each shows that a
property notices a mistake of that kind (`PROJECT.json`, "mutants").

## The runs

| Run | Instance | Shows |
|---|---|---|
| `Distinct` | 3 requests of distinct names; pods and API calls fail, an operator deletes, pods end early, the session is cancelled, the map race kills the process | `IInv`, `MutualExclusion`, `HaltAfterFailure`, `DeletesOnlySucceeded`, `ImplementsSerialRunner` |
| `Progress` | 2 named requests and 1 without a name, pods fail, `stopMonitor` is called, fair | `TypeOK`, `EveryJobRuns`, `NotifierNotStuck`, `StopMonitorReturns` |
| `PatientCallers` | 3 requests of one name, each submitted when the last is cleaned up, pods fail, fair | safety and progress with previewd's one name: `InProgressTruthful`, `DeletesOnlySucceeded`, `HaltAfterFailure`, `EveryJobRuns`, `ImplementsSerialRunnerInTurn`, and the inductive invariant `TurnIInv`, which contains `PatientIInv` |
| `Repo` | 2 branches, 4 commits in a forked history, 3 webhooks, forced pushes and set-backs, deletions, network errors | `SubmitsWhatWasPushed`, `SubmitsTheBranch`, `SteadyBranchIsBuilt`, and the inductive invariant `RepoIInv` |
| `Process` | every set of flags, the test server and a listener without a repository, 2 requests, every failure, signals and shutdowns, fair | `StartupIInv`, `CloneIsExclusive`, `ExitIsGraceful`, `SignalEndsProcess`, `EventsAreHandled`, `ListenerStops`, `ImplementsHookQueue` |
| `Pipeline` | 2 branches, 2 commits, a webhook, 3 renders of one name asked for at any time, pods fail, one restart, fair | `MutualExclusion`, `OutputIsCurrent`, `HaltAcrossRestarts`, `DeletesOnlyOver`, `RendersAreMade`, `CallsReturn`, and the inductive invariants `PipelineIInv` and `CloneOK` |

Six runs expect a violation; each is a statement of the repository that the
code does not keep, with its finding in `PROJECT.json`: `FailedJobDeleted`,
`RequestLost`, `ForcedPush`, `WrongBranch`, `BuildCutOff` and
`RestartStalls`. Three of them (`FailedJobDeleted`, `RequestLost`,
`RestartStalls`) have one cause: previewd gives every render the same name and
does not wait for a deletion. In `RestartStalls` the name is held by a job of the
process before. The create call of the initial render is refused, `jobRefs`
keeps the name of a job that does not exist, and nothing renders again; only a
log line at debug level tells of it.

In `WrongBranch` the default branch is not master. A webhook for
master finds `currentBranch` to be master and skips the checkout; the pull
answers "already up-to-date" because HEAD, on the default branch, contains
master; and the default branch is rendered for master.

`OutputIsCurrent` is the statement a user of previewd relies on, and the code keeps
it under conditions only. It is claimed when main waits, no webhook is being handled,
the last one ended without an error, nothing waits in the queue, `jobRefs` is empty
and no pod has failed; and only while `spaced` is true. The last condition is a real
one: a webhook that comes during a render moves the clone under it, and its own
render can be refused and forgotten (`RequestLost`), after which the site stays the
mixture that the first render read, with nothing left to replace it. Likewise a
late report of a job that an earlier process left can delete the running job of the
new one, by its name. Both are behaviours of the code and of the model, and in both
`spaced` has become false. As long as it is true, a render that read a mixture
of two sources is followed by one that reads the last source alone: the webhook
may do its git calls, or a new process its clone, while a render runs, if only its own
`CreateJekyllJob` comes when that one is over. `HaltAcrossRestarts` and
`DeletesOnlyOver` are claimed under the same condition, and
`RendersAreMade` says that a request within it is not lost. `MutualExclusion`,
`CallsReturn` and `CloneOK` hold without it: two renders never share the volumes,
and a goroutine that asks for a render always gets away.

A new process that finds a live job of the one before is quiet in this sense,
although the job holds the name, since no goroutine of the new process looks after
it. Then the render is refused, `jobRefs` keeps the name, and `OutputIsCurrent`
claims nothing (`RestartStalls`): the site is what that last job makes of an
emptied and refilled volume.

**Bounds.** The requests bound everything in the job manager: each is
submitted once and has at most `BackoffLimit + 2` status changes, so queue and
stream are finite without further bounds. Two requests are enough for an
update of one job to meet another job; the third makes a queue whose order can
go wrong, or is the one without a name. Four commits on two branches
(1 <- 2 <- 3 and 1 <- 4) contain a fast-forward over one or two commits, a set-back
and a fork; `MaxHooks` bounds the webhooks, so that the clone can fail on one, use
another branch, and come back. `Repo` has master for its default branch,
`WrongBranch` the other one; the theorems are about any. The two
HTTP requests overlap each other and the shutdown. `Pipeline` is the largest run:
one webhook beside the initial build makes two renders and a clone that moves
under the first, and one restart at any point of that adds the initial render of
the new process, which makes three. The remote begins with one branch, and the other
is pushed at that commit or at one beside it, which is enough for two different
sources; other histories are the matter of `Repo`. The requests all have one
name and differ in nothing, so the k-th call is request k (`InOrder`, a reduction by
symmetry). The safety properties of this run are proved for all values.
TLC's own symmetry is used only in runs without liveness properties.

**Deadlock** is not checked: the requests are finite, and a monitor waiting in
its select, or a process that has ended, is a proper end. What must not stop is
stated as liveness.

**Fairness** (`FairSpec`, `FairStartupSpec`, `PipelineFairness`) is weak fairness of goroutines
that can run: the monitor, the informer, the start of the watchers, the server,
the hook processor, the main goroutine, a caller of `Shutdown`, and the request
handlers; and of the cluster for each job: a pod ends, a deleted object disappears. Callers,
operators, signals, pushes, restarts and faults are not fair; neither are, in
`Pipeline`, the main goroutine and the hook processor, on which its properties do
not depend: they begin when a goroutine has asked for a render. The
monitor's select needs no strong fairness for the properties stated because
each competitor sends finitely often.

**What `Env` leaves out of a run.** `overlap`: without it, a caller waits until
the job before is gone or has failed. Nobody in previewd waits so; it is the condition
on the users of the job manager under which its one name is safe, and `Pipeline`, which
contains the callers, always has `overlap`. `early`: without it no pod ends between
the create call and the two statements that register the notifier; with it the
safety properties hold and progress does not, since a job whose end was never
reported keeps the queue waiting. `maprace`: a detected concurrent map access
ends the process; the undetected outcome is the ordinary step, since the runtime
reports rather than corrupts, and the model has no further outcome.

## The proofs

`JobManagerProofs`, `JobManagerRefines`, `PatientProofs` and `PatientRefines` prove,
with TLAPS and for any set of requests, any names and any surroundings:

| Theorem | Says | Assumes |
|---|---|---|
| `TypeInvariant` | `Spec => []TypeOK` | |
| `Invariance` | `Spec => []IInv` | `DistinctNames` |
| `MutualExclusionHolds` | at most one unfinished job | `DistinctNames` |
| `InProgressIsTruthful` | an unfinished job's name is in `jobRefs` | `DistinctNames` |
| `HaltAfterFailureHolds` | nothing is created after a pod failed | `DistinctNames` |
| `DeletesOnlySucceededHolds` | only jobs that succeeded are deleted | `DistinctNames` |
| `ImplementsSerialRunnerHolds` | the job manager implements `SerialRunner` | `DistinctNames` |
| `PatientInvariance` | `Spec => []PatientIInv` | `"overlap" \notin Env` |
| `PatientMutualExclusion`, `PatientInProgressIsTruthful`, `PatientHaltAfterFailure`, `PatientDeletesOnlySucceeded` | the same four properties | `"overlap" \notin Env` |
| `TurnInvariance` | `Spec => []TurnIInv` | `"overlap" \notin Env` |
| `PatientImplementsSerialRunner` | the job manager implements `SerialRunner`, whatever the names | `"overlap" \notin Env` |

One of the two assumptions is needed: the run `FailedJobDeleted` refutes the
properties for one name and callers that do not wait, and the step it ends in
also clears `jobRefs` while the failed job holds the volumes. previewd itself
uses one name, so `PatientProofs` is about the program as it is, under the
condition on its users that no webhook comes before the last render has
finished; it says nothing about names.

None of the safety properties is inductive: that a deletion hits a
job that succeeded depends on what the update said that started it, on the
event the informer took from the stream, and on the status when the event was
published. `IInv` follows that chain: `StreamTruthful` and `HandledTruthful`
say that an event reporting a success without a failure stays true for good;
`CurrentOK` carries it to the monitor's delete call; `ForgottenIsClean` says
that a name leaves `jobRefs` only for a job that has succeeded; `OneInProgress`
and `FreshHasNoJob` that `jobRefs` has one name at most, of a request that has
left the queue, and that no other request past the queue is unfinished;
`QueueOK` that no request is queued twice. Mutual exclusion follows from
`ForgottenIsClean` and `OneInProgress`. TLC checks `IInv` in the run
`Distinct`. The proof has a lemma per action that disturbs more than one
conjunct, and `QuietIInv` and `ClusterIInv` for groups of actions that leave
most of the state alone.

With patient callers names do not tell jobs apart, so a deletion by name may
hit any job of that name. `PatientIInv` rests on time instead. At most one
request at a time is waiting, in the channel or in the queue (`OneWaiting`), and
at most one job has been created and has not succeeded (`OneUnclean`). While a
report of a success is on its way to the monitor (`CleanPending`), or a job that
has succeeded is not gone yet, every job so far has succeeded without a failure
(`AllClean`), so the deletion that the report leads to can hit none that has not.
And while a request waits no such report is on its way, and every job that
exists has failed (`WaitingIsQuiet`). That is the argument that fails with
`overlap`.
`NamesakesClean`, which both invariants imply, is all that the shared lemmas on
`DeleteJob` need.

The refinement shows, under `IInv`, that every step maps to a step of
`SerialRunner` or changes nothing it sees. The runner's `Occupant` is the
request whose name is in `jobRefs`, unique by `OneInProgress` (`OccupantIs`), and
every job that has not succeeded is the occupant's (`UnfinishedIsOccupant`). So
a pod that fails is a failure of the occupant, and a delete call releases it.

With patient callers the runner is another one (`PatientRefines`), since one name
in `jobRefs` is every request's. What runs is the request that has its turn
(`Held`): it has left the queue, and its job has not succeeded or is not yet gone.
`OneHeld` says that there is one at most, which is the same argument in
time: a request leaves the queue only when everything before it is over, or has
failed and holds the line. A request whose create call was refused, without effect,
has no job that could end its turn; `RefusedBlocks` says that its name stays in
`jobRefs` for good, no report is on its way that could clear it, and no job exists,
so it runs for ever as far as `SerialRunner` can tell. Two steps can
release the volumes: the delete call that empties `jobRefs`, and the removal of a job
that somebody else deleted, when it goes before the manager has forgotten its name.
`NextInTurn` has one lemma per action that the runner can see.

`LocalRepoProofs` proves about the clone, for any branches, any default branch, any
commit history and any failures:

| Theorem | Says | Assumes |
|---|---|---|
| `RepoTypeInvariant` | `RepoSpec => []RepoTypeOK` | |
| `SubmitsWhatWasPushedHolds` | a submitted source contains a version the branch has had since the webhook | |
| `RepoInvariance` | `RepoSpec => []RepoIInv` | |
| `SubmitsTheBranchHolds` | of a branch that only moves forward it is such a version, once the clone is on a branch it knows | |
| `SteadyBranchIsBuiltHolds` | such a branch is built unless the network fails | |
| `SwitchesBranchOnMaster` | `SwitchBranch` ends on a version of the branch asked for | `DefaultBranch = Master`, nothing rewritten or deleted |

The last is the positive side of `WrongBranch` and `ForcedPush`: its two assumptions
are what those runs drop. The first two theorems need only that the remote's default
branch exists and that, in the middle of a webhook, the remote's branch is among
`tips` (`TipsOK`): `Pull` leaves HEAD at the branch's tip of that moment, or where it
contains that tip. The others need that HEAD is behind the branch it was taken from
(`HeadBehind`), which a checkout gets from the same fact about `refs/remotes`
(`TrackingBehind`); both survive a push because ancestry is transitive. That branch
is the one the clone takes for the current one (`BranchOK`), except between a clone of
another default branch than master and the first checkout (`Assumed`). A pull
of a branch that only moved forward then finds HEAD behind it, so it cannot be
refused; and because ancestry is antisymmetric, "already up-to-date" means
that HEAD is the branch (`PullOnBranch`).

`StartupProofs` proves about the process, for any command lines, requests and
failures and without further assumptions:

| Theorem | Says |
|---|---|
| `StartupTypeInvariant` | `StartupSpec => []StartupTypeOK` |
| `StartupInvariance` | `StartupSpec => []StartupIInv` |
| `CloneIsExclusiveHolds` | the hook processor never meets the main goroutine in the clone |
| `ExitIsGracefulHolds` | a listening process exits with no request in flight |
| `ImplementsHookQueueHolds` | the hook processor implements `HookQueue` |

Neither property is inductive. That the processor finds the clone rests on where
main was when the listener started (`NotYetListening`, `ClonedOK`); that an exit
is graceful on what a caller of `Shutdown` has seen at each of its stages
(`ShutOK`) and on the way in which main leaves a listening process (`ExitedOK`).
`SendingOK` is what the step of the monitor needs that lets the processor go on.
The refinement needs where each event is and what has become of its job
(`EventsOK`, `MonitorOK`): a request becomes an event when it is answered, so it
cannot come twice; an event is taken exactly while it is handled, and its job is
sent only then, so the job that the monitor accepts is the handled event's and
was never accepted before. `HookDoneFinishes` is shared by the two ways in which
an event ends.

`PipelineProofs` proves about previewd as a whole, for any finite set of requests
and any branches, commits, webhooks, pushes and numbers of restarts:

| Theorem | Says | Assumes |
|---|---|---|
| `PipelineTypeInvariant` | `PipelineSpec => []PipelineTypeOK` | |
| `PipelineInvariance` | `PipelineSpec => []PipelineIInv` | `OneRenderName` |
| `OutputIsCurrentHolds` | while `spaced`: what has come to rest is the clone's site | `OneRenderName` |
| `HaltAcrossRestartsHolds` | while `spaced`: nothing is created after a pod failed, by any process | `OneRenderName` |
| `DeletesOnlyOverHolds` | while `spaced`: only jobs that succeeded are deleted, by any process | `OneRenderName` |
| `PipelineMutualExclusion` | at most one unfinished job, over all processes | `OneRenderName` |
| `CloneInvariance` | `PipelineSpec => []CloneOK`: `RepoIInv` in every process | |
| `PipelineSubmitsWhatWasPushed` | what `LocalRepoProofs` says of submitted sources and of branches that only move forward | |

`OneRenderName` is what previewd does. `spaced` is no assumption: the theorems are
about every behaviour, and say what holds up to the moment at which a render is asked
for too soon. `PipelineIInv` is `TypeOK`, `NotReading` and, as long as `spaced` is
true, `JobsOK` and `SourceOK`; a step that makes `spaced` false leaves only the first
two to prove, and no step makes it true again (`SpacedStays`). Neither `IInv` nor
`PatientIInv` survives a restart, since the new process has forgotten jobs that exist,
so this invariant is a different one. The one name does the work of what a new
process cannot know: the cluster refuses a second object of that name, so there is one
job at a time (`OneObject`), and a failed one keeps its name for good
(`FailedStays`), which halts every process after it. A report can lead to a
deletion only while some notifier is registered or the informer is already
calling one (`Reported`), and then the one job there is has succeeded
(`ReportedIsClean`): the monitor deletes it before anything else can take the
name. While a request waits nothing of the kind is going on (`Calm`), because it was
sent when all was `Quiet`, and `LookedAfter` leaves no notifier behind then; a job of
the process before may be there, but no notifier looks for it and nobody deletes
it. `DeletedIsForgotten` is what a removal needs: `jobRefs` is empty while a
job is being removed.

On top of that, `SourceOK` relates the queue to the volumes, from the moment
main waits and the hook processor is idle after a webhook that did not fail
(`Asked`): a render the informer looks after has read the clone's commit alone; a
success that is to be reported has made the site from it; and when nothing waits
and `jobRefs` is empty, that is the site and no render runs. A step of the clone
ends `Asked`, a request that is waiting makes the rest vacuous by `Calm`, and a
job that is created starts from nothing read (`NotReading`). The proof has one
lemma per action for the part about the jobs (`JobsOK`) and `SameSource` for the
actions that leave the sources alone.

`CloneOK` is `RepoIInv` across restarts. Every step of the clone is one of
`LocalRepo`, so that `NextRepoIInv` applies to it, except the two of a new process:
it loses `refs/remotes` and `currentBranch` (`Restart`), and empties the volume
(`CreateLocalRepoManager`). What `rewritten` remembers is not lost with the process, so
the properties are not made easier by a restart.

`PipelineMutualExclusion` needs neither: the cluster accepts one object of a name,
which is all that keeps two renders apart when webhooks come too fast. That one name is
also why such requests are lost (`RequestLost`).

`PipelineRefines` shows that the composition is one of its parts:

| Theorem | Says | Assumes |
|---|---|---|
| `ImplementsItsParts` | `PipelineSpec => Spec /\ RepoSpec` | `MaxCrashes = 0` |
| `PipelineImplementsSerialRunner` | `PipelineSpec /\ []spaced => ImplementsSerialRunnerInTurn`: the renders of previewd run one at a time, in order, and stop at a failure | `MaxCrashes = 0` |

`MaxCrashes = 0` is the life of one process in a cluster that holds no job before.
What has to be shown is that the informers, started beside a job manager, list nothing
in that cluster (`NothingListed`), and that emptying the volume before the clone does
not undo one (`FirstProcess`). A restarted process is no behaviour of `JobManager`,
which starts in an empty cluster; the theorems of `PipelineProofs` are those that
hold across restarts. For the serial runner, a request that is sent while all is
`Quiet` is one whose caller has waited (`SpacedIsPatient`), so that the invariant
`TurnIInv` is kept by every step that keeps `spaced` (`NextSpacedTurn`).

Only model-checked: liveness, which the prover does not handle.

## Not modelled

* Namespace notifiers: previewd never starts the namespace watcher
  (`runwebhookserver.go:214` passes `false`), so nothing calls them.
* Volume and namespace calls of the Kubernetes layer: single API calls with no
  state in previewd. A look-up of a volume claim that fails spoils the create
  call after it, which is one of the failing create calls.
* Watchers of pods, which only log, and tombstones, whose type assertion ends the
  process (any end of the process is a `Restart`).
* `KubeSession.Close`, which its comment describes as ending all goroutines of the
  job manager, ends the informers only; previewd does not call it. `cancel`
  in `Env` is its effect, and that of a watch error.
* The render directories themselves (a failure to make one is modelled) and the
  new-branch observer, which previewd never sets; failures of go-git inside a
  checkout; a second signal.
* Middlewares, logging, the root and version commands, settings other than their
  validation, test utilities: they keep no state that another component reads.

What could come next: progress for callers that do not wait, and for a process
started again beside a job of the one before. Both need a change in the code
first (a wait for the deletion, or a name for each render).
