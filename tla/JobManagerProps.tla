---------------------------- MODULE JobManagerProps ----------------------------
(***************************************************************************)
(* What the job manager should do, stated over JobManager.tla.  Most of it *)
(* is true when no two jobs share a name (DistinctNames) and, with the     *)
(* one name previewd uses, when callers wait for each other; the           *)
(* configurations say which.                                               *)
(***************************************************************************)
EXTENDS JobManager, Functions

\* No two jobs share a name.
DistinctNames ==
  \A r, s \in Requests : NameOf[r] = NameOf[s] /\ NameOf[r] # NoName => r = s

\* The job has succeeded and no pod of it has failed.
Clean(r) == succeeded[r] = 1 /\ failed[r] = 0

\* The job may still write to the volumes.
Unfinished(r) == Exists(r) /\ ~Clean(r)

-----------------------------------------------------------------------------
\* Two renders never share the volumes: of all the job objects in the
\* cluster at most one has not succeeded.
MutualExclusion ==
  \A r, s \in Requests : Unfinished(r) /\ Unfinished(s) => r = s

\* InProgress is not wrong about the cluster: while a job is unfinished,
\* jobRefs holds its name ("InProgress returns true if jobs we have scheduled
\* are in progress", jobmanager.go:38).
InProgressTruthful ==
  \A r \in Requests : Unfinished(r) => NameOf[r] \in jobRefs

\* After a pod has failed no further job is created (workbacklog.md: "halt
\* all jobs due to locked volumes"), although haveFailedJob is overwritten by
\* every update and a failed pod is retried once.
HaltAfterFailure ==
  [][(\E s \in Requests : failed[s] > 0) =>
       \A r \in Requests : object[r] = "none" => object'[r] = "none"]_vars

\* The step in which the monitor makes its delete call.
DeleteStep == mpc = "deleteJob" /\ mpc' # "deleteJob"

\* The monitor deletes by name; it never hits a job that has failed or is
\* still running ("failed job doesn't get deleted", workbacklog.md:41).
DeletesOnlySucceeded ==
  [][DeleteStep =>
       \A r \in Requests : object'[r] # object[r] => Clean(r)]_vars

\* A job that has failed is not deleted ("failed job doesn't get deleted",
\* workbacklog.md:41): the part of DeletesOnlySucceeded the backlog states.
FailedJobNotDeleted ==
  [][DeleteStep =>
       \A r \in Requests : object'[r] # object[r] => failed[r] = 0]_vars

\* Every job that is submitted runs, succeeds and is removed again, unless
\* some pod fails or the monitor is stopped.
EveryJobRuns ==
  \A r \in Requests :
    (request[r] = "sending" /\ NameOf[r] # NoName) ~>
      \/ Clean(r) /\ object[r] = "gone"
      \/ \E s \in Requests : failed[s] > 0
      \/ stopper # "idle"

\* The informer's goroutine, blocked in a notifier, gets away again: it
\* cannot wait on the monitor while the monitor waits on it.  Only a monitor
\* that is stopped leaves it behind.
NotifierNotStuck == ipc = "notify" ~> ipc = "idle" \/ stopper # "idle"

\* A call of stopMonitor returns, whatever the monitor is doing.
StopMonitorReturns == stopper = "sending" ~> stopper = "done"

-----------------------------------------------------------------------------
(***************************************************************************)
(* What the code does not do.  Each is a statement of the repository that  *)
(* a run refutes.                                                          *)
(***************************************************************************)
\* Every webhook has its job scheduled ("When the webhook fires, a rebuild
\* job will be scheduled in the cluster", README.md:51).
EveryRequestScheduled ==
  \A r \in Requests : request[r] = "sending" ~> object[r] # "none"

-----------------------------------------------------------------------------
(***************************************************************************)
(* The job manager implements SerialRunner when names are distinct: the    *)
(* running job is the one jobRefs names.                                   *)
(***************************************************************************)
Occupant == IF jobRefs = {} THEN NoRequest
            ELSE CHOOSE r \in Requests : NameOf[r] \in jobRefs

CleanJobs == {r \in Requests : Clean(r)}

SomePodFailed == \E r \in Requests : failed[r] > 0

Serial == INSTANCE SerialRunner WITH
  Jobs    <- Requests,
  NoJob   <- NoRequest,
  waiting <- jobqueue,
  running <- Occupant,
  done    <- CleanJobs,
  broken  <- SomePodFailed

\* Jobs run one at a time, in the order accepted, and stop at a failure.
ImplementsSerialRunner == Serial!SerialSpec

-----------------------------------------------------------------------------
(***************************************************************************)
(* The inductive invariant behind the safety properties.                   *)
(***************************************************************************)
Queued(r) == r \in Range(jobqueue)

\* A request has a job only after the monitor took it out of the queue, and
\* a job that does not exist yet has no status.
FreshHasNoJob ==
  \A r \in Requests :
    /\ (request[r] # "accepted" \/ Queued(r) \/ r \notin Named) => object[r] = "none"
    /\ object[r] = "none" => failed[r] = 0 /\ succeeded[r] = 0

\* The queue holds accepted requests, each once.
QueueOK ==
  /\ \A r \in Requests : Queued(r) => request[r] = "accepted"
  /\ \A i, j \in 1..Len(jobqueue) : jobqueue[i] = jobqueue[j] => i = j

\* At most one name is in progress, and it is a request's that has left the
\* queue.
OneInProgress ==
  /\ \A n, m \in jobRefs : n = m
  /\ \A n \in jobRefs : \E r \in Requests :
       NameOf[r] = n /\ request[r] = "accepted" /\ ~Queued(r)

\* A job the manager has forgotten succeeded without a failure.
ForgottenIsClean ==
  \A r \in Requests : object[r] # "none" /\ NameOf[r] \notin jobRefs => Clean(r)

\* What a change says of a job was true when it was published and, if it was
\* a clean success, is true for good.
Truthful(ev) ==
  /\ object[ev.req] # "none"
  /\ ev.succeeded = 1 /\ ev.failed = 0 => Clean(ev.req)

StreamTruthful == \A i \in 1..Len(stream) : Truthful(stream[i])

HandledTruthful == ipc \in {"notify", "unregister"} => Truthful(ievent)

\* The job the monitor works on: about to be deleted, or just created.
CurrentOK ==
  /\ mpc = "deleteJob" => object[current] # "none" /\ Clean(current)
  /\ mpc = "register" => object[current] # "none"

IInv ==
  /\ TypeOK
  /\ FreshHasNoJob
  /\ QueueOK
  /\ OneInProgress
  /\ ForgottenIsClean
  /\ StreamTruthful
  /\ HandledTruthful
  /\ CurrentOK

\* When the monitor deletes, every job of that name has succeeded.
NamesakesClean ==
  mpc = "deleteJob" =>
    \A r \in Requests : NameOf[r] = NameOf[current] /\ object[r] # "none" => Clean(r)

-----------------------------------------------------------------------------
(***************************************************************************)
(* With patient callers names may be shared.  What has to be added: while  *)
(* the monitor may still delete, or a job has yet to be deleted, nobody is *)
(* waiting for a job.                                                      *)
(***************************************************************************)
CleanReport(ev) == ev.succeeded = 1 /\ ev.failed = 0

\* The monitor is deleting, or will when it gets to this report.
CleanPending ==
  \/ \E i \in 1..Len(stream) : CleanReport(stream[i])
  \/ ipc = "notify" /\ CleanReport(ievent)
  \/ mpc = "deleteJob"

Waiting(r) == request[r] = "sending" \/ Queued(r)

\* One job at most has been created and not succeeded.
OneUnclean ==
  \A r, s \in Requests :
    object[r] # "none" /\ ~Clean(r) /\ object[s] # "none" /\ ~Clean(s) => r = s

\* While a success is to be dealt with, all jobs so far have succeeded.
AllClean ==
  CleanPending \/ (\E r \in Requests : Exists(r) /\ Clean(r)) =>
    \A s \in Requests : object[s] # "none" => Clean(s)

OneWaiting == \A r, s \in Requests : Waiting(r) /\ Waiting(s) => r = s

WaitingIsQuiet ==
  (\E r \in Requests : Waiting(r)) =>
    ~CleanPending /\ \A s \in Requests : Exists(s) => failed[s] > 0

Patience == OneUnclean /\ AllClean /\ OneWaiting /\ WaitingIsQuiet

PatientIInv == IInv /\ Patience

-----------------------------------------------------------------------------
(***************************************************************************)
(* With patient callers the job manager implements SerialRunner whatever   *)
(* the names.  A name no longer tells whose turn it is; what does is that  *)
(* the request has left the queue and its job is not yet over and gone.    *)
(***************************************************************************)
Started(r) == r \in Named /\ request[r] = "accepted" /\ ~Queued(r)

\* The request has its turn: its job has not succeeded, or is still there.
Held(r) == Started(r) /\ ~(Clean(r) /\ object[r] = "gone")

Holder == IF jobRefs # {} /\ \E r \in Requests : Held(r)
          THEN CHOOSE r \in Requests : Held(r)
          ELSE NoRequest

InTurn == INSTANCE SerialRunner WITH
  Jobs    <- Requests,
  NoJob   <- NoRequest,
  waiting <- jobqueue,
  running <- Holder,
  done    <- CleanJobs,
  broken  <- SomePodFailed

\* Jobs run one at a time, in the order accepted, and stop at a failure,
\* also when they all have one name.
ImplementsSerialRunnerInTurn == InTurn!SerialSpec

\* One request at a time has its turn.
OneHeld == \A r, s \in Requests : Held(r) /\ Held(s) => r = s

\* A request whose create call was refused keeps its name in progress for
\* good: there is nothing in the cluster that could clear it.
RefusedBlocks ==
  \A r \in Requests : Started(r) /\ object[r] = "none" =>
    /\ NameOf[r] \in jobRefs
    /\ ~CleanPending
    /\ \A s \in Requests : ~Exists(s)

TurnIInv == PatientIInv /\ OneHeld /\ RefusedBlocks

=============================================================================
