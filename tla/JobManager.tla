------------------------------ MODULE JobManager ------------------------------
(***************************************************************************)
(* pkg/jobmanager/jobmanager.go: the job queue.  Callers of AddJobtoQueue  *)
(* hand a job to the monitor goroutine over an unbuffered channel; the     *)
(* monitor keeps the queue, creates the next job when none is in progress, *)
(* and receives the updates the session's informer sends from another      *)
(* goroutine.  A failed job stops the queue: the volume it wrote may be    *)
(* locked, and somebody has to look.                                       *)
(***************************************************************************)
EXTENDS KubeSession

VARIABLES request,        \* where each call of AddJobtoQueue is
          jobqueue,       \* the monitor's queue
          jobRefs,        \* the names in kubeJobManager.jobRefs
          haveFailedJob,  \* the field of Jobmanager
          mpc,            \* where the monitor goroutine is
          current,        \* the job the monitor is deleting or has just created
          stopper         \* where the call of stopMonitor is

managerVars == <<request, jobqueue, jobRefs, haveFailedJob, mpc, current, stopper>>
vars == <<clusterVars, sessionVars, managerVars>>

\* The requests that get past the monitor's check for an empty name.
Named == {r \in Requests : NameOf[r] # NoName}

ManagerTypeOK ==
  /\ request \in [Requests -> {"new", "sending", "accepted"}]
  /\ jobqueue \in Seq(Named)
  /\ jobRefs \subseteq Names
  /\ haveFailedJob \in BOOLEAN
  /\ mpc \in {"off", "select", "deleteJob", "schedule", "register",
              "exited", "crashed"}
  /\ current \in Requests \cup {NoRequest}
  /\ mpc = "deleteJob" => current \in Requests
  /\ mpc = "register" => current \in Named
  /\ stopper \in {"idle", "sending", "waiting", "done"}

\* Every variable of the job manager, its session and the cluster stays in
\* its type; the monitor knows which job it works on when it needs to.
TypeOK == ClusterTypeOK /\ SessionTypeOK /\ ManagerTypeOK

Init ==
  /\ ClusterInit
  /\ SessionInit
  /\ request = [r \in Requests |-> "new"]
  /\ jobqueue = <<>>
  /\ jobRefs = {}
  /\ haveFailedJob = FALSE
  /\ mpc = "off"
  /\ current = NoRequest
  /\ stopper = "idle"

\* Seeded fault: a failure counts only when the job may not retry.
FailedForGood(ev) == TypeOf[ev.kind] = Update /\ ev.failed > BackoffLimit

\* isCompleted's two results: failed, and ready for the next job.
Failed(ev) == TypeOf[ev.kind] = Update /\ ev.failed > 0
ReadyNext(ev) == Failed(ev) \/ (TypeOf[ev.kind] = Update /\ ev.succeeded > 0)

(***************************************************************************)
(* Nothing is on its way: every caller's job is done or has failed.        *)
(***************************************************************************)
Settled ==
  /\ stream = <<>> /\ ipc = "idle"
  /\ mpc = "select"
  /\ jobqueue = <<>>
  /\ \A r \in Requests : request[r] # "sending" /\ (Exists(r) => failed[r] > 0)

InProgress == jobRefs # {}

-----------------------------------------------------------------------------
\* JobManager.StartWatchers: the monitor starts after the session's watchers.
StartMonitor ==
  /\ mpc = "off"
  /\ watch = "on"
  /\ mpc' = "select"
  /\ UNCHANGED <<clusterVars, sessionVars, request, jobqueue, jobRefs,
                 haveFailedJob, current, stopper>>

\* A caller begins to send.  A patient one waits until all is settled.
AddJobtoQueue(r) ==
  /\ mpc # "crashed"
  /\ request[r] = "new"
  /\ "overlap" \in Env \/ Settled
  /\ request' = [request EXCEPT ![r] = "sending"]
  /\ UNCHANGED <<clusterVars, sessionVars, jobqueue, jobRefs, haveFailedJob,
                 mpc, current, stopper>>

\* Seeded fault: the check for an empty name is missing.
ReceiveAnyJob(r) ==
  /\ mpc = "select" /\ request[r] = "sending"
  /\ request' = [request EXCEPT ![r] = "accepted"]
  /\ jobqueue' = Append(jobqueue, r)
  /\ mpc' = "schedule"
  /\ UNCHANGED <<clusterVars, sessionVars, jobRefs, haveFailedJob, current, stopper>>

\* Seeded fault: the newest job goes first.
ReceiveJobAtFront(r) ==
  /\ mpc = "select" /\ request[r] = "sending"
  /\ request' = [request EXCEPT ![r] = "accepted"]
  /\ jobqueue' = IF NameOf[r] # NoName THEN <<r>> \o jobqueue ELSE jobqueue
  /\ mpc' = "schedule"
  /\ UNCHANGED <<clusterVars, sessionVars, jobRefs, haveFailedJob, current, stopper>>

\* case nextJob := <-jm.addQueue: a job without a name is not queued.
ReceiveJob(r) ==
  /\ mpc = "select"
  /\ request[r] = "sending"
  /\ request' = [request EXCEPT ![r] = "accepted"]
  /\ jobqueue' = IF NameOf[r] # NoName THEN Append(jobqueue, r) ELSE jobqueue
  /\ mpc' = "schedule"
  /\ UNCHANGED <<clusterVars, sessionVars, jobRefs, haveFailedJob, current, stopper>>

\* Seeded fault: a failed job is forgotten, haveFailedJob alone stops the queue.
ReceiveUpdateForgets ==
  /\ mpc = "select" /\ NotifierReturns
  /\ haveFailedJob' = Failed(ievent)
  /\ jobRefs' = IF Failed(ievent) THEN jobRefs \ {NameOf[ievent.req]} ELSE jobRefs
  /\ \/ /\ ReadyNext(ievent) /\ ~Failed(ievent)
        /\ mpc' = "deleteJob" /\ current' = ievent.req
     \/ /\ ReadyNext(ievent) => Failed(ievent)
        /\ mpc' = "schedule" /\ UNCHANGED current
  /\ UNCHANGED <<request, jobqueue, stopper>>

\* Seeded fault: a failed job ends the monitor's loop.
ReceiveUpdateReturns ==
  /\ mpc = "select" /\ NotifierReturns
  /\ haveFailedJob' = Failed(ievent)
  /\ \/ /\ ReadyNext(ievent) /\ ~Failed(ievent)
        /\ mpc' = "deleteJob" /\ current' = ievent.req
     \/ /\ ReadyNext(ievent) => Failed(ievent)
        /\ mpc' = IF Failed(ievent) THEN "exited" ELSE "schedule"
        /\ UNCHANGED current
  /\ UNCHANGED <<request, jobqueue, jobRefs, stopper>>

\* case update := <-jobnotifierchannel: the notifier returns as the monitor
\* receives; a job that succeeded is deleted, a failed one is only logged.
ReceiveUpdate ==
  /\ mpc = "select"
  /\ NotifierReturns
  /\ haveFailedJob' = Failed(ievent)
  /\ \/ /\ ReadyNext(ievent) /\ ~Failed(ievent)
        /\ mpc' = "deleteJob"
        /\ current' = ievent.req
     \/ /\ ReadyNext(ievent) => Failed(ievent)
        /\ mpc' = "schedule"
        /\ UNCHANGED current
  /\ UNCHANGED <<request, jobqueue, jobRefs, stopper>>

\* Seeded fault: the job is deleted but not forgotten.
DeleteJobRemembers ==
  /\ mpc = "deleteJob"
  /\ ApiDeleteJob(NameOf[current])
  /\ mpc' = "schedule"
  /\ current' = NoRequest
  /\ UNCHANGED <<sessionVars, request, jobqueue, jobRefs, haveFailedJob, stopper>>

\* kubeJobManager.DeleteJob: the job is forgotten whatever the API answers.
DeleteJob ==
  /\ mpc = "deleteJob"
  /\ jobRefs' = jobRefs \ {NameOf[current]}
  /\ ApiDeleteJob(NameOf[current])
  /\ mpc' = "schedule"
  /\ current' = NoRequest
  /\ UNCHANGED <<sessionVars, request, jobqueue, haveFailedJob, stopper>>

\* Seeded fault: InProgress is not asked.
MayScheduleAtOnce == jobqueue # <<>> /\ ~haveFailedJob

MaySchedule == jobqueue # <<>> /\ ~InProgress /\ ~haveFailedJob

NothingToSchedule ==
  /\ mpc = "schedule"
  /\ ~MaySchedule
  /\ mpc' = "select"
  /\ UNCHANGED <<clusterVars, sessionVars, request, jobqueue, jobRefs,
                 haveFailedJob, current, stopper>>

\* Seeded fault: jobRefs is set only when the create call returns no error.
ScheduleNextRecordsLate ==
  /\ mpc = "schedule" /\ MaySchedule
  /\ jobqueue' = Tail(jobqueue)
  /\ \/ /\ CreateTakesEffect(Head(jobqueue))
        /\ jobRefs' = jobRefs \cup {NameOf[Head(jobqueue)]}
        /\ mpc' = "register" /\ current' = Head(jobqueue)
     \/ /\ \/ CreateRefused(Head(jobqueue))
           \/ "createfail" \in Env /\ CreateTakesEffect(Head(jobqueue))
        /\ mpc' = "select" /\ UNCHANGED <<current, jobRefs>>
  /\ UNCHANGED <<sessionVars, request, haveFailedJob, stopper>>

\* scheduleIfPossible up to the answer of the create call: the job leaves the
\* queue and enters jobRefs before the call.  Only a call that returns no
\* error goes on to register the notifier; an error is only logged.
ScheduleNext ==
  /\ mpc = "schedule"
  /\ MaySchedule
  /\ jobqueue' = Tail(jobqueue)
  /\ jobRefs' = jobRefs \cup {NameOf[Head(jobqueue)]}
  /\ \/ /\ CreateTakesEffect(Head(jobqueue))
        /\ mpc' = "register"
        /\ current' = Head(jobqueue)
     \/ /\ \/ CreateRefused(Head(jobqueue))
           \/ "createfail" \in Env /\ CreateTakesEffect(Head(jobqueue))
        /\ mpc' = "select"
        /\ UNCHANGED current
  /\ UNCHANGED <<sessionVars, request, haveFailedJob, stopper>>

\* The end of KubeSession.CreateJob, and of scheduleIfPossible.
Register ==
  /\ mpc = "register"
  /\ RegisterNotifier(NameOf[current])
  /\ mpc' = "select"
  /\ current' = NoRequest
  /\ UNCHANGED <<request, jobqueue, jobRefs, haveFailedJob, stopper>>

\* jobnotifiers is written here while the informer uses it.  The Go runtime
\* either does not notice, or ends the process.
MapRaceCrash ==
  /\ "maprace" \in Env
  /\ mpc = "register" /\ UsesNotifiers
  /\ mpc' = "crashed"
  /\ ipc' = "crashed"
  /\ UNCHANGED <<clusterVars, notifiers, watch, ievent, request, jobqueue,
                 jobRefs, haveFailedJob, current, stopper>>

-----------------------------------------------------------------------------
\* stopMonitor: send on monitorDone, then wait for monitorExit to be closed.
StopMonitor ==
  /\ "stop" \in Env
  /\ mpc \notin {"off", "crashed"} /\ stopper = "idle"
  /\ stopper' = "sending"
  /\ UNCHANGED <<clusterVars, sessionVars, request, jobqueue, jobRefs,
                 haveFailedJob, mpc, current>>

ReceiveDone ==
  /\ mpc = "select" /\ stopper = "sending"
  /\ stopper' = "waiting"
  /\ mpc' = "exited"
  /\ UNCHANGED <<clusterVars, sessionVars, request, jobqueue, jobRefs,
                 haveFailedJob, current>>

StopReturns ==
  /\ stopper = "waiting" /\ mpc = "exited"
  /\ stopper' = "done"
  /\ UNCHANGED <<clusterVars, sessionVars, request, jobqueue, jobRefs,
                 haveFailedJob, mpc, current>>

\* The session's own steps.
Informer == (Dispatch \/ Unregister) /\ UNCHANGED managerVars
Session  == mpc # "crashed" /\ (StartWatchers \/ Cancel) /\ UNCHANGED managerVars

\* The cluster's own steps.  Unless "early" is allowed, no pod ends between
\* the create call and the two statements that register the notifier.
PodEnds(r) ==
  /\ "early" \in Env \/ ~(mpc = "register" /\ current = r)
  /\ PodSucceeds(r) \/ PodFails(r)
  /\ UNCHANGED <<sessionVars, managerVars>>
Removed(r) == Finalize(r) /\ UNCHANGED <<sessionVars, managerVars>>
Interfere(r) == OperatorDelete(r) /\ UNCHANGED <<sessionVars, managerVars>>

Monitor ==
  \/ StartMonitor
  \/ \E r \in Requests : ReceiveJob(r)
  \/ ReceiveUpdate
  \/ DeleteJob
  \/ NothingToSchedule
  \/ ScheduleNext
  \/ Register
  \/ ReceiveDone

Next ==
  \/ Monitor
  \/ Informer
  \/ Session
  \/ MapRaceCrash
  \/ StopMonitor
  \/ StopReturns
  \/ \E r \in Requests :
       AddJobtoQueue(r) \/ PodEnds(r) \/ Removed(r) \/ Interfere(r)

Spec == Init /\ [][Next]_vars

(***************************************************************************)
(* Fairness: goroutines that can run do run, and the cluster gets on with  *)
(* its work.  No caller has to call, nobody has to cancel or interfere.    *)
(***************************************************************************)
Fairness ==
  /\ WF_vars(Monitor)
  /\ WF_vars(Informer)
  /\ WF_vars(StartWatchers /\ UNCHANGED managerVars)
  /\ WF_vars(StopReturns)
  /\ \A r \in Requests : WF_vars(PodEnds(r)) /\ WF_vars(Removed(r))

FairSpec == Spec /\ Fairness

=============================================================================
