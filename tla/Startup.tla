-------------------------------- MODULE Startup --------------------------------
(***************************************************************************)
(* cmd/runwebhookserver.go: the life of the previewd process.  The main    *)
(* goroutine runs PerformActions (clone, listen, initial build, wait for a *)
(* signal) beside the server's goroutine, the hook processor and the       *)
(* monitor of the job manager.  The clone and the job queue are modelled   *)
(* in LocalRepo and JobManager; here they are the calls that use them.     *)
(* The test server command is the same HTTP server with another handler;   *)
(* the tests of the listener give it no local repository manager.          *)
(***************************************************************************)
EXTENDS WebhookListener

CONSTANTS FlagSets,  \* what is started: sets of the flags that are on
          Initial    \* the initial build, as a job

(***************************************************************************)
(* What a run lets the surroundings do:                                    *)
(*   signal      SIGINT or SIGTERM may come at any time                    *)
(*   portbusy    the port may be taken                                     *)
(*   settings    a setting may be missing                                  *)
(*   clonefails  the initial clone, or the cluster configuration, may fail *)
(*   gitfails    SwitchBranch may fail for a webhook                       *)
(*   shutdown    WebhookListener.Shutdown may be called, as the tests do   *)
(***************************************************************************)
ASSUME StartupAssumption ==
  /\ Env \subseteq {"signal", "portbusy", "settings", "clonefails", "gitfails",
                    "shutdown"}
  /\ FlagSets \subseteq (SUBSET {"clone", "build", "listen"})
                 \cup {{"testserver"}, {"norepo"}}
  /\ NoPost \notin Posts /\ Initial \notin Posts /\ NoPost # Initial
  /\ "off" \notin Posts \cup {NoPost, Initial}

Jobs == Posts \cup {Initial}

VARIABLES flags,     \* the command line
          main,      \* where the main goroutine is, or how the process ended
          cloned,    \* lrm.repo is set
          job,       \* each job's way through AddJobtoQueue
          monitor,   \* the job the monitor is creating, NoPost, or "off"
          signalled  \* a signal arrived after signal.Notify

mainVars == <<flags, main, cloned, job, monitor, signalled>>
startupVars == <<serverVars, listenerVars, mainVars>>

Ended == {"exited", "failed", "killed", "panicked"}

MainTypeOK ==
  /\ flags \in FlagSets
  /\ main \in {"init", "clone", "listen", "build", "building", "wait",
               "shutdown"} \cup Ended
  /\ cloned \in BOOLEAN
  /\ job \in [Jobs -> {"none", "sending", "accepted", "created"}]
  /\ monitor \in Jobs \cup {NoPost, "off"}
  /\ signalled \in BOOLEAN

StartupTypeOK == ServerTypeOK /\ ListenerTypeOK /\ MainTypeOK

StartupInit ==
  /\ ServerInit
  /\ ListenerInit
  /\ flags \in FlagSets
  /\ main = "init"
  /\ cloned = FALSE
  /\ job = [j \in Jobs |-> "none"]
  /\ monitor = "off"
  /\ signalled = FALSE

\* The process runs; when it has ended none of its goroutines does.
Up == main \notin Ended /\ server # "panicked"

-----------------------------------------------------------------------------
\* The command that runs PerformActions.
Previewd == flags \cap {"testserver", "norepo"} = {}

\* ValidateEnv: without a repository or a directory the command ends.
SettingsRefused ==
  /\ "settings" \in Env
  /\ main = "init" /\ Previewd
  /\ main' = "failed"
  /\ UNCHANGED <<serverVars, listenerVars, flags, cloned, job, monitor, signalled>>

\* The test server, and the tests' listener without a local repository: a
\* server, then straight to the wait for a signal.
TestServer ==
  /\ main = "init"
  /\ \/ "testserver" \in flags /\ StartListen /\ UNCHANGED listenerVars
     \/ "norepo" \in flags /\ StartListener
  /\ main' = "build"
  /\ UNCHANGED <<flags, cloned, job, monitor, signalled>>

\* intitializeDependencies: a job manager when something will need one.
Initialize ==
  /\ main = "init" /\ Previewd
  /\ \/ /\ main' = "clone"
        /\ monitor' = IF flags \cap {"build", "listen"} # {} THEN NoPost ELSE "off"
     \/ "clonefails" \in Env /\ main' = "failed" /\ UNCHANGED monitor
  /\ UNCHANGED <<serverVars, listenerVars, flags, cloned, job, signalled>>

\* Seeded fault: the clone goes on in the background.
CloneInBackground ==
  /\ main = "clone"
  /\ main' = "listen"
  /\ UNCHANGED <<serverVars, listenerVars, flags, cloned, job, monitor, signalled>>

\* initialClone, and SwitchBranch to the initial branch.
InitialClone ==
  /\ main = "clone"
  /\ \/ "clone" \notin flags /\ main' = "listen" /\ UNCHANGED cloned
     \/ "clone" \in flags /\ main' = "listen" /\ cloned' = TRUE
     \/ "clone" \in flags /\ "clonefails" \in Env /\ main' = "failed" /\ UNCHANGED cloned
  /\ UNCHANGED <<serverVars, listenerVars, flags, job, monitor, signalled>>

WebhookListen ==
  /\ main = "listen"
  /\ main' = "build"
  /\ \/ "listen" \in flags /\ StartListener
     \/ "listen" \notin flags /\ UNCHANGED <<serverVars, listenerVars>>
  /\ UNCHANGED <<flags, cloned, job, monitor, signalled>>

\* initialBuild: CreateJekyllJob sends to the monitor and waits for it.
InitialBuild ==
  /\ main = "build"
  /\ \/ "build" \in flags /\ main' = "building" /\ job' = [job EXCEPT ![Initial] = "sending"]
     \/ "build" \notin flags /\ main' = "wait" /\ UNCHANGED job
  /\ UNCHANGED <<serverVars, listenerVars, flags, cloned, monitor, signalled>>

\* The monitor receives a job; its sender goes on.
AcceptJob(j) ==
  /\ monitor = NoPost
  /\ job[j] = "sending"
  /\ job' = [job EXCEPT ![j] = "accepted"]
  /\ monitor' = j
  /\ \/ j = Initial /\ main' = "wait" /\ UNCHANGED <<serverVars, listenerVars>>
     \/ j # Initial /\ HookDone /\ UNCHANGED main
  /\ UNCHANGED <<flags, cloned, signalled>>

\* The monitor creates the job, or keeps it in its queue: see JobManager.
CreateJob ==
  /\ monitor \in Jobs
  /\ job' = [job EXCEPT ![monitor] = "created"]
  /\ monitor' = NoPost
  /\ UNCHANGED <<serverVars, listenerVars, flags, main, cloned, signalled>>

-----------------------------------------------------------------------------
\* Seeded fault: an error ends the hook processor.
SwitchBranchReturns ==
  /\ processor = "git" /\ "norepo" \notin flags
  /\ \/ /\ cloned
        /\ processor' = "submit" /\ job' = [job EXCEPT ![handled] = "sending"]
        /\ UNCHANGED <<event, handled>>
     \/ /\ "gitfails" \in Env
        /\ processor' = "exited" /\ event' = [event EXCEPT ![handled] = "done"]
        /\ handled' = NoPost /\ UNCHANGED job
  /\ UNCHANGED <<serverVars, exitclosed, main, flags, cloned, monitor, signalled>>

\* SwitchBranch on behalf of the hook processor.  Without a clone lrm.repo is
\* nil, and the goroutine's panic ends the process.
SwitchBranch ==
  /\ processor = "git" /\ "norepo" \notin flags
  /\ \/ /\ cloned
        /\ processor' = "submit"
        /\ job' = [job EXCEPT ![handled] = "sending"]
        /\ UNCHANGED <<serverVars, event, handled, exitclosed, main>>
     \/ /\ cloned /\ "gitfails" \in Env
        /\ HookDone
        /\ UNCHANGED <<job, main>>
     \/ /\ ~cloned
        /\ main' = "panicked"
        /\ UNCHANGED <<serverVars, listenerVars, job>>
  /\ UNCHANGED <<flags, cloned, monitor, signalled>>

\* Without a local repository manager an event is ignored.
IgnoreEvent ==
  /\ processor = "git" /\ "norepo" \in flags
  /\ HookDone
  /\ UNCHANGED mainVars

-----------------------------------------------------------------------------
\* The main goroutine is to wait for a signal.
Listens == flags \cap {"listen", "testserver", "norepo"} # {}

\* External: a signal.  Before WaitforInterupt nobody has asked to be notified
\* and the process is killed.
Signal ==
  /\ "signal" \in Env /\ ~signalled
  /\ \/ main = "wait" /\ Listens /\ signalled' = TRUE /\ UNCHANGED main
     \/ main \notin {"wait", "shutdown"} /\ main' = "killed" /\ UNCHANGED signalled
  /\ UNCHANGED <<serverVars, listenerVars, flags, cloned, job, monitor>>

\* WaitforInterupt, then BasicServer.Shutdown; without a listener
\* PerformActions returns, and with it the process ends.
WaitForInterupt ==
  /\ main = "wait"
  /\ \/ /\ Listens /\ signalled
        /\ Shutdown("main")
        /\ main' = "shutdown"
     \/ /\ ~Listens
        /\ main' = "exited"
        /\ UNCHANGED serverVars
  /\ UNCHANGED <<listenerVars, flags, cloned, job, monitor, signalled>>

MainReturns ==
  /\ main = "shutdown"
  /\ shut["main"] = "returned"
  /\ main' = "exited"
  /\ UNCHANGED <<serverVars, listenerVars, flags, cloned, job, monitor, signalled>>

Main == SettingsRefused \/ TestServer \/ Initialize \/ InitialClone
          \/ WebhookListen \/ InitialBuild \/ WaitForInterupt \/ MainReturns

\* The server's goroutines, and the two ends of Shutdown.
ServerStep ==
  /\ \/ ListenAndServe
     \/ \E c \in Callers : Drained(c) \/ ServerExits(c)
  /\ UNCHANGED <<listenerVars, mainVars>>
Request(p)  == Arrive(p) /\ UNCHANGED <<listenerVars, mainVars>>
Handler(p)  ==
  /\ \/ "testserver" \notin flags /\ ServeHook(p)
     \/ "testserver" \in flags /\ Answer(p) /\ UNCHANGED listenerVars
  /\ UNCHANGED mainVars
Processor ==
  \/ ((\E p \in Posts : ReceiveEvent(p)) \/ ReceiveExit) /\ UNCHANGED mainVars
  \/ SwitchBranch \/ IgnoreEvent
\* The listener is there once the dependencies are initialized.
StopListener ==
  /\ "shutdown" \in Env /\ "testserver" \notin flags /\ main # "init"
  /\ CloseExit
  /\ UNCHANGED mainVars
StopServer == ListenerShutdown /\ UNCHANGED mainVars
Monitor == CreateJob \/ \E j \in Jobs : AcceptJob(j)

StartupNext ==
  /\ Up
  /\ \/ Main
     \/ ServerStep
     \/ \E p \in Posts : Request(p) \/ Handler(p)
     \/ Processor
     \/ Monitor
     \/ StopListener
     \/ StopServer
     \/ Signal

StartupSpec == StartupInit /\ [][StartupNext]_startupVars

\* Goroutines that can run do run; requests that have arrived are answered.
StartupFairness ==
  /\ WF_startupVars(Up /\ Main)
  /\ WF_startupVars(Up /\ ServerStep)
  /\ WF_startupVars(Up /\ Processor)
  /\ WF_startupVars(Up /\ Monitor)
  /\ WF_startupVars(Up /\ StopServer)
  /\ \A p \in Posts : WF_startupVars(Up /\ Handler(p))

FairStartupSpec == StartupSpec /\ StartupFairness

-----------------------------------------------------------------------------
\* Two goroutines use the working tree of the clone without a lock: main at
\* start-up and the hook processor.  They never do so at the same time, and
\* where a clone was asked for the processor finds it.
CloneIsExclusive ==
  processor \in {"git", "submit"} => main # "clone" /\ ("clone" \in flags => cloned)

\* A process that exits after a signal has answered every request that had
\* reached a handler, and its listener goroutine is gone.
ExitIsGraceful ==
  main = "exited" /\ Listens =>
    server = "exited" /\ \A p \in Posts : post[p] # "inflight"

\* A signal ends the process although the main goroutine, the listener and
\* the handlers wait for each other on the way; but a second caller of
\* Shutdown may take the one value on exitchan that the main goroutine needs.
SignalEndsProcess == signalled ~> ~Up \/ exitclosed

\* An event is handled although other events fail, unless the process ends
\* or the listener is shut down.
EventsAreHandled ==
  \A p \in Posts : event[p] = "pending" ~> event[p] = "done" \/ ~Up \/ exitclosed

\* WebhookListener.Shutdown returns, with an error if it comes before
\* StartListen, and the hook processor ends, unless the process ends or a
\* signal starts the other shutdown.
ListenerStops ==
  exitclosed ~> \/ /\ shut["listener"] \in {"returned", "refused"}
                   /\ processor \in {"off", "exited"}
                \/ ~Up \/ signalled

\* The initial build is carried out ("perform build at startup",
\* runwebhookserver.go:112): a process that ends in good order has created its
\* job.
InitialBuildIsDone ==
  main = "exited" /\ "build" \in flags => job[Initial] = "created"

-----------------------------------------------------------------------------
(***************************************************************************)
(* The hook processor implements HookQueue, whoever else uses the server   *)
(* and the job manager meanwhile.                                          *)
(***************************************************************************)
Queue == INSTANCE HookQueue WITH
  Hooks    <- Posts,
  NoHook   <- NoPost,
  waiting  <- {p \in Posts : event[p] = "pending"},
  handling <- handled,
  over     <- {p \in Posts : event[p] = "done"},
  built    <- {p \in Posts : job[p] \in {"accepted", "created"}},
  stopped  <- processor = "exited"

\* Events are handled one at a time, each once, and an event's job is handed
\* over at most once and only while the event is handled: under any failures,
\* and both shutdowns.
ImplementsHookQueue == Queue!HookSpec

-----------------------------------------------------------------------------
(***************************************************************************)
(* The inductive invariant behind the safety properties.                   *)
(***************************************************************************)
\* Before the listener starts there is neither a server nor a processor.
NotYetListening ==
  /\ main \in {"init", "clone", "listen"} => server = "off"
  /\ server = "off" => processor = "off"

\* Only the hook processor sends the jobs of webhooks, one at a time.
SendingOK ==
  \A p \in Posts : job[p] = "sending" => processor = "submit" /\ handled = p

\* A request becomes an event when it is answered, and a job only while its
\* event is handled, or after that.
EventsOK ==
  \A p \in Posts :
    /\ post[p] # "answered" => event[p] = "none"
    /\ event[p] = "taken" <=> handled = p
    /\ job[p] # "none" => event[p] = "done" \/ (handled = p /\ processor = "submit")
    /\ handled = p /\ processor = "submit" => job[p] = "sending"

\* The monitor works on a job that it has accepted.
MonitorOK == monitor \in Posts => job[monitor] = "accepted"

\* The clone has been made when the processor starts.
ClonedOK == (main = "listen" \/ processor # "off") /\ "clone" \in flags => cloned

\* A shutdown keeps new requests out; past its wait none is in flight, and
\* it returns only when the listener goroutine has ended.
ShutOK ==
  \A c \in Callers :
    /\ shut[c] \notin {"none", "refused"} => server # "serving"
    /\ shut[c] \in {"waiting", "returned"} => \A p \in Posts : post[p] # "inflight"
    /\ shut[c] = "returned" => server = "exited"

\* The main goroutine leaves a listening process through Shutdown alone.
ExitedOK == main = "exited" /\ Listens => shut["main"] = "returned"

StartupIInv ==
  /\ StartupTypeOK
  /\ NotYetListening
  /\ SendingOK
  /\ EventsOK
  /\ MonitorOK
  /\ ClonedOK
  /\ ShutOK
  /\ ExitedOK

=============================================================================
