----------------------------- MODULE StartupProofs -----------------------------
(***************************************************************************)
(* Proofs about the life of the process: the clone is used by one          *)
(* goroutine at a time, and an exit after a signal leaves nothing open,    *)
(* for any number of requests, any command lines and any failures.         *)
(***************************************************************************)
EXTENDS Startup, TLAPS

LEMMA InitStartup == StartupInit => StartupIInv
<1> SUFFICES ASSUME StartupInit PROVE StartupIInv
  OBVIOUS
<1> USE StartupAssumption
    DEF StartupInit, ServerInit, ListenerInit, Listens, Jobs, Ended, Callers
<1>1. StartupTypeOK
  BY DEF StartupTypeOK, ServerTypeOK, ListenerTypeOK, MainTypeOK
<1>2. NotYetListening /\ ClonedOK /\ ShutOK /\ ExitedOK
  BY DEF NotYetListening, ClonedOK, ShutOK, ExitedOK
<1>3. SendingOK /\ EventsOK /\ MonitorOK
  BY DEF SendingOK, EventsOK, MonitorOK
<1> QED
  BY <1>1, <1>2, <1>3 DEF StartupIInv

-----------------------------------------------------------------------------
(***************************************************************************)
(* The main goroutine.                                                     *)
(***************************************************************************)
LEMMA MainIInv ==
  ASSUME StartupIInv, Up, Main
  PROVE  StartupIInv'
<1> USE StartupAssumption
    DEF StartupIInv, StartupTypeOK, ServerTypeOK, ListenerTypeOK, MainTypeOK,
        NotYetListening, SendingOK, EventsOK, MonitorOK, ClonedOK, ShutOK, ExitedOK,
        Listens, Jobs, Ended, Callers, serverVars, listenerVars
<1>1. CASE SettingsRefused
  BY <1>1 DEF SettingsRefused
<1>2. CASE TestServer
  BY <1>2 DEF TestServer, StartListener, StartListen
<1>3. CASE Initialize
  BY <1>3 DEF Initialize
<1>4. CASE InitialClone
  BY <1>4 DEF InitialClone
<1>5. CASE WebhookListen
  BY <1>5 DEF WebhookListen, StartListener, StartListen
<1>6. CASE InitialBuild
  BY <1>6 DEF InitialBuild
<1>7. CASE WaitForInterupt
  BY <1>7 DEF WaitForInterupt, Shutdown
<1>8. CASE MainReturns
  BY <1>8 DEF MainReturns
<1> QED
  BY <1>1, <1>2, <1>3, <1>4, <1>5, <1>6, <1>7, <1>8 DEF Main

-----------------------------------------------------------------------------
(***************************************************************************)
(* The server's goroutine, the requests and the callers of Shutdown.       *)
(***************************************************************************)
LEMMA ServerIInv ==
  ASSUME StartupIInv, Up,
         ServerStep \/ StopListener \/ StopServer
           \/ \E p \in Posts : Request(p) \/ Handler(p)
  PROVE  StartupIInv'
<1> USE DEF StartupIInv, StartupTypeOK, ServerTypeOK, ListenerTypeOK, MainTypeOK,
        NotYetListening, SendingOK, EventsOK, MonitorOK, ClonedOK, ShutOK, ExitedOK,
        Listens, Jobs, Ended, Callers, serverVars, listenerVars, mainVars
<1>1. CASE ListenAndServe /\ UNCHANGED <<listenerVars, mainVars>>
  BY <1>1 DEF ListenAndServe, ShuttingDown
<1>2. ASSUME NEW c \in Callers, Drained(c), UNCHANGED <<listenerVars, mainVars>>
      PROVE  StartupIInv'
  BY <1>2 DEF Drained
<1>3. ASSUME NEW c \in Callers, ServerExits(c), UNCHANGED <<listenerVars, mainVars>>
      PROVE  StartupIInv'
  BY <1>3 DEF ServerExits
<1>4. CASE StopListener
  BY <1>4 DEF StopListener, CloseExit
<1>5. ASSUME NEW p \in Posts, Request(p) PROVE StartupIInv'
  BY <1>5 DEF Request, Arrive
<1>6. ASSUME NEW p \in Posts, Handler(p) PROVE StartupIInv'
  BY <1>6 DEF Handler, ServeHook, Answer
<1>7. CASE StopServer
  BY <1>7 DEF StopServer, ListenerShutdown, Shutdown
<1> QED
  BY <1>1, <1>2, <1>3, <1>4, <1>5, <1>6, <1>7 DEF ServerStep

-----------------------------------------------------------------------------
(***************************************************************************)
(* The hook processor and the monitor, which meet in AcceptJob.            *)
(***************************************************************************)
LEMMA ProcessorIInv ==
  ASSUME StartupIInv, Up, Processor \/ Monitor \/ Signal
  PROVE  StartupIInv'
<1> USE StartupAssumption
    DEF StartupIInv, StartupTypeOK, ServerTypeOK, ListenerTypeOK, MainTypeOK,
        NotYetListening, SendingOK, EventsOK, MonitorOK, ClonedOK, ShutOK, ExitedOK,
        Listens, Jobs, Ended, Callers, serverVars, listenerVars, mainVars
<1>1. ASSUME NEW p \in Posts, ReceiveEvent(p), UNCHANGED mainVars
      PROVE  StartupIInv'
  BY <1>1 DEF ReceiveEvent
<1>2. CASE ReceiveExit /\ UNCHANGED mainVars
  BY <1>2 DEF ReceiveExit
<1>3. CASE SwitchBranch
  BY <1>3 DEF SwitchBranch, HookDone
<1>4. CASE CreateJob
  BY <1>4 DEF CreateJob
<1>5. ASSUME NEW j \in Jobs, AcceptJob(j) PROVE StartupIInv'
  <2>1. CASE j = Initial
    BY <1>5, <2>1 DEF AcceptJob
  <2>2. CASE j # Initial
    BY <1>5, <2>2 DEF AcceptJob, HookDone
  <2> QED
    BY <2>1, <2>2
<1>6. CASE Signal
  <2>1. main' \in {main, "killed"} /\ signalled' \in BOOLEAN
    BY <1>6 DEF Signal
  <2>2. UNCHANGED <<serverVars, listenerVars, flags, cloned, job, monitor>>
    BY <1>6 DEF Signal
  <2> QED
    BY <2>1, <2>2
<1>7. CASE IgnoreEvent
  BY <1>7 DEF IgnoreEvent, HookDone
<1> QED
  BY <1>1, <1>2, <1>3, <1>4, <1>5, <1>6, <1>7 DEF Processor, Monitor

-----------------------------------------------------------------------------
LEMMA NextStartup == StartupIInv /\ [StartupNext]_startupVars => StartupIInv'
<1> SUFFICES ASSUME StartupIInv, [StartupNext]_startupVars PROVE StartupIInv'
  OBVIOUS
<1>1. CASE StartupNext
  BY <1>1, MainIInv, ServerIInv, ProcessorIInv DEF StartupNext
<1>2. CASE UNCHANGED startupVars
  BY <1>2
  DEF startupVars, serverVars, listenerVars, mainVars, StartupIInv, StartupTypeOK,
      ServerTypeOK, ListenerTypeOK, MainTypeOK, NotYetListening, SendingOK, EventsOK,
      MonitorOK, ClonedOK, ShutOK, ExitedOK, Listens
<1> QED
  BY <1>1, <1>2

\* The inductive invariant of the process.
THEOREM StartupInvariance == StartupSpec => []StartupIInv
BY InitStartup, NextStartup, PTL DEF StartupSpec

\* Every variable of the process stays in its type.
THEOREM StartupTypeInvariant == StartupSpec => []StartupTypeOK
<1>1. StartupIInv => StartupTypeOK
  BY DEF StartupIInv
<1> QED
  BY <1>1, StartupInvariance, PTL

\* The main goroutine has finished with the clone before the hook processor
\* touches it, and where a clone was asked for the processor finds it.
THEOREM CloneIsExclusiveHolds == StartupSpec => []CloneIsExclusive
<1>1. StartupIInv => CloneIsExclusive
  BY DEF StartupIInv, NotYetListening, ClonedOK, CloneIsExclusive
<1> QED
  BY <1>1, StartupInvariance, PTL

\* A process that was listening and exits has answered every request that had
\* reached a handler, and its listener goroutine has ended.
THEOREM ExitIsGracefulHolds == StartupSpec => []ExitIsGraceful
<1>1. StartupIInv => ExitIsGraceful
  BY DEF StartupIInv, ShutOK, ExitedOK, ExitIsGraceful, Callers
<1> QED
  BY <1>1, StartupInvariance, PTL

-----------------------------------------------------------------------------
(***************************************************************************)
(* The hook processor implements HookQueue: the step mappings.             *)
(***************************************************************************)
\* What HookQueue sees is what these variables hold.
LEMMA SameQueue ==
  ASSUME UNCHANGED <<event, handled, processor>>,
         \A p \in Posts : job'[p] \in {"accepted", "created"}
                            <=> job[p] \in {"accepted", "created"}
  PROVE  UNCHANGED Queue!hookVars
BY DEF Queue!hookVars

\* An event that has been handled, whatever became of it.
LEMMA HookDoneFinishes ==
  ASSUME StartupIInv, processor \in {"git", "submit"}, HookDone,
         \A p \in Posts \ {handled} : job'[p] = job[p],
         processor = "git" => job' = job
  PROVE  Queue!HookNext
<1> USE DEF StartupIInv, StartupTypeOK, ListenerTypeOK, MainTypeOK, Jobs
<1>1. handled \in Posts /\ handled # NoPost
  BY StartupAssumption
<1>2. {p \in Posts : event'[p] = "done"} = {p \in Posts : event[p] = "done"} \cup {handled}
  BY <1>1 DEF HookDone
<1>3. {p \in Posts : event'[p] = "pending"} = {p \in Posts : event[p] = "pending"}
  BY <1>1 DEF HookDone, EventsOK
<1>4. {p \in Posts : job'[p] \in {"accepted", "created"}}
        \in { {p \in Posts : job[p] \in {"accepted", "created"}},
              {p \in Posts : job[p] \in {"accepted", "created"}} \cup {handled} }
  <2>1. CASE job'[handled] \in {"accepted", "created"}
    BY <1>1, <2>1
  <2>2. CASE job'[handled] \notin {"accepted", "created"}
    <3>1. job[handled] \notin {"accepted", "created"}
      BY <1>1, <2>2 DEF EventsOK
    <3> QED
      BY <1>1, <2>2, <3>1
  <2> QED
    BY <2>1, <2>2
<1>5. handled' = NoPost /\ (processor' = "exited" <=> processor = "exited")
  BY DEF HookDone
<1> QED
  BY <1>1, <1>2, <1>3, <1>4, <1>5 DEF Queue!HookNext, Queue!Finish

LEMMA NextQueue ==
  ASSUME StartupIInv, [StartupNext]_startupVars
  PROVE  [Queue!HookNext]_(Queue!hookVars)
<1> USE StartupAssumption
    DEF StartupIInv, StartupTypeOK, ListenerTypeOK, MainTypeOK, Jobs
<1>1. CASE UNCHANGED startupVars
  BY <1>1, SameQueue DEF startupVars, listenerVars, mainVars
<1>2. CASE Main
  <2>1. CASE main \in {"init", "listen"}
    <3>1. \A p \in Posts : job'[p] = job[p]
      BY <1>2, <2>1
      DEF Main, SettingsRefused, TestServer, Initialize, InitialClone, WebhookListen,
          InitialBuild, WaitForInterupt, MainReturns
    <3>2. processor = "off" /\ processor' \in {"off", "select"}
      BY <1>2, <2>1
      DEF Main, SettingsRefused, TestServer, Initialize, InitialClone, WebhookListen,
          InitialBuild, WaitForInterupt, MainReturns, StartListener, listenerVars,
          NotYetListening
    <3>3. UNCHANGED <<event, handled>>
      BY <1>2, <2>1
      DEF Main, SettingsRefused, TestServer, Initialize, InitialClone, WebhookListen,
          InitialBuild, WaitForInterupt, MainReturns, StartListener, listenerVars
    <3> QED
      BY <3>1, <3>2, <3>3 DEF Queue!hookVars
  <2>2. CASE main \notin {"init", "listen"}
    <3>1. /\ UNCHANGED listenerVars
          /\ \A p \in Posts : job'[p] = job[p]
      BY <1>2, <2>2
      DEF Main, SettingsRefused, TestServer, Initialize, InitialClone, WebhookListen,
          InitialBuild, WaitForInterupt, MainReturns
    <3> QED
      BY <3>1, SameQueue DEF listenerVars
  <2> QED
    BY <2>1, <2>2
<1>3. CASE ServerStep \/ StopListener \/ StopServer \/ Signal
             \/ \E p \in Posts : Request(p)
  BY <1>3, SameQueue
  DEF ServerStep, StopListener, CloseExit, StopServer, ListenerShutdown, Signal, Request,
      listenerVars, mainVars
<1>4. ASSUME NEW p \in Posts, Handler(p) PROVE [Queue!HookNext]_(Queue!hookVars)
  <2>1. UNCHANGED <<handled, processor, job>>
    BY <1>4 DEF Handler, ServeHook, listenerVars, mainVars
  <2>2. CASE UNCHANGED event
    BY <2>1, <2>2, SameQueue
  <2>3. CASE event' = [event EXCEPT ![p] = "pending"]
    <3>1. event[p] = "none" /\ handled # p
      BY <1>4 DEF Handler, ServeHook, Answer, EventsOK
    <3>2. {q \in Posts : event'[q] = "pending"}
            = {q \in Posts : event[q] = "pending"} \cup {p}
      BY <2>3
    <3>3. {q \in Posts : event'[q] = "done"} = {q \in Posts : event[q] = "done"}
      BY <2>3, <3>1
    <3>4. Queue!Come(p)
      BY <2>1, <3>1, <3>2, <3>3 DEF Queue!Come
    <3> QED
      BY <3>4 DEF Queue!HookNext
  <2> QED
    BY <1>4, <2>2, <2>3 DEF Handler, ServeHook, listenerVars
<1>5. ASSUME NEW p \in Posts, ReceiveEvent(p), UNCHANGED mainVars
      PROVE  [Queue!HookNext]_(Queue!hookVars)
  <2>1. handled = NoPost
    BY <1>5 DEF ReceiveEvent
  <2>2. {q \in Posts : event'[q] = "pending"}
          = {q \in Posts : event[q] = "pending"} \ {p}
    BY <1>5 DEF ReceiveEvent
  <2>3. {q \in Posts : event'[q] = "done"} = {q \in Posts : event[q] = "done"}
    BY <1>5 DEF ReceiveEvent
  <2>4. Queue!Take(p)
    BY <1>5, <2>1, <2>2, <2>3 DEF ReceiveEvent, mainVars, Queue!Take
  <2> QED
    BY <2>4 DEF Queue!HookNext
<1>6. CASE ReceiveExit /\ UNCHANGED mainVars
  BY <1>6 DEF ReceiveExit, mainVars, Queue!HookNext, Queue!Stop
<1>7. CASE SwitchBranch
  <2>1. CASE HookDone /\ UNCHANGED job
    BY <1>7, <2>1, HookDoneFinishes DEF SwitchBranch
  <2>2. CASE processor' = "submit" /\ UNCHANGED <<event, handled>>
             /\ job' = [job EXCEPT ![handled] = "sending"]
    <3>1. job[handled] = "none" /\ processor = "git"
      BY <1>7, <2>2 DEF SwitchBranch, EventsOK
    <3> QED
      BY <2>2, <3>1 DEF Queue!hookVars
  <2>3. CASE UNCHANGED listenerVars /\ UNCHANGED job
    BY <2>3, SameQueue DEF listenerVars
  <2> QED
    BY <1>7, <2>1, <2>2, <2>3 DEF SwitchBranch
<1>8. CASE CreateJob
  <2>1. \A p \in Posts : job'[p] \in {"accepted", "created"}
                           <=> job[p] \in {"accepted", "created"}
    BY <1>8 DEF CreateJob, MonitorOK
  <2> QED
    BY <1>8, <2>1, SameQueue DEF CreateJob, listenerVars
<1>9. ASSUME NEW j \in Jobs, AcceptJob(j) PROVE [Queue!HookNext]_(Queue!hookVars)
  <2>1. CASE j = Initial
    BY <1>9, <2>1, SameQueue DEF AcceptJob, listenerVars
  <2>2. CASE j # Initial
    <3>1. processor = "submit" /\ handled = j /\ HookDone
      BY <1>9, <2>2 DEF AcceptJob, SendingOK
    <3>2. \A p \in Posts \ {handled} : job'[p] = job[p]
      BY <1>9, <3>1 DEF AcceptJob
    <3> QED
      BY <3>1, <3>2, HookDoneFinishes
  <2> QED
    BY <2>1, <2>2
<1>10. CASE IgnoreEvent
  BY <1>10, HookDoneFinishes DEF IgnoreEvent, mainVars
<1> QED
  BY <1>1, <1>2, <1>3, <1>4, <1>5, <1>6, <1>7, <1>8, <1>9, <1>10
  DEF StartupNext, Processor, Monitor

\* The events of webhooks are handled one at a time, each once, and each makes
\* one job at most, which is handed over while the event is handled: whatever
\* fails, and however the server is shut down.
THEOREM ImplementsHookQueueHolds == StartupSpec => ImplementsHookQueue
<1>1. StartupInit => Queue!HookInit
  BY DEF StartupInit, ListenerInit, Jobs, Queue!HookInit
<1>2. StartupIInv /\ [StartupNext]_startupVars => [Queue!HookNext]_(Queue!hookVars)
  BY NextQueue
<1> QED
  BY <1>1, <1>2, StartupInvariance, PTL
  DEF StartupSpec, ImplementsHookQueue, Queue!HookSpec

=============================================================================
