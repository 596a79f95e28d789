---------------------------- MODULE JobManagerProofs ----------------------------
(***************************************************************************)
(* Theorems about the job manager, for every set of requests, every naming *)
(* and every surroundings, with the proofs TLAPS checks.                   *)
(***************************************************************************)
EXTENDS JobManagerProps, SequenceTheorems, TLAPS

-----------------------------------------------------------------------------
(***************************************************************************)
(* Sequences: what Append and Tail do to the entries.                      *)
(***************************************************************************)
\* Appending adds one entry at the end.
LEMMA AppendEntries ==
  ASSUME NEW S, NEW s \in Seq(S), NEW e \in S
  PROVE  /\ Append(s, e) \in Seq(S)
         /\ Len(Append(s, e)) = Len(s) + 1
         /\ \A i \in 1..Len(s) + 1 :
              Append(s, e)[i] = IF i = Len(s) + 1 THEN e ELSE s[i]
         /\ Range(Append(s, e)) = Range(s) \cup {e}
<1>1. /\ Append(s, e) \in Seq(S)
      /\ Len(Append(s, e)) = Len(s) + 1
      /\ Len(s) \in Nat
      /\ DOMAIN s = 1..Len(s)
      /\ DOMAIN Append(s, e) = 1..Len(s) + 1
  BY AppendProperties, LenProperties
<1>2. \A i \in 1..Len(s) + 1 :
         Append(s, e)[i] = IF i = Len(s) + 1 THEN e ELSE s[i]
  BY AppendProperties, LenProperties
<1>3. Range(Append(s, e)) = Range(s) \cup {e}
  BY <1>1, <1>2 DEF Range
<1> QED
  BY <1>1, <1>2, <1>3

\* Dropping the head of a sequence moves the entries one to the front.
LEMMA TailEntries ==
  ASSUME NEW S, NEW s \in Seq(S), s # <<>>
  PROVE  /\ Head(s) = s[1] /\ Head(s) \in S
         /\ Tail(s) \in Seq(S)
         /\ Len(Tail(s)) = Len(s) - 1 /\ Len(s) \in Nat \ {0}
         /\ \A i \in 1..Len(Tail(s)) : Tail(s)[i] = s[i + 1]
         /\ Range(s) = Range(Tail(s)) \cup {Head(s)}
<1>1. /\ Head(s) = s[1] /\ Head(s) \in S
      /\ Tail(s) \in Seq(S)
      /\ Len(Tail(s)) = Len(s) - 1 /\ Len(s) \in Nat \ {0}
      /\ \A i \in 1..Len(Tail(s)) : Tail(s)[i] = s[i + 1]
  BY HeadTailProperties, EmptySeq
<1>2. /\ DOMAIN s = 1..Len(s)
      /\ DOMAIN Tail(s) = 1..Len(s) - 1
  BY <1>1, LenProperties
<1>3. Range(s) \subseteq Range(Tail(s)) \cup {Head(s)}
  <2> SUFFICES ASSUME NEW i \in 1..Len(s)
               PROVE  s[i] \in Range(Tail(s)) \cup {Head(s)}
    BY <1>2 DEF Range
  <2>1. CASE i = 1
    BY <2>1, <1>1
  <2>2. CASE i # 1
    <3>1. i - 1 \in 1..Len(Tail(s)) /\ Tail(s)[i - 1] = s[i]
      BY <2>2, <1>1
    <3> QED
      BY <3>1, <1>1, <1>2 DEF Range
  <2> QED
    BY <2>1, <2>2
<1>4. Range(Tail(s)) \cup {Head(s)} \subseteq Range(s)
  BY <1>1, <1>2 DEF Range
<1> QED
  BY <1>1, <1>3, <1>4

-----------------------------------------------------------------------------
(***************************************************************************)
(* The cluster's variables keep their types.                               *)
(***************************************************************************)
\* Publishing a change of a job whose counts are in range.
LEMMA PublishType ==
  ASSUME ClusterTypeOK, NEW r \in Requests, NEW kind \in Kinds,
         failed' \in [Requests -> 0..BackoffLimit + 1],
         succeeded' \in [Requests -> 0..1],
         Publish(kind, r)
  PROVE  /\ Event(kind, r) \in Events
         /\ stream' \in Seq(Events)
<1>1. Event(kind, r) \in Events
  BY DEF Event, Events, ClusterTypeOK
<1>2. stream' = Append(stream, Event(kind, r)) /\ stream \in Seq(Events)
  BY DEF Publish, ClusterTypeOK
<1> QED
  BY <1>1, <1>2, AppendEntries

\* Every step of the cluster, the API's calls included.
LEMMA ClusterType ==
  ASSUME ClusterTypeOK, NEW r \in Requests, NEW n,
         \/ CreateTakesEffect(r) \/ CreateRefused(r) \/ ApiDeleteJob(n)
         \/ PodSucceeds(r) \/ PodFails(r) \/ Finalize(r) \/ OperatorDelete(r)
  PROVE  ClusterTypeOK'
<1> USE DEF Kinds
<1>0. ASSUME NEW s \in Requests, MarkDeleted(s) PROVE ClusterTypeOK'
  BY <1>0, PublishType DEF MarkDeleted, ClusterTypeOK
<1>1. CASE CreateTakesEffect(r)
  BY <1>1, PublishType DEF CreateTakesEffect, ClusterTypeOK
<1>2. CASE CreateRefused(r)
  BY <1>2 DEF CreateRefused, ClusterTypeOK, clusterVars
<1>3. CASE ApiDeleteJob(n)
  <2>1. CASE UNCHANGED clusterVars
    BY <2>1 DEF ClusterTypeOK, clusterVars
  <2> QED
    BY <1>0, <1>3, <2>1 DEF ApiDeleteJob, Holders
<1>4. CASE PodSucceeds(r)
  BY <1>4, PublishType DEF PodSucceeds, ClusterTypeOK
<1>5. CASE PodFails(r)
  <2>1. failed' \in [Requests -> 0..BackoffLimit + 1]
    BY <1>5 DEF PodFails, Running, ClusterTypeOK, BackoffLimit
  <2> QED
    BY <1>5, <2>1, PublishType DEF PodFails, ClusterTypeOK
<1>6. CASE Finalize(r)
  BY <1>6, PublishType DEF Finalize, ClusterTypeOK
<1>7. CASE OperatorDelete(r)
  BY <1>0, <1>7 DEF OperatorDelete
<1> QED
  BY <1>1, <1>2, <1>3, <1>4, <1>5, <1>6, <1>7

-----------------------------------------------------------------------------
(***************************************************************************)
(* Type correctness.                                                       *)
(***************************************************************************)
\* Taking the oldest change off the stream.
LEMMA StreamTail ==
  ASSUME ClusterTypeOK, stream # <<>>
  PROVE  Head(stream) \in Events /\ Tail(stream) \in Seq(Events)
BY TailEntries DEF ClusterTypeOK

\* The initial state is well typed.
LEMMA InitType == Init => TypeOK
<1> SUFFICES ASSUME Init PROVE TypeOK
  OBVIOUS
<1>1. ClusterTypeOK
  BY EmptySeq DEF Init, ClusterInit, ClusterTypeOK, BackoffLimit
<1>2. SessionTypeOK
  BY DEF Init, SessionInit, SessionTypeOK
<1>3. ManagerTypeOK
  BY EmptySeq DEF Init, ManagerTypeOK
<1> QED
  BY <1>1, <1>2, <1>3 DEF TypeOK

\* Every step of the program keeps every variable in its type.
LEMMA NextType == TypeOK /\ [Next]_vars => TypeOK'
<1> SUFFICES ASSUME TypeOK, [Next]_vars PROVE TypeOK'
  OBVIOUS
<1> USE DEF TypeOK
<1>1. CASE StartMonitor
  BY <1>1 DEF StartMonitor, clusterVars, sessionVars, ClusterTypeOK,
              SessionTypeOK, ManagerTypeOK
<1>2. ASSUME NEW r \in Requests, ReceiveJob(r) PROVE TypeOK'
  <2>1. jobqueue' \in Seq(Named)
    <3>1. CASE NameOf[r] # NoName
      BY <1>2, <3>1, AppendEntries DEF ReceiveJob, ManagerTypeOK, Named
    <3>2. CASE NameOf[r] = NoName
      BY <1>2, <3>2 DEF ReceiveJob, ManagerTypeOK
    <3> QED
      BY <3>1, <3>2
  <2> QED
    BY <1>2, <2>1 DEF ReceiveJob, clusterVars, sessionVars, ClusterTypeOK,
                      SessionTypeOK, ManagerTypeOK
<1>3. CASE ReceiveUpdate
  <2>1. ievent \in Events /\ ievent.req \in Requests
    BY <1>3 DEF ReceiveUpdate, NotifierReturns, SessionTypeOK, Events
  <2>2. ClusterTypeOK'
    BY <1>3 DEF ReceiveUpdate, NotifierReturns, clusterVars, ClusterTypeOK
  <2>3. SessionTypeOK'
    BY <1>3, <2>1 DEF ReceiveUpdate, NotifierReturns, SessionTypeOK
  <2>4. ManagerTypeOK'
    BY <1>3, <2>1 DEF ReceiveUpdate, ManagerTypeOK, Failed
  <2> QED
    BY <2>2, <2>3, <2>4
<1>4. CASE DeleteJob
  <2>1. ClusterTypeOK'
    BY <1>4, ClusterType DEF DeleteJob, ManagerTypeOK
  <2> QED
    BY <1>4, <2>1 DEF DeleteJob, sessionVars, SessionTypeOK, ManagerTypeOK
<1>5. CASE NothingToSchedule
  BY <1>5 DEF NothingToSchedule, clusterVars, sessionVars, ClusterTypeOK,
              SessionTypeOK, ManagerTypeOK
<1>6. CASE ScheduleNext
  <2>1. Head(jobqueue) \in Named /\ Tail(jobqueue) \in Seq(Named)
    BY <1>6, TailEntries DEF ScheduleNext, MaySchedule, ManagerTypeOK
  <2>2. Head(jobqueue) \in Requests /\ NameOf[Head(jobqueue)] \in Names
    BY <2>1, NameAssumption DEF Named
  <2>3. ClusterTypeOK'
    BY <1>6, <2>2, ClusterType DEF ScheduleNext
  <2> QED
    BY <1>6, <2>1, <2>2, <2>3 DEF ScheduleNext, sessionVars, SessionTypeOK,
                                  ManagerTypeOK
<1>7. CASE Register
  <2>1. NameOf[current] \in Names
    BY <1>7, NameAssumption DEF Register, ManagerTypeOK, Named
  <2> QED
    BY <1>7, <2>1 DEF Register, RegisterNotifier, clusterVars, ClusterTypeOK,
                      SessionTypeOK, ManagerTypeOK
<1>8. CASE ReceiveDone
  BY <1>8 DEF ReceiveDone, clusterVars, sessionVars, ClusterTypeOK,
              SessionTypeOK, ManagerTypeOK
<1>9. CASE Informer
  <2>1. CASE Dispatch
    BY <1>9, <2>1, StreamTail DEF Informer, Dispatch, managerVars, ClusterTypeOK,
                                  SessionTypeOK, ManagerTypeOK
  <2>2. CASE Unregister
    BY <1>9, <2>2 DEF Informer, Unregister, clusterVars, managerVars,
                      ClusterTypeOK, SessionTypeOK, ManagerTypeOK
  <2> QED
    BY <1>9, <2>1, <2>2 DEF Informer
<1>10. CASE Session
  BY <1>10 DEF Session, StartWatchers, Cancel, clusterVars, managerVars,
               ClusterTypeOK, SessionTypeOK, ManagerTypeOK
<1>11. CASE MapRaceCrash
  BY <1>11 DEF MapRaceCrash, clusterVars, ClusterTypeOK, SessionTypeOK,
               ManagerTypeOK
<1>12. CASE StopMonitor
  BY <1>12 DEF StopMonitor, clusterVars, sessionVars, ClusterTypeOK,
               SessionTypeOK, ManagerTypeOK
<1>13. CASE StopReturns
  BY <1>13 DEF StopReturns, clusterVars, sessionVars, ClusterTypeOK,
               SessionTypeOK, ManagerTypeOK
<1>14. ASSUME NEW r \in Requests, AddJobtoQueue(r) PROVE TypeOK'
  BY <1>14 DEF AddJobtoQueue, clusterVars, sessionVars, ClusterTypeOK,
               SessionTypeOK, ManagerTypeOK
<1>15. ASSUME NEW r \in Requests, PodEnds(r) \/ Removed(r) \/ Interfere(r)
       PROVE  TypeOK'
  <2>1. ClusterTypeOK'
    BY <1>15, ClusterType DEF PodEnds, Removed, Interfere
  <2> QED
    BY <1>15, <2>1 DEF PodEnds, Removed, Interfere, sessionVars, managerVars,
                       SessionTypeOK, ManagerTypeOK
<1>16. CASE UNCHANGED vars
  BY <1>16 DEF vars, clusterVars, sessionVars, managerVars, ClusterTypeOK,
               SessionTypeOK, ManagerTypeOK
<1> QED
  BY <1>1, <1>2, <1>3, <1>4, <1>5, <1>6, <1>7, <1>8, <1>9, <1>10, <1>11, <1>12,
     <1>13, <1>14, <1>15, <1>16 DEF Next, Monitor

\* TypeOK always holds: in particular the monitor never puts a job without a
\* name into its queue, into jobRefs or among the notifiers.
THEOREM TypeInvariant == Spec => []TypeOK
BY InitType, NextType, PTL DEF Spec

-----------------------------------------------------------------------------
(***************************************************************************)
(* The inductive invariant.                                                *)
(***************************************************************************)
\* A clean success stays one, and an object never becomes "none" again.
Stable ==
  \A s \in Requests : /\ object[s] # "none" => object'[s] # "none"
                      /\ Clean(s) => Clean(s)'

\* Publishing a change of a job that exists keeps the stream truthful.
LEMMA PublishTruthful ==
  ASSUME TypeOK, ClusterTypeOK', Stable, StreamTruthful,
         NEW r \in Requests, NEW kind \in Kinds, Publish(kind, r),
         object'[r] # "none"
  PROVE  StreamTruthful'
<1> USE DEF TypeOK
<1>1. PICK e \in Events : e = Event(kind, r)
  BY PublishType DEF ClusterTypeOK
<1>2. /\ stream \in Seq(Events) /\ Len(stream) \in Nat
      /\ Len(stream') = Len(stream) + 1
      /\ \A i \in 1..Len(stream) + 1 :
           stream'[i] = IF i = Len(stream) + 1 THEN e ELSE stream[i]
  BY <1>1, AppendEntries, LenProperties DEF Publish, ClusterTypeOK
<1>3. Truthful(e)'
  BY <1>1 DEF Truthful, Event, Clean, ClusterTypeOK
<1>4. ASSUME NEW d \in Events, Truthful(d) PROVE Truthful(d)'
  BY <1>4 DEF Truthful, Events, Stable
<1>5. ASSUME NEW i \in 1..Len(stream') PROVE Truthful(stream[i])'
  <2>1. CASE i = Len(stream) + 1
    BY <2>1, <1>2, <1>3 DEF Truthful
  <2>2. CASE i # Len(stream) + 1
    <3>1. i \in 1..Len(stream) /\ stream'[i] = stream[i]
      BY <2>2, <1>2, <1>5
    <3>2. PICK d \in Events : d = stream[i]
      BY <3>1, <1>2, ElementOfSeq
    <3>3. Truthful(d)'
      BY <3>1, <3>2, <1>4 DEF StreamTruthful
    <3> QED
      BY <3>1, <3>2, <3>3 DEF Truthful
  <2> QED
    BY <2>1, <2>2
<1> QED
  BY <1>5 DEF StreamTruthful

\* A change of a job that exists is stable and published, it creates nothing,
\* and it leaves a job that has cleanly succeeded, and every other, its counts.
LEMMA ChangeEffect ==
  ASSUME TypeOK, StreamTruthful, NEW r \in Requests,
         \/ MarkDeleted(r) \/ PodSucceeds(r) \/ PodFails(r) \/ Finalize(r)
  PROVE  /\ Stable
         /\ \A s \in Requests : object'[s] = "none" <=> object[s] = "none"
         /\ \A s \in Requests : s # r =>
              failed'[s] = failed[s] /\ succeeded'[s] = succeeded[s]
         /\ object[r] # "none"
         /\ StreamTruthful'
<1> USE DEF TypeOK
<1>1. /\ Stable
      /\ \A s \in Requests : object'[s] = "none" <=> object[s] = "none"
      /\ \A s \in Requests : s # r =>
           failed'[s] = failed[s] /\ succeeded'[s] = succeeded[s]
      /\ object[r] # "none"
  BY DEF MarkDeleted, PodSucceeds, PodFails, Finalize, Running, Exists, Clean,
         Stable, ClusterTypeOK
<1>2. PICK kind \in Kinds : Publish(kind, r)
  BY DEF MarkDeleted, PodSucceeds, PodFails, Finalize, Kinds
<1>3. ClusterTypeOK'
  <2>1. CASE MarkDeleted(r)
    BY <2>1, PublishType DEF MarkDeleted, ClusterTypeOK, Kinds
  <2> QED
    BY <2>1, ClusterType
<1>4. StreamTruthful'
  BY <1>1, <1>2, <1>3, PublishTruthful
<1> QED
  BY <1>1, <1>4

\* Creating the job of a request that has none.
LEMMA CreateEffect ==
  ASSUME TypeOK, FreshHasNoJob, StreamTruthful, NEW r \in Requests,
         object[r] = "none", CreateTakesEffect(r)
  PROVE  /\ Stable
         /\ object' = [object EXCEPT ![r] = "live"]
         /\ UNCHANGED <<failed, succeeded>>
         /\ StreamTruthful'
<1> USE DEF TypeOK
<1>1. /\ object' = [object EXCEPT ![r] = "live"]
      /\ UNCHANGED <<failed, succeeded>>
      /\ Publish("ADDED", r)
  BY DEF CreateTakesEffect
<1>2. Stable /\ object'[r] # "none"
  BY <1>1 DEF Stable, Clean, ClusterTypeOK
<1>3. ClusterTypeOK'
  BY ClusterType
<1>4. StreamTruthful'
  BY <1>1, <1>2, <1>3, PublishTruthful DEF Kinds
<1> QED
  BY <1>1, <1>2, <1>4

\* The initial state satisfies the invariant.
LEMMA InitIInv == Init => IInv
<1> SUFFICES ASSUME Init PROVE IInv
  OBVIOUS
<1>1. Range(jobqueue) = {} /\ Len(jobqueue) = 0 /\ Len(stream) = 0
  BY DEF Init, ClusterInit, Range
<1> QED
  BY <1>1, InitType
  DEF Init, ClusterInit, SessionInit, IInv, FreshHasNoJob, QueueOK,
      OneInProgress, ForgottenIsClean, StreamTruthful, HandledTruthful,
      CurrentOK, Queued

\* A step that touches neither the jobs nor the queue nor jobRefs, and does
\* not send the monitor to delete or register a job.
QuietStep ==
  /\ UNCHANGED <<object, failed, succeeded, stream, jobqueue, jobRefs>>
  /\ ipc' \in {"notify", "unregister"} =>
       ipc \in {"notify", "unregister"} /\ UNCHANGED ievent
  /\ mpc' \in {"deleteJob", "register"} => UNCHANGED <<mpc, current>>
  /\ \A r \in Requests : request'[r] = "accepted" <=> request[r] = "accepted"

\* Such a step keeps the invariant.
LEMMA QuietIInv == IInv /\ TypeOK' /\ QuietStep => IInv'
<1> SUFFICES ASSUME IInv, TypeOK', QuietStep PROVE IInv'
  OBVIOUS
<1>1. FreshHasNoJob' /\ QueueOK' /\ OneInProgress'
  BY DEF QuietStep, IInv, FreshHasNoJob, QueueOK, OneInProgress, Queued
<1>2. ForgottenIsClean' /\ CurrentOK'
  BY DEF QuietStep, IInv, ForgottenIsClean, CurrentOK, Clean
<1>3. StreamTruthful' /\ HandledTruthful'
  BY DEF QuietStep, IInv, StreamTruthful, HandledTruthful, Truthful, Clean
<1> QED
  BY <1>1, <1>2, <1>3 DEF IInv

\* A step of the cluster keeps it: only a job that is in progress can fail.
LEMMA ClusterIInv ==
  ASSUME IInv, TypeOK', NEW r \in Requests,
         MarkDeleted(r) \/ PodSucceeds(r) \/ PodFails(r) \/ Finalize(r),
         UNCHANGED <<sessionVars, managerVars>>
  PROVE  IInv'
<1>1. /\ Stable
      /\ \A s \in Requests : object'[s] = "none" <=> object[s] = "none"
      /\ \A s \in Requests : s # r =>
           failed'[s] = failed[s] /\ succeeded'[s] = succeeded[s]
      /\ object[r] # "none"
      /\ StreamTruthful'
  BY ChangeEffect DEF IInv
<1>2. UNCHANGED <<ipc, ievent, request, jobqueue, jobRefs, mpc, current>>
  BY DEF sessionVars, managerVars
<1>3. FreshHasNoJob'
  BY <1>1, <1>2 DEF IInv, FreshHasNoJob, Queued
<1>4. QueueOK' /\ OneInProgress'
  BY <1>2 DEF IInv, QueueOK, OneInProgress, Queued
<1>5. ForgottenIsClean'
  BY <1>1, <1>2 DEF IInv, ForgottenIsClean, Stable
<1>6. HandledTruthful'
  BY <1>1, <1>2 DEF IInv, HandledTruthful, Truthful, Stable, TypeOK,
                    SessionTypeOK, Events
<1>7. CurrentOK'
  BY <1>1, <1>2, NameAssumption DEF IInv, CurrentOK, Stable, TypeOK, ManagerTypeOK, Named
<1> QED
  BY <1>1, <1>3, <1>4, <1>5, <1>6, <1>7 DEF IInv

\* The monitor accepts a job.
LEMMA ReceiveJobIInv ==
  ASSUME IInv, TypeOK', NEW r \in Requests, ReceiveJob(r)
  PROVE  IInv'
<1> USE DEF IInv
<1>1. /\ UNCHANGED <<object, failed, succeeded, stream, ipc, ievent, jobRefs, current>>
      /\ mpc' = "schedule"
      /\ request[r] = "sending"
      /\ request' = [request EXCEPT ![r] = "accepted"]
  BY DEF ReceiveJob, clusterVars, sessionVars
<1>2. object[r] = "none" /\ ~Queued(r)
  BY <1>1 DEF FreshHasNoJob, QueueOK
<1>3. /\ \A s \in Requests : Queued(s)' => Queued(s) \/ (s = r /\ r \in Named)
      /\ \A s \in Requests : Queued(s) => Queued(s)'
      /\ r \in Named => Queued(r)'
      /\ \A i, j \in 1..Len(jobqueue') : jobqueue'[i] = jobqueue'[j] => i = j
  <2>1. CASE r \in Named
    <3>1. jobqueue' = Append(jobqueue, r)
      BY <2>1 DEF ReceiveJob, Named
    <3>2. /\ Len(jobqueue') = Len(jobqueue) + 1 /\ Len(jobqueue) \in Nat
          /\ DOMAIN jobqueue = 1..Len(jobqueue)
          /\ \A i \in 1..Len(jobqueue) + 1 :
               jobqueue'[i] = IF i = Len(jobqueue) + 1 THEN r ELSE jobqueue[i]
          /\ Range(jobqueue') = Range(jobqueue) \cup {r}
      BY <2>1, <3>1, AppendEntries, LenProperties DEF TypeOK, ManagerTypeOK
    <3>3. \A i \in 1..Len(jobqueue) : jobqueue[i] # r
      BY <1>2, <3>2 DEF Queued, Range
    <3>4. \A i, j \in 1..Len(jobqueue') : jobqueue'[i] = jobqueue'[j] => i = j
      BY <3>2, <3>3 DEF QueueOK
    <3> QED
      BY <2>1, <3>2, <3>4 DEF Queued
  <2>2. CASE r \notin Named
    <3>1. jobqueue' = jobqueue
      BY <2>2 DEF ReceiveJob, Named
    <3> QED
      BY <2>2, <3>1 DEF Queued, QueueOK
  <2> QED
    BY <2>1, <2>2
<1>4. FreshHasNoJob'
  BY <1>1, <1>2, <1>3 DEF FreshHasNoJob, TypeOK, ManagerTypeOK
<1>5. QueueOK'
  BY <1>1, <1>3 DEF QueueOK, TypeOK, ManagerTypeOK
<1>6. OneInProgress'
  BY <1>1, <1>3 DEF OneInProgress, TypeOK, ManagerTypeOK
<1>7. ForgottenIsClean' /\ CurrentOK'
  BY <1>1 DEF ForgottenIsClean, CurrentOK, Clean
<1>8. StreamTruthful' /\ HandledTruthful'
  BY <1>1 DEF StreamTruthful, HandledTruthful, Truthful, Clean
<1> QED
  BY <1>4, <1>5, <1>6, <1>7, <1>8

\* The monitor receives an update: it goes on to delete only a job whose
\* update says it succeeded, which is true.
LEMMA ReceiveUpdateIInv ==
  ASSUME IInv, TypeOK', ReceiveUpdate
  PROVE  IInv'
<1> USE DEF IInv
<1>1. /\ UNCHANGED <<object, failed, succeeded, stream, request, jobqueue, jobRefs>>
      /\ ipc = "notify" /\ ievent \in Events
      /\ ipc' = "unregister" => ievent' = ievent
      /\ ipc' \in {"unregister", "idle"}
  BY DEF ReceiveUpdate, NotifierReturns, clusterVars, TypeOK, SessionTypeOK
<1>2. Truthful(ievent)
  BY <1>1 DEF HandledTruthful
<1>3. CurrentOK'
  <2>1. CASE ReadyNext(ievent) /\ ~Failed(ievent)
    <3>1. ievent.kind \in Kinds /\ ievent.failed \in Nat /\ ievent.succeeded \in 0..1
      BY <1>1 DEF Events, BackoffLimit
    <3>2. TypeOf[ievent.kind] = Update
      BY <2>1 DEF ReadyNext, Failed
    <3>3. ievent.failed = 0 /\ ievent.succeeded = 1
      BY <2>1, <3>1, <3>2 DEF ReadyNext, Failed
    <3>4. mpc' = "deleteJob" /\ current' = ievent.req
      BY <2>1 DEF ReceiveUpdate
    <3> QED
      BY <1>1, <1>2, <3>3, <3>4 DEF CurrentOK, Truthful, Clean
  <2>2. CASE ~(ReadyNext(ievent) /\ ~Failed(ievent))
    <3>1. mpc' = "schedule"
      BY <2>2 DEF ReceiveUpdate
    <3> QED
      BY <3>1 DEF CurrentOK
  <2> QED
    BY <2>1, <2>2
<1>4. FreshHasNoJob' /\ QueueOK' /\ OneInProgress'
  BY <1>1 DEF FreshHasNoJob, QueueOK, OneInProgress, Queued
<1>5. ForgottenIsClean'
  BY <1>1 DEF ForgottenIsClean, Clean
<1>6. StreamTruthful' /\ HandledTruthful'
  BY <1>1, <1>2 DEF StreamTruthful, HandledTruthful, Truthful, Clean
<1> QED
  BY <1>3, <1>4, <1>5, <1>6

\* With distinct names a deletion by name is one of the job the monitor means.
LEMMA DistinctNamesakes == DistinctNames /\ IInv => NamesakesClean
BY DEF DistinctNames, IInv, NamesakesClean, CurrentOK, FreshHasNoJob, TypeOK,
       ManagerTypeOK, Named

\* The delete call: by name.
LEMMA DeleteJobIInv ==
  ASSUME IInv, NamesakesClean, TypeOK', DeleteJob
  PROVE  IInv'
<1> USE DEF IInv
<1>1. /\ UNCHANGED <<ipc, ievent, request, jobqueue>>
      /\ mpc' = "schedule"
      /\ jobRefs' = jobRefs \ {NameOf[current]}
      /\ current \in Requests /\ object[current] # "none" /\ Clean(current)
  BY DEF DeleteJob, sessionVars, CurrentOK, TypeOK, ManagerTypeOK
<1>2. \A r \in Requests :
        NameOf[r] = NameOf[current] /\ object[r] # "none" => Clean(r)
  BY DEF NamesakesClean, DeleteJob
<1>3. /\ Stable
      /\ \A r \in Requests : object'[r] = "none" <=> object[r] = "none"
      /\ UNCHANGED <<failed, succeeded>>
      /\ StreamTruthful'
  <2>1. CASE UNCHANGED clusterVars
    BY <2>1 DEF clusterVars, Stable, StreamTruthful, Truthful, Clean
  <2>2. ASSUME NEW r \in Requests, MarkDeleted(r) PROVE <1>3!:
    BY <2>2, ChangeEffect DEF MarkDeleted
  <2> QED
    BY <2>1, <2>2 DEF DeleteJob, ApiDeleteJob, Holders
<1>4. FreshHasNoJob' /\ QueueOK'
  BY <1>1, <1>3 DEF FreshHasNoJob, QueueOK, Queued
<1>5. OneInProgress'
  BY <1>1 DEF OneInProgress, Queued
<1>6. ForgottenIsClean'
  BY <1>1, <1>2, <1>3 DEF ForgottenIsClean, Stable
<1>7. HandledTruthful' /\ CurrentOK'
  BY <1>1, <1>3 DEF HandledTruthful, CurrentOK, Truthful, Stable, TypeOK,
                    SessionTypeOK, Events
<1> QED
  BY <1>3, <1>4, <1>5, <1>6, <1>7

\* The create call is made only when every job so far has cleanly succeeded.
LEMMA ScheduleNextIInv ==
  ASSUME IInv, TypeOK', ScheduleNext
  PROVE  IInv'
<1> USE DEF IInv
<1>0. PICK h \in Named : h = Head(jobqueue)
  BY TailEntries DEF ScheduleNext, MaySchedule, TypeOK, ManagerTypeOK
<1>1. /\ jobqueue # <<>> /\ jobRefs = {}
      /\ jobRefs' = {NameOf[h]} /\ jobqueue' = Tail(jobqueue)
      /\ UNCHANGED <<ipc, ievent, request>>
      /\ mpc' \in {"register", "select"}
      /\ mpc' = "register" => current' = h /\ CreateTakesEffect(h)
      /\ CreateTakesEffect(h) \/ UNCHANGED clusterVars
  BY <1>0 DEF ScheduleNext, MaySchedule, InProgress, sessionVars, CreateRefused
<1>2. /\ h = jobqueue[1]
      /\ Len(jobqueue') = Len(jobqueue) - 1 /\ Len(jobqueue) \in Nat \ {0}
      /\ \A i \in 1..Len(jobqueue') : jobqueue'[i] = jobqueue[i + 1]
      /\ Range(jobqueue) = Range(jobqueue') \cup {h}
      /\ DOMAIN jobqueue' = 1..Len(jobqueue')
  BY <1>0, <1>1, TailEntries, LenProperties DEF TypeOK, ManagerTypeOK
<1>3. /\ h \in Requests /\ object[h] = "none" /\ request[h] = "accepted"
  BY <1>2 DEF Named, FreshHasNoJob, QueueOK, Queued
<1>4. ~Queued(h)' /\ \A r \in Requests : Queued(r) <=> Queued(r)' \/ r = h
  <2>1. ASSUME NEW i \in 1..Len(jobqueue') PROVE jobqueue'[i] # h
    <3>1. i + 1 \in 1..Len(jobqueue) /\ 1 \in 1..Len(jobqueue) /\ i + 1 # 1
      BY <1>2
    <3> QED
      BY <3>1, <1>2 DEF QueueOK
  <2> QED
    BY <2>1, <1>2 DEF Queued, Range
<1>5. /\ Stable /\ StreamTruthful'
      /\ \A r \in Requests : r # h => object'[r] = object[r]
      /\ UNCHANGED <<failed, succeeded>>
      /\ mpc' = "register" => object'[h] # "none"
  <2>1. CASE CreateTakesEffect(h)
    BY <2>1, <1>3, CreateEffect DEF TypeOK, ClusterTypeOK
  <2>2. CASE UNCHANGED clusterVars /\ ~CreateTakesEffect(h)
    BY <2>2, <1>1 DEF clusterVars, Stable, StreamTruthful, Truthful, Clean
  <2> QED
    BY <1>1, <2>1, <2>2
<1>6. FreshHasNoJob'
  BY <1>1, <1>2, <1>3, <1>4, <1>5 DEF FreshHasNoJob
<1>7. QueueOK'
  <2>1. \A r \in Requests : Queued(r)' => request'[r] = "accepted"
    BY <1>1, <1>4 DEF QueueOK
  <2>2. ASSUME NEW i \in 1..Len(jobqueue'), NEW j \in 1..Len(jobqueue'),
               jobqueue'[i] = jobqueue'[j]
        PROVE  i = j
    <3>1. /\ i + 1 \in 1..Len(jobqueue) /\ j + 1 \in 1..Len(jobqueue)
          /\ jobqueue[i + 1] = jobqueue[j + 1]
      BY <1>2, <2>2
    <3>2. i + 1 = j + 1
      BY <3>1 DEF QueueOK
    <3> QED
      BY <3>2, <1>2
  <2> QED
    BY <2>1, <2>2 DEF QueueOK
<1>8. OneInProgress'
  BY <1>1, <1>3, <1>4 DEF OneInProgress
<1>9. ForgottenIsClean'
  BY <1>1, <1>5 DEF ForgottenIsClean, Stable
<1>10. HandledTruthful' /\ CurrentOK'
  BY <1>1, <1>5 DEF HandledTruthful, CurrentOK, Truthful, Stable, TypeOK,
                    SessionTypeOK, Events
<1> QED
  BY <1>5, <1>6, <1>7, <1>8, <1>9, <1>10

\* The informer takes the oldest change and, if the job has a notifier,
\* handles it.
LEMMA DispatchIInv ==
  ASSUME IInv, TypeOK', Dispatch, UNCHANGED managerVars
  PROVE  IInv'
<1> USE DEF IInv
<1>1. /\ UNCHANGED <<object, failed, succeeded, request, jobqueue, jobRefs, mpc, current>>
      /\ stream # <<>> /\ stream' = Tail(stream)
      /\ ipc' \in {"notify", "unregister"} => ievent' = Head(stream)
  BY DEF Dispatch, managerVars
<1>2. /\ Head(stream) = stream[1]
      /\ Len(stream') = Len(stream) - 1 /\ Len(stream) \in Nat \ {0}
      /\ \A i \in 1..Len(stream') : stream'[i] = stream[i + 1]
  BY <1>1, TailEntries DEF TypeOK, ClusterTypeOK
<1>3. FreshHasNoJob' /\ QueueOK' /\ OneInProgress'
  BY <1>1 DEF FreshHasNoJob, QueueOK, OneInProgress, Queued
<1>4. ForgottenIsClean' /\ CurrentOK'
  BY <1>1 DEF ForgottenIsClean, CurrentOK, Clean
<1>5. HandledTruthful'
  BY <1>1, <1>2 DEF StreamTruthful, HandledTruthful, Truthful, Clean
<1>6. StreamTruthful'
  BY <1>1, <1>2 DEF StreamTruthful, Truthful, Clean
<1> QED
  BY <1>3, <1>4, <1>5, <1>6

\* Every step of the program keeps the invariant.
LEMMA NextIInv == IInv /\ NamesakesClean /\ [Next]_vars => IInv'
<1> SUFFICES ASSUME IInv, NamesakesClean, [Next]_vars PROVE IInv'
  OBVIOUS
<1>0. TypeOK'
  BY NextType DEF IInv
<1>1. CASE StartMonitor
  BY <1>0, <1>1, QuietIInv DEF StartMonitor, clusterVars, sessionVars, QuietStep
<1>2. ASSUME NEW r \in Requests, ReceiveJob(r) PROVE IInv'
  BY <1>0, <1>2, ReceiveJobIInv
<1>3. CASE ReceiveUpdate
  BY <1>0, <1>3, ReceiveUpdateIInv
<1>4. CASE DeleteJob
  BY <1>0, <1>4, DeleteJobIInv
<1>5. CASE NothingToSchedule
  BY <1>0, <1>5, QuietIInv DEF NothingToSchedule, clusterVars, sessionVars, QuietStep
<1>6. CASE ScheduleNext
  BY <1>0, <1>6, ScheduleNextIInv
<1>7. CASE Register
  BY <1>0, <1>7, QuietIInv DEF Register, RegisterNotifier, clusterVars, QuietStep
<1>8. CASE ReceiveDone
  BY <1>0, <1>8, QuietIInv DEF ReceiveDone, clusterVars, sessionVars, QuietStep
<1>9. CASE Informer
  <2>1. CASE Dispatch
    BY <1>0, <1>9, <2>1, DispatchIInv DEF Informer
  <2>2. CASE Unregister
    BY <1>0, <1>9, <2>2, QuietIInv
    DEF Informer, Unregister, clusterVars, managerVars, QuietStep
  <2> QED
    BY <1>9, <2>1, <2>2 DEF Informer
<1>10. CASE Session
  BY <1>0, <1>10, QuietIInv
  DEF Session, StartWatchers, Cancel, clusterVars, managerVars, QuietStep
<1>11. CASE MapRaceCrash
  BY <1>0, <1>11, QuietIInv DEF MapRaceCrash, clusterVars, QuietStep
<1>12. CASE StopMonitor
  BY <1>0, <1>12, QuietIInv DEF StopMonitor, clusterVars, sessionVars, QuietStep
<1>13. CASE StopReturns
  BY <1>0, <1>13, QuietIInv DEF StopReturns, clusterVars, sessionVars, QuietStep
<1>14. ASSUME NEW r \in Requests, AddJobtoQueue(r) PROVE IInv'
  <2>1. \A s \in Requests : request'[s] = "accepted" <=> request[s] = "accepted"
    BY <1>14 DEF AddJobtoQueue, IInv, TypeOK, ManagerTypeOK
  <2> QED
    BY <1>0, <1>14, <2>1, QuietIInv DEF AddJobtoQueue, clusterVars, sessionVars, QuietStep
<1>15. ASSUME NEW r \in Requests, PodEnds(r) \/ Removed(r) \/ Interfere(r)
       PROVE  IInv'
  BY <1>0, <1>15, ClusterIInv DEF PodEnds, Removed, Interfere, OperatorDelete
<1>16. CASE UNCHANGED vars
  BY <1>0, <1>16, QuietIInv DEF vars, clusterVars, sessionVars, managerVars, QuietStep
<1> QED
  BY <1>1, <1>2, <1>3, <1>4, <1>5, <1>6, <1>7, <1>8, <1>9, <1>10, <1>11, <1>12,
     <1>13, <1>14, <1>15, <1>16 DEF Next, Monitor

\* IInv always holds when no two jobs share a name.
THEOREM Invariance == ASSUME DistinctNames PROVE Spec => []IInv
<1>1. DistinctNames /\ IInv /\ [Next]_vars => IInv'
  BY DistinctNamesakes, NextIInv
<1> QED
  BY <1>1, InitIInv, PTL DEF Spec

-----------------------------------------------------------------------------
(***************************************************************************)
(* What follows from the invariant.                                        *)
(***************************************************************************)
\* While a job is unfinished jobRefs holds its name: InProgress, which
\* scheduleIfPossible asks, is right about the cluster.
THEOREM InProgressIsTruthful ==
  ASSUME DistinctNames PROVE Spec => []InProgressTruthful
<1>1. IInv => InProgressTruthful
  BY DEF IInv, ForgottenIsClean, InProgressTruthful, Unfinished, Exists
<1> QED
  BY <1>1, Invariance, PTL

\* At most one job that has not succeeded exists in the cluster: two renders
\* never share the volumes.
THEOREM MutualExclusionHolds ==
  ASSUME DistinctNames PROVE Spec => []MutualExclusion
<1>1. IInv => MutualExclusion
  <2> SUFFICES ASSUME IInv, NEW r \in Requests, NEW s \in Requests,
                      Unfinished(r), Unfinished(s)
               PROVE  r = s
    BY DEF MutualExclusion
  <2>1. NameOf[r] \in jobRefs /\ NameOf[s] \in jobRefs
    BY DEF IInv, ForgottenIsClean, Unfinished, Exists
  <2>2. NameOf[r] = NameOf[s] /\ NameOf[r] # NoName
    BY <2>1, NameAssumption DEF IInv, OneInProgress, TypeOK, ManagerTypeOK
  <2> QED
    BY <2>2 DEF DistinctNames
<1> QED
  BY <1>1, Invariance, PTL

\* The step that HaltAfterFailure is about.
LEMMA StepHalts ==
  IInv /\ [Next]_vars =>
    [(\E s \in Requests : failed[s] > 0) =>
       \A r \in Requests : object[r] = "none" => object'[r] = "none"]_vars
<1> SUFFICES ASSUME IInv, NEW s \in Requests, failed[s] > 0, Next,
                    NEW r \in Requests, object[r] = "none"
             PROVE  object'[r] = "none"
  OBVIOUS
<1>1. jobRefs # {}
  <2>1. object[s] # "none"
    BY DEF IInv, FreshHasNoJob
  <2>2. ~Clean(s)
    BY DEF Clean
  <2> QED
    BY <2>1, <2>2 DEF IInv, ForgottenIsClean
<1>2. ~ScheduleNext
  BY <1>1 DEF ScheduleNext, MaySchedule, InProgress
<1>3. CASE DeleteJob
  <2>1. CASE UNCHANGED clusterVars
    BY <2>1 DEF clusterVars
  <2>2. ASSUME NEW d \in Requests, MarkDeleted(d) PROVE object'[r] = "none"
    BY <2>2, ChangeEffect DEF IInv
  <2> QED
    BY <1>3, <2>1, <2>2 DEF DeleteJob, ApiDeleteJob, Holders
<1>4. ASSUME NEW d \in Requests, PodEnds(d) \/ Removed(d) \/ Interfere(d)
      PROVE  object'[r] = "none"
  BY <1>4, ChangeEffect
  DEF IInv, PodEnds, Removed, Interfere, OperatorDelete
<1>5. CASE UNCHANGED object
  BY <1>5
<1> QED
  BY <1>2, <1>3, <1>4, <1>5
  DEF Next, Monitor, StartMonitor, ReceiveJob, ReceiveUpdate, NotifierReturns,
      NothingToSchedule, Register, RegisterNotifier, ReceiveDone, Informer,
      Dispatch, Unregister, Session, StartWatchers, Cancel, MapRaceCrash,
      StopMonitor, StopReturns, AddJobtoQueue, clusterVars

\* Once a pod has failed no job is ever created again, whatever later updates
\* do to haveFailedJob.
THEOREM HaltAfterFailureHolds ==
  ASSUME DistinctNames PROVE Spec => HaltAfterFailure
BY StepHalts, Invariance, PTL DEF Spec, HaltAfterFailure

\* The step that DeletesOnlySucceeded is about.
LEMMA StepDeletesClean ==
  IInv /\ NamesakesClean /\ [Next]_vars =>
    [DeleteStep =>
       \A r \in Requests : object'[r] # object[r] => Clean(r)]_vars
<1> SUFFICES ASSUME IInv, NamesakesClean, Next, DeleteStep,
                    NEW r \in Requests, object'[r] # object[r]
             PROVE  Clean(r)
  OBVIOUS
<1>1. DeleteJob
  BY DEF DeleteStep, Next, Monitor, StartMonitor, ReceiveJob, ReceiveUpdate,
         NothingToSchedule, ScheduleNext, Register, ReceiveDone, Informer,
         Session, MapRaceCrash, StopMonitor, StopReturns, AddJobtoQueue,
         PodEnds, Removed, Interfere, managerVars
<1>2. /\ current \in Requests /\ object[current] # "none" /\ Clean(current)
      /\ ApiDeleteJob(NameOf[current])
  BY <1>1 DEF DeleteJob, IInv, CurrentOK, TypeOK, ManagerTypeOK
<1>3. PICK d \in Requests : NameOf[d] = NameOf[current] /\ MarkDeleted(d)
  BY <1>2 DEF ApiDeleteJob, Holders, clusterVars
<1>4. r = d
  BY <1>3 DEF MarkDeleted, IInv, TypeOK, ClusterTypeOK
<1>5. Clean(d)
  BY <1>1, <1>3 DEF DeleteJob, NamesakesClean, MarkDeleted
<1> QED
  BY <1>4, <1>5

\* The monitor deletes by name, and only ever a job that has succeeded.
THEOREM DeletesOnlySucceededHolds ==
  ASSUME DistinctNames PROVE Spec => DeletesOnlySucceeded
<1>1. DistinctNames /\ IInv => NamesakesClean
  BY DistinctNamesakes
<1> QED
  BY <1>1, StepDeletesClean, Invariance, PTL DEF Spec, DeletesOnlySucceeded

=============================================================================
