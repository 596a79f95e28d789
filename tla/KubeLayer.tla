------------------------------ MODULE KubeLayer ------------------------------
(***************************************************************************)
(* The Kubernetes batch API as previewd uses it: the job objects of the    *)
(* one namespace, the calls of pkg/kubelayer/kubelayer.go on them, and the *)
(* watch stream their changes are published on.  The job controller and    *)
(* the garbage collector are external: their steps are what the code in    *)
(* src/ relies on (pods fail or succeed, a deleted job disappears later).  *)
(*                                                                         *)
(* Every call of AddJobtoQueue is one request.  A request becomes at most  *)
(* one job object, so the request stands for the UID of that object; its   *)
(* name, NameOf[r], may be shared with other requests.                     *)
(***************************************************************************)
EXTENDS Naturals, Sequences

CONSTANTS Requests,   \* the calls of AddJobtoQueue
          NoRequest,  \* not a request
          Names,      \* the non-empty job names
          NoName,     \* the empty job name
          NameOf,     \* the name each request asks for
          Env         \* what the surroundings may do, see EnvAssumption

(***************************************************************************)
(* What a run lets the surroundings do:                                    *)
(*   overlap     callers do not wait until earlier jobs are cleaned up     *)
(*   podfail     pods may fail                                             *)
(*   createfail  the create call may fail, before or after taking effect   *)
(*   deletefail  the delete call may fail                                  *)
(*   operator    somebody else (kubectl) may delete a job                  *)
(*   early       a pod may end before the notifier is registered           *)
(*   cancel      a watch error, or Close, may cancel the session           *)
(*   maprace     a detected concurrent map access may kill the process     *)
(*   stop        stopMonitor may be called                                 *)
(***************************************************************************)
ASSUME EnvAssumption ==
  Env \subseteq {"overlap", "podfail", "createfail", "deletefail", "operator",
                 "early", "cancel", "maprace", "stop"}
ASSUME NameAssumption ==
  /\ NoRequest \notin Requests
  /\ NoName \notin Names
  /\ NameOf \in [Requests -> Names \cup {NoName}]

VARIABLES object,     \* the life of each request's job object
          failed,     \* Status.Failed of each job
          succeeded,  \* Status.Succeeded of each job
          stream      \* job changes not yet taken by the informer, oldest first

clusterVars == <<object, failed, succeeded, stream>>

Kinds == {"ADDED", "MODIFIED", "DELETED"}

\* Failed pods a job survives: its pod is retried once.
BackoffLimit == 1

Events == [kind : Kinds, req : Requests,
           failed : 0..BackoffLimit + 1, succeeded : 0..1]

Event(kind, r) == [kind |-> kind, req |-> r,
                   failed |-> failed'[r], succeeded |-> succeeded'[r]]

Publish(kind, r) == stream' = Append(stream, Event(kind, r))

ClusterTypeOK ==
  /\ object \in [Requests -> {"none", "live", "terminating", "gone"}]
  /\ failed \in [Requests -> 0..BackoffLimit + 1]
  /\ succeeded \in [Requests -> 0..1]
  /\ stream \in Seq(Events)

ClusterInit ==
  /\ object = [r \in Requests |-> "none"]
  /\ failed = [r \in Requests |-> 0]
  /\ succeeded = [r \in Requests |-> 0]
  /\ stream = <<>>

Exists(r) == object[r] \in {"live", "terminating"}

\* The jobs that occupy a name: an object keeps its name until it is gone.
Holders(n) == {r \in Requests : NameOf[r] = n /\ Exists(r)}

\* Seeded fault: the job gets a name the cluster generates.
CreateUnderAnyName(r) ==
  /\ object[r] = "none"
  /\ object' = [object EXCEPT ![r] = "live"]
  /\ UNCHANGED <<failed, succeeded>>
  /\ Publish("ADDED", r)

(***************************************************************************)
(* The create call takes effect: a name can be held by one object only.    *)
(***************************************************************************)
CreateTakesEffect(r) ==
  /\ Holders(NameOf[r]) = {}
  /\ object' = [object EXCEPT ![r] = "live"]
  /\ UNCHANGED <<failed, succeeded>>
  /\ Publish("ADDED", r)

(***************************************************************************)
(* The create call is refused: AlreadyExists, or any other error.          *)
(***************************************************************************)
CreateRefused(r) ==
  /\ \/ Holders(NameOf[r]) # {}
     \/ "createfail" \in Env
  /\ UNCHANGED clusterVars

(***************************************************************************)
(* Foreground deletion only marks the object, which is a modification; the *)
(* object goes once its pods are gone.  The rest of the status is kept.    *)
(***************************************************************************)
MarkDeleted(r) ==
  /\ object[r] = "live"
  /\ object' = [object EXCEPT ![r] = "terminating"]
  /\ UNCHANGED <<failed, succeeded>>
  /\ Publish("MODIFIED", r)

(***************************************************************************)
(* DeleteJob: by name.  Deleting a job that is terminating changes         *)
(* nothing, deleting one that does not exist is a NotFound error.          *)
(***************************************************************************)
ApiDeleteJob(n) ==
  \/ \E r \in Holders(n) : MarkDeleted(r)
  \/ /\ \/ \A r \in Holders(n) : object[r] = "terminating"
        \/ "deletefail" \in Env
     /\ UNCHANGED clusterVars

(***************************************************************************)
(* External: the job controller counts the end of a pod.  A killed pod of  *)
(* a terminating job may still be counted.                                 *)
(***************************************************************************)
Running(r) == Exists(r) /\ succeeded[r] = 0 /\ failed[r] <= BackoffLimit

PodSucceeds(r) ==
  /\ Running(r)
  /\ succeeded' = [succeeded EXCEPT ![r] = 1]
  /\ UNCHANGED <<object, failed>>
  /\ Publish("MODIFIED", r)

PodFails(r) ==
  /\ "podfail" \in Env
  /\ Running(r)
  /\ failed' = [failed EXCEPT ![r] = @ + 1]
  /\ UNCHANGED <<object, succeeded>>
  /\ Publish("MODIFIED", r)

\* External: the garbage collector removes a job that is marked deleted.
Finalize(r) ==
  /\ object[r] = "terminating"
  /\ object' = [object EXCEPT ![r] = "gone"]
  /\ UNCHANGED <<failed, succeeded>>
  /\ Publish("DELETED", r)

\* External: somebody deletes the job behind previewd's back.
OperatorDelete(r) == "operator" \in Env /\ MarkDeleted(r)

=============================================================================
