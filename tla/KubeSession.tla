----------------------------- MODULE KubeSession -----------------------------
(***************************************************************************)
(* pkg/kubelayer/kubesession.go: the session's job informer.  Its handler  *)
(* goroutine takes one change at a time from the watch stream, looks the   *)
(* job's name up in jobnotifiers and calls the notifier, which blocks      *)
(* until the monitor of the job manager receives the update.               *)
(***************************************************************************)
EXTENDS KubeLayer

VARIABLES notifiers,  \* the names in ks.jobnotifiers
          watch,      \* the session's context and its informers
          ipc,        \* where the informer's handler goroutine is
          ievent      \* the change that goroutine is handling

sessionVars == <<notifiers, watch, ipc, ievent>>

(***************************************************************************)
(* ResourseStateType.  The constant block gives only its first name a      *)
(* value; Go repeats that expression, so the three names are equal.        *)
(***************************************************************************)
Create == 0
Update == 0
Delete == 0

\* The type each handler passes to the notifier.
TypeOf == [ADDED |-> Create, MODIFIED |-> Update, DELETED |-> Delete]

NoEvent == [kind |-> "none"]

SessionTypeOK ==
  /\ notifiers \subseteq Names
  /\ watch \in {"off", "on", "cancelled"}
  /\ ipc \in {"idle", "notify", "unregister", "crashed"}
  /\ ievent \in Events \cup {NoEvent}
  /\ ipc \in {"notify", "unregister"} => ievent \in Events

SessionInit ==
  /\ notifiers = {}
  /\ watch = "off"
  /\ ipc = "idle"
  /\ ievent = NoEvent

(***************************************************************************)
(* StartWatchers returns once the caches have synced.                      *)
(***************************************************************************)
StartWatchers ==
  /\ watch = "off"
  /\ watch' = "on"
  /\ UNCHANGED <<clusterVars, notifiers, ipc, ievent>>

(***************************************************************************)
(* ks.cancel(): from the watch error handler or from Close.  It stops the  *)
(* informers; a handler already running finishes.                          *)
(***************************************************************************)
Cancel ==
  /\ "cancel" \in Env
  /\ watch = "on"
  /\ watch' = "cancelled"
  /\ UNCHANGED <<clusterVars, notifiers, ipc, ievent>>

(***************************************************************************)
(* An event handler starts: a job without a notifier is passed over.       *)
(***************************************************************************)
Dispatch ==
  /\ watch = "on"
  /\ ipc = "idle"
  /\ stream # <<>>
  /\ stream' = Tail(stream)
  /\ \/ /\ NameOf[Head(stream).req] \in notifiers
        /\ ipc' = "notify"
        /\ ievent' = Head(stream)
     \/ /\ NameOf[Head(stream).req] \notin notifiers
        /\ UNCHANGED <<ipc, ievent>>
  /\ UNCHANGED <<object, failed, succeeded, notifiers, watch>>

(***************************************************************************)
(* The notifier returns: its update has been received.  The delete handler *)
(* goes on to remove the notifier, the others are finished.                *)
(***************************************************************************)
NotifierReturns ==
  /\ ipc = "notify"
  /\ \/ /\ ievent.kind = "DELETED"
        /\ ipc' = "unregister"
        /\ UNCHANGED ievent
     \/ /\ ievent.kind # "DELETED"
        /\ ipc' = "idle"
        /\ ievent' = NoEvent
  /\ UNCHANGED <<clusterVars, notifiers, watch>>

Unregister ==
  /\ ipc = "unregister"
  /\ notifiers' = notifiers \ {NameOf[ievent.req]}
  /\ ipc' = "idle"
  /\ ievent' = NoEvent
  /\ UNCHANGED <<clusterVars, watch>>

\* The handler goroutine is about to use the map jobnotifiers.
UsesNotifiers ==
  \/ ipc = "unregister"
  \/ ipc = "idle" /\ watch = "on" /\ stream # <<>>

\* Seeded fault: the notifier is not registered.
RegisterNothing(n) == UNCHANGED <<clusterVars, sessionVars>>

\* CreateJob, after the create call: it takes no lock either.
RegisterNotifier(n) ==
  /\ notifiers' = notifiers \cup {n}
  /\ UNCHANGED <<clusterVars, watch, ipc, ievent>>

=============================================================================
