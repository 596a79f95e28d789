---------------------------- MODULE WebhookListener ----------------------------
(***************************************************************************)
(* pkg/webhooklistener/webhookreceiver.go: requests become events, and one *)
(* goroutine, the hook processor, handles the events one after the other.  *)
(* The hookserve library answers a request without waiting for its event:  *)
(* a goroutine of its own puts the event on the channel, so events may be  *)
(* received in any order.                                                  *)
(***************************************************************************)
EXTENDS BasicServer

CONSTANT NoPost

VARIABLES event,      \* the event of each request
          processor,  \* where the hook processor is
          handled,    \* the event it is handling, or NoPost
          exitclosed  \* wl.exitchan has been closed

listenerVars == <<event, processor, handled, exitclosed>>

ListenerTypeOK ==
  /\ event \in [Posts -> {"none", "pending", "taken", "done"}]
  /\ processor \in {"off", "select", "git", "submit", "exited"}
  /\ handled \in Posts \cup {NoPost}
  /\ processor \in {"git", "submit"} <=> handled \in Posts
  /\ exitclosed \in BOOLEAN

ListenerInit ==
  /\ event = [p \in Posts |-> "none"]
  /\ processor = "off"
  /\ handled = NoPost
  /\ exitclosed = FALSE

\* WebhookListener.StartListen.
StartListener ==
  /\ StartListen
  /\ processor' = "select"
  /\ UNCHANGED <<event, handled, exitclosed>>

\* The handler: hookserve.ServeHTTP, external.  Only a push, or a pull
\* request, makes an event.
ServeHook(p) ==
  /\ Answer(p)
  /\ \/ event' = [event EXCEPT ![p] = "pending"]
     \/ UNCHANGED event
  /\ UNCHANGED <<processor, handled, exitclosed>>

\* Seeded fault: HandleWebhook gets a goroutine of its own.
ReceiveEventAtOnce(p) ==
  /\ processor \in {"select", "git", "submit"}
  /\ event[p] = "pending"
  /\ event' = [event EXCEPT ![p] = "taken"]
  /\ handled' = p
  /\ processor' = "git"
  /\ UNCHANGED <<serverVars, exitclosed>>

\* case event := <-wl.hookserver.Events: the event will be handled, or ignored.
ReceiveEvent(p) ==
  /\ processor = "select"
  /\ event[p] = "pending"
  /\ event' = [event EXCEPT ![p] = "taken"]
  /\ handled' = p
  /\ processor' = "git"
  /\ UNCHANGED <<serverVars, exitclosed>>

\* HandleWebhook has returned, with or without an error, or there is no local
\* repository manager to call it on.
HookDone ==
  /\ event' = [event EXCEPT ![handled] = "done"]
  /\ handled' = NoPost
  /\ processor' = "select"
  /\ UNCHANGED <<serverVars, exitclosed>>

\* Seeded fault: break, which leaves the select only.
ReceiveExitBreaks ==
  /\ processor = "select" /\ exitclosed
  /\ UNCHANGED <<serverVars, listenerVars>>

\* Seeded fault: an event that is being handled is given up.
ReceiveExitAtOnce ==
  /\ processor \in {"select", "git"}
  /\ exitclosed
  /\ processor' = "exited"
  /\ UNCHANGED <<serverVars, event, handled, exitclosed>>

\* case <-wl.exitchan.
ReceiveExit ==
  /\ processor = "select"
  /\ exitclosed
  /\ processor' = "exited"
  /\ UNCHANGED <<serverVars, event, handled, exitclosed>>

\* WebhookListener.Shutdown closes wl.exitchan, ...
CloseExit ==
  /\ ~exitclosed
  /\ exitclosed' = TRUE
  /\ UNCHANGED <<serverVars, event, processor, handled>>

\* ... then shuts the server down.  A signal does not come this way:
\* WaitForInterupt is the basic server's.
ListenerShutdown ==
  /\ exitclosed
  /\ Shutdown("listener")
  /\ UNCHANGED listenerVars

=============================================================================
