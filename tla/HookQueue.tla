------------------------------- MODULE HookQueue -------------------------------
(***************************************************************************)
(* What the hook processor promises: it handles the events of webhooks one *)
(* at a time and each of them once, in whatever order; while it handles an *)
(* event it hands one render job over, or none; once stopped, between two  *)
(* events, it takes up no further one.                                     *)
(***************************************************************************)
CONSTANTS Hooks, NoHook

VARIABLES waiting,   \* events that nobody has taken up
          handling,  \* the event that is being handled, or NoHook
          over,      \* events that have been handled
          built,     \* events whose job has been handed over
          stopped

hookVars == <<waiting, handling, over, built, stopped>>

HookInit ==
  /\ waiting = {}
  /\ handling = NoHook
  /\ over = {}
  /\ built = {}
  /\ stopped = FALSE

\* A request makes at most one event.
Come(h) ==
  /\ h \notin waiting \cup over \cup {handling}
  /\ waiting' = waiting \cup {h}
  /\ UNCHANGED <<handling, over, built, stopped>>

Take(h) ==
  /\ h \in waiting
  /\ handling = NoHook /\ ~stopped
  /\ handling' = h
  /\ waiting' = waiting \ {h}
  /\ UNCHANGED <<over, built, stopped>>

\* The event is done, with its job in the job manager's hands or without one.
Finish ==
  /\ handling # NoHook
  /\ over' = over \cup {handling}
  /\ built' \in {built, built \cup {handling}}
  /\ handling' = NoHook
  /\ UNCHANGED <<waiting, stopped>>

Stop ==
  /\ handling = NoHook /\ ~stopped
  /\ stopped' = TRUE
  /\ UNCHANGED <<waiting, handling, over, built>>

HookNext == Finish \/ Stop \/ \E h \in Hooks : Come(h) \/ Take(h)

HookSpec == HookInit /\ [][HookNext]_hookVars

=============================================================================
