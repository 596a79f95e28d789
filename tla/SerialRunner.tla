----------------------------- MODULE SerialRunner -----------------------------
(***************************************************************************)
(* What the job manager promises its callers: jobs run one at a time in    *)
(* the order they were submitted, the next one starts only after the one   *)
(* before it has succeeded, and a failure stops the line for good.         *)
(***************************************************************************)
EXTENDS Naturals, Sequences, Functions

CONSTANTS Jobs, NoJob

VARIABLES waiting,  \* submitted, not started, oldest first
          running,  \* the job that has the volumes, or NoJob
          done,     \* the jobs that succeeded at the first attempt
          broken    \* an attempt has failed

serialVars == <<waiting, running, done, broken>>

SerialInit ==
  /\ waiting = <<>>
  /\ running = NoJob
  /\ done = {}
  /\ broken = FALSE

\* A job is submitted once.
Submit(j) ==
  /\ j \notin Range(waiting) \cup done \cup {running}
  /\ waiting' = Append(waiting, j)
  /\ UNCHANGED <<running, done, broken>>

Start ==
  /\ running = NoJob
  /\ waiting # <<>>
  /\ running' = Head(waiting)
  /\ waiting' = Tail(waiting)
  /\ UNCHANGED <<done, broken>>

Succeed ==
  /\ running # NoJob
  /\ running \notin done
  /\ ~broken
  /\ done' = done \cup {running}
  /\ UNCHANGED <<waiting, running, broken>>

\* From here on the running job keeps the volumes: nothing else starts.
Fail ==
  /\ running # NoJob
  /\ running \notin done
  /\ ~broken
  /\ broken' = TRUE
  /\ UNCHANGED <<waiting, running, done>>

Release ==
  /\ running \in done
  /\ running' = NoJob
  /\ UNCHANGED <<waiting, done, broken>>

SerialNext ==
  \/ \E j \in Jobs : Submit(j)
  \/ Start
  \/ Succeed
  \/ Fail
  \/ Release

SerialSpec == SerialInit /\ [][SerialNext]_serialVars

=============================================================================
