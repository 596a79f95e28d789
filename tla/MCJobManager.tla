----------------------------- MODULE MCJobManager -----------------------------
(***************************************************************************)
(* Instances of the job manager for TLC.                                   *)
(***************************************************************************)
EXTENDS JobManagerProps, TLC

CONSTANTS a, b, c,    \* requests
          render,     \* the one job name previewd uses
          none, empty

TwoRequests   == {a, b}
ThreeRequests == {a, b, c}

\* Every request has a name of its own, spelled like the request.
OwnName == [r \in Requests |-> r]
\* As OwnName, but c has the empty name.
OwnNameButC == [r \in Requests |-> IF r = c THEN empty ELSE r]
\* previewd: every render job has the same name.
OneName == [r \in Requests |-> render]
JustRender == {render}

\* Everything that can go wrong around the job manager.
Hostile == {"overlap", "podfail", "createfail", "deletefail", "operator",
            "early", "cancel", "maprace"}

Symmetry3 == Permutations({a, b, c})
Symmetry2 == Permutations({a, b})

=============================================================================
