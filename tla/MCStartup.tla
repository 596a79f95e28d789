------------------------------- MODULE MCStartup -------------------------------
(***************************************************************************)
(* Instances of the process for TLC.                                       *)
(***************************************************************************)
EXTENDS Startup

CONSTANTS p1, p2, noPost, initial

TwoPosts == {p1, p2}

NoEventPost == noPost
InitialJob == initial

\* Every command line, and the tests' listener.
AllFlags ==
  (SUBSET {"clone", "build", "listen"}) \cup {{"testserver"}, {"norepo"}}
\* A one-off build.
BuildOnly == {{"clone", "build"}}

=============================================================================
