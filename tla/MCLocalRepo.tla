----------------------------- MODULE MCLocalRepo -----------------------------
(***************************************************************************)
(* Instances of the local repository for TLC: two branches, and a history  *)
(* of four commits that forks.                                             *)
(***************************************************************************)
EXTENDS LocalRepo

CONSTANTS master, dev, absent

TwoBranches  == {master, dev}
MasterBranch == master
DevBranch    == dev
NoCommit     == absent

\* 1 <- 2 <- 3 and 1 <- 4: from 2 or 3 to 4, to 1, and back to 2 or 3, only
\* by force.
FourCommits == 1..4
History == <<{1}, {1, 2}, {1, 2, 3}, {1, 4}>>

=============================================================================
