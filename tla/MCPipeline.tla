------------------------------ MODULE MCPipeline ------------------------------
(***************************************************************************)
(* Instances of the whole of previewd for TLC.                             *)
(***************************************************************************)
EXTENDS Pipeline

CONSTANTS render, none, empty, master, dev, absent

ThreeRequests == 1..3
\* previewd: every render job has the same name.
JustRender == {render}
OneName == [r \in Requests |-> render]

TwoBranches  == {master, dev}
MasterBranch == master
NoCommit     == absent

\* At first there is one branch with one commit.  Then the other is pushed, at
\* that commit or at one beside it.
TwoCommits == 1..2
Apart == <<{1}, {2}>>
JustMaster == [b \in Branches |-> IF b = master THEN 1 ELSE absent]

\* Requests of one name are interchangeable: the k-th call is request k.  No
\* fair action makes a call.
InOrder ==
  \A r \in Requests : request'[r] # request[r] =>
    \A q \in 1..r - 1 : request[q] # "new"

MCPipelineSpec ==
  /\ PipelineInit /\ remote = JustMaster
  /\ [][PipelineNext /\ InOrder]_pipelineVars
  /\ PipelineFairness

=============================================================================
