---------------------------- MODULE LocalRepoProofs ----------------------------
(***************************************************************************)
(* Proofs about the local repository, for any default branch, history and  *)
(* failures: what is submitted contains what was pushed, and a branch that *)
(* only moves forward is always built, from its own source.                *)
(***************************************************************************)
EXTENDS LocalRepo, TLAPS

-----------------------------------------------------------------------------
(***************************************************************************)
(* Types, and that a submitted commit contains one that was pushed.        *)
(***************************************************************************)
Pushed == RepoTypeOK /\ DefaultExists /\ TipsOK /\ SubmitsWhatWasPushed

LEMMA InitPushed == RepoInit => Pushed
BY RepoAssumption
DEF RepoInit, Pushed, RepoTypeOK, DefaultExists, TipsOK, SubmitsWhatWasPushed

\* Whatever the remote and the clone do next, all of it stays true.
LEMMA NextPushed == Pushed /\ [RepoNext]_repoVars => Pushed'
<1> SUFFICES ASSUME Pushed, [RepoNext]_repoVars PROVE Pushed'
  OBVIOUS
<1> USE RepoAssumption
    DEF Pushed, RepoTypeOK, DefaultExists, TipsOK, SubmitsWhatWasPushed
<1>1. ASSUME NEW b \in Branches, NEW c \in Commits, Push(b, c) PROVE Pushed'
  BY <1>1 DEF Push, Move, Handling
<1>2. ASSUME NEW b \in Branches, DeleteBranch(b) PROVE Pushed'
  BY <1>2 DEF DeleteBranch, Move, Handling
<1>3. CASE InitialClone
  BY <1>3 DEF InitialClone
<1>4. ASSUME NEW b \in Branches, HandleWebhook(b) PROVE Pushed'
  BY <1>4 DEF HandleWebhook, Fails
<1>5. CASE Fetch
  BY <1>5 DEF Fetch, Fetched, Fails
<1>6. CASE Checkout
  BY <1>6 DEF Checkout, Fails
<1>7. CASE Pull
  BY <1>7 DEF Pull, Fetched, FastForward, NothingNew, Fails
<1>8. CASE SubmitJob
  BY <1>8 DEF SubmitJob
<1>9. CASE NoRenderDir
  BY <1>9 DEF NoRenderDir, Fails
<1>10. CASE UNCHANGED repoVars
  BY <1>10 DEF repoVars
<1> QED
  BY <1>1, <1>2, <1>3, <1>4, <1>5, <1>6, <1>7, <1>8, <1>9, <1>10 DEF RepoNext

\* Every variable of the clone stays in its type; once cloned, HEAD is a commit.
THEOREM RepoTypeInvariant == RepoSpec => []RepoTypeOK
<1>1. Pushed => RepoTypeOK
  BY DEF Pushed
<1> QED
  BY <1>1, InitPushed, NextPushed, PTL DEF RepoSpec

\* The source handed to a render job contains a version its branch has had
\* since the webhook was taken up: for any history, forced pushes, deletions,
\* failures and default branch.
THEOREM SubmitsWhatWasPushedHolds == RepoSpec => []SubmitsWhatWasPushed
<1>1. Pushed => SubmitsWhatWasPushed
  BY DEF Pushed
<1> QED
  BY <1>1, InitPushed, NextPushed, PTL DEF RepoSpec

-----------------------------------------------------------------------------
(***************************************************************************)
(* The branch that only moves forward.                                     *)
(***************************************************************************)
LEMMA InitRepoIInv == RepoInit => RepoIInv
BY InitPushed
DEF RepoInit, RepoIInv, Pushed, MasterAtFirst, BranchOK, FetchedOK, PullOK, ErrOK,
    TrackingBehind, HeadBehind, SubmitsTheBranch, SteadyBranchIsBuilt

\* A push that is not forced leaves what was behind the branch behind it.
LEMMA PushKeepsBehind ==
  ASSUME RepoTypeOK, NEW b \in Branches, NEW c \in Commits, Push(b, c),
         NEW a \in Branches \ rewritten', NEW d \in Commits, Behind(a, d)
  PROVE  Behind(a, d)'
BY RepoAssumption DEF Push, Move, Behind, RepoTypeOK

\* A fetch brings the clone level with the remote.
LEMMA FetchedBehind ==
  ASSUME RepoTypeOK, TrackingBehind, NEW b \in Branches \ rewritten,
         Fetched[b] # Absent
  PROVE  Behind(b, Fetched[b])
BY RepoAssumption DEF RepoTypeOK, TrackingBehind, Behind, Fetched

\* HEAD is on the current branch, or that is only assumed.
OnBranch == MasterAtFirst /\ BranchOK /\ PullOK /\ ErrOK

\* What that adds up to.
Steady == /\ OnBranch /\ FetchedOK
          /\ TrackingBehind /\ HeadBehind
          /\ SubmitsTheBranch /\ SteadyBranchIsBuilt

\* A step that leaves the clone and its branch alone; tips only grow, and a
\* branch stays rewritten.
LEMMA QuietSteady ==
  ASSUME RepoIInv, TrackingBehind', HeadBehind',
         UNCHANGED <<tracking, head, headBranch, currentBranch, pc, branch, err>>,
         tips \subseteq tips', rewritten \subseteq rewritten'
  PROVE  Steady'
<1> USE DEF RepoIInv
<1>1. OnBranch' /\ FetchedOK'
  BY DEF OnBranch, MasterAtFirst, BranchOK, PullOK, ErrOK, FetchedOK, Assumed
<1>2. SubmitsTheBranch' /\ SteadyBranchIsBuilt'
  BY DEF SubmitsTheBranch, SteadyBranchIsBuilt, Assumed
<1> QED
  BY <1>1, <1>2 DEF Steady

\* When HEAD is on the branch that is pulled, and the branch only moved
\* forward, HEAD cannot be ahead of it, and does not stand in the way.
LEMMA PullOnBranch ==
  ASSUME RepoIInv, pc = "pull", ~Assumed, branch \notin rewritten
  PROVE  /\ FastForward
         /\ remote[branch] \in Ancestors[head] => head = remote[branch]
<1>1. headBranch = branch
  BY DEF RepoIInv, BranchOK, PullOK
<1>2. Behind(branch, head)
  BY <1>1 DEF RepoIInv, HeadBehind
<1>3. head \in Commits /\ remote[branch] \in Commits
  BY <1>2 DEF Behind, RepoIInv, RepoTypeOK
<1> QED
  BY <1>2, <1>3, RepoAssumption DEF Behind, FastForward

\* Steady survives every step.
LEMMA NextSteady == RepoIInv /\ [RepoNext]_repoVars => Steady'
<1> SUFFICES ASSUME RepoIInv, [RepoNext]_repoVars PROVE Steady'
  OBVIOUS
<1>1. ASSUME NEW b \in Branches, NEW c \in Commits, Push(b, c) PROVE Steady'
  <2>1. TrackingBehind'
    BY <1>1, PushKeepsBehind DEF RepoIInv, TrackingBehind, RepoTypeOK, Push, Move
  <2>2. HeadBehind'
    BY <1>1, PushKeepsBehind DEF RepoIInv, HeadBehind, RepoTypeOK, Push, Move
  <2> QED
    BY <1>1, <2>1, <2>2, QuietSteady DEF Push, Move, Handling
<1>2. ASSUME NEW b \in Branches, DeleteBranch(b) PROVE Steady'
  <2>1. TrackingBehind'
    BY <1>2 DEF DeleteBranch, Move, RepoIInv, RepoTypeOK, TrackingBehind, Behind
  <2>2. HeadBehind'
    BY <1>2 DEF DeleteBranch, Move, RepoIInv, RepoTypeOK, HeadBehind, Behind
  <2> QED
    BY <1>2, <2>1, <2>2, QuietSteady DEF DeleteBranch, Move, Handling
<1>3. CASE InitialClone
  <2>1. TrackingBehind'
    BY <1>3, RepoAssumption DEF InitialClone, RepoIInv, RepoTypeOK,
        TrackingBehind, Behind
  <2>2. HeadBehind'
    <3>1. head' = remote[DefaultBranch] /\ remote[DefaultBranch] \in Commits
      BY <1>3, RepoAssumption DEF InitialClone, RepoIInv, RepoTypeOK, DefaultExists
    <3> QED
      BY <1>3, <3>1, RepoAssumption DEF InitialClone, HeadBehind, Behind
  <2>3. OnBranch'
    BY <1>3 DEF InitialClone, RepoIInv, OnBranch, MasterAtFirst, BranchOK, PullOK,
                ErrOK, Assumed
  <2>4. FetchedOK' /\ SubmitsTheBranch' /\ SteadyBranchIsBuilt'
    BY <1>3 DEF InitialClone, RepoIInv, MasterAtFirst, FetchedOK, SubmitsTheBranch,
                SteadyBranchIsBuilt, PullOK, Assumed
  <2> QED
    BY <2>1, <2>2, <2>3, <2>4 DEF Steady
<1>4. ASSUME NEW b \in Branches, HandleWebhook(b) PROVE Steady'
  <2>1. TrackingBehind' /\ HeadBehind'
    BY <1>4 DEF HandleWebhook, Fails, RepoIInv, TrackingBehind, HeadBehind, Behind
  <2>2. OnBranch'
    BY <1>4 DEF HandleWebhook, Fails, RepoIInv, OnBranch, MasterAtFirst, BranchOK,
                PullOK, ErrOK, Assumed
  <2>3. FetchedOK' /\ SubmitsTheBranch' /\ SteadyBranchIsBuilt'
    BY <1>4 DEF HandleWebhook, Fails, FetchedOK, SubmitsTheBranch,
                SteadyBranchIsBuilt
  <2> QED
    BY <2>1, <2>2, <2>3 DEF Steady
<1>5. CASE Fetch
  <2>1. TrackingBehind'
    BY <1>5, FetchedBehind DEF Fetch, RepoIInv, TrackingBehind, Behind
  <2>2. HeadBehind'
    BY <1>5 DEF Fetch, Fails, RepoIInv, HeadBehind, Behind
  <2>3. FetchedOK'
    BY <1>5 DEF Fetch, Fetched, Fails, RepoIInv, RepoTypeOK, TipsOK, FetchedOK
  <2>4. OnBranch'
    BY <1>5 DEF Fetch, Fails, RepoIInv, OnBranch, MasterAtFirst, BranchOK, PullOK,
                ErrOK, Assumed
  <2>5. SubmitsTheBranch' /\ SteadyBranchIsBuilt'
    BY <1>5 DEF Fetch, Fails, RepoIInv, SubmitsTheBranch, SteadyBranchIsBuilt, Assumed
  <2> QED
    BY <2>1, <2>2, <2>3, <2>4, <2>5 DEF Steady
<1>6. CASE Checkout
  <2>1. TrackingBehind'
    BY <1>6 DEF Checkout, RepoIInv, TrackingBehind, Behind
  <2>2. HeadBehind'
    BY <1>6
    DEF Checkout, Fails, RepoIInv, RepoTypeOK, TrackingBehind, HeadBehind, Behind
  <2>3. OnBranch'
    BY <1>6 DEF Checkout, Fails, RepoIInv, OnBranch, MasterAtFirst, BranchOK, PullOK,
                ErrOK, Assumed
  <2>4. FetchedOK' /\ SubmitsTheBranch' /\ SteadyBranchIsBuilt'
    BY <1>6 DEF Checkout, Fails, RepoIInv, FetchedOK, ErrOK, SubmitsTheBranch,
                SteadyBranchIsBuilt
  <2> QED
    BY <2>1, <2>2, <2>3, <2>4 DEF Steady
<1>7. CASE Pull
  <2>1. TrackingBehind'
    BY <1>7, FetchedBehind DEF Pull, RepoIInv, TrackingBehind, Behind
  <2>2. HeadBehind'
    <3>1. CASE FastForward /\ head' = remote[branch] /\ headBranch' = branch
      <4>1. remote[branch] \in Ancestors[remote[branch]]
        BY <3>1, RepoAssumption DEF FastForward, RepoIInv, RepoTypeOK
      <4> QED
        BY <1>7, <3>1, <4>1 DEF Pull, FastForward, HeadBehind, Behind
    <3>2. CASE UNCHANGED <<head, headBranch>>
      BY <1>7, <3>2 DEF Pull, RepoIInv, HeadBehind, Behind
    <3> QED
      BY <1>7, <3>1, <3>2 DEF Pull
  <2>3. OnBranch' /\ FetchedOK'
    BY <1>7 DEF Pull, Fails, RepoIInv, OnBranch, MasterAtFirst, BranchOK, PullOK, ErrOK,
                FetchedOK, Assumed
  <2>4. SubmitsTheBranch'
    <3>1. CASE head' = remote[branch]
      BY <1>7, <3>1 DEF Pull, RepoIInv, TipsOK, SubmitsTheBranch
    <3>2. CASE ~FastForward /\ NothingNew /\ UNCHANGED <<head, headBranch>>
      BY <1>7, <3>2, PullOnBranch
      DEF Pull, NothingNew, RepoIInv, TipsOK, SubmitsTheBranch, Assumed
    <3> QED
      BY <1>7, <3>1, <3>2 DEF Pull, Fails, SubmitsTheBranch
  <2>5. SteadyBranchIsBuilt'
    BY <1>7, PullOnBranch DEF Pull, Fails, RepoIInv, ErrOK, SteadyBranchIsBuilt, Assumed
  <2> QED
    BY <2>1, <2>2, <2>3, <2>4, <2>5 DEF Steady
<1>8. CASE SubmitJob
  BY <1>8
  DEF SubmitJob, RepoIInv, Steady, OnBranch, MasterAtFirst, BranchOK, PullOK, ErrOK,
      FetchedOK, TrackingBehind, HeadBehind, SubmitsTheBranch, SteadyBranchIsBuilt, Behind, Assumed
<1>9. CASE NoRenderDir
  BY <1>9
  DEF NoRenderDir, Fails, RepoIInv, Steady, OnBranch, MasterAtFirst, BranchOK, PullOK,
      ErrOK, FetchedOK, TrackingBehind, HeadBehind, SubmitsTheBranch,
      SteadyBranchIsBuilt, Behind, Assumed
<1>10. CASE UNCHANGED repoVars
  BY <1>10
  DEF repoVars, RepoIInv, Steady, OnBranch, MasterAtFirst, BranchOK, PullOK, ErrOK,
      FetchedOK, TrackingBehind, HeadBehind, SubmitsTheBranch, SteadyBranchIsBuilt, Behind, Assumed
<1> QED
  BY <1>1, <1>2, <1>3, <1>4, <1>5, <1>6, <1>7, <1>8, <1>9, <1>10 DEF RepoNext

\* Both halves together are inductive.
LEMMA NextRepoIInv == RepoIInv /\ [RepoNext]_repoVars => RepoIInv'
BY NextPushed, NextSteady DEF RepoIInv, Pushed, Steady, OnBranch

\* The inductive invariant of the local repository.
THEOREM RepoInvariance == RepoSpec => []RepoIInv
BY InitRepoIInv, NextRepoIInv, PTL DEF RepoSpec

\* A branch that only ever moved forward is rendered from its own source,
\* unless the branch the clone is on is only assumed.
THEOREM SubmitsTheBranchHolds == RepoSpec => []SubmitsTheBranch
<1>1. RepoIInv => SubmitsTheBranch
  BY DEF RepoIInv
<1> QED
  BY <1>1, RepoInvariance, PTL

\* A webhook for a branch that exists all the while, and only ever moved
\* forward, gets its job unless the network or the disk fails, whatever happened to
\* the clone and to other branches.
THEOREM SteadyBranchIsBuiltHolds == RepoSpec => []SteadyBranchIsBuilt
<1>1. RepoIInv => SteadyBranchIsBuilt
  BY DEF RepoIInv
<1> QED
  BY <1>1, RepoInvariance, PTL

\* A remote that is never rewritten, with the default branch previewd assumes,
\* is always rendered from the branch that was asked for.
THEOREM SwitchesBranchOnMaster ==
  ASSUME DefaultBranch = Master, GitEnv \subseteq {"network", "local"}
  PROVE  RepoSpec => []SwitchesBranch
<1> DEFINE Never == rewritten = {}
<1>1. RepoInit => Never
  BY DEF RepoInit
<1>2. Never /\ [RepoNext]_repoVars => Never'
  BY DEF RepoNext, Push, Move, DeleteBranch, InitialClone, HandleWebhook, Fetch,
         Checkout, Pull, NoRenderDir, SubmitJob, repoVars
<1>3. RepoIInv /\ Never => SwitchesBranch
  BY DEF RepoIInv, SubmitsTheBranch, SwitchesBranch, Assumed
<1> HIDE DEF Never
<1> QED
  BY <1>1, <1>2, <1>3, RepoInvariance, PTL DEF RepoSpec

=============================================================================
