------------------------------ MODULE LocalRepo ------------------------------
(***************************************************************************)
(* pkg/localrepomanager: the clone of the site's source.  One goroutine at *)
(* a time works on it (the start-up code, then the hook processor), while  *)
(* the remote repository moves: between any two calls that go to the       *)
(* network branches may be pushed, rewritten or deleted.                   *)
(*                                                                         *)
(* The working tree always holds the commit HEAD names (every call that    *)
(* moves one moves the other), so one variable stands for both; go-git's   *)
(* own failures inside a checkout are left out.                            *)
(***************************************************************************)
EXTENDS Naturals

CONSTANTS Branches,       \* branch names
          Commits,
          Ancestors,      \* of each commit, itself included
          Absent,         \* no such branch
          Master,         \* the name CreateLocalRepoManager assumes
          DefaultBranch,  \* the branch a clone checks out
          MaxHooks,       \* how many branches are asked for (a bound)
          GitEnv          \* what the surroundings may do, see below

(***************************************************************************)
(*   force    a push may replace a branch by a commit that does not        *)
(*            descend from it, or set it back                              *)
(*   delete   a branch may be deleted                                      *)
(*   network  a fetch may fail                                             *)
(*   local    the hard reset, or making a render directory, may fail       *)
(***************************************************************************)
ASSUME RepoAssumption ==
  /\ GitEnv \subseteq {"force", "delete", "network", "local"}
  /\ Master \in Branches /\ DefaultBranch \in Branches
  /\ Absent \notin Commits
  /\ Ancestors \in [Commits -> SUBSET Commits]
  /\ \A c \in Commits : c \in Ancestors[c]
  /\ \A c \in Commits :
       \A d \in Ancestors[c] : /\ Ancestors[d] \subseteq Ancestors[c]
                               /\ c \in Ancestors[d] => c = d
  /\ MaxHooks \in Nat

VARIABLES remote,         \* the remote's branches
          tracking,       \* refs/remotes/origin of the clone
          head,           \* the commit checked out, Absent before the clone
          currentBranch,  \* the field of LocalRepoManager
          pc,             \* where SwitchBranch and HandleWebhook are
          branch,         \* the branch they were asked for
          err,            \* why the last webhook ended without a job
          hooks,          \* how often they have been asked
          tips,           \* ghost: what branch has pointed to meanwhile
          headBranch,     \* ghost: the branch head was last taken from
          rewritten       \* ghost: branches that were replaced or deleted

repoVars == <<remote, tracking, head, currentBranch, pc, branch, err, hooks,
              tips, headBranch, rewritten>>

RepoTypeOK ==
  /\ remote \in [Branches -> Commits \cup {Absent}]
  /\ tracking \in [Branches -> Commits \cup {Absent}]
  /\ head \in Commits \cup {Absent}
  /\ currentBranch \in Branches
  /\ pc \in {"uncloned", "idle", "checkout", "fetched", "pull", "submit"}
  /\ pc # "uncloned" => head \in Commits
  /\ branch \in Branches
  /\ err \in {"none", "network", "local", "checkout", "pull"}
  /\ hooks \in 0..MaxHooks
  /\ tips \subseteq Commits \cup {Absent}
  /\ headBranch \in Branches /\ rewritten \subseteq Branches

\* CreateLocalRepoManager: the current branch is taken to be master.
RepoInit ==
  /\ remote \in [Branches -> Commits \cup {Absent}]
  /\ remote[DefaultBranch] # Absent
  /\ tracking = [b \in Branches |-> Absent]
  /\ head = Absent
  /\ currentBranch = Master
  /\ pc = "uncloned"
  /\ branch = Master
  /\ err = "none"
  /\ hooks = 0
  /\ tips = {}
  /\ headBranch = DefaultBranch
  /\ rewritten = {}

-----------------------------------------------------------------------------
\* A webhook is being handled.
Handling == pc \notin {"uncloned", "idle"}

\* External: somebody pushes to the remote, or deletes a branch.
Move(b, c) ==
  /\ remote' = [remote EXCEPT ![b] = c]
  /\ tips' = IF b = branch /\ Handling THEN tips \cup {c} ELSE tips
  /\ UNCHANGED <<tracking, head, currentBranch, pc, branch, err, hooks,
                 headBranch>>

Push(b, c) ==
  /\ remote[b] # c
  /\ \/ /\ remote[b] = Absent \/ remote[b] \in Ancestors[c]
        /\ UNCHANGED rewritten
     \/ /\ "force" \in GitEnv
        /\ remote[b] # Absent /\ remote[b] \notin Ancestors[c]
        /\ rewritten' = rewritten \cup {b}
  /\ Move(b, c)

DeleteBranch(b) ==
  /\ "delete" \in GitEnv
  /\ b # DefaultBranch /\ remote[b] # Absent
  /\ Move(b, Absent)
  /\ rewritten' = rewritten \cup {b}

-----------------------------------------------------------------------------
\* InitialClone: nothing compares the branch with currentBranch.
InitialClone ==
  /\ pc = "uncloned"
  /\ head' = remote[DefaultBranch]
  /\ tracking' = remote
  /\ headBranch' = DefaultBranch
  /\ pc' = "idle"
  /\ UNCHANGED <<remote, currentBranch, branch, err, hooks, tips, rewritten>>

\* What a fetch leaves in refs/remotes: moved branches move, also when they
\* were rewritten; deleted ones stay.
Fetched ==
  [b \in Branches |-> IF remote[b] = Absent THEN tracking[b] ELSE remote[b]]

\* An error of any call is returned and logged; the webhook ends without a job.
Fails(e) == pc' = "idle" /\ err' = e

\* HandleWebhook calls SwitchBranch: a hard reset, and a checkout unless the
\* branch is the current one.
HandleWebhook(b) ==
  /\ pc = "idle"
  /\ hooks < MaxHooks
  /\ hooks' = hooks + 1
  /\ branch' = b
  /\ tips' = {remote[b]}
  /\ \/ pc' = (IF b # currentBranch THEN "checkout" ELSE "pull") /\ err' = "none"
     \/ "local" \in GitEnv /\ Fails("local")
  /\ UNCHANGED <<remote, tracking, head, currentBranch, headBranch, rewritten>>

\* gitlayer.checkout fetches, ...
Fetch ==
  /\ pc = "checkout"
  /\ \/ tracking' = Fetched /\ pc' = "fetched" /\ UNCHANGED err
     \/ "network" \in GitEnv /\ UNCHANGED tracking /\ Fails("network")
  /\ UNCHANGED <<remote, head, currentBranch, branch, hooks, tips, headBranch,
                 rewritten>>

\* Seeded fault: the current branch is set before the checkout can fail.
CheckoutTooSoon ==
  /\ pc = "fetched"
  /\ currentBranch' = branch
  /\ \/ /\ tracking[branch] # Absent
        /\ head' = tracking[branch] /\ headBranch' = branch
        /\ pc' = "pull" /\ UNCHANGED err
     \/ /\ tracking[branch] = Absent
        /\ Fails("checkout") /\ UNCHANGED <<head, headBranch>>
  /\ UNCHANGED <<remote, tracking, branch, hooks, tips, rewritten>>

\* Seeded fault: a missing branch is not noticed.
CheckoutAnything ==
  /\ pc = "fetched"
  /\ head' = tracking[branch]
  /\ headBranch' = branch
  /\ currentBranch' = branch
  /\ pc' = "pull"
  /\ UNCHANGED <<remote, tracking, branch, err, hooks, tips, rewritten>>

\* ... then checks the remote branch out, and only then the manager takes
\* the branch for the current one.
Checkout ==
  /\ pc = "fetched"
  /\ \/ /\ tracking[branch] # Absent
        /\ head' = tracking[branch]
        /\ headBranch' = branch
        /\ currentBranch' = branch
        /\ pc' = "pull"
        /\ UNCHANGED err
     \/ /\ tracking[branch] = Absent
        /\ Fails("checkout")
        /\ UNCHANGED <<head, headBranch, currentBranch>>
  /\ UNCHANGED <<remote, tracking, branch, hooks, tips, rewritten>>

\* HEAD can be moved forward to what the remote has.
FastForward == remote[branch] # Absent /\ head \in Ancestors[remote[branch]]

\* Nothing has moved since the last fetch, and HEAD contains the branch.
NothingNew ==
  /\ tracking = Fetched
  /\ remote[branch] # Absent /\ remote[branch] \in Ancestors[head]

\* Seeded fault: a pull that brings nothing ends the webhook.
PullOfNothing ==
  /\ pc = "pull"
  /\ \/ /\ FastForward /\ head # remote[branch]
        /\ tracking' = Fetched
        /\ head' = remote[branch]
        /\ headBranch' = branch
        /\ pc' = "submit"
        /\ UNCHANGED err
     \/ /\ FastForward => head = remote[branch]
        /\ tracking' = Fetched
        /\ pc' = "idle"
        /\ UNCHANGED <<head, headBranch, err>>
  /\ UNCHANGED <<remote, currentBranch, branch, hooks, tips, rewritten>>

\* Seeded fault: every error of the pull is taken for "already up-to-date".
PullOrNot ==
  /\ pc = "pull"
  /\ tracking' = Fetched
  /\ head' = IF FastForward THEN remote[branch] ELSE head
  /\ headBranch' = IF FastForward THEN branch ELSE headBranch
  /\ pc' = "submit"
  /\ UNCHANGED <<remote, currentBranch, branch, err, hooks, tips, rewritten>>

\* gitlayer.pull: fetch again, then fast-forward HEAD.  Force is an option of
\* the fetch only: a branch that does not descend from HEAD is an error, but
\* "already up-to-date", which is taken for success, when the fetch brought
\* nothing (a new tag counts too) and HEAD is ahead of the branch.
Pull ==
  /\ pc = "pull"
  /\ \/ /\ FastForward
        /\ tracking' = Fetched
        /\ head' = remote[branch]
        /\ headBranch' = branch
        /\ pc' = "submit"
        /\ UNCHANGED err
     \/ /\ ~FastForward /\ NothingNew
        /\ pc' = "submit"
        /\ UNCHANGED <<tracking, head, headBranch, err>>
     \/ /\ ~FastForward
        /\ tracking' = Fetched
        /\ Fails("pull")
        /\ UNCHANGED <<head, headBranch>>
     \/ /\ "network" \in GitEnv
        /\ Fails("network")
        /\ UNCHANGED <<tracking, head, headBranch>>
  /\ UNCHANGED <<remote, currentBranch, branch, hooks, tips, rewritten>>

\* getRenderDir fails: the clone has moved, and no job follows.
NoRenderDir ==
  /\ "local" \in GitEnv
  /\ pc = "submit"
  /\ Fails("local")
  /\ UNCHANGED <<remote, tracking, head, currentBranch, branch, hooks, tips,
                 headBranch, rewritten>>

\* The rest of HandleWebhook: the render job goes to the job manager.
SubmitJob ==
  /\ pc = "submit"
  /\ pc' = "idle"
  /\ tips' = {}
  /\ UNCHANGED <<remote, tracking, head, currentBranch, branch, err, hooks,
                 headBranch, rewritten>>

RepoNext ==
  \/ \E b \in Branches, c \in Commits : Push(b, c)
  \/ \E b \in Branches : DeleteBranch(b) \/ HandleWebhook(b)
  \/ InitialClone
  \/ Fetch
  \/ Checkout
  \/ Pull
  \/ NoRenderDir
  \/ SubmitJob

RepoSpec == RepoInit /\ [][RepoNext]_repoVars

-----------------------------------------------------------------------------
\* The current branch is still the one CreateLocalRepoManager assumed, and
\* the clone is on another one.
Assumed ==
  DefaultBranch # Master /\ currentBranch = Master /\ headBranch = DefaultBranch

\* The source handed to a render job contains a version the branch of the
\* webhook has had since the webhook was taken up: wherever the clone was
\* before, however the remote was rewritten, however earlier webhooks failed.
SubmitsWhatWasPushed ==
  pc = "submit" => \E c \in tips \ {Absent} : c \in Ancestors[head]

\* For a branch that only ever moved forward it is such a version, and has
\* nothing of another branch, once the clone is on the branch it is taken to
\* be on.
SubmitsTheBranch ==
  pc = "submit" /\ ~Assumed => head \in tips \/ branch \in rewritten

\* A webhook for a branch that exists all the while, and only ever moved
\* forward, gets its job unless the network or the disk fails; other branches
\* may be rewritten, and earlier webhooks may have failed at any point.
SteadyBranchIsBuilt ==
  err = "checkout" \/ (err = "pull" /\ ~Assumed) =>
    Absent \in tips \/ branch \in rewritten

-----------------------------------------------------------------------------
(***************************************************************************)
(* What the code does not do.                                              *)
(***************************************************************************)
\* A webhook for a branch that exists all the while gets its job ("When the
\* webhook fires, a rebuild job will be scheduled in the cluster",
\* README.md:51) unless the network or the disk fails: whatever is pushed
\* meanwhile, and whatever the clone was used for before.
ExistingBranchIsBuilt == err \in {"checkout", "pull"} => Absent \in tips

\* When SwitchBranch reports no error the clone is on the branch it was asked
\* for ("SwitchBranch changes to a new branch on current repo",
\* localrepomanager.go:104).
SwitchesBranch == pc = "submit" => head \in tips

-----------------------------------------------------------------------------
(***************************************************************************)
(* The inductive invariant behind them.                                    *)
(***************************************************************************)
\* There is always something to clone.
DefaultExists == remote[DefaultBranch] # Absent

\* Until the clone nothing has changed the current branch.
MasterAtFirst == pc = "uncloned" => currentBranch = Master

\* From then on it is the branch the clone is on, unless it is only assumed.
BranchOK == pc # "uncloned" => headBranch = currentBranch \/ Assumed

\* What tips is: while a webhook is handled, every value its branch has had.
TipsOK == pc \in {"checkout", "fetched", "pull"} => remote[branch] \in tips

\* After a fetch the branch is known, unless it was missing on the way.
FetchedOK == pc = "fetched" => Absent \in tips \/ tracking[branch] # Absent

\* A pull is a pull of the current branch.
PullOK == pc \in {"pull", "submit"} \/ err = "pull" => branch = currentBranch

\* An error is the last webhook's, and ended it.
ErrOK == pc # "idle" => err = "none"

\* What the clone knows of a branch that only moves forward is behind it.
Behind(b, c) == remote[b] # Absent /\ c \in Ancestors[remote[b]]

TrackingBehind ==
  \A b \in Branches \ rewritten : tracking[b] # Absent => Behind(b, tracking[b])

\* HEAD is behind the branch it was taken from.
HeadBehind ==
  pc # "uncloned" /\ headBranch \notin rewritten => Behind(headBranch, head)

RepoIInv ==
  /\ RepoTypeOK
  /\ DefaultExists
  /\ MasterAtFirst
  /\ BranchOK
  /\ TipsOK
  /\ FetchedOK
  /\ PullOK
  /\ ErrOK
  /\ TrackingBehind
  /\ HeadBehind
  /\ SubmitsWhatWasPushed
  /\ SubmitsTheBranch
  /\ SteadyBranchIsBuilt

=============================================================================
