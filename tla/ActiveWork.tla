----------------------------- MODULE ActiveWork -----------------------------
(***************************************************************************)
(* .orca/workflows/codebase-improvement.ts, the body of an improvement     *)
(* run: preflight, scout (ScoutFanout), reproduction of one ranked         *)
(* candidate after the other, implementation, repairs, review, full gate,  *)
(* commit, push and the ready pull request.  Agents edit the worktree in   *)
(* their own stages; a bystander (an editor, a formatter, an agent's       *)
(* leftover child) may change worktree or index, or commit, amend or       *)
(* reset, at any time.                                                     *)
(*                                                                         *)
(*   stage    what the worker does next                                    *)
(*   clock    how much of the worker's deadline is left: "ample" until 2 s *)
(*            before the end, then "last", then "over"                     *)
(*   ranked   the candidates not tried yet; chosen: the one being tried    *)
(*   tree     the worktree: for each candidate's test file, for the        *)
(*            production code and for all other paths, what is there       *)
(*   index    the staged tree                                              *)
(*   head     the commit HEAD names: its tree, and whether it is the base  *)
(*            commit, one child of it, or anything else                    *)
(*   validated   the commit of validatedHeadSha; pushed: the branch on     *)
(*            origin                                                       *)
(*   moved    (history) a bystander moved HEAD between the two looks that  *)
(*            the run takes at its commit                                  *)
(*   snapshot the worktree as captured before a reproduction               *)
(*   manifest verifiedContentManifest                                      *)
(*   drifts   history: how often a bystander has acted                     *)
(*   failed   bodyFailed                                                   *)
(*   built    deliveryRecord is defined                                    *)
(***************************************************************************)
EXTENDS ScoutFanout, DeliveryContinuation

CONSTANT MaxDrifts   \* bound on what bystanders do

ASSUME WorkConstants == MaxDrifts \in Nat

VARIABLES stage, clock, ranked, chosen, tree, index, head, validated, pushed, moved, snapshot, manifest, drifts, failed, built
commits    == <<head, validated, pushed, moved>>
contents   == <<tree, index, commits, snapshot, manifest, drifts>>
workVars   == <<stage, clock, ranked, chosen, contents, failed, built>>

Trees == [test : [Scopes -> {"base", "red", "other"}], prod : {"base", "fix", "other"}, stray : BOOLEAN]

Base == [test |-> [s \in Scopes |-> "base"], prod |-> "base", stray |-> FALSE]

Commits == [tree : Trees, on : {"base", "child", "other"}]

BaseCommit == [tree |-> Base, on |-> "base"]

BodyStages == {"preflight", "gather", "scout", "reproduce", "redGate", "restore", "select", "implement", "targeted",
               "targetedAgain", "review", "reviewRepair", "verify", "manifest", "preStage", "staged",
               "commit", "committed", "range", "contents", "push", "pullRequest", "readyProof"}

FinalStages == {"shutdown", "artifacts", "report"}

Clocks == {"ample", "last", "over"}

WorkTypeOK ==
    /\ stage \in BodyStages \cup FinalStages \cup {"gone"}
    /\ clock \in Clocks
    /\ ranked \subseteq Scopes /\ chosen \in Scopes \cup {None}
    /\ \A t \in {tree, index, snapshot, manifest} : t = None \/ t \in Trees
    /\ \A c \in {head, validated, pushed} : c = None \/ c \in Commits
    /\ drifts \in 0..MaxDrifts
    /\ \A flag \in {moved, failed, built} : flag \in BOOLEAN

WorkInit ==
    /\ stage = "preflight" /\ clock = "ample"
    /\ ranked = {} /\ chosen = None
    /\ tree = Base /\ index = Base /\ head = BaseCommit
    /\ validated = None /\ pushed = None /\ snapshot = None /\ manifest = None
    /\ moved = FALSE /\ drifts = 0 /\ failed = FALSE /\ built = FALSE

----------------------------------------------------------------------------
(* Every operation of the body is budgeted: one that would begin past the  *)
(* work deadline, or reaches it, fails the body (BodyFails).               *)
Passes(from, to) == stage = from /\ stage' = to

Unscouted == UNCHANGED <<scoutVars, deliveryVars>>
Unfailed  == UNCHANGED <<clock, failed, built>>

(* Nothing after the body looks at worktree, index or the branch again.    *)
LeaveWorktree ==
    /\ tree' = None /\ index' = None /\ head' = None /\ validated' = None /\ pushed' = None
    /\ snapshot' = None /\ manifest' = None /\ moved' = FALSE /\ drifts' = 0
    /\ ranked' = {} /\ chosen' = None

(* Anything may fail or run out of time; the body's catch block records    *)
(* the failure and the finalization begins with what time is left.         *)
BodyFails ==
    /\ stage \in BodyStages
    /\ stage' = "shutdown"
    /\ failed' = TRUE
    /\ clock' \in Clocks
    /\ LeaveWorktree
    /\ EndScout
    /\ UNCHANGED <<built, deliveryVars>>

(* changedPaths asks git for what differs from HEAD, wherever that is.      *)
ChangedTests(t, from) == {s \in Scopes : t.test[s] # from.test[s]}

(* validateChangedPaths: the candidate's own test and production code have *)
(* changed, and nothing else.                                              *)
OwnPaths(t, from) == ChangedTests(t, from) = {chosen} /\ t.prod # from.prod /\ t.stray = from.stray

InScope(t) == OwnPaths(t, head.tree)

(* A reproduction may change nothing but its test.                         *)
OnlyTest(t) ==
    ChangedTests(t, head.tree) \subseteq {chosen} /\ t.prod = head.tree.prod /\ t.stray = head.tree.stray

(* assertImmutableTestDiff: the regression test differs from HEAD as it    *)
(* did when it was red.                                                    *)
TestKept(t) == t.test[chosen] = "red" /\ head.tree.test[chosen] = "base"

(* Any gate: the candidate's test, lint, or the full verification.         *)
GatePasses(t) == TestKept(t) /\ t.prod = "fix"

(* What an agent may leave in the worktree, whatever it was told to do.    *)
AgentEdits ==
    {[tree EXCEPT !.test[chosen] = test, !.prod = prod, !.stray = stray] :
       test \in {"base", "red", "other"}, prod \in {"base", "fix", "other"}, stray \in {tree.stray, TRUE}}

(* The attestation, the baseline gate (with a repair by an agent when it   *)
(* fails), readiness, and a HEAD that is origin/main.                      *)
Preflight ==
    /\ Passes("preflight", "gather")
    /\ tree' \in {tree, [tree EXCEPT !.prod = "other"]}
    /\ UNCHANGED <<ranked, chosen, index, commits, snapshot, manifest, drifts>>
    /\ Unfailed /\ Unscouted

(* The evidence the scouts are given is gathered without a change to the   *)
(* worktree, and holds at least one source-test pair.                      *)
GatherEvidence ==
    /\ Passes("gather", "scout")
    /\ Scopes # {}
    /\ UNCHANGED <<ranked, chosen, contents>>
    /\ Unfailed /\ Unscouted

(* The controller of the scout stage; finalizeScopedScoutRecords ranks at  *)
(* least one accepted candidate or fails the run.                          *)
Scouting ==
    /\ stage = "scout"
    /\ ScoutNext
    /\ UNCHANGED <<workVars, deliveryVars>>

RankCandidates ==
    /\ fanout = "done" /\ Accepted # {}
    /\ Passes("scout", "reproduce")
    /\ ranked' = Accepted
    /\ EndScout
    /\ UNCHANGED <<chosen, contents, deliveryVars>>
    /\ Unfailed

(* runRankedCandidateFallback goes on with the next candidate.             *)
NextCandidate(c) == c \in ranked /\ chosen' = c /\ ranked' = ranked \ {c}

(* What the agent may leave: a tool call that names another file than the  *)
(* test fails the run, a change made without one does not.                 *)
Reproduced(c) ==
    {[tree EXCEPT !.test[c] = test, !.prod = prod] :
       test \in {"base", "red", "other"}, prod \in {tree.prod, "other"}}

(* A snapshot is captured and the agent writes a test.                     *)
Reproduce ==
    /\ Passes("reproduce", "redGate")
    /\ \E c \in Scopes : NextCandidate(c) /\ tree' \in Reproduced(c)
    /\ snapshot' = tree
    /\ UNCHANGED <<index, commits, manifest, drifts>>
    /\ Unfailed /\ Unscouted

(* Only the test may have changed.  A test that fails where its control    *)
(* passes is accepted; any flaw in that proof rejects the candidate.       *)
RedGate ==
    /\ \/ Passes("redGate", "select") /\ TestKept(tree)
       \/ Passes("redGate", "restore")
    /\ OnlyTest(tree)
    /\ UNCHANGED <<ranked, chosen, contents>>
    /\ Unfailed /\ Unscouted

PutBack == [tree EXCEPT !.test[chosen] = snapshot.test[chosen]]

(* restoreExactFileSnapshot: the test is put back and the whole worktree   *)
(* must then be as it was captured.                                        *)
Restore ==
    /\ Passes("restore", "reproduce")
    /\ tree' = PutBack
    /\ PutBack = snapshot
    /\ snapshot' = None
    /\ UNCHANGED <<ranked, chosen, index, commits, manifest, drifts>>
    /\ Unfailed /\ Unscouted

SelectPlan ==
    /\ Passes("select", "implement")
    /\ UNCHANGED <<ranked, chosen, contents>>
    /\ Unfailed /\ Unscouted

(* An agent works and its edit must keep the test and stay in scope.       *)
Edits(from, to) ==
    /\ Passes(from, to)
    /\ tree' \in {t \in AgentEdits : TestKept(t) /\ InScope(t)}
    /\ UNCHANGED <<ranked, chosen, index, commits, snapshot, manifest, drifts>>
    /\ Unfailed /\ Unscouted

Implement == Edits("implement", "targeted")

(* fixLoop with one repair: the targeted gate, and once more after it.     *)
TargetedPasses ==
    /\ stage \in {"targeted", "targetedAgain"}
    /\ Passes(stage, "review")
    /\ GatePasses(tree)
    /\ UNCHANGED <<ranked, chosen, contents>>
    /\ Unfailed /\ Unscouted

TargetedRepair == stage = "targeted" /\ ~GatePasses(tree) /\ Edits("targeted", "targetedAgain")

(* No blocking finding, or only fixable ones.                              *)
Review ==
    /\ stage = "review"
    /\ \E next \in {"verify", "reviewRepair"} : Passes("review", next)
    /\ UNCHANGED <<ranked, chosen, contents>>
    /\ Unfailed /\ Unscouted

(* One repair, its checks and gate, and a second review without blockers.  *)
ReviewRepair ==
    /\ Edits("reviewRepair", "verify")
    /\ GatePasses(tree')

(* The full gate; then the test, the scope and the manifest.               *)
Verify ==
    /\ Passes("verify", "manifest")
    /\ GatePasses(tree)
    /\ UNCHANGED <<ranked, chosen, contents>>
    /\ Unfailed /\ Unscouted

CaptureManifest ==
    /\ Passes("manifest", "preStage")
    /\ TestKept(tree) /\ InScope(tree)
    /\ manifest' = tree
    /\ UNCHANGED <<ranked, chosen, tree, index, commits, snapshot, drifts>>
    /\ Unfailed /\ Unscouted

(* assertGitManifestUnchanged: a manifest lists the candidate's own paths. *)
Unchanged(t) == t.test[chosen] = manifest.test[chosen] /\ t.prod = manifest.prod

(* The worktree still is what was verified, and its paths are staged: what *)
(* is there by then, on top of what the index holds of other paths.        *)
Stage ==
    /\ Passes("preStage", "staged")
    /\ TestKept(tree) /\ InScope(tree) /\ Unchanged(tree)
    /\ index' = [index EXCEPT !.test[chosen] = tree.test[chosen], !.prod = tree.prod]
    /\ UNCHANGED <<ranked, chosen, tree, commits, snapshot, manifest, drifts>>
    /\ Unfailed /\ Unscouted

(* The staged paths and their contents, and that HEAD is the base commit.  *)
CheckStaged ==
    /\ Passes("staged", "commit")
    /\ InScope(index) /\ Unchanged(index) /\ head.on = "base"
    /\ UNCHANGED <<ranked, chosen, contents>>
    /\ Unfailed /\ Unscouted

(* git commit takes the index, and refuses when it has nothing to commit.  *)
Commit ==
    /\ Passes("commit", "committed")
    /\ index # head.tree
    /\ head' = [tree |-> index, on |-> IF head.on = "base" THEN "child" ELSE "other"]
    /\ UNCHANGED <<ranked, chosen, tree, index, validated, pushed, moved, snapshot, manifest, drifts>>
    /\ Unfailed /\ Unscouted

(* validatedHeadSha is what HEAD names now; its ancestry and its paths are *)
(* asked for by that name.                                                 *)
ValidateCommit ==
    /\ Passes("committed", "range")
    /\ head.on = "child" /\ OwnPaths(head.tree, Base)
    /\ validated' = head
    /\ UNCHANGED <<ranked, chosen, tree, index, head, pushed, moved, snapshot, manifest, drifts>>
    /\ Unfailed /\ Unscouted

(* Mutant: what was committed is taken to be what was staged.              *)
CheckContents_Trusts ==
    /\ Passes("range", "contents")
    /\ UNCHANGED <<ranked, chosen, contents>>
    /\ Unfailed /\ Unscouted

(* captureCandidateCommitManifest: ls-tree of what HEAD names by then.     *)
CheckContents ==
    /\ Passes("range", "contents")
    /\ Unchanged(head.tree)
    /\ UNCHANGED <<ranked, chosen, contents>>
    /\ Unfailed /\ Unscouted

(* The worktree once more, and the branch and its remotes.                 *)
CheckWorktree ==
    /\ Passes("contents", "push")
    /\ Unchanged(tree)
    /\ UNCHANGED <<ranked, chosen, contents>>
    /\ Unfailed /\ Unscouted

(* The push of validatedHeadSha, confirmed by ls-remote.                   *)
Push ==
    /\ Passes("push", "pullRequest")
    /\ pushed' = validated
    /\ UNCHANGED <<ranked, chosen, tree, index, head, validated, moved, snapshot, manifest, drifts>>
    /\ Unfailed /\ Unscouted

CreatePullRequest ==
    /\ Passes("pullRequest", "readyProof")
    /\ pr' \in OpenPullRequest
    /\ UNCHANGED <<ranked, chosen, contents, scoutVars, sent, files, locks, pc, exit, local>>
    /\ Unfailed

(* assertPullRequestHead, and the delivery record is built: the body ends. *)
ReadyProof ==
    /\ Passes("readyProof", "shutdown")
    /\ pr.locked
    /\ built' = TRUE
    /\ LeaveWorktree
    /\ UNCHANGED <<clock, failed>>
    /\ Unscouted

BodyStep ==
    \/ Preflight \/ GatherEvidence \/ Scouting \/ RankCandidates \/ Reproduce \/ RedGate \/ Restore \/ SelectPlan
    \/ Implement \/ TargetedPasses \/ TargetedRepair \/ Review \/ ReviewRepair \/ Verify
    \/ CaptureManifest \/ Stage \/ CheckStaged \/ Commit \/ ValidateCommit \/ CheckContents \/ CheckWorktree \/ Push
    \/ CreatePullRequest \/ ReadyProof \/ BodyFails

Touched(t) ==
    {[t EXCEPT !.prod = "other"], [t EXCEPT !.stray = TRUE]} \cup {[t EXCEPT !.test[s] = "other"] : s \in Scopes}

(* Someone else changes one thing in the worktree or in the index; commits *)
(* or amends what is staged or all there is; or goes back to the base      *)
(* commit.  The branch stays the same.                                     *)
Drift ==
    /\ stage \in BodyStages \ {"preflight", "gather", "scout"} /\ drifts < MaxDrifts
    /\ drifts' = drifts + 1
    /\ \/ tree' \in Touched(tree) /\ UNCHANGED <<index, head, moved>>
       \/ index' \in Touched(index) /\ UNCHANGED <<tree, head, moved>>
       \/ /\ \/ head' \in [tree : {index}, on : {"child", "other"}] /\ UNCHANGED index
             \/ head' \in [tree : {tree}, on : {"child", "other"}] /\ index' = tree
             \/ head' = BaseCommit /\ UNCHANGED index
          /\ moved' = (moved \/ stage = "range")
          /\ UNCHANGED tree
    /\ UNCHANGED <<stage, ranked, chosen, validated, pushed, snapshot, manifest>>
    /\ Unfailed /\ Unscouted

----------------------------------------------------------------------------
(* What reaches origin is one commit on top of the base that changes the   *)
(* candidate's own paths and no other, whatever happened to worktree,      *)
(* index and HEAD in between.  Its contents are the manifest's, captured   *)
(* after the full gate, with the accepted red test -- unless HEAD was      *)
(* moved between the rev-parse that names the commit to push and the       *)
(* ls-tree HEAD that reads the contents to compare.                        *)
PushedIsVerified ==
    pushed # None =>
        /\ pushed.on = "child" /\ OwnPaths(pushed.tree, Base)
        /\ ~moved => Unchanged(pushed.tree) /\ pushed.tree.test[chosen] = "red"
=============================================================================
