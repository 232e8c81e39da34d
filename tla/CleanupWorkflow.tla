--------------------------- MODULE CleanupWorkflow ---------------------------
(***************************************************************************)
(* workflows/ai-slop-cleanup.ts: an agent is asked to clean one file after *)
(* another; each attempt is judged by what git says of the working tree,   *)
(* validated and repaired, and kept or restored; a group of files is       *)
(* committed when its last file is done, the tree is verified, and the     *)
(* branch is pushed.                                                       *)
(*                                                                         *)
(* The content of a path is an edit number, 0 as on the base branch (for a *)
(* path that is not a file of the project: absent).  Agents write what     *)
(* they like where they like; as they are told, they leave the index and   *)
(* the branch alone.                                                       *)
(*                                                                         *)
(*   stage      what the workflow does next                                *)
(*   group      the group of files it is at; next: the file it is at       *)
(*   processed  files asked for, against the limit maxFiles                *)
(*   head, work the content of a path at HEAD and in the working tree      *)
(*   attempt    the snapshot before the edit, the extra files it may       *)
(*              change, and the repairs made                               *)
(*   accepted   acceptedPaths, which are the changedFiles of the report    *)
(*   approved   history: content each path had when it was accepted        *)
(*   behind     history: paths accepted after their group's commit         *)
(*   refused    history: changed paths of a restore that git refused       *)
(***************************************************************************)
EXTENDS Naturals, Sequences, FiniteSets

CONSTANTS
    Order,          \* the candidate files, sorted by group
    Untracked,      \* paths of files the project does not have
    GroupOf,        \* groupForFile, the groups numbered in order
    TestOf,         \* findTargetedTest, or NoTest
    NoTest,
    Groups,         \* how many groups there are
    Contents,       \* bound of the model: the edits told apart
    RepairCeiling,  \* the fix loop's maxIterations
    Limits          \* values of --max-files

Files == {Order[i] : i \in 1..Len(Order)}
Paths == Files \cup Untracked

ASSUME CleanupConstants ==
    /\ Order \in Seq(Files) /\ Files \cap Untracked = {} /\ NoTest \notin Paths
    /\ Groups \in Nat \ {0} /\ RepairCeiling \in Nat /\ Limits \subseteq Nat
    /\ Contents \subseteq Nat /\ 0 \in Contents
    /\ GroupOf \in [Paths -> 1..Groups]
    /\ TestOf \in [Files -> Files \cup {NoTest}]
    /\ \A i, j \in 1..Len(Order) : i < j => GroupOf[Order[i]] <= GroupOf[Order[j]]

VARIABLES stage, group, next, processed, maxFiles, head, work, attempt,
          accepted, approved, behind, refused
position  == <<group, next, processed, maxFiles>>
histories == <<approved, behind, refused>>
cleanupVars == <<stage, position, head, work, attempt, accepted, histories>>

NoAttempt == [before |-> [p \in Paths |-> 0], extras |-> {}, repairs |-> 0]

CleanupTypeOK ==
    /\ stage \in {"start", "file", "edit", "validate", "repair", "commit", "verify", "published", "over"}
    /\ group \in 1..Groups /\ next \in 1..(Len(Order) + 1)
    /\ processed \in 0..Len(Order) /\ maxFiles \in Limits
    /\ {head, work, approved} \subseteq [Paths -> Contents]
    /\ attempt \in [before : [Paths -> Contents], extras : SUBSET Files, repairs : 0..RepairCeiling]
    /\ accepted \subseteq Files /\ behind \subseteq Files /\ refused \subseteq Files

(* The working tree is clean: assertCleanWorktree has passed.              *)
CleanupInit ==
    /\ stage = "start"
    /\ group = 1 /\ next = 1 /\ processed = 0 /\ maxFiles \in Limits
    /\ head = [p \in Paths |-> 0] /\ work = head
    /\ attempt = NoAttempt
    /\ accepted = {} /\ approved = head /\ behind = {} /\ refused = {}

-----------------------------------------------------------------------------
(* What git says.                                                          *)

Tracked(p) == p \in Files \/ head[p] # 0
Dirty(w) == {p \in Paths : w[p] # head[p]}

(* git diff has nothing to say of an untracked path.                       *)
Differs(p, w, v) == Tracked(p) /\ w[p] # v[p]

(* A mutant: paths that were dirty before are not looked at again.         *)
AttemptPaths_NewOnly(before, w) == Dirty(w) \ Dirty(before)

(* attemptPathsSince: newly changed paths, and paths that were dirty       *)
(* before and are so otherwise.                                            *)
AttemptPaths(before, w) ==
    (Dirty(w) \ Dirty(before)) \cup {p \in Dirty(w) \cap Dirty(before) : Differs(p, w, before)}

(* evaluateDiffGuard                                                       *)
InScope(target, paths, extras) ==
    paths # {} => target \in paths /\ paths \subseteq {target} \cup extras

(* restoreAttempt: git restore takes the paths back to HEAD, or refuses    *)
(* all of them when it does not know one; git clean then removes what is   *)
(* untracked.  Neither result is looked at.                                *)
GitRefuses(paths) == \E p \in paths : ~Tracked(p)

Restored(paths, w) ==
    [p \in Paths |-> IF p \in paths /\ (Tracked(p) => ~GitRefuses(paths)) THEN head[p] ELSE w[p]]

NowRefused(paths) == refused \cup (IF GitRefuses(paths) THEN {p \in paths : Tracked(p)} ELSE {})

(* An agent's turn: any paths are written.                                 *)
Written(w, hit, content) == [p \in Paths |-> IF p \in hit THEN content ELSE w[p]]

-----------------------------------------------------------------------------
(* The sequence of files.                                                  *)

Target == Order[next]
InGroup == next <= Len(Order) /\ GroupOf[Target] = group
AtLimit == processed >= maxFiles

(* The branch is made and the baseline validated; a dry run ends here.     *)
StartCleanup ==
    /\ stage = "start"
    /\ stage' \in {"file", "over"}
    /\ UNCHANGED <<position, head, work, attempt, accepted, histories>>

SkipAccepted ==
    /\ stage = "file" /\ InGroup /\ Target \in accepted
    /\ next' = next + 1
    /\ UNCHANGED <<stage, group, processed, maxFiles, head, work, attempt, accepted, histories>>

EndGroup ==
    /\ stage = "file" /\ (InGroup => Target \notin accepted /\ AtLimit)
    /\ stage' = "commit"
    /\ UNCHANGED <<position, head, work, attempt, accepted, histories>>

(* A path that was accepted before may not be changed again.               *)
AllowedExtras == {TestOf[Target]} \ ({NoTest, Target} \cup accepted)

(* The state before the attempt is recorded, then the targeted test runs.  *)
BeginFile ==
    /\ stage = "file" /\ InGroup /\ Target \notin accepted /\ ~AtLimit
    /\ processed' = processed + 1
    /\ \/ /\ stage' = "edit" /\ next' = next
          /\ attempt' = [before |-> work, repairs |-> 0, extras |-> AllowedExtras]
       \/ /\ stage' = "file" /\ next' = next + 1          \* precondition-skip
          /\ UNCHANGED attempt
    /\ UNCHANGED <<group, maxFiles, head, work, accepted, histories>>

(* The outcome of a file that is not kept.                                 *)
Drop(paths, w) ==
    /\ work' = Restored(paths, w)
    /\ refused' = NowRefused(paths)
    /\ stage' = "file" /\ next' = next + 1 /\ attempt' = NoAttempt
    /\ UNCHANGED <<group, processed, maxFiles, head, accepted, approved, behind>>

(* The agent's edit and its judgement.  The turn throws, or answers for    *)
(* another path, or says whether it has changed anything; an agent that    *)
(* has neither said nor done anything has declined, and there is nothing   *)
(* to restore.                                                             *)
AgentEdits(hit, content, answer) ==
    /\ stage = "edit"
    /\ LET w == Written(work, hit, content)
           paths == AttemptPaths(attempt.before, w)
       IN  IF \/ answer \in {"threw", "mismatch"}
              \/ answer = "unchanged" /\ paths = {}
              \/ ~InScope(Target, paths, attempt.extras)
           THEN Drop(paths, w)
           ELSE /\ work' = w /\ stage' = "validate"
                /\ UNCHANGED <<position, head, attempt, accepted, histories>>

-----------------------------------------------------------------------------
(* The fix loop: validate, repair, until it converges or gives up.         *)

Since == AttemptPaths(attempt.before, work)

FinalGuard == InScope(Target, Since, attempt.extras)

Validated ==
    /\ stage = "validate" /\ FinalGuard
    /\ accepted' = accepted \cup Since
    /\ approved' = [p \in Paths |-> IF p \in Since THEN work[p] ELSE approved[p]]
    /\ behind' = behind \cup {p \in Since : GroupOf[p] < group}
    /\ stage' = "file" /\ next' = next + 1 /\ attempt' = NoAttempt
    /\ UNCHANGED <<group, processed, maxFiles, head, work, refused>>

ValidatedOutOfScope ==
    /\ stage = "validate" /\ ~FinalGuard
    /\ Drop(Since, work)

(* Validation fails, and the signature of the failure has been seen        *)
(* before, or the ceiling or the wall clock is reached.                    *)
GiveUp == stage = "validate" /\ Drop(Since, work)

ValidationFails ==
    /\ stage = "validate" /\ attempt.repairs < RepairCeiling
    /\ stage' = "repair"
    /\ UNCHANGED <<position, head, work, attempt, accepted, histories>>

(* A repair that throws, or leaves the attempt out of scope, is undone as  *)
(* far as it has dirtied paths that were clean; the rest of it stays.      *)
Repair(hit, content, throws) ==
    /\ stage = "repair"
    /\ LET w == Written(work, hit, content)
           undone == Dirty(w) \ Dirty(work)
           inScope == InScope(Target, AttemptPaths(attempt.before, w), attempt.extras)
       IN  IF throws \/ ~inScope
           THEN work' = Restored(undone, w) /\ refused' = NowRefused(undone)
           ELSE work' = w /\ UNCHANGED refused
    /\ attempt' = [attempt EXCEPT !.repairs = @ + 1]
    /\ stage' = "validate"
    /\ UNCHANGED <<position, head, accepted, approved, behind>>

-----------------------------------------------------------------------------
(* Commits and publication.                                                *)

GroupDirt == {p \in Dirty(work) : GroupOf[p] = group}

(* Whatever is dirty in the group is committed; git may fail.              *)
Commit ==
    /\ stage = "commit"
    /\ head' = [p \in Paths |-> IF p \in GroupDirt THEN work[p] ELSE head[p]]
    /\ IF AtLimit \/ group = Groups
       THEN stage' = "verify" /\ UNCHANGED group
       ELSE stage' = "file" /\ group' = group + 1
    /\ UNCHANGED <<next, processed, maxFiles, work, attempt, accepted, histories>>

(* The working tree is verified, the branch is pushed.                     *)
Publish ==
    /\ stage = "verify" /\ accepted # {}
    /\ stage' = "published"
    /\ UNCHANGED <<position, head, work, attempt, accepted, histories>>

(* A commit, the verification or the publication fails or is not wanted,   *)
(* or nothing was accepted.                                                *)
Stop ==
    /\ stage \in {"commit", "verify"}
    /\ stage' = "over"
    /\ UNCHANGED <<position, head, work, attempt, accepted, histories>>

CleanupNext ==
    \/ StartCleanup \/ SkipAccepted \/ EndGroup \/ BeginFile
    \/ \E hit \in SUBSET Paths, content \in Contents :
          \/ \E answer \in {"threw", "mismatch", "unchanged", "changed"} : AgentEdits(hit, content, answer)
          \/ \E throws \in BOOLEAN : Repair(hit, content, throws)
    \/ Validated \/ ValidatedOutOfScope \/ GiveUp \/ ValidationFails
    \/ Commit \/ Publish \/ Stop

-----------------------------------------------------------------------------
(* What is pushed is what was judged: a path of the pushed branch has the  *)
(* content of the base or the one it had when it was found in scope and    *)
(* validated, whatever agents did later; and it is what the last           *)
(* verification saw.  Three ways out are in the code: a restore that git   *)
(* refused, a test whose group was committed before it was accepted, and a *)
(* path whose group was not reached.                                       *)
PublishedIsApproved ==
    stage = "published" =>
        \A p \in Paths \ refused :
            /\ head[p] \in {0, approved[p]}
            /\ head[p] = work[p] \/ p \in behind \/ GroupOf[p] > group
=============================================================================
