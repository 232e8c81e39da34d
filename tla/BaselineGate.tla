----------------------------- MODULE BaselineGate -----------------------------
(***************************************************************************)
(* baseline/index.ts: before a workflow asks an agent for anything, the    *)
(* verification commands must pass.  Depending on the policy a worktree    *)
(* with uncommitted work is refused, or recorded in a snapshot first; then *)
(* the commands run, and if they fail a repair callback and the commands   *)
(* take turns in a fix loop.  The commands may write to the worktree too.  *)
(*                                                                         *)
(*   call        the policy of runBaselineGate, or "snapshot" for a call   *)
(*               of captureDirtyBaselineSnapshot                           *)
(*   canRepair   the caller gave a repair callback                         *)
(*   gate        what the gate does next                                   *)
(*   dirty       there was uncommitted work when the gate began            *)
(*   tree        the uncommitted work, part by part: as it was then, or    *)
(*               written to since                                          *)
(*   captured    the parts held in memory, snapshot: those on disk         *)
(*   latest      the last run of the commands, and the repairs before it   *)
(*   repairs     repairs made                                              *)
(*   verdict     what the monitor was told                                 *)
(***************************************************************************)
EXTENDS Naturals

CONSTANT MaxRepairs   \* maxIterations

ASSUME BaselineConstants == MaxRepairs \in Nat

VARIABLES call, canRepair, gate, dirty, tree, captured, snapshot, latest, repairs, verdict
gateCall == <<call, canRepair, dirty>>
baselineVars == <<gateCall, gate, tree, captured, snapshot, latest, repairs, verdict>>

Policies == {"repair", "strict", "accept-dirty"}

(* The two diffs and the list of untracked files are recorded; what is in  *)
(* the untracked files is not.                                             *)
Recorded == {"staged", "unstaged", "untracked names"}
Parts == Recorded \cup {"untracked contents"}
Worktrees == [Parts -> {"original", "written"}]
Snapshots == [Recorded -> {"none", "original", "written", "unreadable"}]
Nothing == [part \in Recorded |-> "none"]

BaselineTypeOK ==
    /\ call \in Policies \cup {"snapshot"} /\ {canRepair, dirty} \subseteq BOOLEAN
    /\ gate \in {"status", "capture", "commands", "save", "decide", "returned", "threw"}
    /\ tree \in Worktrees /\ {captured, snapshot} \subseteq Snapshots
    /\ latest \in [passed : BOOLEAN, after : 0..MaxRepairs] /\ repairs \in 0..MaxRepairs
    /\ verdict \in {"none", "failure", "clean", "repaired", "regressed"}

BaselineInit ==
    /\ call \in Policies \cup {"snapshot"} /\ canRepair \in BOOLEAN /\ dirty \in BOOLEAN
    /\ gate = "status" /\ tree = [part \in Parts |-> "original"]
    /\ captured = Nothing /\ snapshot = Nothing
    /\ latest = [passed |-> FALSE, after |-> 0]
    /\ repairs = 0 /\ verdict = "none"

-----------------------------------------------------------------------------
Throw == gate' = "threw"

(* recordBaselineOutcome, before the gate returns or throws.               *)
RecordOutcome(v) == verdict' = v

StatusFails ==
    /\ gate = "status" /\ Throw
    /\ UNCHANGED <<gateCall, tree, captured, snapshot, latest, repairs, verdict>>

ReadStatus ==
    /\ gate = "status"
    /\ IF dirty /\ call \in {"repair", "strict"}
       THEN Throw /\ verdict' = "failure"
       ELSE gate' = (IF call = "snapshot" /\ ~dirty THEN "returned" ELSE "capture") /\ UNCHANGED verdict
    /\ UNCHANGED <<gateCall, tree, captured, snapshot, latest, repairs>>

(* Of each recorded part what git says of it, which is something else when *)
(* git fails.                                                              *)
CaptureDirtyBaseline ==
    /\ gate = "capture"
    /\ captured' \in Snapshots
    /\ \A part \in Recorded : captured'[part] \in IF dirty THEN {tree[part], "unreadable"} ELSE {"none"}
    /\ gate' = "commands"
    /\ UNCHANGED <<gateCall, tree, snapshot, latest, repairs, verdict>>

(* Any of the parts is written to, or none.                                *)
Overwritten == {after \in Worktrees : \A part \in Parts : after[part] \in {tree[part], "written"}}

(* The commands run up to the first that fails; the tool may throw.        *)
RunGate ==
    /\ gate = "commands"
    /\ tree' \in Overwritten
    /\ \/ Throw /\ UNCHANGED latest
       \/ /\ \E passed \in BOOLEAN : latest' = [passed |-> passed, after |-> repairs]
          /\ gate' = IF captured # Nothing /\ snapshot = Nothing THEN "save" ELSE "decide"
    /\ UNCHANGED <<gateCall, captured, snapshot, repairs, verdict>>

(* A mutant: the diffs are made when they are written.                     *)
WriteSnapshot_Late ==
    /\ gate = "save"
    /\ snapshot' = [part \in Recorded |-> tree[part]] /\ gate' = "decide"
    /\ UNCHANGED <<gateCall, tree, captured, latest, repairs, verdict>>

WriteSnapshot ==
    /\ gate = "save"
    /\ \/ Throw /\ UNCHANGED snapshot
       \/ snapshot' = captured /\ gate' = IF call = "snapshot" THEN "returned" ELSE "decide"
    /\ UNCHANGED <<gateCall, tree, captured, latest, repairs, verdict>>

Passed ==
    /\ gate = "decide" /\ latest.passed
    /\ gate' = "returned"
    /\ RecordOutcome(IF repairs = 0 THEN "clean" ELSE "repaired")
    /\ UNCHANGED <<gateCall, tree, captured, snapshot, latest, repairs>>

(* Repairs are not wanted or not possible, or the fix loop gives up: out   *)
(* of steps, time or progress -- or out of tokens, which it looks at       *)
(* before it looks at what the last step has reached.                      *)
Regressed ==
    /\ gate = "decide" /\ (~latest.passed \/ repairs > 0)
    /\ Throw /\ RecordOutcome("regressed")
    /\ UNCHANGED <<gateCall, tree, captured, snapshot, latest, repairs>>

(* The callback writes what it likes; when it throws nobody is told.       *)
RepairBaseline ==
    /\ gate = "decide" /\ ~latest.passed
    /\ call # "strict" /\ canRepair /\ repairs < MaxRepairs
    /\ tree' \in Overwritten /\ repairs' = repairs + 1
    /\ gate' \in {"commands", "threw"}
    /\ UNCHANGED <<gateCall, captured, snapshot, latest, verdict>>

BaselineNext ==
    \/ StatusFails \/ ReadStatus \/ CaptureDirtyBaseline \/ RunGate \/ WriteSnapshot
    \/ Passed \/ Regressed \/ RepairBaseline

-----------------------------------------------------------------------------
(* A gate that lets a workflow begin has seen the commands pass after the  *)
(* last repair and says how it got there; and before anything of somebody's *)
(* uncommitted work is repaired over, what git says of its tracked changes *)
(* and the names of its untracked files are in a snapshot as the gate found *)
(* them, whatever the commands have written meanwhile -- each of them      *)
(* unless git failed on it, which is not noticed.  What is in an untracked *)
(* file is in no snapshot, and is lost where a repair writes over it.      *)
BaselineIsSound ==
    /\ (gate = "returned" /\ call # "snapshot") =>
           /\ latest.passed /\ latest.after = repairs
           /\ verdict = IF repairs = 0 THEN "clean" ELSE "repaired"
    /\ (dirty /\ repairs > 0) =>
           /\ call = "accept-dirty"
           /\ \A part \in Recorded : snapshot[part] \in {"original", "unreadable"}
=============================================================================
