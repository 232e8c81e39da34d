------------------------------- MODULE FanOut -------------------------------
(***************************************************************************)
(* One fan-out and its fan-in, src/src/loop/fanout.ts over the bounded     *)
(* concurrency of src/src/loop/engine/index.ts: branches over copies of    *)
(* one state, their outcomes as data, and the join that picks which of     *)
(* them are folded.  A store-backed branch copies the state and saves its  *)
(* result through the store, and either may fail.                          *)
(*                                                                         *)
(*   branch  each branch: where it is and, once it is done, its answer     *)
(*           (what a quorum compares) and how long it took                 *)
(*   joined  the verdict of the fan-out or, later, of the fan-in, with the *)
(*           branches it folds and what the caller asked for               *)
(***************************************************************************)
EXTENDS Naturals, FiniteSets

CONSTANTS Branches,     \* 1 .. n, in the order of the spec's list
          Answers,      \* agreement keys
          Elapsed       \* durations, in ticks

ASSUME FanOutConstants ==
    /\ IsFiniteSet(Branches) /\ Branches = 1 .. Cardinality(Branches)
    /\ Elapsed \subseteq Nat

VARIABLES branch, joined
fanVars == <<branch, joined>>

Policies == {"barrier", "race", "reduce", "quorum"}
NoQuorum == 0   \* options.quorum is absent, or below one

Waiting == [at |-> "waiting", answer |-> "none", elapsed |-> 0]
Outcome(at, answer, elapsed) == [at |-> at, answer |-> answer, elapsed |-> elapsed]

(* What a caller may ask of a fan-in: onPartialFailure is left out or one. *)
Tolerances == [kind : {"fail-fast", "tolerate"}, minSuccess : Nat]
Asks == [policy : Policies, quorum : Nat, onPartialFailure : SUBSET Tolerances]

NotAsked == [policy |-> "none", quorum |-> NoQuorum, onPartialFailure |-> {}]
Unjoined == [verdict |-> "none", folded |-> {}, agreeing |-> 0, asked |-> NotAsked]
Verdict(v) == [Unjoined EXCEPT !.verdict = v]

FanInit == branch = [b \in Branches |-> Waiting] /\ joined = Unjoined

Successes == {b \in Branches : branch[b].at = "ok"}
Failures  == {b \in Branches : branch[b].at = "failed"}
InFlight  == {b \in Branches : branch[b].at \in {"copying", "running", "saving"}}
Collected == Successes \cup Failures = Branches

-----------------------------------------------------------------------------
(* fanOut and storeBackedFanOut.                                           *)

Misconfigured(width) ==
    /\ joined = Unjoined
    /\ Branches = {} \/ width < 1
    /\ joined' = Verdict("misconfigured")
    /\ UNCHANGED branch

(* Branches start in the order of the list, as many at once as fit.        *)
StartBranch(width, backed) == \E b \in Branches :
    /\ joined = Unjoined
    /\ branch[b].at = "waiting" /\ \A c \in Branches : c < b => branch[c].at # "waiting"
    /\ Cardinality(InFlight) < width
    /\ branch' = [branch EXCEPT ![b].at = IF backed THEN "copying" ELSE "running"]
    /\ UNCHANGED joined

Copied == \E b \in Branches :
    /\ branch[b].at = "copying"
    /\ branch' = [branch EXCEPT ![b].at = "running"]
    /\ UNCHANGED joined

BranchReturns(backed) == \E b \in Branches, answer \in Answers, elapsed \in Elapsed :
    /\ branch[b].at = "running"
    /\ branch' = [branch EXCEPT ![b] = Outcome(IF backed THEN "saving" ELSE "ok", answer, elapsed)]
    /\ UNCHANGED joined

Saved == \E b \in Branches :
    /\ branch[b].at = "saving"
    /\ branch' = [branch EXCEPT ![b].at = "ok"]
    /\ UNCHANGED joined

(* The branch throws, or the store refuses its copy or its result.         *)
BranchFails == \E b \in InFlight :
    /\ branch' = [branch EXCEPT ![b] = Outcome("failed", "none", 0)]
    /\ UNCHANGED joined

(* The signal interrupts the collection only: what has started goes on.    *)
Abort ==
    /\ joined = Unjoined /\ ~Collected
    /\ joined' = Verdict("cancelled")
    /\ UNCHANGED branch

-----------------------------------------------------------------------------
(* fanIn and storeBackedFanIn.                                             *)

FailFast == [kind |-> "fail-fast", minSuccess |-> 0]
Tolerate(n) == [kind |-> "tolerate", minSuccess |-> n]

DefaultPartialFailure(policy, quorum) ==
    CASE policy = "barrier" -> FailFast
      [] policy = "quorum"  -> Tolerate(IF quorum = NoQuorum THEN 1 ELSE quorum)
      [] OTHER              -> Tolerate(1)

TooFew_CountsAll(tolerance) ==   \* mutant: branches that failed count as well
    tolerance.kind = "tolerate" /\ Cardinality(Branches) < tolerance.minSuccess

TooFew(tolerance) ==
    tolerance.kind = "tolerate" /\ Cardinality(Successes) < tolerance.minSuccess

Gate(tolerance) ==
    CASE Successes = {} -> "no-success"
      [] Successes # {} /\ tolerance.kind = "fail-fast" /\ Failures # {} -> "partial-failure"
      [] Successes # {} /\ TooFew(tolerance) -> "partial-failure"
      [] OTHER -> "open"

(* The reduce keeps the first of the successes that took least.            *)
Fastest[b \in Branches \cup {0}] ==
    IF b = 0 THEN 0
    ELSE LET best == Fastest[b - 1] IN
         IF /\ b \in Successes
            /\ best = 0 \/ branch[b].elapsed < branch[IF best = 0 THEN b ELSE best].elapsed
         THEN b ELSE best

(* The groups are filled in the order of the branches; counting stops at   *)
(* the first that is large enough.                                         *)
Vote(quorum) ==
    LET counted[b \in Branches \cup {0}] ==
          IF b = 0 THEN [groups |-> [a \in Answers |-> {}], largest |-> 0, folded |-> {}]
          ELSE LET before == counted[b - 1] IN
               IF b \notin Successes \/ before.folded # {} THEN before
               ELSE LET group == before.groups[branch[b].answer] \cup {b}
                        size  == Cardinality(group)
                    IN [groups  |-> [before.groups EXCEPT ![branch[b].answer] = group],
                        largest |-> IF size > before.largest THEN size ELSE before.largest,
                        folded  |-> IF size >= quorum THEN group ELSE {}]
    IN counted[Cardinality(Branches)]

SelectQuorum(quorum) ==
    CASE quorum = NoQuorum -> Verdict("misconfigured")
      [] quorum # NoQuorum /\ Vote(quorum).folded = {} ->
            [Verdict("no-quorum") EXCEPT !.agreeing = Vote(quorum).largest]
      [] OTHER -> [Verdict("merged") EXCEPT !.folded = Vote(quorum).folded]

SelectByPolicy(policy, quorum) ==
    CASE policy = "race"   -> [Verdict("merged") EXCEPT !.folded = {Fastest[Cardinality(Branches)]}]
      [] policy = "quorum" -> SelectQuorum(quorum)
      [] OTHER             -> [Verdict("merged") EXCEPT !.folded = Successes]

(* asked: the policy, the quorum, and the tolerance if the caller gives    *)
(* one (a set of at most one).                                             *)
ToleranceOf(asked) ==
    IF asked.onPartialFailure = {} THEN DefaultPartialFailure(asked.policy, asked.quorum)
    ELSE CHOOSE t \in asked.onPartialFailure : TRUE

Chosen(asked) ==
    LET gate == Gate(ToleranceOf(asked))
    IN IF gate = "open" THEN SelectByPolicy(asked.policy, asked.quorum) ELSE Verdict(gate)

(* With a store, reading a result back or parsing the fold may fail.       *)
FanIn(asked, backed) ==
    /\ joined = Unjoined /\ Branches # {} /\ Collected
    /\ \/ joined' = [Chosen(asked) EXCEPT !.asked = asked]
       \/ /\ backed /\ Chosen(asked).verdict = "merged"
          /\ joined' = Verdict("store-error")
    /\ UNCHANGED branch

-----------------------------------------------------------------------------
(* The join says what its policy promises, read from the outcomes alone    *)
(* (fanout.ts:275-280): it merges if and only if enough branches succeeded *)
(* and, for a quorum, enough of them agree; a barrier or a reduce folds    *)
(* every success, a race the earliest-listed of the fastest, a quorum      *)
(* exactly as many as it needs, the group that is complete first.          *)
Agreeing(a) == {b \in Successes : branch[b].answer = a}

Enough(tolerance) ==
    /\ Successes # {}
    /\ tolerance.kind = "fail-fast" => Failures = {}
    /\ tolerance.kind = "tolerate" => Cardinality(Successes) >= tolerance.minSuccess

HasQuorum(quorum) == \E a \in Answers : Cardinality(Agreeing(a)) >= quorum

FoldsItsPolicy(asked, folded) ==
    CASE asked.policy = "race" ->
           \E b \in Successes :
             /\ folded = {b}
             /\ \A c \in Successes \ {b} :
                  branch[b].elapsed < branch[c].elapsed \/ (branch[b].elapsed = branch[c].elapsed /\ b < c)
      [] asked.policy = "quorum" ->
           \E a \in Answers, last \in Successes :
             /\ folded = {b \in Agreeing(a) : b <= last} /\ last \in folded
             /\ Cardinality(folded) = asked.quorum
             /\ \A other \in Answers \ {a} :
                  Cardinality({b \in Agreeing(other) : b < last}) < asked.quorum
      [] OTHER -> folded = Successes

JoinIsSound ==
    joined.asked # NotAsked =>
        LET asked == joined.asked
            enough == Enough(ToleranceOf(asked))
        IN CASE joined.verdict = "merged" ->
                  enough /\ FoldsItsPolicy(asked, joined.folded)
             [] joined.verdict = "no-quorum" ->
                  /\ enough /\ ~HasQuorum(asked.quorum)
                  /\ \E a \in Answers : Cardinality(Agreeing(a)) = joined.agreeing
                  /\ \A a \in Answers : Cardinality(Agreeing(a)) <= joined.agreeing
             [] joined.verdict = "misconfigured" ->
                  enough /\ asked.policy = "quorum" /\ asked.quorum = NoQuorum
             [] joined.verdict = "no-success" -> Successes = {}
             [] OTHER -> Successes # {} /\ ~enough
=============================================================================
