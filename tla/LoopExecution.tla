---------------------------- MODULE LoopExecution ----------------------------
(***************************************************************************)
(* executeLoop: evaluate, decide, execute, until the goal is met, a guard  *)
(* fires, a step asks to stop, or something fails.  loop().run, fixLoop,   *)
(* sequentialTaskStrategy and reviewAndFixStrategy are all this loop with  *)
(* other callbacks, so the callbacks answer here as they please: evaluate  *)
(* with any evaluation, a step with any usage and any stop reason.         *)
(*                                                                         *)
(* Two pieces of state are carried from cycle to cycle and decide when the *)
(* loop gives up: the token counter and the detector of repeated actions,  *)
(* which keeps a sliding window of fingerprints and a count for each.      *)
(***************************************************************************)
EXTENDS Integers, Sequences, FiniteSets

CONSTANTS
    None,             \* undefined
    Actions,          \* what nextAction may propose
    Fingerprints,     \* the values of the fingerprint hash
    FingerprintOf,    \* the hash; distinct actions may share a value
    Usages,           \* token totals a step may report
    Options,          \* the option records a caller may pass
    WindowOption,     \* fingerprint.windowSize
    RepeatThreshold,  \* fingerprint.repeatThreshold
    CycleBound,       \* bound of the model: steps executed
    ClockBound        \* bound of the model: time that passes

Stops == {"converged", "unfixable", "stuck", "timeout", "ceiling",
          "budget-exhausted", "cancelled"}

Limits == Nat \cup {None}

(* The size of the detector's window is never below the threshold.         *)
Window == IF WindowOption < RepeatThreshold THEN RepeatThreshold ELSE WindowOption

ASSUME NoneIsNothing ==
    None \notin Nat /\ None \notin Actions /\ None \notin Stops

ASSUME Hash == FingerprintOf \in [Actions -> Fingerprints]

ASSUME OptionsTyped ==
    Options \subseteq [maxIterations : Limits, tokenBudget : Limits,
                       wallClockMs : Limits, fingerprint : BOOLEAN, context : BOOLEAN]

ASSUME Sizes ==
    /\ Usages \subseteq Nat
    /\ WindowOption \in Nat /\ RepeatThreshold \in Nat \ {0}
    /\ CycleBound \in Nat /\ ClockBound \in Nat

(* What the caller's converged, nextAction and stalled say of one state.   *)
Evaluations ==
    [converged : BOOLEAN, action : Actions \cup {None}, stalled : BOOLEAN]

VARIABLES
    options,      \* the caller's options
    pc,           \* evaluate, decide, execute, record, refresh or done
    clock,        \* now() - startedAt
    evaluation,   \* the last evaluation
    evaluatedAt,  \* the steps that had been executed when it was made
    iterations,   \* completed steps
    budget,       \* the token counter: knownTotal and unknown
    detector,     \* the window of fingerprints and their counts
    requested,    \* the stop reason the last step returned, or None
    outcome,      \* running, failed, or the stop reason of the summary
    proposed,     \* history: every fingerprint shown to the detector
    spent         \* history: the usage of every step

vars == <<options, pc, clock, evaluation, evaluatedAt, iterations, budget,
          detector, requested, outcome, proposed, spent>>

histories == <<proposed, spent>>

Init ==
    /\ options \in Options
    /\ pc = "evaluate" /\ clock = 0
    /\ evaluation = [converged |-> FALSE, action |-> None, stalled |-> FALSE]
    /\ evaluatedAt = 0 /\ iterations = 0
    /\ budget = [known |-> 0, unknown |-> FALSE]
    /\ detector = [window |-> <<>>, counts |-> [f \in Fingerprints |-> 0]]
    /\ requested = None /\ outcome = "running"
    /\ proposed = <<>> /\ spent = <<>>
-----------------------------------------------------------------------------
(* The detector.                                                           *)

(* A mutant: counts.set(fingerprint, 1).                                   *)
Counted_Resets(counts, f) == [counts EXCEPT ![f] = 1]

(* counts.set(fingerprint, (counts.get(fingerprint) ?? 0) + 1)             *)
Counted(counts, f) == [counts EXCEPT ![f] = @ + 1]

(* The oldest fingerprint leaves; a count of zero leaves the map.          *)
Expired(counts, f) == [counts EXCEPT ![f] = IF @ = 0 THEN 0 ELSE @ - 1]

Observe(d, f) ==
    LET window == Append(d.window, f)
        counts == Counted(d.counts, f)
    IN  IF Len(window) > Window
        THEN [window |-> Tail(window), counts |-> Expired(counts, Head(window))]
        ELSE [window |-> window, counts |-> counts]

Repeats(d, f) == d.counts[f] >= RepeatThreshold

(* The token counter.                                                      *)
RecordUsage(b, usage) ==
    IF usage = None THEN [b EXCEPT !.unknown = TRUE]
                    ELSE [b EXCEPT !.known = @ + usage]

Exhausted ==
    options.tokenBudget # None /\ ~budget.unknown /\ budget.known > options.tokenBudget
-----------------------------------------------------------------------------
(* One evaluation: awaited, it may fail.                                   *)
Evaluated(e) ==
    /\ pc = "evaluate" /\ pc' = "decide"
    /\ evaluation' = e /\ evaluatedAt' = iterations
    /\ UNCHANGED <<options, clock, iterations, budget, detector, requested, outcome, histories>>

EvaluationFails ==
    /\ pc \in {"evaluate", "refresh"}
    /\ pc' = "done" /\ outcome' = "failed"
    /\ UNCHANGED <<options, clock, evaluation, evaluatedAt, iterations, budget, detector,
                   requested, histories>>

(* The decisions on it, in the order of the code.                          *)
Stop(reason) ==
    /\ pc' = "done" /\ outcome' = reason
    /\ UNCHANGED <<options, clock, evaluation, evaluatedAt, iterations, budget, requested, spent>>

StopConverged ==
    /\ pc = "decide" /\ evaluation.converged
    /\ Stop("converged") /\ UNCHANGED <<detector, proposed>>

StopUnfixable ==
    /\ pc = "decide" /\ ~evaluation.converged /\ evaluation.action = None
    /\ Stop("unfixable") /\ UNCHANGED <<detector, proposed>>

Proposes == pc = "decide" /\ ~evaluation.converged /\ evaluation.action # None

(* The caller's own predicate goes first: the detector is not asked.       *)
StopStalled ==
    /\ Proposes /\ evaluation.stalled
    /\ Stop("stuck") /\ UNCHANGED <<detector, proposed>>

Observed ==
    IF options.fingerprint THEN Observe(detector, FingerprintOf[evaluation.action])
                           ELSE detector

Repeated ==
    options.fingerprint /\ Repeats(Observed, FingerprintOf[evaluation.action])

(* Asking the detector changes it, whatever is decided next.               *)
AskDetector ==
    /\ Proposes /\ ~evaluation.stalled
    /\ detector' = Observed
    /\ proposed' = IF options.fingerprint
                   THEN Append(proposed, FingerprintOf[evaluation.action]) ELSE proposed

StopRepeated == AskDetector /\ Repeated /\ Stop("stuck")

(* Mutants: one step too many; a ceiling of zero taken for none.           *)
AtCeiling_Beyond == options.maxIterations # None /\ iterations > options.maxIterations

AtCeiling_ZeroIsNone ==
    options.maxIterations \notin {None, 0} /\ iterations >= options.maxIterations

AtCeiling == options.maxIterations # None /\ iterations >= options.maxIterations

OutOfTime == options.wallClockMs # None /\ clock >= options.wallClockMs

StopCeiling == AskDetector /\ ~Repeated /\ AtCeiling /\ Stop("ceiling")

StopTimeout == AskDetector /\ ~Repeated /\ ~AtCeiling /\ OutOfTime /\ Stop("timeout")

StartStep ==
    /\ AskDetector /\ ~Repeated /\ ~AtCeiling /\ ~OutOfTime
    /\ iterations < CycleBound
    /\ pc' = "execute"
    /\ UNCHANGED <<options, clock, evaluation, evaluatedAt, iterations, budget, requested,
                   outcome, spent>>

(* The step's promise: usage and stop reason, either perhaps undefined.    *)
StepReturns(usage, reason) ==
    /\ pc = "execute" /\ pc' = "record"
    /\ iterations' = iterations + 1
    /\ budget' = RecordUsage(budget, usage)
    /\ requested' = reason
    /\ spent' = Append(spent, usage)
    /\ UNCHANGED <<options, clock, evaluation, evaluatedAt, detector, outcome, proposed>>

StepFails ==
    /\ pc = "execute" /\ pc' = "done" /\ outcome' = "failed"
    /\ UNCHANGED <<options, clock, evaluation, evaluatedAt, iterations, budget, detector,
                   requested, histories>>

(* Its observations are recorded; offloading one of them may fail.         *)
ContextRecorded ==
    /\ pc = "record"
    /\ pc' = IF requested # None \/ Exhausted THEN "refresh" ELSE "evaluate"
    /\ UNCHANGED <<options, clock, evaluation, evaluatedAt, iterations, budget, detector,
                   requested, outcome, histories>>

ContextFails ==
    /\ pc = "record" /\ options.context
    /\ pc' = "done" /\ outcome' = "failed"
    /\ UNCHANGED <<options, clock, evaluation, evaluatedAt, iterations, budget, detector,
                   requested, histories>>

(* Mutants: the evaluation before the step is reported; the reason is only *)
(* ever the step's.                                                        *)
Refreshed_Stale(e) ==
    /\ pc = "refresh" /\ pc' = "done" /\ e = evaluation
    /\ outcome' = IF requested # None THEN requested ELSE "budget-exhausted"
    /\ UNCHANGED <<options, clock, evaluation, evaluatedAt, iterations, budget, detector,
                   requested, histories>>

(* A loop that stops after a step evaluates once more; its reason stands.  *)
Refreshed(e) ==
    /\ pc = "refresh" /\ pc' = "done"
    /\ evaluation' = e /\ evaluatedAt' = iterations
    /\ outcome' = IF requested # None THEN requested ELSE "budget-exhausted"
    /\ UNCHANGED <<options, clock, iterations, budget, detector, requested, histories>>

Tick ==
    /\ pc # "done" /\ clock < ClockBound /\ clock' = clock + 1
    /\ UNCHANGED <<options, pc, evaluation, evaluatedAt, iterations, budget, detector,
                   requested, outcome, histories>>

Evaluate == EvaluationFails \/ \E e \in Evaluations : Evaluated(e) \/ Refreshed(e)

Decide ==
    \/ StopConverged
    \/ StopUnfixable
    \/ StopStalled
    \/ StopRepeated
    \/ StopCeiling
    \/ StopTimeout
    \/ StartStep

Execute ==
    \/ \E usage \in Usages \cup {None}, reason \in Stops \cup {None} : StepReturns(usage, reason)
    \/ StepFails

Record == ContextRecorded \/ ContextFails

Next == Evaluate \/ Decide \/ Execute \/ Record \/ Tick

Spec == Init /\ [][Next]_vars

(***************************************************************************)
(* Callbacks answer: an agent turn settles (TurnSettles of AgentTurn),     *)
(* the other callbacks are the author's functions, which executeLoop       *)
(* awaits without a timer.  Nothing is assumed of the clock.               *)
(***************************************************************************)
FairSpec ==
    /\ Spec
    /\ WF_vars(Evaluate) /\ WF_vars(Decide) /\ WF_vars(Execute) /\ WF_vars(Record)
-----------------------------------------------------------------------------
Detectors == [window : Seq(Fingerprints), counts : [Fingerprints -> Nat]]

TypeOK ==
    /\ options \in Options
    /\ pc \in {"evaluate", "decide", "execute", "record", "refresh", "done"}
    /\ clock \in Nat
    /\ evaluation \in Evaluations
    /\ evaluatedAt \in Nat /\ iterations \in Nat
    /\ budget \in [known : Nat, unknown : BOOLEAN]
    /\ detector \in Detectors
    /\ requested \in Stops \cup {None}
    /\ outcome \in {"running", "failed"} \cup Stops
    /\ proposed \in Seq(Fingerprints) /\ spent \in Seq(Usages \cup {None})

(* The summary describes the world as the last step left it: its           *)
(* evaluation was made after every executed step.                          *)
SummaryIsFresh == outcome \in Stops => evaluatedAt = iterations

(* Reaching the goal wins over giving up: a loop that ends as unfixable,   *)
(* stuck, at its ceiling or out of time by its own decision had not met    *)
(* the goal; one that reports convergence met it, or a step claimed it;    *)
(* and only a step can cancel.                                             *)
GoalBeforeGuards ==
    /\ (outcome \in {"unfixable", "stuck", "timeout", "ceiling"} /\ requested = None)
           => ~evaluation.converged
    /\ outcome = "converged" => evaluation.converged \/ requested = "converged"
    /\ outcome = "cancelled" => requested = "cancelled"

AllReported(s) == \A i \in DOMAIN s : s[i] # None

Total(s) ==
    LET sum[i \in 0 .. Len(s)] ==
            IF i = 0 THEN 0 ELSE sum[i - 1] + (IF s[i] = None THEN 0 ELSE s[i])
    IN  sum[Len(s)]

(* The guards of the options hold in every cycle: no step beyond the       *)
(* ceiling; with every usage reported, no further cycle once the total is  *)
(* over the budget, and no stop for the budget before.                     *)
SeatbeltsHold ==
    /\ options.maxIterations # None => iterations <= options.maxIterations
    /\ (options.tokenBudget # None /\ AllReported(spent)) =>
           /\ pc \in {"evaluate", "decide", "execute"} => Total(spent) <= options.tokenBudget
           /\ (outcome = "budget-exhausted" /\ requested = None)
                  => Total(spent) > options.tokenBudget

Occurrences(s, f) == Cardinality({i \in DOMAIN s : s[i] = f})

LastOf(s, n) == IF Len(s) > n THEN SubSeq(s, Len(s) - n + 1, Len(s)) ELSE s

(* A step is executed only if no fingerprint, of this action or another,   *)
(* fills the threshold among the last proposals the window spans: repeats  *)
(* and A-B-A oscillation never get past the detector.                      *)
NoUnnoticedRepeat ==
    (pc = "execute" /\ options.fingerprint) =>
        \A f \in Fingerprints : Occurrences(LastOf(proposed, Window), f) < RepeatThreshold

(* With a ceiling, the loop ends.                                          *)
LoopEnds == (options.maxIterations # None) ~> (pc = "done")

(* docs/loops.md says an unreported usage keeps the budget guard from      *)
(* firing "for that cycle": a cycle that does report its usage, and takes  *)
(* the known total over the budget, is the last.                           *)
ReportedUsageCounts ==
    (options.tokenBudget # None /\ pc = "execute" /\ spent # <<>>) =>
        (spent[Len(spent)] # None => Total(spent) <= options.tokenBudget)
=============================================================================
