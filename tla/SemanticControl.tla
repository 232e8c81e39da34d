--------------------------- MODULE SemanticControl ---------------------------
(***************************************************************************)
(* The proof that a reproduction is genuine: assertSemanticPositiveControl *)
(* of codebase-improvement-runtime.ts reads the control and the RED test   *)
(* without running them (observeProductionOrigin), then both are run       *)
(* (assertPositiveControlEvidence, assertRedGateEvidence).                 *)
(*                                                                         *)
(* The test is not given: every action is a construct an author may write  *)
(* next, read in the order of evaluation, one argument standing for an     *)
(* argument list.  The action does what the analysis does when it visits   *)
(* the construct, to states, and what the construct may do when the test   *)
(* runs, to value.  The analysis is right when the two agree where it says *)
(* so.  Opaque code (a call, a getter, a coercion) may do anything to the  *)
(* variables the test's closures capture and to the objects it is given.   *)
(*                                                                         *)
(*   phase     the test being read, then the runs, then the verdict        *)
(*   states    the analysis' state of each variable                        *)
(*   value     what the variable really holds: the untouched result of an  *)
(*             entrypoint, a closure of the test, or anything else         *)
(*   expr      the expression evaluated last: its form and its value       *)
(*   held      some state was exact when its evaluation began              *)
(*   leaked    a closure of the test, or a result bound inside the         *)
(*             arguments of a call, has got into hands that are not read   *)
(*   reach     where the analysis stands; label: inside a labelled block   *)
(*   runs      the test's execution gets here                              *)
(*   seen      what the analysis took for the observation of each test     *)
(*   red       how the RED test ended                                      *)
(***************************************************************************)
EXTENDS Naturals, FiniteSets

CONSTANTS Vars,         \* variables of a test
          Entrypoints   \* exports of the allowed production paths

ASSUME SemanticConstants ==   \* names, which stand for nothing else
    /\ Vars \cap Entrypoints = {}
    /\ (Vars \cup Entrypoints) \cap {"literal", "plain", "ambiguous"} = {}
    /\ Entrypoints \cap {"untainted", "none"} = {}

VARIABLES phase, states, value, expr, held, leaked, reach, label, runs, seen, red
test == <<states, value, expr, held, leaked, reach, label, runs>>
controlVars == <<test, phase, seen, red>>

States == {"untainted", "ambiguous"} \cup Entrypoints
Values == {"other", "closure"} \cup Entrypoints
Tests  == {"control", "red"}
Unseen == [origin |-> "none", received |-> "other", reached |-> FALSE, leaked |-> FALSE]

(* form: a literal (or a constant that resolves to one), a variable, a     *)
(* direct call of an entrypoint, an optional chain, or anything else.      *)
Expression(form, result, literalArgs) == [form |-> form, value |-> result, literalArgs |-> literalArgs]
Plain(result) == Expression("plain", result, FALSE)

ControlTypeOK ==
    /\ phase \in Tests \cup {"run_control", "run_red", "accepted", "rejected"}
    /\ states \in [Vars -> States]
    /\ value \in [Vars -> Values]
    /\ expr \in [form : {"literal", "plain", "ambiguous"} \cup Vars \cup Entrypoints,
                 value : Values, literalArgs : BOOLEAN]
    /\ {held, leaked, label, runs} \subseteq BOOLEAN
    /\ reach \in {"normal", "breaking", "blocked", "left"}
    /\ seen \in [Tests -> [origin : {"none"} \cup Entrypoints, received : Values,
                           reached : BOOLEAN, leaked : BOOLEAN]]
    /\ red \in {"unknown", "passed", "setup", "matcher", "afterwards"}

ControlInit ==
    /\ phase = "control"
    /\ states = [v \in Vars |-> "untainted"]
    /\ value = [v \in Vars |-> "other"]
    /\ expr = Plain("other")
    /\ held = FALSE /\ leaked = FALSE /\ label = FALSE
    /\ reach = "normal" /\ runs = TRUE
    /\ seen = [t \in Tests |-> Unseen]
    /\ red = "unknown"

-----------------------------------------------------------------------------
(* The analysis' operations on states.                                     *)

Exact(state) == state \in Entrypoints
AnyExact == \E v \in Vars : Exact(states[v])

Invalidated == [v \in Vars |-> IF Exact(states[v]) THEN "ambiguous" ELSE states[v]]
Marked(written) == [v \in Vars |-> IF v \in written THEN "ambiguous" ELSE Invalidated[v]]

(* expressionProductionState, asked once the expression has been visited.  *)
Origin ==
    CASE expr.form \in Vars -> states[expr.form]
      [] expr.form \in Entrypoints -> IF ~AnyExact \/ expr.literalArgs THEN expr.form ELSE "ambiguous"
      [] expr.form = "ambiguous" -> "ambiguous"
      [] OTHER -> "untainted"

(* matcherReceivedProductionState, asked before: a call's arguments have   *)
(* not been visited yet.                                                   *)
ReceivedOrigin ==
    CASE expr.form \in Entrypoints -> IF ~held \/ expr.literalArgs THEN expr.form ELSE "ambiguous"
      [] OTHER -> Origin

(* What really happens.  Code that is not read may change any variable;    *)
(* it may also keep a closure of the test and call it later.               *)
Spoils(written) ==
    \E hit \in SUBSET Vars :
        value' = [v \in Vars |-> IF v \in written \cup hit THEN "other" ELSE value[v]]

ClosureAround == expr.value = "closure" \/ \E v \in Vars : value[v] = "closure"
MayKeepClosure == leaked' \in {leaked} \cup (IF ClosureAround THEN {TRUE} ELSE {})

Opaque(written) == Spoils(written) /\ MayKeepClosure

(* A closure that was kept may run whenever the test lets others run.      *)
OthersRun == IF leaked THEN Spoils({}) ELSE UNCHANGED value

Visiting == phase \in Tests /\ reach = "normal"
Reading == UNCHANGED <<phase, seen, red>>
SamePlace == UNCHANGED <<reach, label, runs>>

Begin(e) ==
    /\ Visiting
    /\ expr' = e /\ held' = AnyExact
    /\ UNCHANGED <<states, value, leaked>> /\ SamePlace /\ Reading

(* What the expression does is not known: every exact state is lost.       *)
Continue(e) ==
    /\ states' = Invalidated
    /\ Opaque({})
    /\ expr' = e /\ UNCHANGED held /\ SamePlace /\ Reading

-----------------------------------------------------------------------------
(* Expressions.                                                            *)

Literal == Begin(Expression("literal", "other", FALSE))
Name(v) == Begin(Expression(v, value[v], FALSE))
FunctionLiteral == Begin(Plain("closure"))

LiteralArguments == expr.form = "literal"
PassiveArguments_Always == TRUE
PassiveArguments == ~held \/ LiteralArguments

(* A direct call of a production export: provenance survives it when its   *)
(* arguments are passive.                                                  *)
ProductionCall(p) ==
    /\ Visiting
    /\ states' = IF PassiveArguments THEN states ELSE Invalidated
    /\ IF LiteralArguments THEN OthersRun ELSE Spoils({})
    /\ IF ~LiteralArguments /\ ~held /\ AnyExact THEN leaked' = TRUE ELSE MayKeepClosure
    /\ expr' = Expression(p, p, LiteralArguments)
    /\ UNCHANGED held /\ SamePlace /\ Reading

OtherCall == Visiting /\ phase = "control" /\ Continue(Plain("other"))
Construct == Visiting /\ Continue(Plain("other"))

(* A property read, an operator, a template, a spread, an object or array. *)
Operate == Visiting /\ Continue(Plain(IF expr.value = "closure" THEN "closure" ELSE "other"))

(* An awaited literal no longer resolves to a primitive.                   *)
Await ==
    /\ Visiting
    /\ expr' = [expr EXCEPT !.form = IF @ = "literal" THEN "plain" ELSE @]
    /\ OthersRun
    /\ UNCHANGED <<states, held, leaked>> /\ SamePlace /\ Reading

ClassBody == Visiting /\ Continue(Plain("closure"))

OptionalChain(written) ==
    /\ Visiting
    /\ states' = Marked(written)
    /\ Opaque(written)
    /\ expr' = Expression("ambiguous", "other", FALSE)
    /\ UNCHANGED held /\ SamePlace /\ Reading

-----------------------------------------------------------------------------
(* Bindings and assignments.                                               *)

Declare(v) ==
    /\ Visiting
    /\ states' = [states EXCEPT ![v] = Origin]
    /\ value' = [value EXCEPT ![v] = expr.value]
    /\ expr' = Plain("other")
    /\ UNCHANGED <<held, leaked>> /\ SamePlace /\ Reading

Assign(v) ==
    /\ Visiting
    /\ states' = [(IF Origin = "ambiguous" THEN Invalidated ELSE states) EXCEPT ![v] = Origin]
    /\ value' = [value EXCEPT ![v] = expr.value]
    /\ expr' = Plain(expr.value)
    /\ UNCHANGED <<held, leaked>> /\ SamePlace /\ Reading

(* x += e, x++, an assignment into a member, a destructuring pattern.      *)
Overwrite(v) ==
    /\ Visiting
    /\ states' = Marked({v})
    /\ Opaque({v})
    /\ expr' = Plain("other")
    /\ UNCHANGED held /\ SamePlace /\ Reading

-----------------------------------------------------------------------------
(* Control flow.  The RED test has none: only variable statements and its  *)
(* assertion.                                                              *)

AmbiguousFlow(written) ==
    /\ Visiting
    /\ states' = Marked(written)
    /\ Opaque(written)
    /\ reach' = "blocked"
    /\ runs' \in {runs, FALSE}
    /\ expr' = Plain("other") /\ UNCHANGED <<held, label>> /\ Reading

Exit ==
    /\ Visiting /\ phase = "control"
    /\ reach' = "left" /\ runs' = FALSE
    /\ UNCHANGED <<states, value, expr, held, leaked, label>> /\ Reading

OpenLabel ==
    /\ Visiting /\ phase = "control" /\ ~label
    /\ label' = TRUE /\ expr' = Plain("other")
    /\ UNCHANGED <<states, value, held, leaked, reach, runs>> /\ Reading

Break ==
    /\ Visiting /\ label
    /\ reach' = "breaking" /\ runs' = FALSE
    /\ UNCHANGED <<states, value, expr, held, leaked, label>> /\ Reading

(* Only a break to this label ends here: a blocked analysis stays blocked. *)
CloseLabel ==
    /\ phase \in Tests /\ label
    /\ label' = FALSE
    /\ reach' = IF reach = "breaking" THEN "normal" ELSE reach
    /\ runs' = (runs \/ reach = "breaking")
    /\ expr' = Plain("other")
    /\ UNCHANGED <<states, value, held, leaked>> /\ Reading

-----------------------------------------------------------------------------
(* Assertions.                                                             *)

SameEntrypoint(origin) == origin = seen["control"].origin

(* An assertion on an exact value with independent arguments is the        *)
(* observation; the RED test has to observe the control's entrypoint.      *)
Observe ==
    /\ Visiting
    /\ Exact(ReceivedOrigin)
    /\ seen' = [seen EXCEPT ![phase] = [origin |-> ReceivedOrigin, received |-> expr.value,
                                        reached |-> runs, leaked |-> leaked]]
    /\ phase' = IF phase = "control" THEN "red"
                ELSE IF SameEntrypoint(ReceivedOrigin) THEN "run_control" ELSE "rejected"
    /\ states' = [v \in Vars |-> "untainted"] /\ value' = [v \in Vars |-> "other"]
    /\ expr' = Plain("other")
    /\ held' = FALSE /\ leaked' = FALSE /\ label' = FALSE /\ reach' = "normal" /\ runs' = TRUE
    /\ UNCHANGED red

(* Any other assertion of the control; what it receives is visited, and    *)
(* arguments that are not passive may do anything.                         *)
OtherAssertion(independent, member) ==
    /\ Visiting /\ phase = "control"
    /\ Exact(ReceivedOrigin) => ~independent
    /\ IF independent /\ ~member
       THEN states' = states /\ UNCHANGED <<value, leaked>>
       ELSE states' = Invalidated /\ Opaque({})
    /\ expr' = Plain("other")
    /\ UNCHANGED held /\ SamePlace /\ Reading

(* The end of a test without an observation, or anything else the analysis *)
(* refuses: a RED test with other statements, an altered expect, a second  *)
(* added test.                                                             *)
Reject ==
    /\ phase \in Tests
    /\ phase' = "rejected"
    /\ UNCHANGED <<test, seen, red>>

-----------------------------------------------------------------------------
(* The runs.  The control has to pass, neither failing nor skipping.       *)

RunControl ==
    /\ phase = "run_control"
    /\ phase' \in {"run_red", "rejected"}
    /\ UNCHANGED <<test, seen, red>>

(* Its record says that the test failed, and after at least one expect().  *)
FailedAsExpected(end) == end \in {"matcher", "afterwards"}

(* The RED test passes, fails before expect() is called, fails in the      *)
(* matcher, or fails in a variable statement written after the assertion.  *)
RunRed ==
    /\ phase = "run_red"
    /\ red' \in {"passed", "setup", "matcher", "afterwards"}
    /\ phase' = IF FailedAsExpected(red') THEN "accepted" ELSE "rejected"
    /\ UNCHANGED <<test, seen>>

ReadConstruct ==
    \/ Literal \/ FunctionLiteral \/ OtherCall \/ Construct \/ Operate \/ Await \/ ClassBody
    \/ \E v \in Vars : Name(v) \/ Declare(v) \/ Assign(v) \/ Overwrite(v)
    \/ \E p \in Entrypoints : ProductionCall(p)
    \/ \E written \in SUBSET Vars : OptionalChain(written) \/ AmbiguousFlow(written)
    \/ Exit \/ OpenLabel \/ Break \/ CloseLabel
    \/ Observe
    \/ \E independent, member \in BOOLEAN : OtherAssertion(independent, member)

ControlNext == ReadConstruct \/ Reject \/ RunControl \/ RunRed

-----------------------------------------------------------------------------
(* An assertion the analysis takes for the observation of an entrypoint is *)
(* reached when the test runs, and receives what that entrypoint returned, *)
(* untouched -- unless the test has let a closure, or a result bound       *)
(* inside a call's arguments, out of its hands (those are not followed).   *)
(* And an accepted proof has the RED test fail in or after an assertion on *)
(* the same entrypoint's result as the control passes on.                  *)
AcceptedIsCausal ==
    /\ \A t \in Tests : seen[t].origin # "none" =>
           \/ seen[t].leaked
           \/ seen[t].reached /\ seen[t].received = seen[t].origin
    /\ phase = "accepted" =>
           /\ red \in {"matcher", "afterwards"}
           /\ \/ seen["control"].leaked \/ seen["red"].leaked
              \/ seen["red"].received = seen["control"].received
=============================================================================
