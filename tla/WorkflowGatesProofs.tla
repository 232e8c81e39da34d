------------------------ MODULE WorkflowGatesProofs ------------------------
(***************************************************************************)
(* What the four gates let pass, for every set of files, variables, paths  *)
(* and bounds.  Each gate has an invariant of its own; a behaviour of      *)
(* WorkflowGates keeps all four, since each of its steps is a step of one  *)
(* gate that leaves the others alone.                                      *)
(***************************************************************************)
EXTENDS WorkflowGates, TLAPS

-----------------------------------------------------------------------------
(* The baseline gate.                                                      *)

(* Nothing has been written before the diffs are made, and a decision is   *)
(* about the commands as they ran after the last repair.                   *)
DecidesOnTheLast ==
    /\ gate \in {"status", "capture"} =>
         (\A part \in Recorded : tree[part] = "original") /\ snapshot = Nothing /\ repairs = 0
    /\ gate \in {"save", "decide"} => latest.after = repairs

(* Each recorded part as the gate found it, or what git said instead.      *)
AsFound == {kept \in Snapshots : \A part \in Recorded : kept[part] \in {"original", "unreadable"}}

(* Uncommitted work is held in memory while the commands run, and is on    *)
(* disk before anything is decided.                                        *)
DirtyIsKept ==
    dirty =>
        /\ gate \in {"capture", "commands", "save", "decide"} => call \in {"accept-dirty", "snapshot"}
        /\ gate \in {"commands", "save", "decide"} => captured \in AsFound
        /\ gate = "decide" => snapshot # Nothing
        /\ snapshot \in {Nothing, captured}
        /\ snapshot # Nothing => captured \in AsFound

(* A call that only takes a snapshot decides and repairs nothing.          *)
SnapshotOnly ==
    call = "snapshot" =>
        /\ gate # "decide" /\ repairs = 0
        /\ gate \in {"capture", "commands", "save"} => dirty /\ snapshot = Nothing

BaselineInv ==
    /\ BaselineTypeOK
    /\ DecidesOnTheLast /\ DirtyIsKept /\ SnapshotOnly
    /\ BaselineIsSound

(* What was found is something, and writing to the worktree leaves one.    *)
LEMMA Worktree ==
  /\ Nothing \in Snapshots /\ Nothing \notin AsFound
  /\ \A kept \in AsFound : kept \in Snapshots /\ \A part \in Recorded : kept[part] \in {"original", "unreadable"}
  <1>1. Nothing \in Snapshots
    BY DEF Nothing, Snapshots
  <1>2. "staged" \in Recorded /\ Nothing["staged"] = "none"
    BY DEF Nothing, Recorded
  <1> QED
    BY <1>1, <1>2 DEF AsFound

LEMMA BaselineInitial == BaselineInit => BaselineInv
  <1> SUFFICES ASSUME BaselineInit PROVE BaselineInv
    OBVIOUS
  <1>1. latest \in [passed : BOOLEAN, after : 0..MaxRepairs] /\ repairs \in 0..MaxRepairs
    BY BaselineConstants DEF BaselineInit
  <1>2. tree \in Worktrees /\ \A part \in Recorded : tree[part] = "original"
    BY DEF BaselineInit, Worktrees, Parts
  <1>3. BaselineTypeOK
    BY <1>1, <1>2, Worktree DEF BaselineInit, BaselineTypeOK, Policies
  <1> QED
    BY <1>1, <1>2, <1>3 DEF BaselineInit, BaselineInv, DecidesOnTheLast, DirtyIsKept, SnapshotOnly,
                            BaselineIsSound

(* Each step of the baseline gate preserves its invariant.                 *)
LEMMA BaselineStep == BaselineInv /\ [BaselineNext]_baselineVars => BaselineInv'
  <1> SUFFICES ASSUME BaselineInv, [BaselineNext]_baselineVars
               PROVE  BaselineInv'
    OBVIOUS
  <1> USE BaselineConstants, Worktree
      DEF BaselineInv, BaselineTypeOK, DecidesOnTheLast, DirtyIsKept, SnapshotOnly, BaselineIsSound,
          gateCall, Policies, Throw, RecordOutcome
  <1>1. CASE UNCHANGED baselineVars
    BY <1>1 DEF baselineVars
  <1>2. CASE StatusFails
    BY <1>2 DEF StatusFails
  <1>3. CASE ReadStatus
    BY <1>3 DEF ReadStatus
  <1>4. CASE CaptureDirtyBaseline
    <2>1. captured' \in Snapshots /\ (dirty => captured' \in AsFound)
      BY <1>4 DEF CaptureDirtyBaseline, AsFound
    <2>2. /\ gate = "capture" /\ gate' = "commands"
          /\ UNCHANGED <<gateCall, tree, snapshot, latest, repairs, verdict>>
      BY <1>4 DEF CaptureDirtyBaseline
    <2> QED
      BY <2>1, <2>2
  <1>5. CASE RunGate
    BY <1>5 DEF RunGate, Overwritten
  <1>6. CASE WriteSnapshot
    BY <1>6 DEF WriteSnapshot
  <1>7. CASE Passed
    BY <1>7 DEF Passed
  <1>8. CASE Regressed
    BY <1>8 DEF Regressed
  <1>9. CASE RepairBaseline
    BY <1>9 DEF RepairBaseline, Overwritten
  <1> QED
    BY <1>1, <1>2, <1>3, <1>4, <1>5, <1>6, <1>7, <1>8, <1>9 DEF BaselineNext

-----------------------------------------------------------------------------
(* The wait for an agent.                                                  *)

(* The second attempt begins when the first is over, a stage has one only, *)
(* and an attempt that is waited for has been started.                     *)
OneAtATime ==
    /\ round = 1 => agents[2] = "none"
    /\ round = 2 => caller = "retry" /\ agents[1] # "running"
    /\ caller = "stage" => agents[1] # "none"
    /\ wait = "begin" => cancel # "asked" /\ (caller = "retry" => agents[round] = "none")
    /\ wait \in {"racing", "settling", "judging"} => agents[round] # "none"
    /\ wait = "racing" => cancel = "none"
    /\ \A r \in Rounds : ended[r] <= clock

(* An outcome other than "unsettled" is one of an agent that has ended;    *)
(* its own answer is that of an attempt that was in time and not cancelled.*)
OutcomeIsTheAgents ==
    wait = "judging" =>
        /\ outcome # "none"
        /\ outcome # "unsettled" => Over /\ cancel # "asked"
        /\ outcome \in Answers => outcome = agents[round] /\ cancel = "none" /\ InTime

WaitInv == WaitTypeOK /\ OneAtATime /\ OutcomeIsTheAgents /\ GoesOnAlone

LEMMA WaitInitial == WaitInit => WaitInv
  <1> SUFFICES ASSUME WaitInit PROVE WaitInv
    OBVIOUS
  <1>1. /\ clock = 0 /\ round = 1 /\ wait = "begin" /\ total \in Nat
        /\ agents \in [Rounds -> {"none", "running"}] /\ agents[2] = "none"
        /\ caller = "retry" => agents[1] = "none"
        /\ ended \in [Rounds -> Nat] /\ \A r \in Rounds : ended[r] = 0
    BY WaitConstants DEF WaitInit, Rounds
  <1>2. WaitTypeOK
    BY <1>1, WaitConstants DEF WaitInit, WaitTypeOK, Rounds, Answers
  <1>3. OneAtATime /\ OutcomeIsTheAgents /\ GoesOnAlone
    BY <1>1 DEF WaitInit, OneAtATime, OutcomeIsTheAgents, GoesOnAlone, Rounds
  <1> QED
    BY <1>2, <1>3 DEF WaitInv

(* Half of what is left is a number, and so are the timeouts made of it.   *)
LEMMA ReservedTyping ==
  ASSUME WaitTypeOK
  PROVE  Reserved \in [active : Nat, settlement : Nat]
  <1>1. Left \in Nat
    BY WaitConstants DEF WaitTypeOK, Left
  <1>2. Left \div 2 \in Nat /\ Left \div 2 <= Left
    BY <1>1
  <1>3. Least(SettlementReserve, Left \div 2) \in Nat /\ Least(SettlementReserve, Left \div 2) <= Left
    BY <1>1, <1>2, WaitConstants DEF Least
  <1>4. \A requested \in Nat : Least(requested, Left - Least(SettlementReserve, Left \div 2)) \in Nat
    BY <1>1, <1>3 DEF Least
  <1> QED
    BY <1>1, <1>3, <1>4, WaitConstants DEF Reserved

(* Each step of a wait preserves its invariant.                            *)
LEMMA WaitStep == WaitInv /\ [WaitNext]_waitVars => WaitInv'
  <1> SUFFICES ASSUME WaitInv, [WaitNext]_waitVars
               PROVE  WaitInv'
    OBVIOUS
  <1> USE WaitConstants DEF WaitInv
  <1>1. CASE UNCHANGED waitVars
    BY <1>1 DEF waitVars, plan, WaitTypeOK, OneAtATime, OutcomeIsTheAgents, GoesOnAlone, Over, InTime
  <1>2. CASE Ticks
    BY <1>2 DEF Ticks, plan, WaitTypeOK, OneAtATime, OutcomeIsTheAgents, GoesOnAlone, Over, InTime
  <1>3. CASE BeginAttempt
    <2>1. /\ wait = "begin" /\ wait' = "racing" /\ began' = clock /\ timeouts' = Reserved
          /\ cancel' = "none" /\ outcome' = "none"
          /\ UNCHANGED <<caller, total, clock, round, settleBy, ended, result>>
      BY <1>3 DEF BeginAttempt
    <2>2. /\ agents' \in [Rounds -> {"none", "running"} \cup Answers]
          /\ caller = "stage" => agents' = agents
          /\ caller = "retry" => agents' = [agents EXCEPT ![round] = "running"]
      BY <1>3 DEF BeginAttempt, WaitTypeOK
    <2>3. WaitTypeOK'
      BY <2>1, <2>2, ReservedTyping DEF WaitTypeOK
    <2>4. caller = "stage" => agents[round] # "none"
      BY DEF WaitTypeOK, OneAtATime, Rounds
    <2>5. OneAtATime'
      BY <2>1, <2>2, <2>4 DEF WaitTypeOK, OneAtATime, Rounds
    <2>6. OutcomeIsTheAgents' /\ GoesOnAlone'
      BY <2>1, <2>2 DEF WaitTypeOK, OneAtATime, OutcomeIsTheAgents, GoesOnAlone, Rounds
    <2> QED
      BY <2>3, <2>5, <2>6
  <1>4. CASE TooLate
    BY <1>4 DEF TooLate, plan, WaitTypeOK, OneAtATime, OutcomeIsTheAgents, GoesOnAlone, Rounds
  <1>5. CASE CancelReturns
    BY <1>5 DEF CancelReturns, plan, WaitTypeOK, OneAtATime, OutcomeIsTheAgents, GoesOnAlone, Over, InTime
  <1>6. CASE AgentWins
    BY <1>6 DEF AgentWins, Ends, plan, WaitTypeOK, OneAtATime, OutcomeIsTheAgents, GoesOnAlone, Over,
                InTime, Answers
  <1>7. CASE TimerWins
    BY <1>7 DEF TimerWins, WaitTypeOK, OneAtATime, OutcomeIsTheAgents, GoesOnAlone, Over, InTime
  <1>8. CASE SettlementEnds
    BY <1>8 DEF SettlementEnds, CancelSettled, Ends, plan, WaitTypeOK, OneAtATime, OutcomeIsTheAgents,
                GoesOnAlone, Over, InTime, Answers
  <1>9. CASE TryAgain
    <2>1. /\ wait = "judging" /\ caller = "retry" /\ round = 1 /\ wait' = "begin" /\ round' = 2
          /\ UNCHANGED <<caller, total, began, timeouts, settleBy, clock, agents, ended, cancel, outcome, result>>
          /\ Over /\ cancel # "asked"
      BY <1>9 DEF TryAgain, TimedOut, OutcomeIsTheAgents
    <2> QED
      BY <2>1 DEF WaitTypeOK, OneAtATime, OutcomeIsTheAgents, GoesOnAlone, Over, Rounds
  <1>10. CASE Report
    <2>1. /\ wait = "judging" /\ wait' = "over"
          /\ UNCHANGED <<plan, clock, agents, ended, cancel, outcome>>
          /\ result' = IF caller = "retry" /\ TimedOut THEN "cancelled" ELSE outcome
      BY <1>10 DEF Report
    <2>2. WaitTypeOK'
      BY <2>1 DEF WaitTypeOK, OutcomeIsTheAgents, plan
    <2>3. OneAtATime' /\ OutcomeIsTheAgents'
      BY <2>1 DEF OneAtATime, OutcomeIsTheAgents, plan
    <2>4. outcome # "unsettled" => (\A r \in Rounds : agents[r] # "running") /\ cancel # "asked"
      BY <2>1 DEF WaitTypeOK, OneAtATime, OutcomeIsTheAgents, Over, Rounds
    <2>5. CASE outcome = "unsettled"
      BY <2>1, <2>2, <2>3, <2>5 DEF TimedOut, GoesOnAlone, plan
    <2>6. CASE outcome # "unsettled" /\ result' # "success"
      BY <2>1, <2>2, <2>3, <2>4, <2>6 DEF GoesOnAlone, plan
    <2>7. CASE result' = "success"
      <3>1. outcome = "success" /\ ~(caller = "retry" /\ TimedOut)
        BY <2>1, <2>7
      <3>2. agents[round] = "success" /\ cancel = "none" /\ ended[round] < began + timeouts.active
        BY <2>1, <3>1 DEF OutcomeIsTheAgents, Answers, InTime
      <3>3. caller = "retry" => clock < total
        BY <3>1 DEF TimedOut, Least, WaitTypeOK
      <3>4. ended[round] <= clock /\ ended[round] \in Nat /\ total \in Nat
        BY DEF OneAtATime, WaitTypeOK
      <3>5. caller = "retry" => ended[round] < total
        BY <3>3, <3>4 DEF WaitTypeOK
      <3> QED
        BY <2>1, <2>2, <2>3, <2>4, <3>1, <3>2, <3>5 DEF GoesOnAlone, plan
    <2> QED
      BY <2>5, <2>6, <2>7
  <1>11. ASSUME NEW r \in Rounds, AgentEnds(r)
         PROVE  WaitInv'
    <2>1. PICK answer \in Answers :
            /\ agents[r] = "running" /\ agents' = [agents EXCEPT ![r] = answer]
            /\ ended' = [ended EXCEPT ![r] = clock]
            /\ UNCHANGED <<plan, clock, wait, cancel, outcome, result>>
      BY <1>11 DEF AgentEnds
    <2>2. WaitTypeOK'
      BY <2>1 DEF WaitTypeOK, plan
    <2>3. answer \notin {"none", "running"}
      BY DEF Answers
    <2>4. OneAtATime'
      BY <2>1, <2>3 DEF WaitTypeOK, OneAtATime, plan, Rounds
    <2>5. OutcomeIsTheAgents'
      <3>1. (wait = "judging" /\ outcome # "unsettled") => r # round
        BY <2>1 DEF OutcomeIsTheAgents, Over
      <3> QED
        BY <2>1, <2>3, <3>1 DEF WaitTypeOK, OutcomeIsTheAgents, Over, InTime, plan, Answers
    <2>6. GoesOnAlone'
      BY <2>1, <2>3 DEF WaitTypeOK, GoesOnAlone, plan, Rounds
    <2> QED
      BY <2>2, <2>4, <2>5, <2>6
  <1> QED
    BY <1>1, <1>2, <1>3, <1>4, <1>5, <1>6, <1>7, <1>8, <1>9, <1>10, <1>11 DEF WaitNext

-----------------------------------------------------------------------------
(* The semantic positive control.                                          *)

(* A variable whose state is exact holds the untouched result of that      *)
(* entrypoint, unless something of the test has leaked.                    *)
ExactIsHeld == leaked \/ \A v \in Vars : Exact(states[v]) => value[v] = states[v]

(* So does the expression evaluated last.                                  *)
ExpressionIsHeld ==
    /\ expr.form \in Entrypoints => expr.value = expr.form
    /\ expr.form \in Vars => leaked \/ (Exact(states[expr.form]) => expr.value = states[expr.form])

(* The analysis reads on only where the test's execution gets.             *)
ReadsWhatRuns == reach = "normal" => runs

(* The runs come after both observations, which are of one entrypoint.     *)
BothObserved ==
    /\ phase = "red" => seen["control"].origin # "none"
    /\ phase \in {"run_control", "run_red", "accepted"} =>
           seen["control"].origin # "none" /\ seen["red"].origin = seen["control"].origin
    /\ phase = "accepted" => red \in {"matcher", "afterwards"}

ObservedIsHeld ==
    \A t \in Tests : seen[t].origin # "none" =>
        seen[t].leaked \/ (seen[t].reached /\ seen[t].received = seen[t].origin)

ControlInv ==
    /\ ControlTypeOK
    /\ ExactIsHeld /\ ExpressionIsHeld /\ ReadsWhatRuns
    /\ BothObserved /\ ObservedIsHeld

Expressions ==
    [form : {"literal", "plain", "ambiguous"} \cup Vars \cup Entrypoints, value : Values, literalArgs : BOOLEAN]

LEMMA ControlInvImplies == ControlInv => AcceptedIsCausal
  BY DEF ControlInv, BothObserved, ObservedIsHeld, AcceptedIsCausal, Tests

LEMMA ControlInitial == ControlInit => ControlInv
  <1> SUFFICES ASSUME ControlInit PROVE ControlInv
    OBVIOUS
  <1>1. Plain("other") \in Expressions /\ Plain("other").form = "plain"
    BY DEF Plain, Expression, Expressions, Values
  <1>2. /\ Unseen \in [origin : {"none"} \cup Entrypoints, received : Values,
                       reached : BOOLEAN, leaked : BOOLEAN]
        /\ Unseen.origin = "none"
    BY DEF Unseen, Values
  <1>3. ControlTypeOK
    BY <1>1, <1>2 DEF ControlInit, ControlTypeOK, Expressions, States, Values, Tests
  <1>4. ExactIsHeld /\ ExpressionIsHeld /\ ReadsWhatRuns /\ BothObserved /\ ObservedIsHeld
    BY <1>1, <1>2, SemanticConstants DEF ControlInit, ExactIsHeld, Exact, ExpressionIsHeld, ReadsWhatRuns,
                                         BothObserved, ObservedIsHeld
  <1> QED
    BY <1>3, <1>4 DEF ControlInv

(* What the analysis does to the states: exact ones are kept, lost, or     *)
(* known for the one variable that is written.                             *)
LEMMA StatesLost ==
  ASSUME ControlTypeOK, NEW written \in SUBSET Vars
  PROVE  /\ Invalidated \in [Vars -> States] /\ \A v \in Vars : ~Exact(Invalidated[v])
         /\ Marked(written) \in [Vars -> States] /\ \A v \in Vars : ~Exact(Marked(written)[v])
  <1>1. "ambiguous" \notin Entrypoints /\ "ambiguous" \in States
    BY SemanticConstants DEF States
  <1>2. Invalidated \in [Vars -> States] /\ \A v \in Vars : ~Exact(Invalidated[v])
    BY <1>1 DEF ControlTypeOK, Invalidated, Exact
  <1> QED
    BY <1>1, <1>2 DEF Marked, Exact

(* What opaque code does: the values stay values, what has leaked has.     *)
LEMMA OpaqueTyping ==
  ASSUME ControlTypeOK, NEW written \in SUBSET Vars
  PROVE  /\ Spoils(written) => value' \in [Vars -> Values]
         /\ MayKeepClosure => leaked' \in BOOLEAN /\ (leaked => leaked')
         /\ OthersRun => value' \in [Vars -> Values] /\ (~leaked => value' = value)
  <1>1. Spoils(written) => value' \in [Vars -> Values]
    BY DEF Spoils, ControlTypeOK, Values
  <1>2. MayKeepClosure => leaked' \in BOOLEAN /\ (leaked => leaked')
    BY DEF MayKeepClosure, ControlTypeOK
  <1>3. Spoils({}) => value' \in [Vars -> Values]
    BY DEF Spoils, ControlTypeOK, Values
  <1>4. OthersRun => value' \in [Vars -> Values] /\ (~leaked => value' = value)
    BY <1>3 DEF OthersRun, ControlTypeOK
  <1> QED
    BY <1>1, <1>2, <1>4

(* The state that the analysis gives an expression is a state, and if it   *)
(* is exact, the expression holds it.                                      *)
LEMMA OriginIsHeld ==
  ASSUME ControlInv
  PROVE  /\ Origin \in States /\ ReceivedOrigin \in States
         /\ Exact(Origin) => leaked \/ expr.value = Origin
         /\ Exact(ReceivedOrigin) => leaked \/ expr.value = ReceivedOrigin
  <1>1. expr \in Expressions /\ states \in [Vars -> States] /\ expr.value \in Values
    BY DEF ControlInv, ControlTypeOK, Expressions
  <1>2. CASE expr.form \in Vars
    <2>1. expr.form \notin Entrypoints /\ expr.form # "ambiguous"
      BY <1>2, SemanticConstants
    <2>2. Origin = states[expr.form] /\ ReceivedOrigin = Origin
      BY <1>2, <2>1 DEF Origin, ReceivedOrigin
    <2> QED
      BY <1>1, <1>2, <2>2 DEF ControlInv, ExpressionIsHeld
  <1>3. CASE expr.form \in Entrypoints
    <2>1. expr.form \notin Vars /\ expr.form # "ambiguous" /\ ~Exact("ambiguous")
      BY <1>3, SemanticConstants DEF Exact
    <2>2. Origin \in {expr.form, "ambiguous"} /\ ReceivedOrigin \in {expr.form, "ambiguous"}
      BY <1>3, <2>1 DEF Origin, ReceivedOrigin
    <2> QED
      BY <1>1, <1>3, <2>1, <2>2 DEF ControlInv, ExpressionIsHeld, States
  <1>4. CASE expr.form \notin Vars \cup Entrypoints
    <2>1. Origin \in {"ambiguous", "untainted"} /\ ReceivedOrigin = Origin
      BY <1>4 DEF Origin, ReceivedOrigin
    <2> QED
      BY <2>1, SemanticConstants DEF Exact, States
  <1> QED
    BY <1>2, <1>3, <1>4

LEMMA PlainTyping ==
  \A made \in Values : Plain(made) \in Expressions /\ Plain(made).form = "plain"
  BY DEF Plain, Expression, Expressions

(* A construct that is read: what was observed before stays as it was.     *)
LEMMA ReadingKeeps ==
  ASSUME ControlInv, Reading,
         states' \in [Vars -> States], value' \in [Vars -> Values], expr' \in Expressions,
         held' \in BOOLEAN, leaked' \in BOOLEAN, label' \in BOOLEAN, runs' \in BOOLEAN,
         reach' \in {"normal", "breaking", "blocked", "left"},
         ExactIsHeld', ExpressionIsHeld', ReadsWhatRuns'
  PROVE  ControlInv'
  <1>1. ControlTypeOK'
    BY DEF ControlInv, ControlTypeOK, Reading, Expressions
  <1>2. BothObserved' /\ ObservedIsHeld'
    BY DEF ControlInv, Reading, BothObserved, ObservedIsHeld
  <1> QED
    BY <1>1, <1>2 DEF ControlInv

(* A construct after which no state is exact, followed by a plain          *)
(* expression, at the same place.                                          *)
LEMMA LosingKeeps ==
  ASSUME ControlInv, Reading,
         states' \in [Vars -> States], \A v \in Vars : ~Exact(states'[v]),
         value' \in [Vars -> Values], leaked' \in BOOLEAN, held' = held,
         expr' \in Expressions, expr'.form \notin Vars, expr'.form \in Entrypoints => expr'.value = expr'.form,
         label' = label, runs' \in BOOLEAN, reach' \in {"normal", "blocked"},
         reach' = "normal" => reach = "normal" /\ runs' = runs
  PROVE  ControlInv'
  <1>1. ExactIsHeld' /\ ExpressionIsHeld' /\ ReadsWhatRuns'
    BY DEF ControlInv, ExactIsHeld, ExpressionIsHeld, ReadsWhatRuns, Exact
  <1>2. held' \in BOOLEAN /\ label' \in BOOLEAN
    BY DEF ControlInv, ControlTypeOK
  <1> QED
    BY <1>1, <1>2, ReadingKeeps

LEMMA ContinueKeeps ==
  ASSUME ControlInv, Visiting, NEW made \in Values, Continue(Plain(made))
  PROVE  ControlInv'
  <1>1. /\ states' = Invalidated /\ expr' = Plain(made) /\ Reading
        /\ held' = held /\ label' = label /\ runs' = runs /\ reach' = reach
        /\ Spoils({}) /\ MayKeepClosure
    BY DEF Continue, Opaque, SamePlace
  <1>2. /\ states' \in [Vars -> States] /\ \A v \in Vars : ~Exact(states'[v])
        /\ value' \in [Vars -> Values] /\ leaked' \in BOOLEAN
    BY <1>1, StatesLost, OpaqueTyping DEF ControlInv
  <1>3. expr' \in Expressions /\ expr'.form \notin Vars /\ expr'.form \notin Entrypoints
    BY <1>1, PlainTyping, SemanticConstants
  <1>4. reach' \in {"normal", "blocked"} /\ runs' \in BOOLEAN
    BY <1>1 DEF Visiting, ControlInv, ControlTypeOK
  <1> QED
    BY <1>1, <1>2, <1>3, <1>4, LosingKeeps

(* An expression that is begun leaves variables and place alone.           *)
LEMMA BeginKeeps ==
  ASSUME ControlInv, NEW e \in Expressions, Begin(e),
         e.form \notin Entrypoints, e.form \in Vars => e.value = value[e.form]
  PROVE  ControlInv'
  <1>1. /\ expr' = e /\ held' = AnyExact /\ Reading
        /\ UNCHANGED <<states, value, leaked, reach, label, runs>>
    BY DEF Begin, SamePlace
  <1>2. ExactIsHeld' /\ ExpressionIsHeld' /\ ReadsWhatRuns'
    BY <1>1 DEF ControlInv, ExactIsHeld, ExpressionIsHeld, ReadsWhatRuns
  <1>3. held' \in BOOLEAN
    BY <1>1, AnyExact \in BOOLEAN, Zenon DEF AnyExact
  <1> QED
    BY <1>1, <1>2, <1>3, ReadingKeeps DEF ControlInv, ControlTypeOK

LEMMA ProductionCallKeeps ==
  ASSUME ControlInv, NEW p \in Entrypoints, ProductionCall(p)
  PROVE  ControlInv'
  <1>1. /\ Visiting /\ Reading /\ held' = held /\ UNCHANGED <<reach, label, runs>>
        /\ states' = IF PassiveArguments THEN states ELSE Invalidated
        /\ LiteralArguments => OthersRun /\ MayKeepClosure
        /\ ~LiteralArguments => Spoils({})
        /\ (~LiteralArguments /\ ~held /\ AnyExact) => leaked' = TRUE
        /\ ~(~LiteralArguments /\ ~held /\ AnyExact) => MayKeepClosure
        /\ expr' = Expression(p, p, LiteralArguments)
    BY DEF ProductionCall, SamePlace
  <1>2. LiteralArguments \in BOOLEAN
    BY DEF LiteralArguments
  <1>3. expr' \in Expressions /\ expr'.form = p /\ expr'.value = p /\ p \notin Vars
    BY <1>1, <1>2, SemanticConstants DEF Expression, Expressions, Values
  <1>4. states' \in [Vars -> States]
    BY <1>1, StatesLost DEF ControlInv, ControlTypeOK
  <1>5. value' \in [Vars -> Values] /\ leaked' \in BOOLEAN /\ (leaked => leaked')
    <2>1. value' \in [Vars -> Values]
      BY <1>1, OpaqueTyping DEF ControlInv
    <2>2. CASE leaked' = TRUE
      BY <2>1, <2>2
    <2>3. CASE MayKeepClosure
      BY <2>1, <2>3, OpaqueTyping DEF ControlInv
    <2> QED
      BY <1>1, <2>2, <2>3
  <1>6. ExactIsHeld'
    <2>1. CASE ~PassiveArguments
      BY <1>1, <2>1, StatesLost DEF ControlInv, ExactIsHeld, Exact
    <2>2. CASE PassiveArguments /\ LiteralArguments
      BY <1>1, <1>5, <2>2, OpaqueTyping DEF ControlInv, ExactIsHeld, Exact
    <2>3. CASE PassiveArguments /\ ~LiteralArguments /\ AnyExact
      BY <1>1, <2>3 DEF PassiveArguments, ExactIsHeld
    <2>4. CASE PassiveArguments /\ ~AnyExact
      BY <1>1, <2>4 DEF ExactIsHeld, AnyExact, Exact
    <2> QED
      BY <2>1, <2>2, <2>3, <2>4
  <1>7. ExpressionIsHeld' /\ ReadsWhatRuns'
    BY <1>1, <1>3 DEF ControlInv, ExpressionIsHeld, ReadsWhatRuns
  <1> QED
    BY <1>1, <1>3, <1>4, <1>5, <1>6, <1>7, ReadingKeeps DEF ControlInv, ControlTypeOK

(* A write of the expression evaluated last.                               *)
LEMMA WriteKeeps ==
  ASSUME ControlInv, NEW v \in Vars, Declare(v) \/ Assign(v)
  PROVE  ControlInv'
  <1>1. /\ Reading /\ UNCHANGED <<held, leaked, reach, label, runs>>
        /\ states' = [states EXCEPT ![v] = Origin] \/ states' = [Invalidated EXCEPT ![v] = Origin]
        /\ value' = [value EXCEPT ![v] = expr.value]
        /\ expr' \in {Plain("other"), Plain(expr.value)}
    BY DEF Declare, Assign, SamePlace
  <1>2. expr.value \in Values /\ "other" \in Values
    BY DEF ControlInv, ControlTypeOK, Values
  <1>3. expr' \in Expressions /\ expr'.form \notin Vars /\ expr'.form \notin Entrypoints
    BY <1>1, <1>2, PlainTyping, SemanticConstants
  <1>4. states' \in [Vars -> States] /\ value' \in [Vars -> Values]
    BY <1>1, <1>2, OriginIsHeld, StatesLost DEF ControlInv, ControlTypeOK
  <1>5. ExactIsHeld'
    <2> SUFFICES ASSUME ~leaked, NEW w \in Vars, Exact(states'[w])
                 PROVE  value'[w] = states'[w]
      BY <1>1 DEF ExactIsHeld, Exact
    <2>1. CASE w = v
      BY <1>1, <2>1, OriginIsHeld, StatesLost DEF ControlInv, ControlTypeOK
    <2>2. CASE w # v
      BY <1>1, <2>2, StatesLost DEF ControlInv, ControlTypeOK, ExactIsHeld
    <2> QED
      BY <2>1, <2>2
  <1>6. ExpressionIsHeld' /\ ReadsWhatRuns'
    BY <1>1, <1>3 DEF ControlInv, ExpressionIsHeld, ReadsWhatRuns
  <1> QED
    BY <1>1, <1>3, <1>4, <1>5, <1>6, ReadingKeeps DEF ControlInv, ControlTypeOK

(* A write that is not followed: a chain, a pattern, a branch or a loop.   *)
LEMMA UnknownWriteKeeps ==
  ASSUME ControlInv, NEW written \in SUBSET Vars,
         OptionalChain(written) \/ AmbiguousFlow(written) \/ \E v \in Vars : Overwrite(v)
  PROVE  ControlInv'
  <1>1. PICK w \in SUBSET Vars :
           /\ Visiting /\ Reading /\ held' = held /\ label' = label
           /\ states' = Marked(w) /\ Spoils(w) /\ MayKeepClosure
           /\ expr' \in {Plain("other"), Expression("ambiguous", "other", FALSE)}
           /\ runs' \in {runs, FALSE} /\ reach' \in {reach, "blocked"}
           /\ reach' = "blocked" \/ runs' = runs
    BY DEF OptionalChain, AmbiguousFlow, Overwrite, Opaque, SamePlace
  <1>2. /\ states' \in [Vars -> States] /\ \A v \in Vars : ~Exact(states'[v])
        /\ value' \in [Vars -> Values] /\ leaked' \in BOOLEAN
    BY <1>1, StatesLost, OpaqueTyping DEF ControlInv
  <1>3. expr' \in Expressions /\ expr'.form \notin Vars /\ expr'.form \notin Entrypoints
    <2>1. "other" \in Values
      BY DEF Values
    <2>2. /\ Expression("ambiguous", "other", FALSE) \in Expressions
          /\ Expression("ambiguous", "other", FALSE).form = "ambiguous"
      BY DEF Expression, Expressions, Values
    <2> QED
      BY <1>1, <2>1, <2>2, PlainTyping, SemanticConstants
  <1>4. reach' \in {"normal", "blocked"} /\ runs' \in BOOLEAN /\ (reach' = "normal" => reach = "normal" /\ runs' = runs)
    BY <1>1 DEF Visiting, ControlInv, ControlTypeOK
  <1> QED
    BY <1>1, <1>2, <1>3, <1>4, LosingKeeps

(* A jump, or the block it ends: where the analysis reads on, the test     *)
(* runs on.                                                                *)
LEMMA JumpKeeps ==
  ASSUME ControlInv, Exit \/ OpenLabel \/ Break \/ CloseLabel
  PROVE  ControlInv'
  <1>1. /\ Reading /\ UNCHANGED <<states, value, held, leaked>>
        /\ expr' \in {expr, Plain("other")}
        /\ label' \in BOOLEAN /\ runs' \in BOOLEAN /\ reach' \in {"normal", "breaking", "blocked", "left"}
    BY DEF Exit, OpenLabel, Break, CloseLabel, ControlInv, ControlTypeOK
  <1>2. ReadsWhatRuns'
    BY DEF Exit, OpenLabel, Break, CloseLabel, ControlInv, ReadsWhatRuns
  <1>3. Plain("other") \in Expressions /\ Plain("other").form \notin Vars /\ Plain("other").form \notin Entrypoints
    <2>1. "other" \in Values
      BY DEF Values
    <2> QED
      BY <2>1, PlainTyping, SemanticConstants
  <1>4. ExactIsHeld' /\ ExpressionIsHeld'
    BY <1>1, <1>3 DEF ControlInv, ExactIsHeld, ExpressionIsHeld
  <1> QED
    BY <1>1, <1>2, <1>3, <1>4, ReadingKeeps DEF ControlInv, ControlTypeOK, Expressions

(* The observation of a test is of what an entrypoint returned.            *)
LEMMA ObserveKeeps ==
  ASSUME ControlInv, Observe
  PROVE  ControlInv'
  <1> DEFINE observed == [origin |-> ReceivedOrigin, received |-> expr.value, reached |-> runs, leaked |-> leaked]
  <1>1. /\ phase \in Tests /\ reach = "normal" /\ runs /\ Exact(ReceivedOrigin)
        /\ expr.value \in Values /\ leaked \in BOOLEAN /\ runs \in BOOLEAN
        /\ leaked \/ expr.value = ReceivedOrigin
    BY OriginIsHeld DEF Observe, Visiting, ControlInv, ControlTypeOK, ReadsWhatRuns
  <1>2. /\ observed \in [origin : {"none"} \cup Entrypoints, received : Values,
                         reached : BOOLEAN, leaked : BOOLEAN]
        /\ observed.origin = ReceivedOrigin /\ observed.origin # "none"
        /\ observed.leaked \/ (observed.reached /\ observed.received = observed.origin)
    <2>1. observed \in [origin : {"none"} \cup Entrypoints, received : Values,
                        reached : BOOLEAN, leaked : BOOLEAN]
      BY <1>1 DEF Exact
    <2>2. observed.origin # "none"
      BY <1>1, SemanticConstants DEF Exact
    <2>3. observed.leaked \/ (observed.reached /\ observed.received = observed.origin)
      BY <1>1
    <2> QED
      BY <2>1, <2>2, <2>3
  <1> HIDE DEF observed
  <1>3. /\ seen' = [seen EXCEPT ![phase] = observed]
        /\ phase' = IF phase = "control" THEN "red"
                    ELSE IF SameEntrypoint(ReceivedOrigin) THEN "run_control" ELSE "rejected"
        /\ states' = [v \in Vars |-> "untainted"] /\ value' = [v \in Vars |-> "other"]
        /\ expr' = Plain("other")
        /\ held' = FALSE /\ leaked' = FALSE /\ label' = FALSE /\ reach' = "normal" /\ runs' = TRUE
        /\ red' = red
    BY DEF Observe, observed
  <1>4. expr' \in Expressions /\ expr'.form \notin Vars /\ expr'.form \notin Entrypoints
    <2>1. "other" \in Values
      BY DEF Values
    <2> QED
      BY <1>3, <2>1, PlainTyping, SemanticConstants
  <1>5. ControlTypeOK'
    BY <1>1, <1>2, <1>3, <1>4 DEF ControlInv, ControlTypeOK, Expressions, States, Values, Tests
  <1>6. ExactIsHeld' /\ ExpressionIsHeld' /\ ReadsWhatRuns'
    BY <1>3, <1>4, SemanticConstants DEF ExactIsHeld, Exact, ExpressionIsHeld, ReadsWhatRuns
  <1>7. ObservedIsHeld'
    BY <1>1, <1>2, <1>3 DEF ControlInv, ControlTypeOK, ObservedIsHeld, Tests
  <1>8. BothObserved'
    <2>1. CASE phase = "control"
      BY <1>2, <1>3, <2>1 DEF ControlInv, ControlTypeOK, BothObserved, Tests
    <2>2. CASE phase = "red"
      BY <1>2, <1>3, <2>2 DEF ControlInv, ControlTypeOK, BothObserved, Tests, SameEntrypoint
    <2> QED
      BY <1>1, <2>1, <2>2 DEF Tests
  <1> QED
    BY <1>5, <1>6, <1>7, <1>8 DEF ControlInv

LEMMA OtherAssertionKeeps ==
  ASSUME ControlInv, NEW independent \in BOOLEAN, NEW member \in BOOLEAN, OtherAssertion(independent, member)
  PROVE  ControlInv'
  <1>1. /\ Visiting /\ Reading /\ expr' = Plain("other") /\ UNCHANGED <<held, reach, label, runs>>
        /\ \/ UNCHANGED <<states, value, leaked>>
           \/ states' = Invalidated /\ Spoils({}) /\ MayKeepClosure
    BY DEF OtherAssertion, Opaque, SamePlace
  <1>2. expr' \in Expressions /\ expr'.form \notin Vars /\ expr'.form \notin Entrypoints
    <2>1. "other" \in Values
      BY DEF Values
    <2> QED
      BY <1>1, <2>1, PlainTyping, SemanticConstants
  <1>3. CASE UNCHANGED <<states, value, leaked>>
    <2>1. ExactIsHeld' /\ ExpressionIsHeld' /\ ReadsWhatRuns'
      BY <1>1, <1>2, <1>3 DEF ControlInv, ExactIsHeld, ExpressionIsHeld, ReadsWhatRuns
    <2> QED
      BY <1>1, <1>2, <1>3, <2>1, ReadingKeeps DEF ControlInv, ControlTypeOK
  <1>4. CASE states' = Invalidated /\ Spoils({}) /\ MayKeepClosure
    <2>1. /\ states' \in [Vars -> States] /\ \A v \in Vars : ~Exact(states'[v])
          /\ value' \in [Vars -> Values] /\ leaked' \in BOOLEAN
      BY <1>4, StatesLost, OpaqueTyping DEF ControlInv
    <2>2. reach' \in {"normal", "blocked"} /\ runs' \in BOOLEAN
      BY <1>1 DEF Visiting, ControlInv, ControlTypeOK
    <2> QED
      BY <1>1, <1>2, <2>1, <2>2, LosingKeeps
  <1> QED
    BY <1>1, <1>3, <1>4

LEMMA AwaitKeeps ==
  ASSUME ControlInv, Await
  PROVE  ControlInv'
  <1>1. /\ Reading /\ OthersRun /\ UNCHANGED <<states, held, leaked, reach, label, runs>>
        /\ expr' = [expr EXCEPT !.form = IF @ = "literal" THEN "plain" ELSE @]
    BY DEF Await, SamePlace
  <1>2. /\ expr' \in Expressions /\ expr'.value = expr.value
        /\ expr'.form = expr.form \/ expr'.form = "plain"
    BY <1>1 DEF ControlInv, ControlTypeOK, Expressions
  <1>3. value' \in [Vars -> Values] /\ (~leaked => value' = value)
    BY <1>1, OpaqueTyping DEF ControlInv
  <1>4. ExactIsHeld' /\ ExpressionIsHeld' /\ ReadsWhatRuns'
    BY <1>1, <1>2, <1>3, SemanticConstants DEF ControlInv, ExactIsHeld, ExpressionIsHeld, ReadsWhatRuns
  <1> QED
    BY <1>1, <1>2, <1>3, <1>4, ReadingKeeps DEF ControlInv, ControlTypeOK

(* Each construct that is read, and each run, preserves the invariant.     *)
LEMMA ControlStep == ControlInv /\ [ControlNext]_controlVars => ControlInv'
  <1> SUFFICES ASSUME ControlInv, [ControlNext]_controlVars
               PROVE  ControlInv'
    OBVIOUS
  <1>1. "other" \in Values /\ "closure" \in Values
    BY DEF Values
  <1>2. CASE Literal \/ FunctionLiteral
    <2>1. /\ Expression("literal", "other", FALSE) \in Expressions
          /\ Expression("literal", "other", FALSE).form = "literal"
      BY <1>1 DEF Expression, Expressions
    <2>2. CASE Literal
      BY <2>1, <2>2, BeginKeeps, SemanticConstants DEF Literal
    <2>3. CASE FunctionLiteral
      BY <1>1, <2>3, PlainTyping, BeginKeeps, SemanticConstants DEF FunctionLiteral
    <2> QED
      BY <1>2, <2>2, <2>3
  <1>3. ASSUME NEW v \in Vars, Name(v)
        PROVE  ControlInv'
    <2>1. /\ Expression(v, value[v], FALSE) \in Expressions
          /\ Expression(v, value[v], FALSE).form = v /\ Expression(v, value[v], FALSE).value = value[v]
      BY DEF Expression, Expressions, ControlInv, ControlTypeOK
    <2> QED
      BY <1>3, <2>1, BeginKeeps, SemanticConstants DEF Name
  <1>4. CASE OtherCall \/ Construct \/ Operate \/ ClassBody
    BY <1>1, <1>4, ContinueKeeps DEF OtherCall, Construct, Operate, ClassBody
  <1>5. CASE Await
    BY <1>5, AwaitKeeps
  <1>6. ASSUME NEW v \in Vars, Declare(v) \/ Assign(v)
        PROVE  ControlInv'
    BY <1>6, WriteKeeps
  <1>7. ASSUME NEW p \in Entrypoints, ProductionCall(p)
        PROVE  ControlInv'
    BY <1>7, ProductionCallKeeps
  <1>8. ASSUME NEW written \in SUBSET Vars,
               OptionalChain(written) \/ AmbiguousFlow(written) \/ \E v \in Vars : Overwrite(v)
        PROVE  ControlInv'
    BY <1>8, UnknownWriteKeeps
  <1>9. CASE Exit \/ OpenLabel \/ Break \/ CloseLabel
    BY <1>9, JumpKeeps
  <1>10. CASE Observe
    BY <1>10, ObserveKeeps
  <1>11. ASSUME NEW independent \in BOOLEAN, NEW member \in BOOLEAN, OtherAssertion(independent, member)
         PROVE  ControlInv'
    BY <1>11, OtherAssertionKeeps
  <1>12. CASE Reject \/ RunControl \/ UNCHANGED controlVars
    <2>1. /\ UNCHANGED <<states, value, expr, held, leaked, reach, label, runs, seen, red>>
          /\ \/ phase' = phase
             \/ phase' = "rejected"
             \/ phase = "run_control" /\ phase' = "run_red"
      BY <1>12 DEF Reject, RunControl, controlVars, test
    <2>2. ControlTypeOK'
      BY <2>1 DEF ControlInv, ControlTypeOK
    <2>3. ExactIsHeld' /\ ExpressionIsHeld' /\ ReadsWhatRuns' /\ ObservedIsHeld'
      BY <2>1 DEF ControlInv, ExactIsHeld, ExpressionIsHeld, ReadsWhatRuns, ObservedIsHeld
    <2>4. BothObserved'
      BY <2>1 DEF ControlInv, BothObserved
    <2> QED
      BY <2>2, <2>3, <2>4 DEF ControlInv
  <1>13. CASE RunRed
    <2>1. /\ UNCHANGED <<states, value, expr, held, leaked, reach, label, runs, seen>>
          /\ phase = "run_red" /\ red' \in {"passed", "setup", "matcher", "afterwards"}
          /\ phase' = IF red' \in {"matcher", "afterwards"} THEN "accepted" ELSE "rejected"
      BY <1>13 DEF RunRed, test, FailedAsExpected
    <2>2. ControlTypeOK'
      BY <2>1 DEF ControlInv, ControlTypeOK
    <2>3. ExactIsHeld' /\ ExpressionIsHeld' /\ ReadsWhatRuns' /\ ObservedIsHeld'
      BY <2>1 DEF ControlInv, ExactIsHeld, ExpressionIsHeld, ReadsWhatRuns, ObservedIsHeld
    <2>4. BothObserved'
      BY <2>1 DEF ControlInv, BothObserved
    <2> QED
      BY <2>2, <2>3, <2>4 DEF ControlInv
  <1> QED
    BY <1>2, <1>3, <1>4, <1>5, <1>6, <1>7, <1>8, <1>9, <1>10, <1>11, <1>12, <1>13
       DEF ControlNext, ReadConstruct

-----------------------------------------------------------------------------
(* The cleanup workflow.                                                   *)

(* What content a tree may give a path that no restore has lost: the one   *)
(* of HEAD, or, for an accepted path, the one it was accepted with; and    *)
(* what a committed group's paths have, unless accepted since, is at HEAD. *)
Sound(w) ==
    \A p \in Paths \ refused :
        /\ w[p] # head[p] => p \in accepted /\ w[p] = approved[p]
        /\ (GroupOf[p] < group /\ p \notin behind) => w[p] = head[p]

(* HEAD has nothing that was not accepted.                                 *)
HeadIsApproved ==
    \A p \in Paths \ refused :
        /\ head[p] \in {0, approved[p]}
        /\ p \notin accepted => head[p] = 0

(* Between attempts the tree is sound; during one the tree recorded at its *)
(* beginning is, and the attempt is about paths that are not accepted yet. *)
InAttempt == stage \in {"edit", "validate", "repair"}

TreeIsSound == ~InAttempt => Sound(work)

AttemptIsSound ==
    InAttempt =>
        /\ Sound(attempt.before)
        /\ next \in 1..Len(Order)
        /\ {Target} \cup attempt.extras \subseteq Files \ accepted

LastIsCommitted ==
    stage \in {"verify", "published"} =>
        \A p \in Paths \ refused : head[p] = work[p] \/ p \in behind \/ GroupOf[p] > group

(* A file counts once it is begun, and a repair is one that was allowed.   *)
Counted ==
    /\ processed <= IF InAttempt THEN next ELSE next - 1
    /\ stage = "repair" => attempt.repairs < RepairCeiling

CleanupInv ==
    /\ CleanupTypeOK /\ Counted
    /\ HeadIsApproved /\ TreeIsSound /\ AttemptIsSound /\ LastIsCommitted

LEMMA CleanupInvImplies == CleanupInv => PublishedIsApproved
  BY DEF CleanupInv, HeadIsApproved, LastIsCommitted, PublishedIsApproved

(* The files of the list are files, and their groups are numbers.          *)
LEMMA OrderFacts ==
  /\ Len(Order) \in Nat
  /\ \A i \in 1..Len(Order) : Order[i] \in Files
  /\ \A p \in Paths : GroupOf[p] \in 1..Groups
  /\ Files \subseteq Paths /\ NoTest \notin Files
  /\ \A f \in Files : TestOf[f] \in Files \cup {NoTest}
  <1>1. Len(Order) \in Nat
    BY CleanupConstants
  <1> QED
    BY <1>1, CleanupConstants DEF Files, Paths

LEMMA CleanupInitial == CleanupInit => CleanupInv
  <1> SUFFICES ASSUME CleanupInit PROVE CleanupInv
    OBVIOUS
  <1>1. /\ head = [p \in Paths |-> 0] /\ work = head /\ approved = head
        /\ stage = "start" /\ group = 1 /\ next = 1 /\ processed = 0 /\ maxFiles \in Limits
        /\ accepted = {} /\ behind = {} /\ refused = {} /\ attempt = NoAttempt
    BY DEF CleanupInit
  <1>2. head \in [Paths -> Contents] /\ 1 \in 1..(Len(Order) + 1) /\ 0 \in 0..Len(Order) /\ 1 \in 1..Groups
    BY <1>1, OrderFacts, CleanupConstants
  <1>3. NoAttempt \in [before : [Paths -> Contents], extras : SUBSET Files, repairs : 0..RepairCeiling]
    BY CleanupConstants DEF NoAttempt
  <1>4. CleanupTypeOK
    BY <1>1, <1>2, <1>3 DEF CleanupTypeOK
  <1>5. HeadIsApproved /\ TreeIsSound /\ AttemptIsSound /\ LastIsCommitted /\ Counted
    BY <1>1 DEF HeadIsApproved, TreeIsSound, Sound, AttemptIsSound, InAttempt, LastIsCommitted, Counted
  <1> QED
    BY <1>4, <1>5 DEF CleanupInv

CleanupFields ==
    /\ head \in [Paths -> Contents] /\ work \in [Paths -> Contents] /\ approved \in [Paths -> Contents]
    /\ attempt.before \in [Paths -> Contents] /\ attempt.extras \subseteq Files
    /\ attempt.repairs \in 0..RepairCeiling
    /\ group \in Nat /\ next \in Nat /\ next >= 1 /\ processed \in Nat
    /\ accepted \subseteq Files /\ behind \subseteq Files /\ refused \subseteq Files

LEMMA CleanupFieldsTyped == CleanupTypeOK => CleanupFields
  BY OrderFacts, CleanupConstants DEF CleanupTypeOK, CleanupFields

(* A path the files of the project do not have was never committed: git    *)
(* does not track it.                                                      *)
LEMMA OnlyFilesTracked ==
  ASSUME CleanupInv, NEW p \in Paths, Tracked(p)
  PROVE  p \in Files
  <1>1. p \notin Files => p \notin refused /\ p \notin accepted
    BY CleanupFieldsTyped DEF CleanupInv, CleanupFields
  <1> QED
    BY <1>1 DEF CleanupInv, HeadIsApproved, Tracked

(* What an agent leaves, judged against the tree before the attempt: a     *)
(* path that is not reported as attempted is as it was, or as HEAD has it. *)
LEMMA UnattemptedStays ==
  ASSUME CleanupInv, InAttempt, NEW w \in [Paths -> Contents],
         NEW p \in Paths \ refused, p \notin AttemptPaths(attempt.before, w)
  PROVE  w[p] = head[p] \/ w[p] = attempt.before[p]
  <1>1. CleanupFields /\ Sound(attempt.before)
    BY CleanupFieldsTyped DEF CleanupInv, AttemptIsSound
  <1>2. SUFFICES ASSUME p \in Dirty(w) PROVE w[p] = attempt.before[p]
    BY DEF Dirty
  <1>3. p \in Dirty(attempt.before) /\ ~Differs(p, w, attempt.before)
    BY <1>2 DEF AttemptPaths
  <1>4. p \in accepted
    BY <1>1, <1>3 DEF Sound, Dirty
  <1>5. Tracked(p)
    BY <1>1, <1>4 DEF CleanupFields, Tracked
  <1> QED
    BY <1>3, <1>5 DEF Differs

(* What git leaves of paths it was asked to restore: they are at HEAD, or  *)
(* recorded as refused.                                                    *)
LEMMA RestoredOrRefused ==
  ASSUME CleanupInv, NEW w \in [Paths -> Contents], NEW paths \in SUBSET Paths
  PROVE  /\ Restored(paths, w) \in [Paths -> Contents]
         /\ refused \subseteq NowRefused(paths) /\ NowRefused(paths) \subseteq Files
         /\ \A p \in Paths \ NowRefused(paths) :
              Restored(paths, w)[p] = IF p \in paths THEN head[p] ELSE w[p]
  <1>1. CleanupFields
    BY CleanupFieldsTyped DEF CleanupInv
  <1>2. \A p \in paths : Tracked(p) => p \in Files
    BY OnlyFilesTracked
  <1> QED
    BY <1>1, <1>2 DEF CleanupFields, Restored, NowRefused

(* An attempt that is dropped leaves a sound tree behind.                  *)
LEMMA DropKeeps ==
  ASSUME CleanupInv, InAttempt, NEW w \in [Paths -> Contents], Drop(AttemptPaths(attempt.before, w), w)
  PROVE  CleanupInv'
  <1> DEFINE paths == AttemptPaths(attempt.before, w)
  <1>1. CleanupFields /\ Sound(attempt.before) /\ next \in 1..Len(Order)
    BY CleanupFieldsTyped DEF CleanupInv, AttemptIsSound
  <1>2. paths \in SUBSET Paths
    BY DEF AttemptPaths, Dirty
  <1>3. \A p \in Paths \ refused : p \notin paths => w[p] = head[p] \/ w[p] = attempt.before[p]
    BY UnattemptedStays
  <1>4. /\ work' = Restored(paths, w) /\ refused' = NowRefused(paths)
        /\ stage' = "file" /\ next' = next + 1 /\ attempt' = NoAttempt
        /\ UNCHANGED <<group, processed, maxFiles, head, accepted, approved, behind>>
    BY DEF Drop
  <1> HIDE DEF paths
  <1>5. /\ work' \in [Paths -> Contents] /\ refused \subseteq refused' /\ refused' \subseteq Files
        /\ \A p \in Paths \ refused' : work'[p] = IF p \in paths THEN head[p] ELSE w[p]
    BY <1>2, <1>4, RestoredOrRefused
  <1>6. CleanupTypeOK'
    <2>1. NoAttempt \in [before : [Paths -> Contents], extras : SUBSET Files, repairs : 0..RepairCeiling]
      BY CleanupConstants DEF NoAttempt
    <2>2. next' \in 1..(Len(Order) + 1)
      BY <1>1, <1>4, OrderFacts
    <2> QED
      BY <1>4, <1>5, <2>1, <2>2 DEF CleanupInv, CleanupTypeOK
  <1>7. Counted'
    BY <1>1, <1>4 DEF CleanupInv, Counted, InAttempt, CleanupFields
  <1>8. HeadIsApproved'
    BY <1>4, <1>5 DEF CleanupInv, HeadIsApproved
  <1>9. TreeIsSound'
    <2> SUFFICES ASSUME NEW p \in Paths \ refused'
                 PROVE  /\ work'[p] # head[p] => p \in accepted /\ work'[p] = approved[p]
                        /\ (GroupOf[p] < group /\ p \notin behind) => work'[p] = head[p]
      BY <1>4 DEF TreeIsSound, Sound
    <2>1. work'[p] = head[p] \/ work'[p] = attempt.before[p]
      BY <1>3, <1>5
    <2> QED
      BY <1>1, <1>5, <2>1 DEF Sound
  <1>10. AttemptIsSound' /\ LastIsCommitted'
    BY <1>4 DEF AttemptIsSound, LastIsCommitted, InAttempt
  <1> QED
    BY <1>6, <1>7, <1>8, <1>9, <1>10 DEF CleanupInv

(* A step between attempts that moves on in the list.                      *)
LEMMA MovingOnKeeps ==
  ASSUME CleanupInv, ~InAttempt, ~InAttempt', stage' \notin {"verify", "published"},
         stage' \in {"file", "commit", "over"},
         next' \in 1..(Len(Order) + 1), next <= next', processed' \in 0..Len(Order),
         processed' <= next' - 1,
         UNCHANGED <<group, maxFiles, head, work, attempt, accepted, histories>>
  PROVE  CleanupInv'
  <1>1. CleanupTypeOK'
    BY DEF CleanupInv, CleanupTypeOK, histories
  <1>2. Counted'
    BY DEF Counted, InAttempt
  <1>3. HeadIsApproved' /\ TreeIsSound' /\ AttemptIsSound' /\ LastIsCommitted'
    BY DEF CleanupInv, HeadIsApproved, TreeIsSound, Sound, AttemptIsSound, LastIsCommitted, histories
  <1> QED
    BY <1>1, <1>2, <1>3 DEF CleanupInv

(* An accepted attempt was about paths that had not been accepted: what    *)
(* is at HEAD of them is the base.                                         *)
LEMMA ValidatedKeeps ==
  ASSUME CleanupInv, Validated
  PROVE  CleanupInv'
  <1>1. CleanupFields /\ InAttempt /\ Sound(attempt.before) /\ next \in 1..Len(Order)
        /\ {Target} \cup attempt.extras \subseteq Files \ accepted
    BY CleanupFieldsTyped DEF CleanupInv, AttemptIsSound, InAttempt, Validated
  <1>2. Since \subseteq Files \ accepted
    BY <1>1 DEF Validated, FinalGuard, InScope
  <1>3. /\ accepted' = accepted \cup Since
        /\ approved' = [p \in Paths |-> IF p \in Since THEN work[p] ELSE approved[p]]
        /\ behind' = behind \cup {p \in Since : GroupOf[p] < group}
        /\ stage' = "file" /\ next' = next + 1 /\ attempt' = NoAttempt
        /\ UNCHANGED <<group, processed, maxFiles, head, work, refused>>
    BY DEF Validated
  <1>4. \A p \in Paths \ refused : p \notin Since => work[p] = head[p] \/ work[p] = attempt.before[p]
    BY <1>1, UnattemptedStays DEF CleanupFields, Since
  <1> HIDE DEF Since
  <1>5. CleanupTypeOK'
    <2>1. NoAttempt \in [before : [Paths -> Contents], extras : SUBSET Files, repairs : 0..RepairCeiling]
      BY CleanupConstants DEF NoAttempt
    <2>2. next' \in 1..(Len(Order) + 1)
      BY <1>1, <1>3, OrderFacts
    <2>3. approved' \in [Paths -> Contents]
      BY <1>1, <1>3 DEF CleanupFields
    <2>4. accepted' \subseteq Files /\ behind' \subseteq Files
      BY <1>1, <1>2, <1>3 DEF CleanupFields
    <2> QED
      BY <1>3, <2>1, <2>2, <2>3, <2>4 DEF CleanupInv, CleanupTypeOK
  <1>6. Counted'
    BY <1>1, <1>3 DEF CleanupInv, Counted, InAttempt, CleanupFields
  <1>7. HeadIsApproved'
    <2> SUFFICES ASSUME NEW p \in Paths \ refused
                 PROVE  /\ head[p] \in {0, approved'[p]}
                        /\ p \notin accepted' => head[p] = 0
      BY <1>3 DEF HeadIsApproved
    <2>1. CASE p \in Since
      BY <1>2, <1>3, <2>1 DEF CleanupInv, HeadIsApproved
    <2>2. CASE p \notin Since
      BY <1>3, <2>2 DEF CleanupInv, HeadIsApproved
    <2> QED
      BY <2>1, <2>2
  <1>8. TreeIsSound'
    <2> SUFFICES ASSUME NEW p \in Paths \ refused
                 PROVE  /\ work[p] # head[p] => p \in accepted' /\ work[p] = approved'[p]
                        /\ (GroupOf[p] < group /\ p \notin behind') => work[p] = head[p]
      BY <1>3 DEF TreeIsSound, Sound
    <2>1. CASE p \in Since
      BY <1>3, <2>1
    <2>2. CASE p \notin Since
      BY <1>1, <1>3, <1>4, <2>2 DEF Sound
    <2> QED
      BY <2>1, <2>2
  <1>9. AttemptIsSound' /\ LastIsCommitted'
    BY <1>3 DEF AttemptIsSound, LastIsCommitted, InAttempt
  <1> QED
    BY <1>5, <1>6, <1>7, <1>8, <1>9 DEF CleanupInv

(* A commit takes to HEAD what is sound in the tree.                       *)
LEMMA CommitKeeps ==
  ASSUME CleanupInv, Commit
  PROVE  CleanupInv'
  <1>1. CleanupFields /\ Sound(work) /\ stage = "commit" /\ ~InAttempt
    BY CleanupFieldsTyped DEF CleanupInv, TreeIsSound, InAttempt, Commit
  <1>2. /\ head' = [p \in Paths |-> IF p \in GroupDirt THEN work[p] ELSE head[p]]
        /\ UNCHANGED <<next, processed, maxFiles, work, attempt, accepted, approved, behind, refused>>
        /\ \/ stage' = "verify" /\ group' = group
           \/ stage' = "file" /\ group' = group + 1 /\ group # Groups
    BY DEF Commit, histories
  <1>3. \A p \in Paths : GroupOf[p] \in Nat
    BY OrderFacts
  <1>4. \A p \in Paths : head'[p] = IF GroupOf[p] = group THEN work[p] ELSE head[p]
    BY <1>2 DEF GroupDirt, Dirty
  <1>5. CleanupTypeOK'
    <2>1. head' \in [Paths -> Contents]
      BY <1>1, <1>2 DEF CleanupFields
    <2>2. group' \in 1..Groups
      BY <1>2, CleanupConstants DEF CleanupInv, CleanupTypeOK
    <2> QED
      BY <1>2, <2>1, <2>2 DEF CleanupInv, CleanupTypeOK
  <1>6. Counted'
    BY <1>1, <1>2 DEF CleanupInv, Counted, InAttempt
  <1>7. HeadIsApproved'
    BY <1>1, <1>2, <1>4 DEF CleanupInv, HeadIsApproved, Sound
  <1>8. TreeIsSound'
    <2> SUFFICES ASSUME NEW p \in Paths \ refused
                 PROVE  /\ work[p] # head'[p] => p \in accepted /\ work[p] = approved[p]
                        /\ (GroupOf[p] < group' /\ p \notin behind) => work[p] = head'[p]
      BY <1>2 DEF TreeIsSound, Sound
    <2>1. GroupOf[p] < group' => GroupOf[p] < group \/ GroupOf[p] = group
      BY <1>1, <1>2, <1>3 DEF CleanupFields
    <2> QED
      BY <1>1, <1>4, <2>1 DEF Sound
  <1>9. LastIsCommitted'
    <2> SUFFICES ASSUME NEW p \in Paths \ refused, stage' = "verify"
                 PROVE  head'[p] = work[p] \/ p \in behind \/ GroupOf[p] > group
      BY <1>2 DEF LastIsCommitted
    <2>1. GroupOf[p] = group \/ GroupOf[p] < group \/ GroupOf[p] > group
      BY <1>1, <1>3 DEF CleanupFields
    <2> QED
      BY <1>1, <1>4, <2>1 DEF Sound
  <1>10. AttemptIsSound'
    BY <1>2 DEF AttemptIsSound, InAttempt
  <1> QED
    BY <1>5, <1>6, <1>7, <1>8, <1>9, <1>10 DEF CleanupInv

(* Whatever an agent writes, its attempt is still about the same paths.    *)
LEMMA WritingKeeps ==
  ASSUME CleanupInv, InAttempt, stage' \in {"validate", "repair"},
         work' \in [Paths -> Contents],
         refused \subseteq refused', refused' \subseteq Files,
         attempt'.before = attempt.before, attempt'.extras = attempt.extras,
         attempt' \in [before : [Paths -> Contents], extras : SUBSET Files, repairs : 0..RepairCeiling],
         stage' = "repair" => attempt'.repairs < RepairCeiling,
         UNCHANGED <<position, head, accepted, approved, behind>>
  PROVE  CleanupInv'
  <1>1. CleanupTypeOK'
    BY DEF CleanupInv, CleanupTypeOK, position
  <1>2. Counted'
    BY DEF CleanupInv, Counted, InAttempt, position
  <1>3. HeadIsApproved' /\ TreeIsSound' /\ LastIsCommitted'
    BY DEF CleanupInv, HeadIsApproved, TreeIsSound, LastIsCommitted, InAttempt
  <1>4. AttemptIsSound'
    BY DEF CleanupInv, AttemptIsSound, Sound, InAttempt, Target, position
  <1> QED
    BY <1>1, <1>2, <1>3, <1>4 DEF CleanupInv

LEMMA WrittenTyping ==
  ASSUME CleanupInv, NEW hit \in SUBSET Paths, NEW content \in Contents
  PROVE  Written(work, hit, content) \in [Paths -> Contents]
  BY DEF CleanupInv, CleanupTypeOK, Written

(* Each step of the cleanup workflow preserves its invariant.              *)
LEMMA CleanupStep == CleanupInv /\ [CleanupNext]_cleanupVars => CleanupInv'
  <1> SUFFICES ASSUME CleanupInv, [CleanupNext]_cleanupVars
               PROVE  CleanupInv'
    OBVIOUS
  <1>1. CleanupFields /\ processed \in 0..Len(Order) /\ next \in 1..(Len(Order) + 1) /\ Len(Order) \in Nat
    BY CleanupFieldsTyped, OrderFacts DEF CleanupInv, CleanupTypeOK
  <1>2. CASE UNCHANGED cleanupVars
    BY <1>2 DEF cleanupVars, position, histories, CleanupInv, CleanupTypeOK, Counted, HeadIsApproved,
                TreeIsSound, AttemptIsSound, Sound, LastIsCommitted, InAttempt, Target
  <1>3. CASE StartCleanup \/ SkipAccepted \/ EndGroup \/ Stop
    <2>1. /\ ~InAttempt /\ stage' \in {"file", "commit", "over"}
          /\ UNCHANGED <<group, processed, maxFiles, head, work, attempt, accepted, histories>>
          /\ next' = next \/ (next' = next + 1 /\ next <= Len(Order))
      BY <1>3 DEF StartCleanup, SkipAccepted, EndGroup, Stop, InGroup, InAttempt, position
    <2>2. processed <= next - 1
      BY <2>1 DEF CleanupInv, Counted
    <2>3. next' \in 1..(Len(Order) + 1) /\ next <= next' /\ processed' \in 0..Len(Order) /\ processed' <= next' - 1
      BY <1>1, <2>1, <2>2 DEF CleanupFields
    <2> QED
      BY <2>1, <2>3, MovingOnKeeps DEF InAttempt
  <1>4. CASE BeginFile
    <2>1. /\ stage = "file" /\ next <= Len(Order) /\ Target \notin accepted
          /\ processed' = processed + 1 /\ processed <= next - 1
          /\ UNCHANGED <<group, maxFiles, head, work, accepted, histories>>
      BY <1>4 DEF BeginFile, InGroup, CleanupInv, Counted, InAttempt
    <2>2. processed' \in 0..Len(Order) /\ processed' <= next
      BY <1>1, <2>1 DEF CleanupFields
    <2>3. CASE stage' = "file" /\ next' = next + 1 /\ attempt' = attempt
      <3>1. next' \in 1..(Len(Order) + 1) /\ next <= next' /\ processed' <= next' - 1
        BY <1>1, <2>1, <2>2, <2>3 DEF CleanupFields
      <3> QED
        BY <2>1, <2>2, <2>3, <3>1, MovingOnKeeps DEF InAttempt
    <2>4. CASE /\ stage' = "edit" /\ next' = next
               /\ attempt' = [before |-> work, repairs |-> 0, extras |-> AllowedExtras]
      <3>1. next \in 1..Len(Order) /\ Target \in Files
        BY <1>1, <2>1, OrderFacts DEF Target
      <3>2. AllowedExtras \subseteq Files \ accepted
        BY <3>1, OrderFacts DEF AllowedExtras
      <3>3. /\ attempt' \in [before : [Paths -> Contents], extras : SUBSET Files, repairs : 0..RepairCeiling]
            /\ attempt'.before = work /\ attempt'.extras = AllowedExtras
        BY <1>1, <2>4, <3>2, CleanupConstants DEF CleanupFields
      <3>4. CleanupTypeOK'
        BY <2>1, <2>2, <2>4, <3>3 DEF CleanupInv, CleanupTypeOK, histories
      <3>5. Counted'
        BY <2>2, <2>4 DEF Counted, InAttempt
      <3>6. HeadIsApproved' /\ TreeIsSound' /\ LastIsCommitted'
        BY <2>1, <2>4 DEF CleanupInv, HeadIsApproved, TreeIsSound, LastIsCommitted, InAttempt, histories
      <3>7. Sound(work)
        BY <2>1 DEF CleanupInv, TreeIsSound, InAttempt
      <3>8. AttemptIsSound'
        BY <2>1, <2>4, <3>1, <3>2, <3>3, <3>7 DEF AttemptIsSound, Sound, Target, histories
      <3> QED
        BY <3>4, <3>5, <3>6, <3>8 DEF CleanupInv
    <2> QED
      BY <1>4, <2>3, <2>4 DEF BeginFile
  <1>5. ASSUME NEW hit \in SUBSET Paths, NEW content \in Contents, NEW answer, AgentEdits(hit, content, answer)
        PROVE  CleanupInv'
    <2> DEFINE w == Written(work, hit, content)
    <2>1. w \in [Paths -> Contents] /\ InAttempt
      BY <1>5, WrittenTyping DEF AgentEdits, InAttempt
    <2>2. CASE Drop(AttemptPaths(attempt.before, w), w)
      BY <2>1, <2>2, DropKeeps
    <2>3. CASE /\ work' = w /\ stage' = "validate"
               /\ UNCHANGED <<position, head, attempt, accepted, histories>>
      BY <1>1, <2>1, <2>3, WritingKeeps DEF CleanupInv, CleanupTypeOK, CleanupFields, histories
    <2> QED
      BY <1>5, <2>2, <2>3 DEF AgentEdits
  <1>6. ASSUME NEW hit \in SUBSET Paths, NEW content \in Contents, NEW throws \in BOOLEAN,
               Repair(hit, content, throws)
        PROVE  CleanupInv'
    <2> DEFINE w == Written(work, hit, content)
               undone == Dirty(w) \ Dirty(work)
    <2>1. /\ stage = "repair" /\ stage' = "validate" /\ InAttempt
          /\ UNCHANGED <<position, head, accepted, approved, behind>>
          /\ attempt' = [attempt EXCEPT !.repairs = @ + 1]
          /\ \/ work' = Restored(undone, w) /\ refused' = NowRefused(undone)
             \/ work' = w /\ refused' = refused
      BY <1>6 DEF Repair, InAttempt
    <2>2. w \in [Paths -> Contents] /\ undone \in SUBSET Paths
      BY WrittenTyping DEF Dirty
    <2> HIDE DEF w, undone
    <2>3. work' \in [Paths -> Contents] /\ refused \subseteq refused' /\ refused' \subseteq Files
      BY <1>1, <2>1, <2>2, RestoredOrRefused DEF CleanupFields
    <2>4. attempt.repairs + 1 \in 0..RepairCeiling
      BY <1>1, <2>1, CleanupConstants DEF CleanupInv, Counted, CleanupFields
    <2>5. /\ attempt' \in [before : [Paths -> Contents], extras : SUBSET Files, repairs : 0..RepairCeiling]
          /\ attempt'.before = attempt.before /\ attempt'.extras = attempt.extras
      BY <2>1, <2>4 DEF CleanupInv, CleanupTypeOK
    <2> QED
      BY <2>1, <2>3, <2>5, WritingKeeps
  <1>7. CASE Validated
    BY <1>7, ValidatedKeeps
  <1>8. CASE ValidatedOutOfScope \/ GiveUp
    BY <1>1, <1>8, DropKeeps DEF ValidatedOutOfScope, GiveUp, Since, InAttempt, CleanupFields
  <1>9. CASE ValidationFails
    BY <1>1, <1>9, WritingKeeps DEF ValidationFails, InAttempt, CleanupInv, CleanupTypeOK, CleanupFields, histories
  <1>10. CASE Commit
    BY <1>10, CommitKeeps
  <1>11. CASE Publish
    BY <1>11 DEF Publish, position, histories, CleanupInv, CleanupTypeOK, Counted, HeadIsApproved,
                 TreeIsSound, AttemptIsSound, Sound, LastIsCommitted, InAttempt
  <1> QED
    BY <1>2, <1>3, <1>4, <1>5, <1>6, <1>7, <1>8, <1>9, <1>10, <1>11 DEF CleanupNext

-----------------------------------------------------------------------------
(* All four, in a behaviour of any of them.                                *)

GatesInv == BaselineInv /\ WaitInv /\ ControlInv /\ CleanupInv

LEMMA GatesInitial == Init => GatesInv
  BY BaselineInitial, WaitInitial, ControlInitial, CleanupInitial DEF Init, GatesInv

(* A step is a step of one gate and leaves the others alone.               *)
LEMMA StepOfOneGate ==
  ASSUME [Next]_vars
  PROVE  /\ [BaselineNext]_baselineVars /\ [WaitNext]_waitVars
         /\ [ControlNext]_controlVars /\ [CleanupNext]_cleanupVars
  <1>1. CASE ControlNext /\ UNCHANGED <<workflow, cleanupVars, baselineVars, waitVars>>
    BY <1>1
  <1>2. CASE WaitNext /\ UNCHANGED <<workflow, controlVars, cleanupVars, baselineVars>>
    BY <1>2
  <1>3. CASE CleanupNext /\ UNCHANGED <<workflow, controlVars, baselineVars, waitVars>>
    BY <1>3
  <1>4. CASE BaselineNext /\ UNCHANGED <<workflow, controlVars, cleanupVars, waitVars>>
    BY <1>4
  <1>5. CASE UNCHANGED vars
    BY <1>5 DEF vars
  <1> QED
    BY <1>1, <1>2, <1>3, <1>4, <1>5 DEF Next

(* Every step of the gates, the wait, the control and the cleanup keeps    *)
(* the invariant.                                                          *)
LEMMA GatesStep == GatesInv /\ [Next]_vars => GatesInv'
  BY StepOfOneGate, BaselineStep, WaitStep, ControlStep, CleanupStep DEF GatesInv

(* GatesInv holds in every state of every run.                             *)
LEMMA GatesInvariant == Spec => []GatesInv
  BY GatesInitial, GatesStep, PTL DEF Spec

(* Every variable of every gate has its type.                              *)
THEOREM GatesTypeCorrect ==
  Spec => [](BaselineTypeOK /\ WaitTypeOK /\ ControlTypeOK /\ CleanupTypeOK)
  <1>1. GatesInv => BaselineTypeOK /\ WaitTypeOK /\ ControlTypeOK /\ CleanupTypeOK
    BY DEF GatesInv, BaselineInv, WaitInv, ControlInv, CleanupInv
  <1> QED
    BY <1>1, GatesInvariant, PTL

(* A baseline gate that lets a workflow begin has seen the commands pass   *)
(* after the last repair, and one that repairs over uncommitted work has   *)
(* written down its diffs and the names of its untracked files as it found *)
(* them, or what git said when it failed on them.                          *)
THEOREM GateBaselineIsSound == Spec => []BaselineIsSound
  <1>1. GatesInv => BaselineIsSound
    BY DEF GatesInv, BaselineInv
  <1> QED
    BY <1>1, GatesInvariant, PTL

(* A workflow that goes on after waiting for an agent goes on alone,       *)
(* however late the timers fire.                                           *)
THEOREM GateGoesOnAlone == Spec => []GoesOnAlone
  <1>1. GatesInv => GoesOnAlone
    BY DEF GatesInv, WaitInv
  <1> QED
    BY <1>1, GatesInvariant, PTL

(* An accepted reproduction fails in or after an assertion on what the     *)
(* same entrypoint returned, however its test is written.                  *)
THEOREM GateAcceptedIsCausal == Spec => []AcceptedIsCausal
  <1>1. GatesInv => AcceptedIsCausal
    BY ControlInvImplies DEF GatesInv
  <1> QED
    BY <1>1, GatesInvariant, PTL

(* What the cleanup workflow pushes is what it found in scope and valid,   *)
(* whatever agents write in whichever attempt.                             *)
THEOREM GatePublishedIsApproved == Spec => []PublishedIsApproved
  <1>1. GatesInv => PublishedIsApproved
    BY CleanupInvImplies DEF GatesInv
  <1> QED
    BY <1>1, GatesInvariant, PTL
=============================================================================
