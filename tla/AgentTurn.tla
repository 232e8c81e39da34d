------------------------------ MODULE AgentTurn ------------------------------
(***************************************************************************)
(* One turn of an agent, whichever backend drives it: a child process that *)
(* streams lines (SubprocessRun), an agent that speaks the Agent Client    *)
(* Protocol (AcpTurn), or a session of a shared server (OpenCodeTurn).  A  *)
(* flow chooses the backend before the turn and sees the conversation      *)
(* only, so all three owe it the same.                                     *)
(***************************************************************************)
EXTENDS Conversation

CONSTANTS Capacity, MaxUpdates

VARIABLES
    backend,                                \* which of the three
    conv, hook, pc, child, exit, consumer,  \* what two of them or all have
    terminal, term,                         \* SubprocessRun
    client, output,                         \* AcpTurn
    turn, stream, server, seen, session     \* OpenCodeTurn

subprocessVars == <<terminal, term>>
acpVars        == <<client, output>>
processVars    == <<child, exit, consumer>>
openCodeVars   == <<turn, stream, server, seen, session>>
vars == <<backend, conv, hook, pc, processVars, subprocessVars, acpVars, openCodeVars>>

Subprocess == INSTANCE SubprocessRun
Acp        == INSTANCE AcpTurn
OpenCode   == INSTANCE OpenCodeTurn

Init ==
    /\ backend \in {"subprocess", "acp", "opencode"}
    /\ Subprocess!Init /\ Acp!Init /\ OpenCode!Init

BySubprocess(A) == backend = "subprocess" /\ A /\ UNCHANGED <<backend, acpVars, openCodeVars>>
ByAcp(A)        == backend = "acp" /\ A /\ UNCHANGED <<backend, subprocessVars, openCodeVars>>
ByOpenCode(A)   == backend = "opencode" /\ A /\ UNCHANGED <<backend, processVars, subprocessVars, acpVars>>

Next ==
    \/ BySubprocess(Subprocess!Next)
    \/ ByAcp(Acp!Next)
    \/ ByOpenCode(OpenCode!Next)

Spec == Init /\ [][Next]_vars

(* Promise continuations run and timers fire, and of an ACP agent's        *)
(* conversation the events are read, or nobody ever began to.  Nothing is  *)
(* assumed of the agent, its process, its server, its output, the consumer *)
(* of a child's lines or the caller.                                       *)
Fairness ==
    /\ WF_vars(BySubprocess(Subprocess!Progress))
    /\ WF_vars(BySubprocess(Subprocess!TimerFires))
    /\ WF_vars(BySubprocess(Subprocess!HookEnds))
    /\ \A k \in Subprocess!Killers : WF_vars(BySubprocess(Subprocess!TerminationStep(k)))
    /\ WF_vars(ByAcp(Acp!RunProgress))
    /\ WF_vars(ByAcp(Acp!RequestTimesOut))
    /\ WF_vars(ByAcp(Acp!HookCloses \/ Acp!HookEnds))
    /\ WF_vars(ByOpenCode(OpenCode!RunProgress))
    /\ WF_vars(ByOpenCode(OpenCode!WallClock))

FairSpec == Spec /\ Fairness

-----------------------------------------------------------------------------
(* Whatever races, a child process's turn is told how it ended only after  *)
(* its child has exited, or the wait for that was given up.                *)
OutcomeAfterExit == backend = "subprocess" => Subprocess!OutcomeAfterExit

(* A child process's turn whose timer has fired is never a success.        *)
TimedOutNeverSucceeds == backend = "subprocess" => Subprocess!TimedOutNeverSucceeds

(* The terminations of one child process agree on how it went.             *)
TerminationsAgree == Subprocess!TerminationsAgree

(* A success is the agent's own: an ACP turn's output has everything the   *)
(* agent has sent, and an OpenCode turn was ended by its own session.      *)
SuccessIsReal ==
    /\ backend = "acp" => Acp!OutputIsWhole
    /\ backend = "opencode" => OpenCode!OwnSessionIdle

(* The conversation keeps its contract under every driver, though each     *)
(* composes several calls in one step.                                     *)
Contract == INSTANCE OneOutcome WITH outcome <- conv.outcome, cancel <- conv.cancel
KeepsContract == Contract!Spec

(* Every turn ends and settles its conversation, although its agent may    *)
(* never answer, resist every signal, or send what it likes for ever.      *)
TurnSettles == <>(pc = "done" /\ Settled(conv))

(* Who cancels is answered: no wait for a child, an agent or a settlement  *)
(* that is held back goes on for ever, and no reservation is left behind.  *)
CancelAnswered == Aborted(conv) ~> conv.cancel # "pending" /\ conv.held = {}
=============================================================================
