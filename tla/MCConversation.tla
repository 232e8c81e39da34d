--------------------------- MODULE MCConversation ---------------------------
(***************************************************************************)
(* One conversation and whoever settles it: the driver of one of the three *)
(* backends (AgentTurn), or callers of whom nothing is assumed             *)
(* (Settlement), who hold the two reservations of a subprocess run and one *)
(* more.  Only the updates of an ACP agent need a bound.                   *)
(***************************************************************************)
EXTENDS AgentTurn

CONSTANT Holders
VARIABLE reserved

Callers == INSTANCE Settlement

turnVars == <<pc, processVars, subprocessVars, acpVars, openCodeVars>>
allVars  == <<vars, reserved>>

(* The variables of the drivers keep their first value.                    *)
CallersInit ==
    /\ backend = "none"
    /\ Callers!Init /\ Subprocess!Init /\ Acp!Init /\ OpenCode!Init

ConversationInit ==
    \/ Init /\ reserved = {}
    \/ CallersInit

ByCallers(A) == backend = "none" /\ A /\ UNCHANGED <<backend, turnVars>>

ConversationNext ==
    \/ Next /\ UNCHANGED reserved
    \/ ByCallers(Callers!Next)

(* The fairness of AgentTurn and of Settlement, each for its behaviours.   *)
ConversationFairness ==
    /\ Fairness
    /\ WF_allVars(ByCallers(Callers!HookResolves \/ Callers!HookRejects))
    /\ \A h \in Holders : WF_allVars(h \in conv.held /\ ByCallers(Callers!CallRelease(h)))

ConversationSpec == ConversationInit /\ [][ConversationNext]_allVars /\ ConversationFairness

-----------------------------------------------------------------------------
(* The caller of cancel() and the awaiter of the outcome are told the same *)
(* thing, and at the same time, whoever drives the conversation.           *)
CancelPromiseAgrees == Callers!CancelPromiseAgrees

(* The outcome is the strongest of the settlements asked for in time.      *)
StrongestOfferWins == Callers!StrongestOfferWins

(* A conversation settles only in a step that leaves nobody holding a      *)
(* reservation of it.                                                      *)
HeldBack == [][~Settled(conv) /\ Settled(conv') => conv'.held = {}]_allVars

(* What was asked for is published in the end.                             *)
AskedIsSettled == Callers!AskedIsSettled

(* Every turn of a driver ends and settles its conversation.               *)
EveryTurnSettles == backend # "none" => TurnSettles
=============================================================================
