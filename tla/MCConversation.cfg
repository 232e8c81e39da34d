SPECIFICATION ConversationSpec
CONSTANTS
    Capacity = 1
    MaxUpdates = 3
    Holders = {"run", "timeout", "outer"}
INVARIANTS CancelPromiseAgrees StrongestOfferWins TimedOutNeverSucceeds OutcomeAfterExit TerminationsAgree SuccessIsReal
PROPERTIES HeldBack KeepsContract AskedIsSettled EveryTurnSettles CancelAnswered
CHECK_DEADLOCK FALSE
