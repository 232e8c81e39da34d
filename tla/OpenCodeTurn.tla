---------------------------- MODULE OpenCodeTurn ----------------------------
(***************************************************************************)
(* One turn on a shared `opencode serve` process: runOpenCodeConversation  *)
(* of src/backends/opencode-run.ts and the event consumer and the server   *)
(* manager of opencode-sse.ts.  The run races its turn against a wall      *)
(* clock, and does not stop the turn that loses: it goes on, consuming and *)
(* settling, until the abort of its stream reaches it.                     *)
(*                                                                         *)
(* The stream carries the events of every session of the server.  What the *)
(* consumer has seen of its own is a record:                               *)
(*   text     the output is not empty                                      *)
(*   message  the last assistant message: none, good, or one with an error *)
(*   over     completed: a terminal event was consumed                     *)
(***************************************************************************)
EXTENDS Conversation

VARIABLES
    conv,       \* the conversation
    hook,       \* the end of a cancel() without an onCancel: idle, running, finished
    pc,         \* the race of the run: prepare, racing, done
    turn,       \* what the turn awaits, or over, or threw
    stream,     \* streamController: open, aborted
    server,     \* the manager's promise: none, starting, up, failed
    seen,       \* the consumer's state
    session     \* history, the session on the server: none, asked (the prompt
                \* may still be on its way), idle, failed

Init ==
    /\ conv = New /\ hook = "idle" /\ pc = "prepare"
    /\ turn = "idle" /\ stream = "open" /\ server = "none"
    /\ seen = [text |-> FALSE, message |-> "none", over |-> FALSE]
    /\ session = "none"

(* The awaits of the turn that the abort of the stream ends, unless what   *)
(* they wait for has just arrived.                                         *)
Requesting == {"events", "session", "prompt", "reading"}

-----------------------------------------------------------------------------
(* createOpenCodeServerManager and defaultStartServer.                     *)

ServerStarts ==
    /\ server = "starting" /\ server' = "up"
    /\ UNCHANGED <<conv, hook, pc, turn, stream, seen, session>>

(* No listening line in time, or none at all: the promise stays rejected.  *)
ServerFails ==
    /\ server = "starting" /\ server' = "failed"
    /\ UNCHANGED <<conv, hook, pc, turn, stream, seen, session>>

-----------------------------------------------------------------------------
(* The caller cancels: the signal closes the stream.  There is no hook to  *)
(* wait for, and the server is asked, not waited for, to stop its own turn.*)

CallCancel ==
    /\ CancelTakesEffect(conv)
    /\ conv' = RequestCancel(conv)
    /\ hook' = "running"
    /\ stream' = IF pc = "racing" THEN "aborted" ELSE stream
    /\ UNCHANGED <<pc, turn, server, seen, session>>

HookEnds ==
    /\ hook = "running" /\ hook' = "finished"
    /\ conv' = CleanupSucceeded(conv)
    /\ UNCHANGED <<pc, turn, stream, server, seen, session>>

-----------------------------------------------------------------------------
(* The turn.                                                               *)

(* The microtask of the driver; a cancelled turn starts the server too.    *)
Start ==
    /\ pc = "prepare" /\ pc' = "racing"
    /\ stream' = IF Aborted(conv) THEN "aborted" ELSE "open"
    /\ server' = IF server = "none" THEN "starting" ELSE server
    /\ turn' = "server"
    /\ UNCHANGED <<conv, hook, seen, session>>

GotServer ==
    /\ turn = "server" /\ server \in {"up", "failed"}
    /\ turn' = IF server = "up" THEN "events" ELSE "threw"
    /\ UNCHANGED <<conv, hook, pc, stream, server, seen, session>>

(* A request fails, or the abort of the stream ends it.                    *)
RequestThrows ==
    /\ turn \in Requesting /\ turn' = "threw"
    /\ UNCHANGED <<conv, hook, pc, stream, server, seen, session>>

EventsOpened ==
    /\ turn = "events" /\ turn' = "session"
    /\ UNCHANGED <<conv, hook, pc, stream, server, seen, session>>

(* A session of its own, or the one to resume: the prompt is posted.       *)
SessionKnown ==
    /\ turn = "session" /\ turn' = "prompt"
    /\ session' = "asked"
    /\ UNCHANGED <<conv, hook, pc, stream, server, seen>>

PromptAccepted ==
    /\ turn = "prompt" /\ turn' = "reading"
    /\ UNCHANGED <<conv, hook, pc, stream, server, seen, session>>

-----------------------------------------------------------------------------
(* One event of the stream.  Frames without a session id count as ours.    *)

Ignored == UNCHANGED <<conv, seen, session>> /\ turn' = "reading"

Emit(what) == seen' = what /\ turn' = "emitting" /\ UNCHANGED <<conv, session>>

Terminal(after) ==
    /\ conv' = after /\ seen' = [seen EXCEPT !.over = TRUE] /\ turn' = "over"

(* session.idle: the agent has failed if its last message says so, or if   *)
(* there was nothing.                                                      *)
Idle(s) == IF s.message = "error" \/ (s.message = "none" /\ ~s.text) THEN Fail(conv) ELSE Succeed(conv)

OwnEvent ==
    \/ Ignored
    \/ Emit([seen EXCEPT !.text = TRUE])
    \/ \E m \in {"good", "error"} : Emit([seen EXCEPT !.message = m])
    \/ session' = "failed" /\ Terminal(Fail(conv))
    \/ session' = (IF seen.message = "error" THEN "failed" ELSE "idle") /\ Terminal(Idle(seen))

(* Sub-agents have sessions of their own on the same server.               *)
ForeignEvent == Ignored

(* A line wins against the inactivity timer.                               *)
ReadEvent ==
    /\ turn = "reading"
    /\ IF Aborted(conv) THEN turn' = "over" /\ UNCHANGED <<conv, seen, session>>
       ELSE OwnEvent \/ ForeignEvent
    /\ UNCHANGED <<hook, pc, stream, server>>

(* The conversation's reader has made room; a settled conversation refuses *)
(* the event.                                                              *)
Emitted ==
    /\ turn = "emitting"
    /\ turn' = IF Settled(conv) THEN "threw" ELSE "reading"
    /\ UNCHANGED <<conv, hook, pc, stream, server, seen, session>>

(* The stream ends before the turn: finish().                              *)
StreamEnds ==
    /\ turn = "reading" /\ turn' = "over"
    /\ conv' = Fail(conv)
    /\ UNCHANGED <<hook, pc, stream, server, seen, session>>

Stalls ==
    /\ turn = "reading" /\ turn' = "over"
    /\ conv' = Fail(conv)
    /\ UNCHANGED <<hook, pc, stream, server, seen, session>>

-----------------------------------------------------------------------------
(* The race, and the finally block that always closes the stream.          *)

Leave(after) == conv' = after /\ pc' = "done" /\ stream' = "aborted"

TurnWins ==
    /\ pc = "racing" /\ turn \in {"over", "threw"}
    /\ Leave(IF turn = "threw" THEN Fail(conv) ELSE conv)
    /\ UNCHANGED <<hook, turn, server, seen, session>>

WallClock ==
    /\ pc = "racing" /\ turn \notin {"over", "threw"}
    /\ Leave(Fail(conv))
    /\ UNCHANGED <<hook, turn, server, seen, session>>

-----------------------------------------------------------------------------
RunProgress == Start \/ GotServer \/ TurnWins \/ HookEnds

Outside ==
    \/ ServerStarts \/ ServerFails \/ CallCancel
    \/ RequestThrows \/ EventsOpened \/ SessionKnown \/ PromptAccepted
    \/ ReadEvent \/ Emitted \/ StreamEnds \/ Stalls

Next == RunProgress \/ WallClock \/ Outside

-----------------------------------------------------------------------------
(* Only the turn's own session ends it with a success: it went idle, and   *)
(* the last thing its assistant said was not an error.                     *)
OwnSessionIdle == conv.outcome = "success" => session = "idle"
=============================================================================
