------------------------------ MODULE AcpTurn ------------------------------
(***************************************************************************)
(* One agent turn over the Agent Client Protocol: runAcpConversation of    *)
(* src/backends/acp-run.ts with the client of acp-client.ts, under the     *)
(* codex driver (the claude driver starts it in the same way).  Four       *)
(* activities interleave: the run (pc), the client's read loop, the        *)
(* consumer of its message queue, and the cancel hook; timers fire between *)
(* any two of their steps, and the agent sends what it likes.              *)
(*                                                                         *)
(* The client is a record:                                                 *)
(*   reply    what became of the one request the run awaits: none sent,    *)
(*            waiting, ended ("end_turn", or any result of the requests    *)
(*            before the prompt), stopped (another stop reason), rejected  *)
(*   closed   the flag that refuses requests; the agent's stdin has ended  *)
(*            unless the read loop set the flag                            *)
(*   signal   the last signal sent to the agent                            *)
(*   loop     the read loop: reading a line, pushing an update, responding *)
(*            to a request of the agent, waiting for the exit, over; the   *)
(*            message queue is closed when it is over                      *)
(*   queue    updates in the message queue, received  all that were read   *)
(*   done     client.done: pending, resolved, rejected                     *)
(*                                                                         *)
(* Each update carries text: the output is as long as updates were used.   *)
(***************************************************************************)
EXTENDS Conversation

CONSTANTS
    Capacity,     \* of the message queue
    MaxUpdates    \* bound: updates the agent sends

VARIABLES
    conv,       \* the conversation
    hook,       \* the onCancel hook: idle, nothing (to do), prompt (to wait for),
                \* close, exit (to wait for), finished
    pc,         \* what the run awaits
    child,      \* the agent's process: unborn, running, gone
    exit,       \* process.exit: pending, resolved, rejected
    consumer,   \* consumeAcpMessages: idle, waiting, emitting, ended
    client,     \* the client
    output      \* updates whose text is in the output

NewClient == [reply |-> "none", closed |-> FALSE, signal |-> "none", loop |-> "reading",
              queue |-> 0, received |-> 0, done |-> "pending"]

Init ==
    /\ conv = New /\ hook = "idle" /\ pc = "prepare"
    /\ child = "unborn" /\ exit = "pending"
    /\ consumer = "idle" /\ client = NewClient /\ output = 0

Requests == {"initialize", "session", "mode", "prompt"}

-----------------------------------------------------------------------------
(* The client's methods, each without an await.                            *)

RejectPending(c) == IF c.reply = "waiting" THEN [c EXCEPT !.reply = "rejected"] ELSE c

Request(c) == [c EXCEPT !.reply = IF c.closed THEN "rejected" ELSE "waiting"]

Close(c, signal, force) ==
    IF ~c.closed THEN [RejectPending(c) EXCEPT !.closed = TRUE, !.signal = signal]
    ELSE IF force THEN [c EXCEPT !.signal = signal] ELSE c

(* The end of the read loop: finish() and fail().                          *)
Finish(c)     == [RejectPending(c) EXCEPT !.closed = TRUE, !.loop = "over", !.done = "resolved"]
FailClient(c) == [RejectPending(c) EXCEPT !.closed = TRUE, !.loop = "over", !.done = "rejected"]

-----------------------------------------------------------------------------
(* The agent's process.                                                    *)

AgentExits ==
    /\ child = "running" /\ child' = "gone"
    /\ UNCHANGED <<conv, hook, pc, exit, consumer, client, output>>

ExitObserved ==
    /\ child = "gone" /\ exit = "pending" /\ exit' = "resolved"
    /\ UNCHANGED <<conv, hook, pc, child, consumer, client, output>>

(* "error" from the child or from its stdin.                               *)
ExitErrors ==
    /\ child # "unborn" /\ exit = "pending" /\ exit' = "rejected"
    /\ UNCHANGED <<conv, hook, pc, child, consumer, client, output>>

-----------------------------------------------------------------------------
(* The read loop.                                                          *)

Reading == child # "unborn" /\ client.loop = "reading"

(* An answer to a request that is no longer pending is dropped.            *)
RouteAnswer ==
    /\ Reading /\ client.reply = "waiting"
    /\ \E result \in {"ended", "rejected"} \cup (IF pc = "prompt" THEN {"stopped"} ELSE {}) :
         client' = [client EXCEPT !.reply = result]
    /\ UNCHANGED <<conv, hook, pc, child, exit, consumer, output>>

RouteUpdate ==
    /\ Reading /\ client.received < MaxUpdates
    /\ client' = [client EXCEPT !.received = @ + 1, !.loop = "pushing"]
    /\ UNCHANGED <<conv, hook, pc, child, exit, consumer, output>>

(* queue.push(): parked while the queue is full, once it has a reader.     *)
PushUpdate ==
    /\ client.loop = "pushing" /\ client.queue < Capacity
    /\ client' = [client EXCEPT !.queue = @ + 1, !.loop = "reading"]
    /\ UNCHANGED <<conv, hook, pc, child, exit, consumer, output>>

RouteRequest ==
    /\ Reading /\ client' = [client EXCEPT !.loop = "responding"]
    /\ UNCHANGED <<conv, hook, pc, child, exit, consumer, output>>

(* The handler has answered or thrown: the response is written, also when  *)
(* close() has ended stdin, and the error of that write is an exit error.  *)
Respond ==
    /\ client.loop = "responding"
    /\ client' = [client EXCEPT !.loop = "reading"]
    /\ exit' = IF client.closed /\ exit = "pending" THEN "rejected" ELSE exit
    /\ UNCHANGED <<conv, hook, pc, child, consumer, output>>

(* A malformed line, or a stdout that fails.                               *)
RouteGarbage ==
    /\ Reading /\ client' = FailClient(client)
    /\ UNCHANGED <<conv, hook, pc, child, exit, consumer, output>>

StdoutEnds ==
    /\ Reading /\ client' = [client EXCEPT !.loop = "exit"]
    /\ UNCHANGED <<conv, hook, pc, child, exit, consumer, output>>

(* A client that was closed does not mind the exit code.                   *)
LoopEnds ==
    /\ client.loop = "exit" /\ exit # "pending"
    /\ \/ exit = "resolved" /\ client' = Finish(client)
       \/ exit = "rejected" /\ client' = FailClient(client)
       \/ exit = "resolved" /\ ~client.closed /\ client' = FailClient(client)
    /\ UNCHANGED <<conv, hook, pc, child, exit, consumer, output>>

-----------------------------------------------------------------------------
(* consumeAcpMessages; emitIfOpen returns when the conversation's reader   *)
(* has made room, or when the conversation has settled.                    *)

TakeUpdate ==
    /\ consumer = "waiting" /\ client.queue > 0
    /\ client' = [client EXCEPT !.queue = @ - 1]
    /\ output' = output + 1
    /\ consumer' = "emitting"
    /\ UNCHANGED <<conv, hook, pc, child, exit>>

EmitReturns ==
    /\ consumer = "emitting" /\ consumer' = "waiting"
    /\ UNCHANGED <<conv, hook, pc, child, exit, client, output>>

UpdatesEnd ==
    /\ consumer = "waiting" /\ client.queue = 0 /\ client.loop = "over"
    /\ consumer' = "ended"
    /\ UNCHANGED <<conv, hook, pc, child, exit, client, output>>

-----------------------------------------------------------------------------
(* The run.  Its finally block closes the client in the same step in which *)
(* it ends.                                                                *)

Ends(c) == pc' = "done" /\ client' = Close(c, "SIGTERM", FALSE)
Catch(c) == conv' = Fail(conv) /\ Ends(c)

(* The microtask of the driver.                                            *)
NeverStarts ==
    /\ pc = "prepare" /\ Aborted(conv)
    /\ pc' = "done"
    /\ UNCHANGED <<conv, hook, child, exit, consumer, client, output>>

SpawnAgent ==
    /\ pc = "prepare" /\ ~Aborted(conv)
    /\ \/ pc' = "spawned" /\ child' = "running" /\ UNCHANGED conv
       \/ pc' = "done" /\ conv' = Fail(conv) /\ UNCHANGED child
    /\ UNCHANGED <<hook, exit, consumer, client, output>>

(* setProcess and setCancel; the consumer starts; initialize is sent.  A   *)
(* cancel that came first found no hook, and a signal is all it gets.      *)
Initialize ==
    /\ pc = "spawned"
    /\ client' = Request(IF Aborted(conv) THEN [client EXCEPT !.signal = "SIGTERM"] ELSE client)
    /\ consumer' = "waiting"
    /\ pc' = "initialize"
    /\ UNCHANGED <<conv, hook, child, exit, output>>

RequestFails ==
    /\ pc \in Requests /\ client.reply = "rejected"
    /\ Catch(client)
    /\ UNCHANGED <<hook, child, exit, consumer, output>>

(* initialize, session/new, the mode when one is wanted, and the prompt.   *)
NextRequest ==
    /\ client.reply = "ended"
    /\ \/ pc = "initialize" /\ pc' = "session"
       \/ pc = "session" /\ pc' \in {"mode", "prompt"}
       \/ pc = "mode" /\ pc' = "prompt"
    /\ client' = Request(client)
    /\ UNCHANGED <<conv, hook, child, exit, consumer, output>>

(* A request's own timer; for the prompt the watchdog's wall clock and     *)
(* inactivity timers too, which also kill the agent.                       *)
RequestTimesOut ==
    /\ pc \in Requests /\ client.reply = "waiting"
    /\ \/ client' = RejectPending(client)
       \/ pc = "prompt" /\ client' = Close(RejectPending(client), "SIGKILL", TRUE)
    /\ UNCHANGED <<conv, hook, pc, child, exit, consumer, output>>

(* The prompt's answer: the one look at the signal, and shutdownAcpClient. *)
PromptAnswered ==
    /\ pc = "prompt" /\ client.reply \in {"ended", "stopped"}
    /\ IF Aborted(conv) THEN Ends(client)
       ELSE pc' = "shutdown" /\ client' = Close(client, "SIGTERM", FALSE)
    /\ UNCHANGED <<conv, hook, child, exit, consumer, output>>

(* What follows the shutdown.                                              *)
AfterShutdown ==
    IF client.done = "rejected" THEN Catch(client)
    ELSE IF client.reply = "stopped" THEN conv' = Fail(conv) /\ Ends(client)
    ELSE pc' = "turnEnd" /\ UNCHANGED <<conv, client>>

(* Mutant: the shutdown does not wait for the queued updates.              *)
ShutdownCompletes_LeavesUpdates ==
    /\ pc = "shutdown" /\ client.done # "pending"
    /\ AfterShutdown
    /\ UNCHANGED <<hook, child, exit, consumer, output>>

(* The updates have all been consumed and the client is done.              *)
ShutdownCompletes ==
    /\ pc = "shutdown" /\ consumer = "ended" /\ client.done # "pending"
    /\ AfterShutdown
    /\ UNCHANGED <<hook, child, exit, consumer, output>>

ShutdownTimesOut ==
    /\ pc = "shutdown" /\ ~(consumer = "ended" /\ client.done # "pending")
    /\ Catch(Close(client, "SIGKILL", TRUE))
    /\ UNCHANGED <<hook, child, exit, consumer, output>>

(* The last event has been taken; the output may fail its schema.          *)
TurnEnds ==
    /\ pc = "turnEnd"
    /\ conv' = Succeed(conv) \/ conv' = Fail(conv)
    /\ Ends(client)
    /\ UNCHANGED <<hook, child, exit, consumer, output>>

-----------------------------------------------------------------------------
(* cancelAcpTurn.  Before setCancel there is nothing to call.              *)

CallCancel ==
    /\ CancelTakesEffect(conv)
    /\ conv' = RequestCancel(conv)
    /\ hook' = IF pc \in {"prepare", "spawned"} THEN "nothing"
               ELSE IF pc = "prompt" THEN "prompt" ELSE "close"
    /\ UNCHANGED <<pc, child, exit, consumer, client, output>>

(* The agent answers session/cancel with the prompt's result, or the hook  *)
(* loses patience.  Then close(), and waitForAcpExit.                      *)
HookCloses ==
    /\ \/ /\ hook = "close" \/ (hook = "prompt" /\ ~(pc = "prompt" /\ client.reply = "waiting"))
          /\ client' = Close(client, "SIGTERM", FALSE)
       \/ /\ hook = "prompt" /\ pc = "prompt" /\ client.reply = "waiting"
          /\ client' = Close(client, "SIGKILL", TRUE)
    /\ hook' = "exit"
    /\ UNCHANGED <<conv, pc, child, exit, consumer, output>>

HookEnds ==
    /\ \/ hook = "nothing" /\ UNCHANGED client
       \/ hook = "exit" /\ client.done # "pending" /\ UNCHANGED client
       \/ hook = "exit" /\ client.done = "pending" /\ client' = Close(client, "SIGKILL", TRUE)
    /\ hook' = "finished"
    /\ conv' = CleanupSucceeded(conv)
    /\ UNCHANGED <<pc, child, exit, consumer, output>>

-----------------------------------------------------------------------------
(* What the run, the read loop and the consumer do by themselves.          *)
RunProgress ==
    \/ NeverStarts \/ SpawnAgent \/ Initialize \/ RequestFails \/ NextRequest
    \/ PromptAnswered \/ ShutdownCompletes \/ ShutdownTimesOut \/ TurnEnds

ClientProgress ==
    \/ PushUpdate \/ Respond \/ LoopEnds \/ TakeUpdate \/ EmitReturns \/ UpdatesEnd

Agent ==
    \/ RouteAnswer \/ RouteUpdate \/ RouteRequest \/ RouteGarbage \/ StdoutEnds
    \/ AgentExits \/ ExitObserved \/ ExitErrors

Next ==
    \/ RunProgress
    \/ ClientProgress
    \/ Agent
    \/ RequestTimesOut
    \/ CallCancel
    \/ HookCloses
    \/ HookEnds

-----------------------------------------------------------------------------
(* A success carries everything the agent has said: what it sent before    *)
(* its answer is in the output, though the answer overtakes it at the      *)
(* queue.                                                                  *)
OutputIsWhole == conv.outcome = "success" => output = client.received
=============================================================================
