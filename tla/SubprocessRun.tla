---------------------------- MODULE SubprocessRun ----------------------------
(***************************************************************************)
(* One agent turn in a child process: runSubprocessConversation of         *)
(* src/backends/subprocess-run.ts under the codex, claude and pi drivers,  *)
(* terminateSubprocess of subprocess-termination.ts, and the conversation  *)
(* they settle.  Four activities interleave: the run (pc), its consumer of *)
(* output lines, up to three terminations of the same child (a timeout's,  *)
(* the cancel hook's, the run's own at its end), and the child itself.     *)
(* A step is what runs between two awaits.                                 *)
(*                                                                         *)
(* An await on Promise.race continues with any of the promises that have   *)
(* settled: the code's look at the flags after each race is what keeps     *)
(* that choice harmless, and is modelled check by check.                   *)
(*                                                                         *)
(* The child is in the hands of the default spawner on POSIX: it is a      *)
(* process group, kill() on a group that is gone does nothing, and `exit`  *)
(* resolves once the group is gone.                                        *)
(***************************************************************************)
EXTENDS Conversation

VARIABLES
    conv,       \* the conversation
    hook,       \* the onCancel hook: idle, running, finished
    pc,         \* where the run awaits
    terminal,   \* how the run ended: SubprocessTerminal, or none yet
    consumer,   \* the consumer's call of consume(): idle, busy, settled, threw
    child,      \* the process group: unborn, running, gone
    exit,       \* process.exit: pending, resolved, rejected
    term        \* the terminations, by who asked for them

vars == <<conv, hook, pc, terminal, consumer, child, exit, term>>

Killers == {"timeout", "cancel", "final"}

Init ==
    /\ conv = New /\ hook = "idle"
    /\ pc = "prepare" /\ terminal = "none" /\ consumer = "idle"
    /\ child = "unborn" /\ exit = "pending"
    /\ term = [k \in Killers |-> "idle"]

TimeoutStarted == term["timeout"] # "idle"                \* timeoutStarted
TimeoutOver    == term["timeout"] \in {"stopped", "failed"} \* timeout.promise has settled

(* The run holds its reservation from the spawn to the finally block, and  *)
(* its timers are armed from the spawn to finalizeSubprocess.              *)
Watching == {"startup", "read", "consume", "exit", "stderr", "awaitTimeout"}
Ending   == {"finalize", "terminating", "stopping", "cleanup", "lateTimeout", "release"}
Running  == Watching \cup Ending

-----------------------------------------------------------------------------
(* The child and its terminations.                                         *)

ProcessExits ==
    /\ child = "running" /\ child' = "gone"
    /\ UNCHANGED <<conv, hook, pc, terminal, consumer, exit, term>>

(* The leader has closed and the poll of its group finds nobody left.      *)
ExitObserved ==
    /\ exit = "pending" /\ child = "gone" /\ exit' = "resolved"
    /\ UNCHANGED <<conv, hook, pc, terminal, consumer, child, term>>

(* "error" from the child or its stdin, or a poll that throws.             *)
ExitErrors ==
    /\ exit = "pending" /\ child # "unborn" /\ exit' = "rejected"
    /\ UNCHANGED <<conv, hook, pc, terminal, consumer, child, term>>

(* Mutant: the catch block does not cancel the wait for the exit.          *)
Fails_LeavesExitWait(k) == term' = [term EXCEPT ![k] = "failed"] /\ UNCHANGED exit

(* The catch block of terminateSubprocess: it also ends the wait for the   *)
(* exit, for everybody.                                                    *)
Fails(k) ==
    /\ term' = [term EXCEPT ![k] = "failed"]
    /\ exit' = IF exit = "pending" THEN "rejected" ELSE exit

(* terminateSubprocess up to its first await; kill() may throw (EPERM).    *)
Terminate(k) ==
    \/ term' = [term EXCEPT ![k] = "term"] /\ UNCHANGED exit
    \/ child = "running" /\ Fails(k)

(* exitsWithin() sees the exit, or its rejection.                          *)
ExitSeen(k) ==
    /\ term[k] \in {"term", "kill"}
    /\ \/ exit = "resolved" /\ term' = [term EXCEPT ![k] = "stopped"] /\ UNCHANGED exit
       \/ exit = "rejected" /\ Fails(k)
    /\ UNCHANGED <<conv, hook, pc, terminal, consumer, child>>

(* The grace period is over: SIGKILL.                                      *)
GraceOver(k) ==
    /\ term[k] = "term" /\ exit = "pending"
    /\ \/ term' = [term EXCEPT ![k] = "kill"] /\ UNCHANGED exit
       \/ child = "running" /\ Fails(k)
    /\ UNCHANGED <<conv, hook, pc, terminal, consumer, child>>

(* The child did not exit after SIGKILL.                                   *)
ForceOver(k) ==
    /\ term[k] = "kill" /\ exit = "pending"
    /\ Fails(k)
    /\ UNCHANGED <<conv, hook, pc, terminal, consumer, child>>

TerminationStep(k) == ExitSeen(k) \/ GraceOver(k) \/ ForceOver(k)

-----------------------------------------------------------------------------
(* The caller cancels; the hook terminates the child if there is one.      *)

CallCancel ==
    /\ CancelTakesEffect(conv)
    /\ conv' = RequestCancel(conv)
    /\ hook' = "running"
    /\ IF child = "unborn" THEN UNCHANGED <<term, exit>> ELSE Terminate("cancel")
    /\ UNCHANGED <<pc, terminal, consumer, child>>

HookEnds ==
    /\ hook = "running" /\ hook' = "finished"
    /\ \/ term["cancel"] \in {"idle", "stopped"} /\ conv' = CleanupSucceeded(conv)
       \/ term["cancel"] = "failed" /\ conv' = CleanupFailed(conv)
    /\ UNCHANGED <<pc, terminal, consumer, child, exit, term>>

(* The inactivity or the wall-clock timer: settleTimeout.                  *)
TimerFires ==
    /\ pc \in Watching /\ ~TimeoutStarted
    /\ conv' = Reserve(conv, "timeout")
    /\ Terminate("timeout")
    /\ UNCHANGED <<hook, pc, terminal, consumer, child>>

-----------------------------------------------------------------------------
(* The consumer, one line at a time.  A consume() that the run no longer   *)
(* waits for goes on, and may settle the conversation late.                *)

ConsumeReturns == consumer' = "idle" /\ UNCHANGED conv
ConsumeThrows  == consumer' = "threw" /\ UNCHANGED conv

(* The line ends the turn: it settles, and the consumer's signal aborts.   *)
ConsumeSettles == consumer' = "settled" /\ (conv' = Succeed(conv) \/ conv' = Fail(conv))

ConsumerStep ==
    /\ consumer = "busy"
    /\ ConsumeReturns \/ ConsumeThrows \/ ConsumeSettles
    /\ UNCHANGED <<hook, pc, terminal, child, exit, term>>

-----------------------------------------------------------------------------
(* The run: how each await continues.                                      *)

GoTo(next) == pc' = next /\ UNCHANGED terminal

Decide(how) == terminal' = how /\ pc' = "finalize"

(* The catch of the run: a timeout that has started owns the outcome.      *)
Catch == IF TimeoutStarted THEN GoTo("awaitTimeout") ELSE Decide("error")

StoppedOutside == Aborted(conv) \/ Settled(conv)

Race ==
    \/ StoppedOutside /\ Decide("cancelled")
    \/ TimeoutOver /\ Decide("timeout")

(* Before the spawn: the microtask, temporary files, arguments.            *)
NeverStarts ==
    /\ pc = "prepare" /\ Aborted(conv)
    /\ GoTo("done")
    /\ UNCHANGED <<conv, hook, consumer, child, exit, term>>

(* Preparation or the spawn throws, and the driver's catch block fails the *)
(* conversation unless it is being cancelled.                              *)
StartFails ==
    /\ pc = "prepare"
    /\ conv' = Fail(conv)
    /\ GoTo("done")
    /\ UNCHANGED <<hook, consumer, child, exit, term>>

(* From the last look at the signal to the first await of the run.         *)
Spawn ==
    /\ pc = "prepare" /\ ~Aborted(conv)
    /\ child' = "running"
    /\ conv' = Reserve(conv, "run")
    /\ GoTo("startup")
    /\ UNCHANGED <<hook, consumer, exit, term>>

Started ==
    /\ pc = "startup"
    /\ IF StoppedOutside THEN Decide("cancelled")
       ELSE IF TimeoutStarted THEN GoTo("awaitTimeout")
       ELSE GoTo("read")
    /\ UNCHANGED <<conv, hook, consumer, child, exit, term>>

StartThrows ==
    /\ pc = "startup" /\ Catch
    /\ UNCHANGED <<conv, hook, consumer, child, exit, term>>

(* A line wins the race.                                                   *)
ReadLine ==
    /\ pc = "read"
    /\ IF TimeoutStarted THEN GoTo("awaitTimeout") /\ UNCHANGED consumer
       ELSE IF Aborted(conv) THEN Decide("cancelled") /\ UNCHANGED consumer
       ELSE GoTo("consume") /\ consumer' = "busy"
    /\ UNCHANGED <<conv, hook, child, exit, term>>

ReadEnd ==
    /\ pc = "read"
    /\ IF TimeoutStarted THEN GoTo("awaitTimeout")
       ELSE IF consumer = "settled" THEN Decide("consumer")
       ELSE GoTo("exit")
    /\ UNCHANGED <<conv, hook, consumer, child, exit, term>>

ReadThrows ==
    /\ pc = "read" /\ Catch
    /\ UNCHANGED <<conv, hook, consumer, child, exit, term>>

(* Mutant: no look at timeoutStarted after a line was consumed.            *)
Consumed_NoTimeoutCheck ==
    /\ pc = "consume" /\ consumer # "busy"
    /\ IF consumer = "threw" THEN Catch
       ELSE IF Aborted(conv) THEN Decide("cancelled")
       ELSE IF consumer = "settled" THEN Decide("consumer")
       ELSE GoTo("read")
    /\ UNCHANGED <<conv, hook, consumer, child, exit, term>>

(* consume() has returned or thrown.                                       *)
Consumed ==
    /\ pc = "consume" /\ consumer # "busy"
    /\ IF consumer = "threw" THEN Catch
       ELSE IF TimeoutStarted THEN GoTo("awaitTimeout")
       ELSE IF Aborted(conv) THEN Decide("cancelled")
       ELSE IF consumer = "settled" THEN Decide("consumer")
       ELSE GoTo("read")
    /\ UNCHANGED <<conv, hook, consumer, child, exit, term>>

(* The run leaves consume() behind.                                        *)
Abandon ==
    /\ pc = "consume"
    /\ \/ Aborted(conv) /\ Decide("cancelled")
       \/ TimeoutOver /\ Decide("timeout")
    /\ UNCHANGED <<conv, hook, consumer, child, exit, term>>

ExitWon ==
    /\ pc = "exit"
    /\ \/ exit = "resolved" /\ GoTo("stderr")
       \/ exit = "rejected" /\ Catch
    /\ UNCHANGED <<conv, hook, consumer, child, exit, term>>

StderrEnds ==
    /\ pc = "stderr"
    /\ IF TimeoutStarted THEN GoTo("awaitTimeout")
       ELSE IF Aborted(conv) THEN Decide("cancelled")
       ELSE Decide("exited")
    /\ UNCHANGED <<conv, hook, consumer, child, exit, term>>

StderrThrows ==
    /\ pc = "stderr" /\ Catch
    /\ UNCHANGED <<conv, hook, consumer, child, exit, term>>

OtherWon ==
    /\ pc \in {"read", "exit", "stderr"} /\ Race
    /\ UNCHANGED <<conv, hook, consumer, child, exit, term>>

TimeoutAwaited ==
    /\ pc = "awaitTimeout" /\ TimeoutOver /\ Decide("timeout")
    /\ UNCHANGED <<conv, hook, consumer, child, exit, term>>

-----------------------------------------------------------------------------
(* finalizeSubprocess, and the finally and catch blocks around it.         *)

FailCleanup(c)   == IF Aborted(c) THEN ReportCancellationFailure(c) ELSE Fail(c)
SettleTimeout(c) == Release(Fail(c), "timeout")

(* Mutant: a turn the consumer has settled leaves its child alone.         *)
Finalize_LeavesChild ==
    /\ pc = "finalize"
    /\ \/ /\ terminal = "error"
          /\ GoTo("terminating") /\ Terminate("final") /\ UNCHANGED conv
       \/ /\ terminal \in {"timeout", "consumer"}
          /\ GoTo("cleanup") /\ UNCHANGED <<conv, exit, term>>
       \/ /\ terminal = "cancelled" \/ (terminal = "exited" /\ Aborted(conv))
          /\ GoTo("stopping") /\ UNCHANGED <<conv, exit, term>>
       \/ /\ terminal = "exited" /\ ~Aborted(conv)
          /\ conv' = Fail(conv) /\ GoTo("release") /\ UNCHANGED <<exit, term>>
    /\ UNCHANGED <<hook, consumer, child>>

(* A clean exit without a result fails too: that is what finish() does.    *)
Finalize ==
    /\ pc = "finalize"
    /\ \/ /\ terminal \in {"consumer", "error"}
          /\ GoTo("terminating") /\ Terminate("final") /\ UNCHANGED conv
       \/ /\ terminal = "timeout"
          /\ GoTo("cleanup") /\ UNCHANGED <<conv, exit, term>>
       \/ /\ terminal = "cancelled" \/ (terminal = "exited" /\ Aborted(conv))
          /\ GoTo("stopping") /\ UNCHANGED <<conv, exit, term>>
       \/ /\ terminal = "exited" /\ ~Aborted(conv)
          /\ conv' = Fail(conv) /\ GoTo("release") /\ UNCHANGED <<exit, term>>
    /\ UNCHANGED <<hook, consumer, child>>

Terminated ==
    /\ pc = "terminating" /\ term["final"] \in {"stopped", "failed"}
    /\ GoTo("cleanup")
    /\ UNCHANGED <<conv, hook, consumer, child, exit, term>>

(* Mutant: the run waits for the promise of cancel(), which its own        *)
(* reservation holds back.                                                 *)
StopAwaited_CancelPromise ==
    /\ pc = "stopping"
    /\ IF Aborted(conv) THEN conv.cancel # "pending"
       ELSE exit # "pending" \/ Settled(conv)
    /\ GoTo("cleanup")
    /\ UNCHANGED <<conv, hook, consumer, child, exit, term>>

(* awaitConversationStop.                                                  *)
StopAwaited ==
    /\ pc = "stopping"
    /\ IF Aborted(conv) THEN conv.completion = "resolved"
       ELSE exit # "pending" \/ Settled(conv)
    /\ GoTo("cleanup")
    /\ UNCHANGED <<conv, hook, consumer, child, exit, term>>

(* The streams have been torn down, by the deadline, with or without       *)
(* errors; the error of a failed termination comes first in the list.      *)
StreamsCleaned ==
    /\ pc = "cleanup"
    /\ \E errors \in BOOLEAN :
         /\ term["final"] = "failed" => errors
         /\ \/ /\ terminal = "consumer"
               /\ conv' = IF errors THEN FailCleanup(conv) ELSE conv
               /\ GoTo("release")
            \/ /\ terminal = "timeout"
               /\ conv' = SettleTimeout(IF errors THEN FailCleanup(conv) ELSE conv)
               /\ GoTo("release")
            \/ /\ terminal \in {"cancelled", "exited"}
               /\ conv' = IF errors THEN ReportCancellationFailure(conv) ELSE conv
               /\ GoTo(IF TimeoutStarted THEN "lateTimeout" ELSE "release")
            \/ /\ terminal = "error"
               /\ conv' = IF errors THEN ReportCancellationFailure(conv) ELSE conv
               /\ GoTo("release")
    /\ UNCHANGED <<hook, consumer, child, exit, term>>

(* A timeout that had started when the conversation was cancelled.         *)
LateTimeout ==
    /\ pc = "lateTimeout" /\ TimeoutOver
    /\ conv' = SettleTimeout(conv)
    /\ GoTo("release")
    /\ UNCHANGED <<hook, consumer, child, exit, term>>

(* The finally block.                                                      *)
ReleaseRun ==
    /\ pc = "release"
    /\ conv' = Release(conv, "run")
    /\ GoTo(IF terminal = "error" THEN "throwing" ELSE "done")
    /\ UNCHANGED <<hook, consumer, child, exit, term>>

(* The driver's catch block.                                               *)
DriverCatches ==
    /\ pc = "throwing"
    /\ conv' = Fail(conv)
    /\ GoTo("done")
    /\ UNCHANGED <<hook, consumer, child, exit, term>>

-----------------------------------------------------------------------------
(* What the run does once nothing outside it is to come: no output, no     *)
(* exit, no answer of its consumer.                                        *)
Progress ==
    \/ NeverStarts \/ Spawn \/ Started \/ Consumed \/ Abandon
    \/ ExitWon \/ OtherWon \/ TimeoutAwaited
    \/ Finalize \/ Terminated \/ StopAwaited \/ StreamsCleaned
    \/ LateTimeout \/ ReleaseRun \/ DriverCatches

Environment ==
    \/ StartFails \/ StartThrows \/ ReadLine \/ ReadEnd \/ ReadThrows
    \/ StderrEnds \/ StderrThrows
    \/ ProcessExits \/ ExitObserved \/ ExitErrors
    \/ CallCancel \/ ConsumerStep

Next ==
    \/ Progress
    \/ Environment
    \/ HookEnds
    \/ TimerFires
    \/ \E k \in Killers : TerminationStep(k)

Spec == Init /\ [][Next]_vars

-----------------------------------------------------------------------------
(* Types, and the run's reservation: held from the spawn to the finally    *)
(* block, on every path between them.                                      *)
TypeOK ==
    /\ conv \in [outcome : Kinds \cup {"none"},
                 cancel  : {"none", "pending", "resolved", "rejected"},
                 held    : SUBSET {"run", "timeout"},
                 pending : Kinds \cup {"none"},
                 completion : {"pending", "resolved"},
                 offers  : SUBSET Kinds]
    /\ hook \in {"idle", "running", "finished"}
    /\ pc \in {"prepare", "throwing", "done"} \cup Running
    /\ terminal \in {"none", "cancelled", "consumer", "timeout", "exited", "error"}
    /\ consumer \in {"idle", "busy", "settled", "threw"}
    /\ child \in {"unborn", "running", "gone"}
    /\ exit \in {"pending", "resolved", "rejected"}
    /\ term \in [Killers -> {"idle", "term", "kill", "stopped", "failed"}]
    /\ "run" \in conv.held <=> pc \in Running

(* Nobody is told how the turn ended while its child may still be at work: *)
(* whatever races, the outcome is published after the exit, or after the   *)
(* wait for the exit was given up, and then it is a failure.               *)
OutcomeAfterExit ==
    Settled(conv) /\ child = "running" =>
        exit = "rejected" /\ conv.outcome \in {"failure", "cancellation_failure"}

(* A turn whose timer has fired is never reported as a success, even when  *)
(* its consumer, abandoned or not, reads the result afterwards.            *)
TimedOutNeverSucceeds == TimeoutStarted => conv.outcome # "success"

(* Several terminations of one child agree: it is never reported stopped   *)
(* to one and unstoppable to another.                                      *)
TerminationsAgree ==
    \A j, k \in Killers : ~(term[j] = "stopped" /\ term[k] = "failed")

=============================================================================
