---------------------------- MODULE BoundedQueue ----------------------------
(***************************************************************************)
(* src/conversation/queue.ts: the bounded queue between a backend driver   *)
(* (the producers: callers of push) and the one reader of a conversation's *)
(* events (a `for await` loop).  Every method body between two awaits runs *)
(* without interruption, so each is one action.  Resolving a promise does  *)
(* not run its continuation: it queues a microtask, and other code runs    *)
(* first.  `wakes` holds the queued continuations of parked pushes, and    *)
(* `reply` the settled but not yet delivered result of the reader's        *)
(* next().  A reply is delivered after the `ahead` wakes queued before it  *)
(* (microtasks are FIFO; a reply travels through at least as many promise  *)
(* hops as a wake), and may be overtaken by later ones.                    *)
(*                                                                         *)
(* A producer is a sequential caller: it pushes again only when its last   *)
(* push has returned, and stops when one throws.  The reader calls next()  *)
(* only when the last one has been answered, as `for await` does (every    *)
(* reader in src/ is one: acp-run.ts, harness.ts).                         *)
(***************************************************************************)
EXTENDS Naturals, Sequences

CONSTANTS Producers,   \* the callers of push
          Capacity,    \* the constructor's argument
          MaxPush      \* bound: pushes each producer makes

ASSUME CapacityAssumption == Capacity \in Nat \ {0}
ASSUME MaxPushAssumption == MaxPush \in Nat

Event == Producers \X (1 .. MaxPush)   \* a producer and the number of its push

VARIABLES
    items, pushWaiters, closed, iteratorStarted,   \* the fields of the class
    taker,      \* the reader's next() is parked in `takers`
    wakes,      \* producers whose parked promise has been resolved
    reply,      \* the item on its way to the reader: at most one
    endDue,     \* { done: true } is on its way to the reader
    ahead,      \* how many of `wakes` run before that answer is delivered
    pc,         \* per producer: idle, parked, woken or threw
    pushed,     \* per producer: pushes begun
    reader,     \* none, running, awaiting, ended, left
    accepted,   \* history: every event whose push succeeded, in order
    evicted,    \* history: the events dropped, in order
    delivered   \* history: the events the reader got, in order

vars == <<items, pushWaiters, closed, iteratorStarted, taker, wakes, reply, endDue,
          ahead, pc, pushed, reader, accepted, evicted, delivered>>

Init ==
    /\ items = <<>> /\ pushWaiters = <<>> /\ wakes = <<>>
    /\ closed = FALSE /\ iteratorStarted = FALSE /\ taker = FALSE
    /\ reply = <<>> /\ endDue = FALSE /\ ahead = 0
    /\ pc = [p \in Producers |-> "idle"]
    /\ pushed = [p \in Producers |-> 0]
    /\ reader = "none"
    /\ accepted = <<>> /\ evicted = <<>> /\ delivered = <<>>

Full == Len(items) >= Capacity

-----------------------------------------------------------------------------
(* The body of push from the loop's test to the next await or the return.  *)

(* Full and a reader exists: wait for a next() to make room.               *)
Park(p) ==
    /\ Full /\ iteratorStarted
    /\ pushWaiters' = Append(pushWaiters, p)
    /\ pc' = [pc EXCEPT ![p] = "parked"]
    /\ UNCHANGED <<items, taker, reply, accepted, evicted>>

(* Mutant: the push that finds the queue full always evicts.               *)
EvictOldest_EvenWhenRead(p, e) ==
    /\ Full
    /\ items' = Append(Tail(items), e)
    /\ evicted' = Append(evicted, Head(items))
    /\ accepted' = Append(accepted, e)
    /\ pc' = [pc EXCEPT ![p] = "idle"]
    /\ UNCHANGED <<pushWaiters, taker, reply>>

(* Full and nobody has ever read: the oldest item makes room.              *)
EvictOldest(p, e) ==
    /\ Full /\ ~iteratorStarted
    /\ items' = Append(Tail(items), e)
    /\ evicted' = Append(evicted, Head(items))
    /\ accepted' = Append(accepted, e)
    /\ pc' = [pc EXCEPT ![p] = "idle"]
    /\ UNCHANGED <<pushWaiters, taker, reply>>

(* Mutant: no return after handing the item to a parked reader.            *)
HandOver_AndEnqueue(p, e) ==
    /\ ~Full /\ taker
    /\ taker' = FALSE
    /\ reply' = <<e>>
    /\ items' = Append(items, e)
    /\ accepted' = Append(accepted, e)
    /\ pc' = [pc EXCEPT ![p] = "idle"]
    /\ UNCHANGED <<pushWaiters, evicted>>

(* A parked reader takes the item directly.                                *)
HandOver(p, e) ==
    /\ ~Full /\ taker
    /\ taker' = FALSE
    /\ reply' = <<e>>
    /\ accepted' = Append(accepted, e)
    /\ pc' = [pc EXCEPT ![p] = "idle"]
    /\ UNCHANGED <<items, pushWaiters, evicted>>

Enqueue(p, e) ==
    /\ ~Full /\ ~taker
    /\ items' = Append(items, e)
    /\ accepted' = Append(accepted, e)
    /\ pc' = [pc EXCEPT ![p] = "idle"]
    /\ UNCHANGED <<pushWaiters, taker, reply, evicted>>

TryPush(p, e) == Park(p) \/ EvictOldest(p, e) \/ HandOver(p, e) \/ Enqueue(p, e)

(* ensureOpen() throws "Queue is closed" out of push.                      *)
Throw(p) ==
    /\ closed
    /\ pc' = [pc EXCEPT ![p] = "threw"]
    /\ UNCHANGED <<items, pushWaiters, taker, reply, accepted, evicted>>

(* A fresh call of push: ensureOpen, then the loop.                        *)
Push(p) ==
    /\ pc[p] = "idle" /\ pushed[p] < MaxPush
    /\ pushed' = [pushed EXCEPT ![p] = @ + 1]
    /\ \/ Throw(p) /\ UNCHANGED ahead
       \/ /\ ~closed
          /\ TryPush(p, <<p, pushed[p] + 1>>)
          /\ ahead' = IF taker /\ ~Full THEN Len(wakes) ELSE ahead
    /\ UNCHANGED <<closed, iteratorStarted, endDue, wakes, reader, delivered>>

(* The continuation of a parked push: ensureOpen, then the loop again.     *)
(* Another push may have taken the room since it was woken.                *)
ResumePush(p) ==
    /\ wakes # <<>> /\ p = Head(wakes)
    /\ wakes' = Tail(wakes)
    /\ \/ Throw(p) /\ ahead' = IF ahead > 0 THEN ahead - 1 ELSE 0
       \/ /\ ~closed
          /\ TryPush(p, <<p, pushed[p]>>)
          /\ ahead' = IF taker /\ ~Full THEN Len(wakes) - 1
                      ELSE IF ahead > 0 THEN ahead - 1 ELSE 0
    /\ UNCHANGED <<closed, iteratorStarted, endDue, pushed, reader, delivered>>

-----------------------------------------------------------------------------
(* [Symbol.asyncIterator]().  A second call throws and changes nothing.    *)
StartIterator ==
    /\ ~iteratorStarted
    /\ iteratorStarted' = TRUE
    /\ reader' = "running"
    /\ UNCHANGED <<items, pushWaiters, closed, taker, wakes, reply, endDue, ahead, pc,
                   pushed, accepted, evicted, delivered>>

(* Mutant: next() forgets to wake a parked push.                           *)
TakeItem_WakesNobody ==
    /\ items # <<>>
    /\ items' = Tail(items)
    /\ reply' = <<Head(items)>>
    /\ ahead' = Len(wakes)
    /\ UNCHANGED <<pushWaiters, wakes, pc, taker, endDue>>

(* next() on a non-empty queue: take the oldest item and wake one push.    *)
TakeItem ==
    /\ items # <<>>
    /\ items' = Tail(items)
    /\ reply' = <<Head(items)>>
    /\ IF pushWaiters = <<>>
       THEN UNCHANGED <<pushWaiters, wakes, pc>>
       ELSE /\ wakes' = Append(wakes, Head(pushWaiters))
            /\ pushWaiters' = Tail(pushWaiters)
            /\ pc' = [pc EXCEPT ![Head(pushWaiters)] = "woken"]
    /\ ahead' = Len(wakes')
    /\ UNCHANGED <<taker, endDue>>

TakeEnd ==
    /\ items = <<>> /\ closed
    /\ endDue' = TRUE
    /\ ahead' = Len(wakes)
    /\ UNCHANGED <<items, pushWaiters, taker, wakes, reply, pc>>

ParkReader ==
    /\ items = <<>> /\ ~closed
    /\ taker' = TRUE
    /\ UNCHANGED <<items, pushWaiters, wakes, reply, endDue, ahead, pc>>

CallNext ==
    /\ reader = "running"
    /\ reader' = "awaiting"
    /\ TakeItem \/ TakeEnd \/ ParkReader
    /\ UNCHANGED <<closed, iteratorStarted, pushed, accepted, evicted, delivered>>

(* The reader's await continues with the answer.                           *)
DeliverReply ==
    /\ ahead = 0
    /\ \/ /\ reply # <<>>
          /\ reader' = "running"
          /\ delivered' = delivered \o reply
       \/ /\ endDue
          /\ reader' = "ended"
          /\ UNCHANGED delivered
    /\ reply' = <<>>
    /\ endDue' = FALSE
    /\ UNCHANGED <<items, pushWaiters, closed, iteratorStarted, taker, wakes, ahead,
                   pc, pushed, accepted, evicted>>

(* The reader leaves its loop with events still to come.  The iterator has *)
(* no return(), so the queue is not told.                                  *)
LeaveLoop ==
    /\ reader = "running"
    /\ reader' = "left"
    /\ UNCHANGED <<items, pushWaiters, closed, iteratorStarted, taker, wakes, reply,
                   endDue, ahead, pc, pushed, accepted, evicted, delivered>>

(* Mutant: close() forgets the parked pushes.                              *)
Close_KeepsPushWaiters ==
    /\ ~closed
    /\ closed' = TRUE
    /\ IF taker
       THEN endDue' = TRUE /\ ahead' = Len(wakes)
       ELSE UNCHANGED <<endDue, ahead>>
    /\ taker' = FALSE
    /\ UNCHANGED <<items, pushWaiters, wakes, pc, iteratorStarted, reply, pushed,
                   reader, accepted, evicted, delivered>>

(* Mutant: close() forgets the parked reader.                              *)
Close_KeepsTaker ==
    /\ ~closed
    /\ closed' = TRUE
    /\ wakes' = wakes \o pushWaiters
    /\ pushWaiters' = <<>>
    /\ pc' = [p \in Producers |-> IF pc[p] = "parked" THEN "woken" ELSE pc[p]]
    /\ UNCHANGED <<items, taker, endDue, ahead, iteratorStarted, reply, pushed,
                   reader, accepted, evicted, delivered>>

(* close(): resolves every parked push, which will throw when it resumes,  *)
(* and answers a parked reader with the end.  Items stay readable.         *)
Close ==
    /\ ~closed
    /\ closed' = TRUE
    /\ wakes' = wakes \o pushWaiters
    /\ pushWaiters' = <<>>
    /\ pc' = [p \in Producers |-> IF pc[p] = "parked" THEN "woken" ELSE pc[p]]
    /\ IF taker
       THEN endDue' = TRUE /\ ahead' = Len(wakes')
       ELSE UNCHANGED <<endDue, ahead>>
    /\ taker' = FALSE
    /\ UNCHANGED <<items, iteratorStarted, reply, pushed, reader, accepted, evicted, delivered>>

Next ==
    \/ \E p \in Producers : Push(p) \/ ResumePush(p)
    \/ StartIterator
    \/ CallNext
    \/ DeliverReply
    \/ LeaveLoop
    \/ Close

Spec == Init /\ [][Next]_vars

(* The microtask queue is drained, and a reader that stays in its loop     *)
(* asks for the next event.  Nobody has to push, close or start reading.   *)
Fairness ==
    /\ \A p \in Producers : WF_vars(ResumePush(p))
    /\ WF_vars(DeliverReply)
    /\ WF_vars(CallNext)

FairSpec == Spec /\ Fairness

-----------------------------------------------------------------------------
(* Every variable has its type.                                            *)
TypeOK ==
    /\ items \in Seq(Event) /\ accepted \in Seq(Event)
    /\ evicted \in Seq(Event) /\ delivered \in Seq(Event)
    /\ reply \in Seq(Event) /\ Len(reply) <= 1
    /\ pushWaiters \in Seq(Producers) /\ wakes \in Seq(Producers)
    /\ closed \in BOOLEAN /\ iteratorStarted \in BOOLEAN
    /\ taker \in BOOLEAN /\ endDue \in BOOLEAN
    /\ ahead \in 0 .. Len(wakes)
    /\ pc \in [Producers -> {"idle", "parked", "woken", "threw"}]
    /\ pushed \in [Producers -> 0 .. MaxPush]
    /\ reader \in {"none", "running", "awaiting", "ended", "left"}

(* Nothing is lost, duplicated or reordered on the way through evictions,  *)
(* hand-overs, parked pushes and close(): the events that push accepted    *)
(* are those evicted, then those the reader got, then the one on its way   *)
(* to it, then those waiting.                                              *)
Conservation == accepted = evicted \o delivered \o reply \o items

(* The queue never holds more than its capacity, although a woken push     *)
(* finds its room taken by another one.                                    *)
CapacityRespected == Len(items) <= Capacity

(* No lost wake-up: a push is parked only while the queue is open and      *)
(* either holds an item, so that the reader's next call wakes a push, or a *)
(* wake is queued that runs before the reader can call again.              *)
NoStrandedPush ==
    pushWaiters # <<>> =>
        /\ iteratorStarted /\ ~closed
        /\ items # <<>> \/ (reply # <<>> /\ ahead > 0)

(* The stream, seen from its reader, is the abstract channel: chan is what *)
(* has been accepted and is neither evicted nor delivered.                 *)
Channel == INSTANCE EventChannel
             WITH chan <- reply \o items, received <- delivered,
                  attached <- iteratorStarted, ended <- reader = "ended"
ImplementsChannel == Channel!Spec

(* While its reader keeps reading, every parked push returns or throws:    *)
(* back-pressure delays a driver and never blocks it for good.             *)
ParkedPushReturns ==
    \A p \in Producers : pc[p] = "parked" ~> (pc[p] \in {"idle", "threw"} \/ reader = "left")

(* close() reaches everyone: no push stays parked, and a reader that keeps *)
(* reading sees the end of the stream.                                     *)
CloseReachesEveryone ==
    closed ~> /\ \A p \in Producers : pc[p] \in {"idle", "threw"}
              /\ reader \in {"none", "ended", "left"}

(* The claim of queue.ts:18-20 and of the test "emit never blocks when no  *)
(* consumer iterates" (tests/conversation.test.ts:38), for a reader that   *)
(* has left its loop: with nobody reading, no push stays parked.           *)
NoReaderNoBlocking ==
    \A p \in Producers : (reader = "left" /\ pc[p] = "parked") ~> pc[p] # "parked"
=============================================================================
