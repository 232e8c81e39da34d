-------------------------- MODULE BoundedQueueProofs -------------------------
(***************************************************************************)
(* Proofs about BoundedQueue, for any producers, capacity and number of    *)
(* pushes.                                                                 *)
(***************************************************************************)
EXTENDS BoundedQueue, SequenceTheorems, TLAPS

(* The one reader: what it waits for, and what it has seen.                *)
ReaderInv ==
    /\ iteratorStarted <=> reader # "none"
    /\ reader = "none" => delivered = <<>>
    /\ taker => items = <<>> /\ reply = <<>> /\ ~endDue /\ ~closed
    /\ taker \/ reply # <<>> \/ endDue => reader = "awaiting"
    /\ reply = <<>> \/ ~endDue

(* A push that waits or resumes has an event to add.                       *)
PusherInv ==
    /\ \A i \in 1 .. Len(wakes) : pushed[wakes[i]] >= 1
    /\ \A i \in 1 .. Len(pushWaiters) : pushed[pushWaiters[i]] >= 1

IInv == TypeOK /\ CapacityRespected /\ NoStrandedPush /\ ReaderInv /\ PusherInv

-----------------------------------------------------------------------------
(* The queue starts in the invariant.                                      *)
LEMMA InitIInv == Init => IInv
<1> SUFFICES ASSUME Init PROVE IInv
  OBVIOUS
<1>1. <<>> \in Seq(Event) /\ <<>> \in Seq(Producers) /\ Len(<<>>) = 0
  OBVIOUS
<1>2. TypeOK
  <2>1. /\ pushed \in [Producers -> 0 .. MaxPush]
        /\ pc \in [Producers -> {"idle", "parked", "woken", "threw"}]
    BY MaxPushAssumption DEF Init
  <2>2. ahead \in 0 .. Len(wakes) /\ Len(reply) <= 1
    BY <1>1 DEF Init
  <2>3. /\ items \in Seq(Event) /\ accepted \in Seq(Event) /\ evicted \in Seq(Event)
        /\ delivered \in Seq(Event) /\ reply \in Seq(Event)
        /\ pushWaiters \in Seq(Producers) /\ wakes \in Seq(Producers)
    BY <1>1 DEF Init
  <2>4. /\ closed \in BOOLEAN /\ iteratorStarted \in BOOLEAN
        /\ taker \in BOOLEAN /\ endDue \in BOOLEAN
        /\ reader \in {"none", "running", "awaiting", "ended", "left"}
    BY DEF Init
  <2> QED BY <2>1, <2>2, <2>3, <2>4, Zenon DEF TypeOK
<1>3. CapacityRespected
  BY <1>1, CapacityAssumption DEF Init, CapacityRespected
<1>4. NoStrandedPush /\ ReaderInv /\ PusherInv
  BY <1>1 DEF Init, NoStrandedPush, ReaderInv, PusherInv
<1> QED BY <1>2, <1>3, <1>4 DEF IInv

(* What one attempt to add an event does.                                  *)
TryPushResult(p) ==
    /\ items' \in Seq(Event) /\ Len(items') <= Capacity
    /\ accepted' \in Seq(Event) /\ evicted' \in Seq(Event)
    /\ reply' \in Seq(Event) /\ Len(reply') <= 1
    /\ taker' \in BOOLEAN
    /\ pc' \in [Producers -> {"idle", "parked", "woken", "threw"}]
    /\ taker => ~Full /\ reply' # <<>> /\ items' = <<>> /\ ~taker'
    /\ ~taker => reply' = reply /\ ~taker' /\ items' # <<>>
    /\ \/ pushWaiters' = pushWaiters
       \/ pushWaiters' = Append(pushWaiters, p) /\ iteratorStarted /\ ~taker

LEMMA TryPushEffect ==
    ASSUME IInv, NEW p \in Producers, NEW e \in Event, TryPush(p, e)
    PROVE  TryPushResult(p)
<1>0. /\ items \in Seq(Event) /\ Len(items) \in Nat /\ Len(items) <= Capacity
      /\ Capacity \in Nat \ {0} /\ accepted \in Seq(Event) /\ evicted \in Seq(Event)
      /\ reply \in Seq(Event) /\ Len(reply) <= 1 /\ taker \in BOOLEAN
      /\ pc \in [Producers -> {"idle", "parked", "woken", "threw"}]
      /\ taker => items = <<>>
  BY CapacityAssumption, LenProperties DEF IInv, TypeOK, CapacityRespected, ReaderInv
<1>1. taker => ~Full
  BY <1>0, EmptySeq DEF Full
<1>2. Append(accepted, e) \in Seq(Event) /\ Append(items, e) \in Seq(Event)
      /\ Append(items, e) # <<>> /\ Len(Append(items, e)) = Len(items) + 1
  BY <1>0, AppendProperties
<1>3. CASE Park(p)
  <2>1. items # <<>>
    BY <1>0, <1>3, EmptySeq DEF Park, Full
  <2> QED BY <1>0, <1>1, <1>3, <2>1 DEF Park, TryPushResult
<1>4. CASE EvictOldest(p, e)
  <2>1. items # <<>>
    BY <1>0, <1>4, EmptySeq DEF EvictOldest, Full
  <2>2. Head(items) \in Event /\ Tail(items) \in Seq(Event) /\ Len(Tail(items)) = Len(items) - 1
    BY <1>0, <2>1, HeadTailProperties
  <2>3. /\ Append(Tail(items), e) \in Seq(Event) /\ Append(Tail(items), e) # <<>>
        /\ Len(Append(Tail(items), e)) = Len(items)
        /\ Append(evicted, Head(items)) \in Seq(Event)
    BY <1>0, <2>2, AppendProperties
  <2>4. ~taker /\ pc' \in [Producers -> {"idle", "parked", "woken", "threw"}]
    BY <1>0, <1>1, <1>4 DEF EvictOldest
  <2>5. items' = Append(Tail(items), e) /\ evicted' = Append(evicted, Head(items))
        /\ accepted' = Append(accepted, e) /\ UNCHANGED <<pushWaiters, taker, reply>>
    BY <1>4 DEF EvictOldest
  <2>6. Len(items') <= Capacity
    BY <1>0, <2>3, <2>5
  <2> QED BY <1>0, <1>2, <2>3, <2>4, <2>5, <2>6, Zenon DEF TryPushResult
<1>5. CASE HandOver(p, e)
  <2>1. reply' \in Seq(Event) /\ Len(reply') <= 1 /\ reply' # <<>>
    BY <1>5 DEF HandOver
  <2>2. /\ items' = <<>> /\ items' \in Seq(Event) /\ Len(items') <= Capacity
        /\ accepted' \in Seq(Event) /\ evicted' \in Seq(Event)
        /\ taker /\ ~Full /\ taker' = FALSE /\ pushWaiters' = pushWaiters
    BY <1>0, <1>2, <1>5 DEF HandOver
  <2>3. pc' \in [Producers -> {"idle", "parked", "woken", "threw"}]
    BY <1>0, <1>5 DEF HandOver
  <2> QED BY <2>1, <2>2, <2>3, Zenon DEF TryPushResult
<1>6. CASE Enqueue(p, e)
  <2>1. Len(items) + 1 <= Capacity
    BY <1>0, <1>6 DEF Enqueue, Full
  <2> QED BY <1>0, <1>1, <1>2, <1>6, <2>1 DEF Enqueue, TryPushResult
<1> QED BY <1>3, <1>4, <1>5, <1>6 DEF TryPush

LEMMA ThrowEffect ==
    ASSUME IInv, NEW p \in Producers, Throw(p)
    PROVE  /\ pc' \in [Producers -> {"idle", "parked", "woken", "threw"}]
           /\ UNCHANGED <<items, pushWaiters, taker, reply, accepted, evicted>>
           /\ closed /\ ~taker /\ pushWaiters = <<>>
BY DEF IInv, TypeOK, ReaderInv, NoStrandedPush, Throw

(* What every continuation of push leaves alone, and what it does to the   *)
(* queued wakes and to the number of pushes begun.                         *)
Continues(p) ==
    /\ UNCHANGED <<closed, iteratorStarted, endDue, reader, delivered>>
    /\ wakes' \in Seq(Producers) /\ ahead' \in 0 .. Len(wakes')
    /\ pushed' \in [Producers -> 0 .. MaxPush]
    /\ \A q \in Producers : pushed[q] >= 1 => pushed'[q] >= 1
    /\ pushed'[p] >= 1
    /\ \A i \in 1 .. Len(wakes') : pushed'[wakes'[i]] >= 1

LEMMA TryPushKeeps ==
    ASSUME IInv, NEW p \in Producers, TryPushResult(p), Continues(p), ~closed
    PROVE  IInv'
<1>1. pushWaiters \in Seq(Producers) /\ Len(pushWaiters) \in Nat
  <2>1. pushWaiters \in Seq(Producers)
    BY DEF IInv, TypeOK
  <2> QED BY <2>1, LenProperties
<1>2. \A i \in 1 .. Len(pushWaiters) : pushed'[pushWaiters[i]] >= 1
  <2> TAKE i \in 1 .. Len(pushWaiters)
  <2>1. pushWaiters[i] \in Producers
    BY <1>1, ElementOfSeq
  <2>2. pushed[pushWaiters[i]] >= 1
    BY DEF IInv, PusherInv
  <2> QED BY <2>1, <2>2 DEF Continues
<1>3. TypeOK'
  <2>1. pushWaiters' \in Seq(Producers)
    <3>1. Append(pushWaiters, p) \in Seq(Producers)
      BY <1>1, AppendProperties
    <3>2. pushWaiters' = pushWaiters \/ pushWaiters' = Append(pushWaiters, p)
      BY DEF TryPushResult
    <3> QED BY <1>1, <3>1, <3>2
  <2>2. /\ delivered' \in Seq(Event)
        /\ closed' \in BOOLEAN /\ iteratorStarted' \in BOOLEAN /\ endDue' \in BOOLEAN
        /\ reader' \in {"none", "running", "awaiting", "ended", "left"}
    BY DEF IInv, TypeOK, Continues
  <2> QED BY <2>1, <2>2, Zenon DEF TypeOK, TryPushResult, Continues
<1>4. CapacityRespected'
  BY DEF CapacityRespected, TryPushResult
<1>5. ReaderInv'
  BY DEF IInv, ReaderInv, TypeOK, TryPushResult, Continues
<1>6. NoStrandedPush'
  <2>1. CASE taker
    <3>1. pushWaiters' = pushWaiters /\ pushWaiters = <<>>
      BY <2>1 DEF IInv, NoStrandedPush, ReaderInv, TryPushResult
    <3> QED BY <3>1 DEF NoStrandedPush
  <2>2. CASE ~taker
    <3>1. items' # <<>> /\ ~closed'
      BY <2>2 DEF TryPushResult, Continues
    <3>2. pushWaiters' # <<>> => iteratorStarted'
      BY DEF IInv, NoStrandedPush, TryPushResult, Continues
    <3> QED BY <3>1, <3>2 DEF NoStrandedPush
  <2> QED BY <2>1, <2>2
<1>7. PusherInv'
  <2>1. \A i \in 1 .. Len(pushWaiters') : pushed'[pushWaiters'[i]] >= 1
    <3>1. CASE pushWaiters' = pushWaiters
      BY <1>2, <3>1
    <3>2. CASE pushWaiters' = Append(pushWaiters, p)
      BY <1>1, <1>2, <3>2, AppendProperties DEF Continues
    <3> QED BY <3>1, <3>2 DEF TryPushResult
  <2> QED BY <2>1 DEF PusherInv, Continues
<1> QED BY <1>3, <1>4, <1>5, <1>6, <1>7 DEF IInv

LEMMA ThrowKeeps ==
    ASSUME IInv, NEW p \in Producers, Throw(p), Continues(p)
    PROVE  IInv'
<1>1. /\ pc' \in [Producers -> {"idle", "parked", "woken", "threw"}]
      /\ UNCHANGED <<items, pushWaiters, taker, reply, accepted, evicted>>
      /\ pushWaiters = <<>>
  BY ThrowEffect
<1>2. TypeOK'
  <2>1. /\ items' \in Seq(Event) /\ accepted' \in Seq(Event) /\ evicted' \in Seq(Event)
        /\ delivered' \in Seq(Event) /\ reply' \in Seq(Event) /\ Len(reply') <= 1
        /\ pushWaiters' \in Seq(Producers)
    BY <1>1 DEF IInv, TypeOK, Continues
  <2>2. /\ closed' \in BOOLEAN /\ iteratorStarted' \in BOOLEAN
        /\ taker' \in BOOLEAN /\ endDue' \in BOOLEAN
        /\ reader' \in {"none", "running", "awaiting", "ended", "left"}
    BY <1>1 DEF IInv, TypeOK, Continues
  <2> QED BY <1>1, <2>1, <2>2, Zenon DEF TypeOK, Continues
<1>3. CapacityRespected'
  BY <1>1 DEF IInv, CapacityRespected
<1>4. NoStrandedPush'
  BY <1>1 DEF NoStrandedPush
<1>5. ReaderInv'
  BY <1>1 DEF IInv, ReaderInv, Continues
<1>6. PusherInv'
  <2>1. Len(pushWaiters') = 0
    BY <1>1
  <2> QED BY <2>1 DEF PusherInv, Continues
<1> QED BY <1>2, <1>3, <1>4, <1>5, <1>6 DEF IInv

LEMMA PushKeeps == ASSUME IInv, NEW p \in Producers, Push(p) PROVE IInv'
<1> DEFINE e == <<p, pushed[p] + 1>>
<1>1. /\ pushed \in [Producers -> 0 .. MaxPush] /\ pushed[p] \in 0 .. MaxPush
      /\ pushed[p] < MaxPush /\ MaxPush \in Nat
      /\ wakes \in Seq(Producers) /\ Len(wakes) \in Nat /\ ahead \in 0 .. Len(wakes)
      /\ pushed' = [pushed EXCEPT ![p] = pushed[p] + 1] /\ wakes' = wakes
      /\ \A i \in 1 .. Len(wakes) : pushed[wakes[i]] >= 1
  BY MaxPushAssumption, LenProperties DEF IInv, TypeOK, PusherInv, Push
<1>2. e \in Event
  BY <1>1 DEF Event
<1>3. /\ pushed' \in [Producers -> 0 .. MaxPush] /\ pushed'[p] >= 1
      /\ \A q \in Producers : pushed[q] >= 1 => pushed'[q] >= 1
  BY <1>1
<1>4. \A i \in 1 .. Len(wakes') : pushed'[wakes'[i]] >= 1
  BY <1>1, <1>3, ElementOfSeq
<1>5. ASSUME ahead' \in 0 .. Len(wakes) PROVE Continues(p)
  BY <1>1, <1>3, <1>4, <1>5 DEF Push, Continues
<1>6. CASE Throw(p) /\ UNCHANGED ahead
  BY <1>1, <1>5, <1>6, ThrowKeeps
<1>7. CASE /\ ~closed /\ TryPush(p, e)
           /\ ahead' = IF taker /\ ~Full THEN Len(wakes) ELSE ahead
  <2>1. ahead' \in 0 .. Len(wakes)
    BY <1>1, <1>7
  <2>2. TryPushResult(p)
    BY <1>2, <1>7, TryPushEffect
  <2> QED BY <1>5, <1>7, <2>1, <2>2, TryPushKeeps
<1> QED BY <1>6, <1>7 DEF Push

LEMMA ResumePushKeeps == ASSUME IInv, NEW p \in Producers, ResumePush(p) PROVE IInv'
<1> DEFINE e == <<p, pushed[p]>>
           fewer == IF ahead > 0 THEN ahead - 1 ELSE 0
<1>1. /\ pushed \in [Producers -> 0 .. MaxPush] /\ MaxPush \in Nat
      /\ wakes \in Seq(Producers) /\ wakes # <<>> /\ Len(wakes) \in Nat \ {0}
      /\ ahead \in 0 .. Len(wakes) /\ p = Head(wakes)
      /\ wakes' = Tail(wakes) /\ pushed' = pushed
      /\ \A i \in 1 .. Len(wakes) : pushed[wakes[i]] >= 1
  BY MaxPushAssumption, LenProperties, EmptySeq DEF IInv, TypeOK, PusherInv, ResumePush
<1>2. /\ wakes' \in Seq(Producers) /\ Len(wakes') = Len(wakes) - 1
      /\ \A i \in 1 .. Len(wakes') : wakes'[i] = wakes[i + 1]
  BY <1>1, HeadTailProperties
<1>3. p = wakes[1] /\ pushed[p] >= 1
  BY <1>1
<1>4. e \in Event
  BY <1>1, <1>3 DEF Event
<1>5. \A i \in 1 .. Len(wakes') : pushed'[wakes'[i]] >= 1
  BY <1>1, <1>2
<1>6. fewer \in 0 .. Len(wakes')
  BY <1>1, <1>2
<1>7. ASSUME ahead' \in 0 .. Len(wakes') PROVE Continues(p)
  BY <1>1, <1>2, <1>3, <1>5, <1>7 DEF ResumePush, Continues
<1>8. CASE Throw(p) /\ ahead' = fewer
  BY <1>6, <1>7, <1>8, ThrowKeeps
<1>9. CASE /\ ~closed /\ TryPush(p, e)
           /\ ahead' = IF taker /\ ~Full THEN Len(wakes) - 1 ELSE fewer
  <2>1. ahead' \in 0 .. Len(wakes')
    BY <1>1, <1>2, <1>6, <1>9
  <2>2. TryPushResult(p)
    BY <1>4, <1>9, TryPushEffect
  <2> QED BY <1>7, <1>9, <2>1, <2>2, TryPushKeeps
<1> QED BY <1>8, <1>9 DEF ResumePush

LEMMA StartIteratorKeeps == ASSUME IInv, StartIterator PROVE IInv'
<1>1. TypeOK'
  BY DEF IInv, TypeOK, StartIterator
<1>2. CapacityRespected' /\ NoStrandedPush' /\ ReaderInv' /\ PusherInv'
  BY DEF IInv, CapacityRespected, NoStrandedPush, ReaderInv, PusherInv, StartIterator
<1> QED BY <1>1, <1>2 DEF IInv

(* next() with an item: the wake it queues is counted ahead of its answer. *)
LEMMA TakeItemKeeps ==
    ASSUME IInv, reader = "running", reader' = "awaiting", TakeItem,
           UNCHANGED <<closed, iteratorStarted, pushed, accepted, evicted, delivered>>
    PROVE  IInv'
<1>1. /\ items \in Seq(Event) /\ items # <<>> /\ Len(items) \in Nat
      /\ items' = Tail(items) /\ reply' = <<Head(items)>>
      /\ reply = <<>> /\ ~endDue /\ ~taker /\ taker' = taker /\ endDue' = endDue
      /\ pushWaiters \in Seq(Producers) /\ wakes \in Seq(Producers) /\ Len(wakes) \in Nat
      /\ pc \in [Producers -> {"idle", "parked", "woken", "threw"}]
      /\ Len(items) <= Capacity /\ Capacity \in Nat
      /\ \A i \in 1 .. Len(wakes) : pushed[wakes[i]] >= 1
      /\ \A i \in 1 .. Len(pushWaiters) : pushed[pushWaiters[i]] >= 1
      /\ pushed' = pushed
  <2>1. /\ items \in Seq(Event) /\ items # <<>> /\ items' = Tail(items)
        /\ reply' = <<Head(items)>> /\ reply = <<>> /\ ~endDue /\ ~taker
        /\ taker' = taker /\ endDue' = endDue
        /\ pushWaiters \in Seq(Producers) /\ wakes \in Seq(Producers)
        /\ pc \in [Producers -> {"idle", "parked", "woken", "threw"}]
        /\ Len(items) <= Capacity
    BY DEF IInv, TypeOK, CapacityRespected, ReaderInv, TakeItem
  <2> QED BY <2>1, LenProperties, CapacityAssumption DEF IInv, PusherInv
<1>2. /\ Head(items) \in Event /\ items' \in Seq(Event) /\ Len(items') <= Capacity
  BY <1>1, HeadTailProperties
<1>3. reply' \in Seq(Event) /\ Len(reply') = 1 /\ reply' # <<>>
  BY <1>1, <1>2
<1>4. /\ wakes' \in Seq(Producers) /\ Len(wakes') \in Nat /\ ahead' = Len(wakes')
      /\ pushWaiters' \in Seq(Producers)
      /\ pc' \in [Producers -> {"idle", "parked", "woken", "threw"}]
      /\ pushWaiters' # <<>> => pushWaiters # <<>> /\ ahead' > 0
      /\ \A i \in 1 .. Len(wakes') : pushed[wakes'[i]] >= 1
      /\ \A i \in 1 .. Len(pushWaiters') : pushed[pushWaiters'[i]] >= 1
  <2>1. CASE pushWaiters = <<>>
    BY <1>1, <2>1 DEF TakeItem
  <2>2. CASE pushWaiters # <<>>
    <3>1. /\ wakes' = Append(wakes, Head(pushWaiters)) /\ pushWaiters' = Tail(pushWaiters)
          /\ pc' = [pc EXCEPT ![Head(pushWaiters)] = "woken"] /\ ahead' = Len(wakes')
      BY <2>2 DEF TakeItem
    <3>2. /\ Len(pushWaiters) \in Nat \ {0} /\ Head(pushWaiters) = pushWaiters[1]
          /\ Head(pushWaiters) \in Producers /\ pushWaiters' \in Seq(Producers)
          /\ Len(pushWaiters') = Len(pushWaiters) - 1
          /\ \A i \in 1 .. Len(pushWaiters') : pushWaiters'[i] = pushWaiters[i + 1]
      BY <1>1, <2>2, <3>1, EmptySeq, HeadTailProperties
    <3>3. /\ wakes' \in Seq(Producers) /\ Len(wakes') = Len(wakes) + 1
          /\ \A i \in 1 .. Len(wakes) : wakes'[i] = wakes[i]
          /\ wakes'[Len(wakes) + 1] = Head(pushWaiters)
      BY <1>1, <3>1, <3>2, AppendProperties
    <3>4. \A i \in 1 .. Len(wakes') : pushed[wakes'[i]] >= 1
      <4> TAKE i \in 1 .. Len(wakes')
      <4>1. Len(wakes) \in Nat /\ 1 \in 1 .. Len(pushWaiters)
        BY <1>1, <3>2
      <4>2. CASE i \in 1 .. Len(wakes)
        BY <1>1, <3>3, <4>2
      <4>3. CASE i = Len(wakes) + 1
        BY <1>1, <3>2, <3>3, <4>1, <4>3
      <4> QED BY <3>3, <4>1, <4>2, <4>3
    <3>5. \A i \in 1 .. Len(pushWaiters') : pushed[pushWaiters'[i]] >= 1
      <4> TAKE i \in 1 .. Len(pushWaiters')
      <4>1. i + 1 \in 1 .. Len(pushWaiters) /\ pushWaiters'[i] = pushWaiters[i + 1]
        BY <3>2
      <4> QED BY <1>1, <4>1
    <3>6. pc' \in [Producers -> {"idle", "parked", "woken", "threw"}]
      BY <1>1, <3>1, <3>2
    <3>7. Len(wakes') \in Nat /\ ahead' > 0
      BY <1>1, <3>1, <3>3
    <3> QED BY <2>2, <3>1, <3>2, <3>3, <3>4, <3>5, <3>6, <3>7
  <2> QED BY <2>1, <2>2
<1>5. TypeOK'
  <2>1. ahead' \in 0 .. Len(wakes') /\ Len(reply') <= 1
    BY <1>3, <1>4
  <2>2. /\ accepted' \in Seq(Event) /\ evicted' \in Seq(Event) /\ delivered' \in Seq(Event)
        /\ closed' \in BOOLEAN /\ iteratorStarted' \in BOOLEAN
        /\ taker' \in BOOLEAN /\ endDue' \in BOOLEAN
        /\ pushed' \in [Producers -> 0 .. MaxPush]
        /\ reader' \in {"none", "running", "awaiting", "ended", "left"}
    BY <1>1 DEF IInv, TypeOK
  <2> QED BY <1>2, <1>3, <1>4, <2>1, <2>2, Zenon DEF TypeOK
<1>6. CapacityRespected'
  BY <1>2 DEF CapacityRespected
<1>7. NoStrandedPush'
  BY <1>3, <1>4 DEF IInv, NoStrandedPush
<1>8. ReaderInv'
  BY <1>1 DEF IInv, ReaderInv
<1>9. PusherInv'
  BY <1>1, <1>4 DEF PusherInv
<1> QED BY <1>5, <1>6, <1>7, <1>8, <1>9 DEF IInv

LEMMA CallNextKeeps == ASSUME IInv, CallNext PROVE IInv'
<1>0. /\ reader = "running" /\ reader' = "awaiting"
      /\ UNCHANGED <<closed, iteratorStarted, pushed, accepted, evicted, delivered>>
  BY DEF CallNext
<1>1. CASE TakeItem
  BY <1>0, <1>1, TakeItemKeeps
<1>2. CASE TakeEnd
  <2>1. /\ ahead' = Len(wakes) /\ endDue' = TRUE /\ closed /\ items = <<>>
        /\ UNCHANGED <<items, pushWaiters, taker, wakes, reply, pc>>
    BY <1>2 DEF TakeEnd
  <2>2. wakes \in Seq(Producers)
    BY DEF IInv, TypeOK
  <2>3. ahead' \in 0 .. Len(wakes')
    BY <2>1, <2>2, LenProperties
  <2>4. TypeOK'
    BY <1>0, <2>1, <2>3 DEF IInv, TypeOK
  <2>5. CapacityRespected' /\ NoStrandedPush'
    BY <1>0, <2>1 DEF IInv, CapacityRespected, NoStrandedPush
  <2>6. ReaderInv'
    BY <1>0, <2>1 DEF IInv, ReaderInv
  <2>7. PusherInv'
    BY <1>0, <2>1 DEF IInv, PusherInv
  <2> QED BY <2>4, <2>5, <2>6, <2>7 DEF IInv
<1>3. CASE ParkReader
  <2>1. /\ taker' = TRUE /\ ~closed /\ items = <<>>
        /\ UNCHANGED <<items, pushWaiters, wakes, reply, endDue, ahead, pc>>
    BY <1>3 DEF ParkReader
  <2>2. TypeOK'
    BY <1>0, <2>1 DEF IInv, TypeOK
  <2>3. CapacityRespected' /\ NoStrandedPush'
    BY <1>0, <2>1 DEF IInv, CapacityRespected, NoStrandedPush
  <2>4. ReaderInv'
    BY <1>0, <2>1 DEF IInv, ReaderInv
  <2>5. PusherInv'
    BY <1>0, <2>1 DEF IInv, PusherInv
  <2> QED BY <2>2, <2>3, <2>4, <2>5 DEF IInv
<1> QED BY <1>1, <1>2, <1>3 DEF CallNext

LEMMA DeliverReplyKeeps == ASSUME IInv, DeliverReply PROVE IInv'
<1>0. /\ reply' = <<>> /\ endDue' = FALSE /\ ahead = 0
      /\ UNCHANGED <<items, pushWaiters, closed, iteratorStarted, taker, wakes, ahead,
                     pc, pushed, accepted, evicted>>
      /\ reader' \in {"running", "ended"} /\ reader = "awaiting" /\ ~taker
  BY DEF IInv, TypeOK, ReaderInv, DeliverReply
<1>1. TypeOK'
  <2>1. delivered' \in Seq(Event)
    <3>1. delivered \in Seq(Event) /\ reply \in Seq(Event)
      BY DEF IInv, TypeOK
    <3> QED BY <3>1, ConcatProperties DEF DeliverReply
  <2>2. reply' \in Seq(Event) /\ Len(reply') <= 1
    BY <1>0
  <2> QED BY <1>0, <2>1, <2>2 DEF IInv, TypeOK
<1>2. CapacityRespected'
  BY <1>0 DEF IInv, CapacityRespected
<1>3. NoStrandedPush'
  BY <1>0 DEF IInv, NoStrandedPush
<1>4. ReaderInv'
  BY <1>0 DEF IInv, ReaderInv
<1>5. PusherInv'
  BY <1>0 DEF IInv, PusherInv
<1> QED BY <1>1, <1>2, <1>3, <1>4, <1>5 DEF IInv

LEMMA LeaveLoopKeeps == ASSUME IInv, LeaveLoop PROVE IInv'
<1>1. TypeOK'
  BY DEF IInv, TypeOK, LeaveLoop
<1>2. CapacityRespected' /\ NoStrandedPush' /\ ReaderInv' /\ PusherInv'
  BY DEF IInv, CapacityRespected, NoStrandedPush, ReaderInv, PusherInv, LeaveLoop
<1> QED BY <1>1, <1>2 DEF IInv

LEMMA CloseKeeps == ASSUME IInv, Close PROVE IInv'
<1>1. /\ wakes \in Seq(Producers) /\ pushWaiters \in Seq(Producers)
      /\ Len(wakes) \in Nat /\ Len(pushWaiters) \in Nat /\ ahead \in 0 .. Len(wakes)
  <2>1. wakes \in Seq(Producers) /\ pushWaiters \in Seq(Producers) /\ ahead \in 0 .. Len(wakes)
    BY DEF IInv, TypeOK
  <2> QED BY <2>1, LenProperties
<1>2. /\ wakes' = wakes \o pushWaiters /\ wakes' \in Seq(Producers)
      /\ Len(wakes') = Len(wakes) + Len(pushWaiters)
      /\ \A i \in 1 .. Len(wakes') :
            wakes'[i] = IF i <= Len(wakes) THEN wakes[i] ELSE pushWaiters[i - Len(wakes)]
  BY <1>1, ConcatProperties DEF Close
<1>3. /\ closed' = TRUE /\ taker' = FALSE /\ pushWaiters' = <<>>
      /\ UNCHANGED <<items, iteratorStarted, reply, pushed, reader, accepted, evicted, delivered>>
      /\ taker => endDue' = TRUE /\ ahead' = Len(wakes')
      /\ ~taker => endDue' = endDue /\ ahead' = ahead
  BY DEF Close
<1>4. TypeOK'
  <2>1. pc' \in [Producers -> {"idle", "parked", "woken", "threw"}]
    BY DEF IInv, TypeOK, Close
  <2>2. ahead' \in 0 .. Len(wakes')
    BY <1>1, <1>2, <1>3
  <2>3. pushWaiters' \in Seq(Producers)
    BY <1>3
  <2>4. endDue' \in BOOLEAN
    BY <1>3 DEF IInv, TypeOK
  <2> QED BY <1>2, <1>3, <2>1, <2>2, <2>3, <2>4 DEF IInv, TypeOK
<1>5. CapacityRespected'
  BY <1>3 DEF IInv, CapacityRespected
<1>6. NoStrandedPush'
  BY <1>3 DEF NoStrandedPush
<1>7. ReaderInv'
  BY <1>3 DEF IInv, ReaderInv
<1>8. PusherInv'
  <2>1. \A i \in 1 .. Len(wakes') : pushed[wakes'[i]] >= 1
    BY <1>1, <1>2 DEF IInv, PusherInv
  <2>2. Len(pushWaiters') = 0
    BY <1>3
  <2> QED BY <1>3, <2>1, <2>2 DEF PusherInv
<1> QED BY <1>4, <1>5, <1>6, <1>7, <1>8 DEF IInv

(* Every step of the queue, its producers and its reader keeps the         *)
(* invariant.                                                              *)
LEMMA StepIInv == IInv /\ [Next]_vars => IInv'
<1> SUFFICES ASSUME IInv, [Next]_vars PROVE IInv'
  OBVIOUS
<1>1. CASE \E p \in Producers : Push(p) \/ ResumePush(p)
  BY <1>1, PushKeeps, ResumePushKeeps
<1>2. CASE StartIterator
  BY <1>2, StartIteratorKeeps
<1>3. CASE CallNext
  BY <1>3, CallNextKeeps
<1>4. CASE DeliverReply
  BY <1>4, DeliverReplyKeeps
<1>5. CASE LeaveLoop
  BY <1>5, LeaveLoopKeeps
<1>6. CASE Close
  BY <1>6, CloseKeeps
<1>7. CASE UNCHANGED vars
  <2>1. TypeOK'
    BY <1>7 DEF IInv, TypeOK, vars
  <2>2. CapacityRespected' /\ NoStrandedPush' /\ ReaderInv' /\ PusherInv'
    BY <1>7 DEF IInv, CapacityRespected, NoStrandedPush, ReaderInv, PusherInv, vars
  <2> QED BY <2>1, <2>2 DEF IInv
<1> QED BY <1>1, <1>2, <1>3, <1>4, <1>5, <1>6, <1>7 DEF Next

(* IInv, the inductive invariant of the queue, holds in every state of     *)
(* every run: the capacity, the parked pushes and the reader stay in step. *)
THEOREM Invariance == Spec => []IInv
<1>1. Init => IInv
  BY InitIInv
<1>2. IInv /\ [Next]_vars => IInv'
  BY StepIInv
<1> QED BY <1>1, <1>2, PTL DEF Spec

(* Every variable of the queue has its type in every reachable state.      *)
THEOREM TypeCorrect == Spec => []TypeOK
<1>1. IInv => TypeOK
  BY DEF IInv
<1> QED BY <1>1, Invariance, PTL

(* push and next() keep the queue within its capacity however wakes and    *)
(* fresh pushes interleave.                                                *)
THEOREM CapacityHolds == Spec => []CapacityRespected
<1>1. IInv => CapacityRespected
  BY DEF IInv
<1> QED BY <1>1, Invariance, PTL

(* No push is parked without an item or a queued wake that will free it.   *)
THEOREM NoLostWakeup == Spec => []NoStrandedPush
<1>1. IInv => NoStrandedPush
  BY DEF IInv
<1> QED BY <1>1, Invariance, PTL

-----------------------------------------------------------------------------
(* Sequences, as far as Conservation needs them.                           *)
LEMMA ConcatAppend ==
    ASSUME NEW S, NEW s \in Seq(S), NEW t \in Seq(S), NEW e \in S
    PROVE  s \o Append(t, e) = Append(s \o t, e)
<1>1. s \o t \in Seq(S) /\ <<e>> \in Seq(S)
  BY ConcatProperties
<1>2. Append(t, e) = t \o <<e>> /\ Append(s \o t, e) = (s \o t) \o <<e>>
  BY <1>1, AppendIsConcat
<1>3. (s \o t) \o <<e>> = s \o (t \o <<e>>)
  BY <1>1, ConcatAssociative
<1> QED BY <1>2, <1>3

(* Moving the oldest element from the front of t to the end of s.          *)
LEMMA MoveHead ==
    ASSUME NEW S, NEW s \in Seq(S), NEW t \in Seq(S), t # <<>>
    PROVE  Append(s, Head(t)) \o Tail(t) = s \o t
<1>1. Head(t) \in S /\ Tail(t) \in Seq(S) /\ <<Head(t)>> \in Seq(S)
  BY HeadTailProperties
<1>2. Append(s, Head(t)) = s \o <<Head(t)>>
  BY <1>1, AppendIsConcat
<1>3. (s \o <<Head(t)>>) \o Tail(t) = s \o (<<Head(t)>> \o Tail(t))
  BY <1>1, ConcatAssociative
<1>4. <<Head(t)>> \o Tail(t) = t
  <2> DEFINE u == <<Head(t)>> \o Tail(t)
  <2>1. /\ u \in Seq(S) /\ Len(u) = 1 + Len(Tail(t))
        /\ \A i \in 1 .. 1 + Len(Tail(t)) :
              u[i] = IF i <= 1 THEN <<Head(t)>>[i] ELSE Tail(t)[i - 1]
    BY <1>1, ConcatProperties
  <2>2. /\ Len(t) \in Nat \ {0} /\ Len(Tail(t)) = Len(t) - 1 /\ Head(t) = t[1]
        /\ \A i \in 1 .. Len(Tail(t)) : Tail(t)[i] = t[i + 1]
    BY HeadTailProperties, EmptySeq
  <2>3. \A i \in 1 .. Len(u) : u[i] = t[i]
    BY <2>1, <2>2
  <2>4. Len(u) = Len(t)
    BY <2>1, <2>2
  <2> HIDE DEF u
  <2>5. u = t
    BY <2>1, <2>3, <2>4, SeqEqual
  <2> QED BY <2>5 DEF u
<1> QED BY <1>2, <1>3, <1>4

(* An attempt to add an event accounts for it, and for what it drops.      *)
LEMMA TryPushConserves ==
    ASSUME IInv, Conservation, NEW p \in Producers, NEW e \in Event, TryPush(p, e),
           delivered' = delivered
    PROVE  Conservation'
<1> DEFINE read == (evicted \o delivered) \o reply
<1>1. /\ items \in Seq(Event) /\ reply \in Seq(Event)
      /\ evicted \in Seq(Event) /\ delivered \in Seq(Event)
      /\ taker => items = <<>> /\ reply = <<>>
      /\ ~iteratorStarted => delivered = <<>> /\ reply = <<>>
      /\ accepted = read \o items
  BY DEF IInv, TypeOK, ReaderInv, Conservation
<1>2. evicted \o delivered \in Seq(Event) /\ read \in Seq(Event)
  BY <1>1, ConcatProperties
<1>3. CASE Park(p)
  BY <1>1, <1>3 DEF Park, Conservation
<1>4. CASE EvictOldest(p, e)
  <2>1. items # <<>>
    BY <1>1, <1>4, EmptySeq, CapacityAssumption DEF EvictOldest, Full
  <2>2. /\ items' = Append(Tail(items), e) /\ evicted' = Append(evicted, Head(items))
        /\ accepted' = Append(accepted, e) /\ reply' = <<>>
        /\ delivered' = <<>> /\ delivered = <<>> /\ reply = <<>>
    BY <1>1, <1>4 DEF EvictOldest
  <2>3. /\ Tail(items) \in Seq(Event) /\ Head(items) \in Event
        /\ Append(evicted, Head(items)) \in Seq(Event)
    BY <1>1, <2>1, HeadTailProperties, AppendProperties
  <2>4. accepted = evicted \o items
    BY <1>1, <2>2, ConcatEmptySeq
  <2>5. (evicted' \o delivered') \o reply' = evicted'
    BY <2>2, <2>3, ConcatEmptySeq
  <2>6. evicted' \o items' = Append(evicted' \o Tail(items), e)
    BY <2>2, <2>3, ConcatAppend
  <2>7. evicted' \o Tail(items) = evicted \o items
    BY <1>1, <2>1, <2>2, MoveHead
  <2> QED BY <2>2, <2>4, <2>5, <2>6, <2>7 DEF Conservation
<1>5. CASE HandOver(p, e)
  <2>1. /\ items' = <<>> /\ items = <<>> /\ reply = <<>> /\ reply' = <<e>>
        /\ accepted' = Append(accepted, e) /\ evicted' = evicted
    BY <1>1, <1>5 DEF HandOver
  <2>2. accepted = evicted \o delivered
    BY <1>1, <1>2, <2>1, ConcatEmptySeq
  <2>3. accepted' = (evicted \o delivered) \o <<e>>
    BY <1>2, <2>1, <2>2, AppendIsConcat
  <2>4. (evicted \o delivered) \o <<e>> \in Seq(Event)
    <3>1. <<e>> \in Seq(Event)
      OBVIOUS
    <3> QED BY <1>2, <3>1, ConcatProperties
  <2> QED BY <2>1, <2>3, <2>4, ConcatEmptySeq DEF Conservation
<1>6. CASE Enqueue(p, e)
  <2>1. /\ items' = Append(items, e) /\ accepted' = Append(accepted, e)
        /\ reply' = reply /\ evicted' = evicted
    BY <1>6 DEF Enqueue
  <2>2. read \o Append(items, e) = Append(read \o items, e)
    BY <1>1, <1>2, ConcatAppend
  <2> QED BY <1>1, <2>1, <2>2 DEF Conservation
<1> QED BY <1>3, <1>4, <1>5, <1>6 DEF TryPush

(* No step loses an event or hands it over twice.                          *)
LEMMA StepConserves == IInv /\ Conservation /\ [Next]_vars => Conservation'
<1> SUFFICES ASSUME IInv, Conservation, [Next]_vars PROVE Conservation'
  OBVIOUS
<1>1. /\ items \in Seq(Event) /\ reply \in Seq(Event)
      /\ evicted \in Seq(Event) /\ delivered \in Seq(Event)
      /\ accepted = ((evicted \o delivered) \o reply) \o items
  BY DEF IInv, TypeOK, Conservation
<1>2. evicted \o delivered \in Seq(Event) /\ (evicted \o delivered) \o reply \in Seq(Event)
  BY <1>1, ConcatProperties
<1>3. ASSUME UNCHANGED <<accepted, evicted, delivered, reply, items>> PROVE Conservation'
  BY <1>3 DEF Conservation
<1>4. ASSUME NEW p \in Producers, Push(p) PROVE Conservation'
  <2>1. pushed[p] \in Nat /\ pushed[p] < MaxPush /\ delivered' = delivered
    BY <1>4, MaxPushAssumption DEF IInv, TypeOK, Push
  <2>2. <<p, pushed[p] + 1>> \in Event
    BY <2>1, MaxPushAssumption DEF Event
  <2>3. CASE Throw(p)
    BY <1>3, <2>1, <2>3 DEF Throw
  <2>4. CASE TryPush(p, <<p, pushed[p] + 1>>)
    BY <2>1, <2>2, <2>4, TryPushConserves
  <2> QED BY <1>4, <2>3, <2>4 DEF Push
<1>5. ASSUME NEW p \in Producers, ResumePush(p) PROVE Conservation'
  <2>1. /\ wakes \in Seq(Producers) /\ wakes # <<>> /\ p = Head(wakes)
        /\ delivered' = delivered
    BY <1>5 DEF IInv, TypeOK, ResumePush
  <2>2. 1 \in 1 .. Len(wakes) /\ p = wakes[1]
    BY <2>1, EmptySeq
  <2>3. pushed[p] \in 1 .. MaxPush
    BY <2>2, MaxPushAssumption DEF IInv, TypeOK, PusherInv
  <2>4. <<p, pushed[p]>> \in Event
    BY <2>3 DEF Event
  <2>5. CASE Throw(p)
    BY <1>3, <2>1, <2>5 DEF Throw
  <2>6. CASE TryPush(p, <<p, pushed[p]>>)
    BY <2>1, <2>4, <2>6, TryPushConserves
  <2> QED BY <1>5, <2>5, <2>6 DEF ResumePush
<1>6. CASE CallNext
  <2>1. CASE TakeItem
    <3>1. /\ reply = <<>> /\ items # <<>> /\ reply' = <<Head(items)>> /\ items' = Tail(items)
          /\ UNCHANGED <<accepted, evicted, delivered>>
      BY <1>6, <2>1 DEF IInv, ReaderInv, CallNext, TakeItem
    <3>2. Head(items) \in Event
      BY <1>1, <3>1, HeadTailProperties
    <3>3. (evicted \o delivered) \o <<Head(items)>> = Append(evicted \o delivered, Head(items))
      BY <1>2, <3>2, AppendIsConcat
    <3>4. Append(evicted \o delivered, Head(items)) \o Tail(items) = (evicted \o delivered) \o items
      BY <1>1, <1>2, <3>1, MoveHead
    <3>5. accepted = (evicted \o delivered) \o items
      BY <1>1, <1>2, <3>1, ConcatEmptySeq
    <3> QED BY <3>1, <3>3, <3>4, <3>5 DEF Conservation
  <2>2. CASE TakeEnd
    BY <1>3, <1>6, <2>2 DEF CallNext, TakeEnd
  <2>3. CASE ParkReader
    BY <1>3, <1>6, <2>3 DEF CallNext, ParkReader
  <2> QED BY <1>6, <2>1, <2>2, <2>3 DEF CallNext
<1>7. CASE DeliverReply
  <2>1. CASE reply # <<>>
    <3>1. /\ delivered' = delivered \o reply /\ reply' = <<>>
          /\ UNCHANGED <<accepted, evicted, items>>
      BY <1>7, <2>1 DEF IInv, ReaderInv, DeliverReply
    <3>2. evicted \o (delivered \o reply) = (evicted \o delivered) \o reply
      BY <1>1, ConcatAssociative
    <3>3. (evicted \o (delivered \o reply)) \o <<>> = evicted \o (delivered \o reply)
      BY <1>2, <3>2, ConcatEmptySeq
    <3> QED BY <1>1, <3>1, <3>2, <3>3 DEF Conservation
  <2>2. CASE reply = <<>>
    BY <1>3, <1>7, <2>2 DEF DeliverReply
  <2> QED BY <2>1, <2>2
<1>8. CASE StartIterator \/ LeaveLoop \/ Close
  BY <1>3, <1>8 DEF StartIterator, LeaveLoop, Close
<1>9. CASE UNCHANGED vars
  BY <1>3, <1>9 DEF vars
<1> QED BY <1>4, <1>5, <1>6, <1>7, <1>8, <1>9 DEF Next

(* Every accepted event is evicted, delivered, on its way or waiting, once *)
(* and in order, through any interleaving of pushes, wakes, reads and      *)
(* close().                                                                *)
THEOREM NothingLost == Spec => []Conservation
<1>1. Init => Conservation
  <2> SUFFICES ASSUME Init PROVE Conservation
    OBVIOUS
  <2>1. <<>> \in Seq(Event)
    OBVIOUS
  <2>2. (<<>>) \o (<<>>) = <<>>
    BY <2>1, ConcatEmptySeq
  <2> QED BY <2>2 DEF Init, Conservation
<1>2. IInv /\ Conservation /\ [Next]_vars => Conservation'
  BY StepConserves
<1> QED BY <1>1, <1>2, Invariance, PTL DEF Spec

-----------------------------------------------------------------------------
(* The refinement.  In IInv, the channel's content is reply \o items.      *)

(* A reader that is about to see the end has seen everything else.         *)
EndInv == endDue => closed /\ items = <<>>

(* Once the reader has been told the end, nothing is left to read.         *)
LEMMA StepEndInv == IInv /\ EndInv /\ [Next]_vars => EndInv'
<1> SUFFICES ASSUME IInv, EndInv, [Next]_vars PROVE EndInv'
  OBVIOUS
<1>1. CASE \E p \in Producers : Push(p) \/ ResumePush(p)
  <2>1. /\ endDue' = endDue /\ closed' = closed
        /\ closed => items' = items
    BY <1>1 DEF Push, ResumePush, Throw
  <2> QED BY <2>1 DEF EndInv
<1>2. CASE CallNext
  BY <1>2 DEF EndInv, IInv, ReaderInv, CallNext, TakeItem, TakeEnd, ParkReader
<1>3. CASE Close
  BY <1>3 DEF EndInv, IInv, ReaderInv, Close
<1>4. CASE DeliverReply
  BY <1>4 DEF EndInv, DeliverReply
<1>5. CASE StartIterator \/ LeaveLoop \/ UNCHANGED vars
  BY <1>5 DEF EndInv, StartIterator, LeaveLoop, vars
<1> QED BY <1>1, <1>2, <1>3, <1>4, <1>5 DEF Next

(* A push sends, sends in the oldest event's place, or changes nothing a   *)
(* reader could see.                                                       *)
LEMMA TryPushSends ==
    ASSUME IInv, NEW p \in Producers, NEW e \in Event, TryPush(p, e), ~closed,
           UNCHANGED <<closed, iteratorStarted, reader, delivered>>
    PROVE  \/ Channel!Send(e)
           \/ Channel!SendDroppingOldest(e)
           \/ UNCHANGED Channel!chanVars
<1>1. /\ items \in Seq(Event) /\ reply \in Seq(Event)
      /\ Len(items) \in Nat /\ Len(reply) \in Nat
      /\ Len(items) <= Capacity /\ Len(reply) <= 1 /\ Capacity \in Nat \ {0}
      /\ taker => items = <<>> /\ reply = <<>>
      /\ ~iteratorStarted => reply = <<>>
  BY CapacityAssumption, LenProperties DEF IInv, TypeOK, CapacityRespected, ReaderInv
<1>2. /\ closed' = closed /\ iteratorStarted' = iteratorStarted /\ delivered' = delivered
      /\ (reader = "ended")' = (reader = "ended")
  OBVIOUS
<1>3. CASE Park(p)
  <2>1. (reply \o items)' = reply \o items
    BY <1>3 DEF Park
  <2> QED BY <1>2, <2>1 DEF Channel!chanVars
<1>4. CASE EvictOldest(p, e)
  <2>1. /\ ~iteratorStarted /\ reply = <<>> /\ reply' = <<>> /\ Len(items) = Capacity
        /\ items' = Append(Tail(items), e)
    BY <1>1, <1>4 DEF EvictOldest, Full
  <2>2. items # <<>>
    BY <1>1, <2>1, EmptySeq
  <2>3. Append(Tail(items), e) \in Seq(Event)
    BY <1>1, <2>2, HeadTailProperties, AppendProperties
  <2>4. reply \o items = items /\ (reply \o items)' = Append(Tail(items), e)
    BY <1>1, <2>1, <2>3, ConcatEmptySeq
  <2> QED BY <1>2, <2>1, <2>4 DEF Channel!SendDroppingOldest
<1>5. CASE HandOver(p, e)
  <2>1. items = <<>> /\ reply = <<>> /\ reply' = <<e>> /\ items' = <<>>
    BY <1>1, <1>5 DEF HandOver
  <2>2. <<e>> \in Seq(Event) /\ <<>> \in Seq(Event) /\ Append(<<>>, e) = <<e>> /\ Len(<<>>) = 0
    OBVIOUS
  <2>3. reply \o items = <<>> /\ (reply \o items)' = <<e>>
    BY <2>1, <2>2, ConcatEmptySeq
  <2>4. Len(reply \o items) <= Capacity
    BY <1>1, <2>2, <2>3
  <2> QED BY <1>2, <2>2, <2>3, <2>4 DEF Channel!Send
<1>6. CASE Enqueue(p, e)
  <2>1. reply' = reply /\ items' = Append(items, e) /\ Len(items) < Capacity
    BY <1>1, <1>6 DEF Enqueue, Full
  <2>2. (reply \o items)' = Append(reply \o items, e)
    BY <1>1, <2>1, ConcatAppend
  <2>3. Len(reply \o items) = Len(reply) + Len(items)
    BY <1>1, ConcatProperties
  <2>4. Len(reply \o items) <= Capacity
    BY <1>1, <2>1, <2>3
  <2> QED BY <1>2, <2>2, <2>4 DEF Channel!Send
<1> QED BY <1>3, <1>4, <1>5, <1>6 DEF TryPush

(* next() moves an event into the reader's answer; the channel keeps it.   *)
LEMMA CallNextIsSilent == ASSUME IInv, CallNext PROVE UNCHANGED Channel!chanVars
<1>1. /\ items \in Seq(Event) /\ reply \in Seq(Event) /\ reply = <<>>
      /\ closed' = closed /\ iteratorStarted' = iteratorStarted /\ delivered' = delivered
      /\ (reader = "ended")' = (reader = "ended")
  BY DEF IInv, TypeOK, ReaderInv, CallNext
<1>2. (reply \o items)' = reply \o items
  <2>1. CASE TakeItem
    <3>1. items # <<>> /\ reply' = <<Head(items)>> /\ items' = Tail(items)
      BY <2>1 DEF TakeItem
    <3>2. Append(<<>>, Head(items)) \o Tail(items) = <<>> \o items
      BY <1>1, <3>1, MoveHead
    <3>3. Append(<<>>, Head(items)) = <<Head(items)>>
      OBVIOUS
    <3> QED BY <1>1, <3>1, <3>2, <3>3
  <2>2. CASE TakeEnd \/ ParkReader
    BY <2>2 DEF TakeEnd, ParkReader
  <2> QED BY <2>1, <2>2 DEF CallNext
<1> QED BY <1>1, <1>2 DEF Channel!chanVars

(* The reader's await continues with the oldest event, or with the end.    *)
LEMMA DeliverReplyReceives ==
    ASSUME IInv, EndInv, DeliverReply
    PROVE  Channel!Receive \/ Channel!SeeEnd
<1>1. /\ items \in Seq(Event) /\ reply \in Seq(Event) /\ Len(reply) <= 1
      /\ delivered \in Seq(Event)
      /\ reply' = <<>> /\ items' = items /\ closed' = closed
      /\ iteratorStarted' = iteratorStarted
  BY DEF IInv, TypeOK, DeliverReply
<1>2. CASE reply # <<>>
  <2>1. /\ delivered' = delivered \o reply /\ reader = "awaiting" /\ reader' = "running"
        /\ iteratorStarted = TRUE
    BY <1>2 DEF IInv, TypeOK, ReaderInv, DeliverReply
  <2>2. Len(reply) = 1 /\ reply[1] \in Event
    <3> DEFINE n == Len(reply)
    <3>1. n \in Nat \ {0} /\ n <= 1
      BY <1>1, <1>2, EmptySeq
    <3>2. n = 1 /\ 1 \in 1 .. n
      <4> HIDE DEF n
      <4> QED BY <3>1
    <3> QED BY <1>1, <3>2, ElementOfSeq
  <2> DEFINE e == reply[1]
  <2>3. reply = <<e>>
    <3>1. <<e>> \in Seq(Event) /\ Len(<<e>>) = 1 /\ <<e>>[1] = e
      BY <2>2
    <3> HIDE DEF e
    <3>2. \A i \in 1 .. Len(reply) : reply[i] = <<e>>[i]
      BY <2>2, <3>1 DEF e
    <3> QED BY <1>1, <2>2, <3>1, <3>2, SeqEqual
  <2>4. delivered' = Append(delivered, e)
    BY <1>1, <2>1, <2>2, <2>3, AppendIsConcat
  <2>5. /\ reply \o items \in Seq(Event) /\ Len(reply \o items) = 1 + Len(items)
        /\ \A i \in 1 .. 1 + Len(items) :
              (reply \o items)[i] = IF i <= 1 THEN reply[i] ELSE items[i - 1]
    <3> HIDE DEF e
    <3>1. /\ reply \o items \in Seq(Event) /\ Len(reply \o items) = Len(reply) + Len(items)
          /\ \A i \in 1 .. Len(reply) + Len(items) :
                (reply \o items)[i] = IF i <= Len(reply) THEN reply[i] ELSE items[i - Len(reply)]
      BY <1>1, ConcatProperties
    <3>2. Len(reply) = 1
      BY <2>2
    <3> QED BY <3>1, <3>2
  <2>6. Len(items) \in Nat
    BY <1>1, LenProperties
  <2> DEFINE c == reply \o items
  <2>7. c \in Seq(Event) /\ Len(c) = 1 + Len(items) /\ c # <<>> /\ c[1] = e
    <3>1. c \in Seq(Event) /\ Len(c) = 1 + Len(items) /\ c[1] = e
      BY <2>5, <2>6
    <3> HIDE DEF c
    <3> QED BY <2>6, <3>1
  <2>8. Head(c) = e /\ Tail(c) = items
    <3>1. \A i \in 1 .. Len(items) : c[i + 1] = items[i]
      BY <2>5, <2>6
    <3> HIDE DEF c, e
    <3>2. /\ Head(c) = c[1] /\ Tail(c) \in Seq(Event) /\ Len(Tail(c)) = Len(items)
          /\ \A i \in 1 .. Len(items) : Tail(c)[i] = items[i]
      BY <2>6, <2>7, <3>1, HeadTailProperties
    <3>3. Tail(c) = items
      BY <1>1, <3>2, SeqEqual
    <3> QED BY <2>7, <3>2, <3>3
  <2>9. (reply \o items)' = items
    BY <1>1, ConcatEmptySeq
  <2>10. delivered' = Append(delivered, Head(c)) /\ (reply \o items)' = Tail(c)
    BY <2>4, <2>8, <2>9
  <2> QED BY <1>1, <2>1, <2>7, <2>10 DEF Channel!Receive
<1>3. CASE reply = <<>>
  <2>1. endDue /\ reader' = "ended" /\ delivered' = delivered /\ closed /\ items = <<>>
    BY <1>3 DEF EndInv, DeliverReply
  <2>2. reader = "awaiting" /\ iteratorStarted
    BY <2>1 DEF IInv, ReaderInv
  <2>3. <<>> \in Seq(Event) /\ (<<>>) \o (<<>>) = <<>>
    BY ConcatEmptySeq, EmptySeq
  <2>4. reply \o items = <<>> /\ (reply \o items)' = <<>>
    BY <1>1, <1>3, <2>1, <2>3
  <2> QED BY <1>1, <2>1, <2>2, <2>4 DEF Channel!SeeEnd
<1> QED BY <1>2, <1>3

(* Every step of the queue is one of the channel, or a stutter.            *)
LEMMA StepOfTheChannel == IInv /\ EndInv /\ [Next]_vars => [Channel!Next]_Channel!chanVars
<1> SUFFICES ASSUME IInv, EndInv, [Next]_vars PROVE [Channel!Next]_Channel!chanVars
  OBVIOUS
<1>1. ASSUME NEW p \in Producers, Push(p) \/ ResumePush(p)
      PROVE  [Channel!Next]_Channel!chanVars
  <2>0. UNCHANGED <<closed, iteratorStarted, reader, delivered>>
    BY <1>1 DEF Push, ResumePush
  <2>1. CASE Throw(p)
    BY <2>0, <2>1 DEF Throw, Channel!chanVars
  <2>2. ASSUME NEW e \in Event, TryPush(p, e), ~closed PROVE [Channel!Next]_Channel!chanVars
    BY <2>0, <2>2, TryPushSends DEF Channel!Next
  <2>3. CASE Push(p)
    <3>1. pushed[p] \in Nat /\ pushed[p] < MaxPush
      BY <2>3, MaxPushAssumption DEF IInv, TypeOK, Push
    <3>2. <<p, pushed[p] + 1>> \in Event
      BY <3>1, MaxPushAssumption DEF Event
    <3> QED BY <2>1, <2>2, <2>3, <3>2 DEF Push
  <2>4. CASE ResumePush(p)
    <3>1. wakes \in Seq(Producers) /\ wakes # <<>> /\ p = Head(wakes)
      BY <2>4 DEF IInv, TypeOK, ResumePush
    <3>2. 1 \in 1 .. Len(wakes) /\ p = wakes[1]
      BY <3>1, EmptySeq
    <3>3. pushed[p] \in 1 .. MaxPush
      BY <3>2, MaxPushAssumption DEF IInv, TypeOK, PusherInv
    <3>4. <<p, pushed[p]>> \in Event
      BY <3>3 DEF Event
    <3> QED BY <2>1, <2>2, <2>4, <3>4 DEF ResumePush
  <2> QED BY <1>1, <2>3, <2>4
<1>2. CASE StartIterator
  <2>1. /\ ~iteratorStarted /\ iteratorStarted' = TRUE /\ reader = "none" /\ reader' = "running"
        /\ UNCHANGED <<reply, items, delivered, closed>>
    BY <1>2 DEF IInv, ReaderInv, StartIterator
  <2>2. (reply \o items)' = reply \o items /\ (reader = "ended")' = (reader = "ended")
    BY <2>1
  <2>3. Channel!Attach
    BY <2>1, <2>2 DEF Channel!Attach
  <2> QED BY <2>3 DEF Channel!Next
<1>3. CASE CallNext
  BY <1>3, CallNextIsSilent
<1>4. CASE DeliverReply
  BY <1>4, DeliverReplyReceives DEF Channel!Next
<1>5. CASE LeaveLoop
  BY <1>5 DEF LeaveLoop, Channel!chanVars
<1>6. CASE Close
  <2>1. Channel!Close
    BY <1>6 DEF Close, Channel!Close
  <2> QED BY <2>1 DEF Channel!Next
<1>7. CASE UNCHANGED vars
  BY <1>7 DEF vars, Channel!chanVars
<1> QED BY <1>1, <1>2, <1>3, <1>4, <1>5, <1>6, <1>7 DEF Next

(* The queue, with its parked pushes, wakes and answers on their way, is a *)
(* FIFO channel that drops only while nobody has ever read it, and ends    *)
(* after its last event.                                                   *)
THEOREM QueueIsAChannel == Spec => ImplementsChannel
<1>1. Init => Channel!Init /\ EndInv
  <2> SUFFICES ASSUME Init PROVE Channel!Init /\ EndInv
    OBVIOUS
  <2>1. <<>> \in Seq(Event) /\ (<<>>) \o (<<>>) = <<>>
    BY ConcatEmptySeq, EmptySeq
  <2> QED BY <2>1 DEF Init, EndInv, Channel!Init
<1>2. IInv /\ EndInv /\ [Next]_vars => EndInv'
  BY StepEndInv
<1>3. IInv /\ EndInv /\ [Next]_vars => [Channel!Next]_Channel!chanVars
  BY StepOfTheChannel
<1> QED BY <1>1, <1>2, <1>3, Invariance, PTL DEF Spec, ImplementsChannel, Channel!Spec
=============================================================================
