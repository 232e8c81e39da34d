------------------------ MODULE LoopExecutionProofs ------------------------
(***************************************************************************)
(* What holds of executeLoop for every set of actions, hash, window,       *)
(* threshold and options.  The invariant adds to the properties what the   *)
(* detector and the token counter remember: the counts are those of the    *)
(* window, the window is the end of the history, and a loop that goes on   *)
(* has no count at the threshold.                                          *)
(***************************************************************************)
EXTENDS LoopExecution, FiniteSetTheorems, SequenceTheorems, FunctionTheorems, TLAPS

LEMMA WindowPositive == Window \in Nat \ {0}
  BY Sizes DEF Window

(* The positions of f in s: a finite set, so their number is a number.     *)
LEMMA PositionsFinite ==
  ASSUME NEW X, NEW s \in Seq(X), NEW f
  PROVE  /\ IsFiniteSet({i \in DOMAIN s : s[i] = f})
         /\ Occurrences(s, f) \in Nat
  <1>1. DOMAIN s = 1..Len(s) /\ Len(s) \in Nat
    BY LenProperties
  <1>2. IsFiniteSet(DOMAIN s)
    BY <1>1, FS_Interval
  <1>3. IsFiniteSet({i \in DOMAIN s : s[i] = f})
    BY <1>2, FS_Subset
  <1> QED
    BY <1>3, FS_CardinalityType DEF Occurrences

(* One more element is one more occurrence of it.                          *)
LEMMA OccurrencesAppend ==
  ASSUME NEW X, NEW s \in Seq(X), NEW g \in X, NEW f
  PROVE  Occurrences(Append(s, g), f) =
             IF f = g THEN Occurrences(s, f) + 1 ELSE Occurrences(s, f)
  <1> DEFINE n == Len(s)
             P == {i \in DOMAIN s : s[i] = f}
             Q == {i \in DOMAIN Append(s, g) : Append(s, g)[i] = f}
  <1>1. /\ n \in Nat /\ DOMAIN s = 1..n /\ DOMAIN Append(s, g) = 1..(n + 1)
        /\ Append(s, g)[n + 1] = g
        /\ \A i \in 1..n : Append(s, g)[i] = s[i]
    BY LenProperties, AppendProperties
  <1>2. IsFiniteSet(P) /\ Cardinality(P) \in Nat
    BY PositionsFinite DEF Occurrences
  <1>3. n + 1 \notin P
    BY <1>1
  <1>4. CASE f = g
    <2>1. Q = P \cup {n + 1}
      BY <1>1, <1>4
    <2> QED
      BY <1>2, <1>3, <1>4, <2>1, FS_AddElement DEF Occurrences
  <1>5. CASE f # g
    <2>1. Q = P
      BY <1>1, <1>5
    <2> QED
      BY <1>5, <2>1 DEF Occurrences
  <1> QED
    BY <1>4, <1>5

(* Dropping the first element drops one occurrence of it.                  *)
LEMMA OccurrencesTail ==
  ASSUME NEW X, NEW s \in Seq(X), s # <<>>, NEW f
  PROVE  Occurrences(Tail(s), f) =
             IF f = Head(s) THEN Occurrences(s, f) - 1 ELSE Occurrences(s, f)
  <1> DEFINE n == Len(s)
             P == {i \in DOMAIN s : s[i] = f}
             Q == {i \in DOMAIN Tail(s) : Tail(s)[i] = f}
             R == P \ {1}
             up == [i \in Q |-> i + 1]
  <1>1. /\ n \in Nat \ {0} /\ DOMAIN s = 1..n /\ DOMAIN Tail(s) = 1..(n - 1)
        /\ Head(s) = s[1]
        /\ \A i \in 1..(n - 1) : Tail(s)[i] = s[i + 1]
    <2>1. n \in Nat /\ DOMAIN s = 1..n /\ n # 0
      BY LenProperties, EmptySeq
    <2>2. /\ Tail(s) \in Seq(X) /\ Len(Tail(s)) = n - 1 /\ Head(s) = s[1]
          /\ \A i \in 1..Len(Tail(s)) : Tail(s)[i] = s[i + 1]
      BY HeadTailProperties
    <2>3. DOMAIN Tail(s) = 1..Len(Tail(s))
      BY <2>2, LenProperties
    <2> QED
      BY <2>1, <2>2, <2>3
  <1>2. IsFiniteSet(P) /\ Cardinality(P) \in Nat
    BY PositionsFinite DEF Occurrences
  <1>3. IsFiniteSet(Q)
    BY HeadTailProperties, PositionsFinite
  <1>4. up \in Bijection(Q, R)
    <2>1. \A i \in Q : i \in Int /\ i + 1 \in R
      BY <1>1
    <2>2. up \in [Q -> R]
      BY <2>1
    <2>3. \A i, j \in Q : up[i] = up[j] => i = j
      BY <2>1
    <2>4. \A k \in R : \E i \in Q : up[i] = k
      <3> TAKE k \in R
      <3>1. k \in 2..n /\ s[k] = f
        BY <1>1
      <3>2. k - 1 \in Q
        BY <1>1, <3>1
      <3> QED
        BY <3>1, <3>2
    <2> QED
      BY <2>2, <2>3, <2>4, Fun_IsBij
  <1>5. Cardinality(Q) = Cardinality(R)
    BY <1>3, <1>4, FS_Bijection DEF ExistsBijection
  <1>6. Cardinality(R) = IF 1 \in P THEN Cardinality(P) - 1 ELSE Cardinality(P)
    BY <1>2, FS_RemoveElement
  <1>7. 1 \in P <=> f = Head(s)
    BY <1>1
  <1> QED
    BY <1>5, <1>6, <1>7 DEF Occurrences

(* The last n elements of a history, after one more.                       *)
LEMMA LastOfAppend ==
  ASSUME NEW X, NEW p \in Seq(X), NEW f \in X, NEW n \in Nat \ {0}
  PROVE  LET w == Append(LastOf(p, n), f)
         IN  /\ LastOf(p, n) \in Seq(X) /\ Len(LastOf(p, n)) <= n
             /\ LastOf(Append(p, f), n) = IF Len(w) > n THEN Tail(w) ELSE w
  <1> DEFINE l == Len(p)
             q == Append(p, f)
             r == SubSeq(p, l - n + 1, l)
             t == SubSeq(q, l + 1 - n + 1, l + 1)
  <1>1. l \in Nat /\ n \in Nat /\ DOMAIN p = 1..l /\ \A i \in 1..l : p[i] \in X
    BY LenProperties, ElementOfSeq
  <1>2. /\ q \in Seq(X) /\ Len(q) = l + 1 /\ q[l + 1] = f
        /\ \A i \in 1..l : q[i] = p[i]
    BY <1>1, AppendProperties
  <1>3. CASE l < n
    <2>1. LastOf(p, n) = p
      BY <1>1, <1>3 DEF LastOf
    <2>2. LastOf(q, n) = q
      BY <1>1, <1>2, <1>3 DEF LastOf
    <2>3. ~(Len(q) > n) /\ Len(p) <= n
      BY <1>1, <1>2, <1>3
    <2> QED
      BY <2>1, <2>2, <2>3, Zenon
  <1>4. CASE l >= n
    <2>1. t \in Seq(X) /\ Len(t) = n /\ \A i \in 1..n : t[i] = q[l + 1 - n + i]
      BY <1>1, <1>2, <1>4, SubSeqProperties
    <2>2. LastOf(q, n) = t
      BY <1>1, <1>2, <1>4 DEF LastOf
    <2>3. /\ LastOf(p, n) \in Seq(X) /\ Len(LastOf(p, n)) = n
          /\ \A i \in 1..n : LastOf(p, n)[i] = p[l - n + i]
      <3>1. CASE l > n
        <4>1. r \in Seq(X) /\ Len(r) = n /\ \A i \in 1..n : r[i] = p[l - n + i]
          BY <1>1, <3>1, SubSeqProperties
        <4> QED
          BY <1>1, <3>1, <4>1 DEF LastOf
      <3>2. CASE l = n
        BY <1>1, <3>2 DEF LastOf
      <3>3. l > n \/ l = n
        <4> HIDE DEF l, q, r, t
        <4> QED BY <1>1, <1>4
      <3> QED
        BY <3>1, <3>2, <3>3, Zenon
    <2> DEFINE v == LastOf(p, n)
               w == Append(v, f)
    <2> HIDE DEF v
    <2>4. /\ w \in Seq(X) /\ Len(w) = n + 1 /\ w[n + 1] = f
          /\ \A i \in 1..n : w[i] = v[i]
      BY <2>3, AppendProperties DEF v
    <2>5. w # <<>>
      BY <2>4, EmptySeq
    <2> HIDE DEF w, t
    <2>6. Tail(w) \in Seq(X) /\ Len(Tail(w)) = n /\ \A i \in 1..n : Tail(w)[i] = w[i + 1]
      BY <2>4, <2>5, HeadTailProperties
    <2>7. \A i \in 1..n : Tail(w)[i] = t[i]
      <3> TAKE i \in 1..n
      <3>1. Tail(w)[i] = w[i + 1] /\ t[i] = q[l + 1 - n + i]
        BY <2>1, <2>6
      <3>2. CASE i = n
        BY <1>1, <1>2, <2>4, <3>1, <3>2
      <3>3. CASE i < n
        <4>1. i + 1 \in 1..n /\ l - n + (i + 1) \in 1..l
          BY <1>1, <1>4, <3>3
        <4>2. w[i + 1] = v[i + 1] /\ v[i + 1] = p[l - n + (i + 1)]
          BY <2>3, <2>4, <4>1 DEF v
        <4>3. q[l - n + (i + 1)] = p[l - n + (i + 1)]
          BY <1>2, <4>1
        <4>4. l - n + (i + 1) = l + 1 - n + i
          BY <1>1
        <4> QED
          BY <3>1, <4>2, <4>3, <4>4
      <3>4. i = n \/ i < n
        OBVIOUS
      <3> QED
        BY <3>2, <3>3, <3>4, Zenon
    <2>8. Tail(w) = t
      BY <2>1, <2>6, <2>7, SeqEqual
    <2> QED
      BY <2>2, <2>3, <2>4, <2>8 DEF v, w
  <1> QED
    BY <1>1, <1>3, <1>4
-----------------------------------------------------------------------------
(* The counts are those of the window.                                     *)
CountsAgree(d) == \A f \in Fingerprints : d.counts[f] = Occurrences(d.window, f)

(* One fingerprint more: the counts stay those of the window, the window   *)
(* stays the end of the history, and no other count grows.                 *)
LEMMA ObserveKeeps ==
  ASSUME NEW d \in Detectors, NEW f \in Fingerprints, NEW p \in Seq(Fingerprints),
         CountsAgree(d), d.window = LastOf(p, Window)
  PROVE  /\ Observe(d, f) \in Detectors
         /\ CountsAgree(Observe(d, f))
         /\ Observe(d, f).window = LastOf(Append(p, f), Window)
         /\ \A g \in Fingerprints : g # f => Observe(d, f).counts[g] <= d.counts[g]
  <1> DEFINE w == Append(d.window, f)
             c == Counted(d.counts, f)
  <1>1. d.window \in Seq(Fingerprints) /\ d.counts \in [Fingerprints -> Nat]
    BY DEF Detectors
  <1>2. w \in Seq(Fingerprints) /\ w # <<>>
    BY <1>1, AppendProperties
  <1>3. /\ c \in [Fingerprints -> Nat] /\ c[f] = d.counts[f] + 1
        /\ \A g \in Fingerprints : g # f => c[g] = d.counts[g]
    BY <1>1 DEF Counted
  <1>4. \A g \in Fingerprints : c[g] = Occurrences(w, g)
    <2> TAKE g \in Fingerprints
    <2>1. Occurrences(w, g) = IF g = f THEN Occurrences(d.window, g) + 1
                                       ELSE Occurrences(d.window, g)
      BY <1>1, OccurrencesAppend
    <2>2. d.counts[g] = Occurrences(d.window, g)
      BY DEF CountsAgree
    <2> QED
      BY <1>3, <2>1, <2>2
  <1>5. LastOf(Append(p, f), Window) = IF Len(w) > Window THEN Tail(w) ELSE w
    BY LastOfAppend, WindowPositive
  <1>6. CASE ~(Len(w) > Window)
    <2>1. Observe(d, f) = [window |-> w, counts |-> c]
      BY <1>6 DEF Observe
    <2>2. Observe(d, f).window = w /\ Observe(d, f).counts = c
      BY <2>1
    <2>3. Observe(d, f) \in Detectors
      BY <1>2, <1>3, <2>1 DEF Detectors
    <2>4. CountsAgree(Observe(d, f))
      BY <1>4, <2>2 DEF CountsAgree
    <2>5. \A g \in Fingerprints : g # f => c[g] <= d.counts[g]
      BY <1>1, <1>3
    <2> QED
      BY <1>5, <1>6, <2>2, <2>3, <2>4, <2>5
  <1>7. CASE Len(w) > Window
    <2> DEFINE x == Expired(c, Head(w))
    <2>1. Observe(d, f) = [window |-> Tail(w), counts |-> x]
      BY <1>7 DEF Observe
    <2>2. Observe(d, f).window = Tail(w) /\ Observe(d, f).counts = x
      BY <2>1
    <2>3. Tail(w) \in Seq(Fingerprints) /\ Head(w) \in Fingerprints
      BY <1>2, HeadTailProperties
    <2>4. \A g \in Fingerprints :
              x[g] = IF g = Head(w) /\ c[g] # 0 THEN c[g] - 1 ELSE c[g]
      BY <1>3, <2>3 DEF Expired
    <2>5. x \in [Fingerprints -> Nat]
      BY <1>3, <2>3 DEF Expired
    <2>6. \A g \in Fingerprints : x[g] = Occurrences(Tail(w), g)
      <3> TAKE g \in Fingerprints
      <3>1. Occurrences(Tail(w), g) =
                IF g = Head(w) THEN Occurrences(w, g) - 1 ELSE Occurrences(w, g)
        BY <1>2, OccurrencesTail
      <3>2. Occurrences(Tail(w), g) \in Nat
        BY <2>3, PositionsFinite
      <3>3. c[g] = Occurrences(w, g) /\ c[g] \in Nat
        BY <1>3, <1>4
      <3> QED
        BY <2>4, <3>1, <3>2, <3>3
    <2>7. Observe(d, f) \in Detectors
      BY <2>1, <2>3, <2>5 DEF Detectors
    <2>8. CountsAgree(Observe(d, f))
      BY <2>2, <2>6 DEF CountsAgree
    <2>9. \A g \in Fingerprints : g # f => x[g] <= d.counts[g]
      BY <1>1, <1>3, <2>4
    <2> QED
      BY <1>5, <1>7, <2>2, <2>7, <2>8, <2>9
  <1> QED
    BY <1>6, <1>7

-----------------------------------------------------------------------------
(* The detector's memory is the end of the history.                        *)
DetectorRemembers ==
    /\ CountsAgree(detector)
    /\ detector.window = LastOf(proposed, Window)

(* A loop that goes on has not seen a repeat.                              *)
NoRepeatSoFar ==
    (options.fingerprint /\ pc # "done") =>
        \A f \in Fingerprints : detector.counts[f] < RepeatThreshold

(* Where the loop stands: what was requested, and how old the evaluation is. *)
Position ==
    /\ pc = "done" <=> outcome # "running"
    /\ pc \in {"evaluate", "decide", "execute"} => requested = None
    /\ pc = "decide" => evaluatedAt = iterations

(* The ceiling and the budget, in the terms of the code: no step is begun  *)
(* at the ceiling, and no cycle with the counter over the budget.          *)
GuardsKept ==
    /\ options.maxIterations # None => iterations <= options.maxIterations
    /\ (options.maxIterations # None /\ pc = "execute") => iterations < options.maxIterations
    /\ pc \in {"evaluate", "decide", "execute"} => ~Exhausted

LoopInv ==
    /\ TypeOK
    /\ SummaryIsFresh
    /\ GoalBeforeGuards
    /\ DetectorRemembers
    /\ NoRepeatSoFar
    /\ Position
    /\ GuardsKept

LEMMA NoneIsOutside ==
  /\ None \notin Nat /\ None \notin Stops /\ None \notin Actions
  /\ "running" \notin Stops /\ "failed" \notin Stops
  BY NoneIsNothing DEF Stops

(* A loop that has not begun.                                              *)
LEMMA InitLoopInv == Init => LoopInv
  <1> SUFFICES ASSUME Init PROVE LoopInv
    OBVIOUS
  <1>1. TypeOK
    <2>1. /\ options \in Options /\ pc = "evaluate" /\ clock = 0
          /\ evaluatedAt = 0 /\ iterations = 0 /\ outcome = "running"
          /\ requested = None
      BY DEF Init
    <2>2. evaluation \in Evaluations
      BY DEF Init, Evaluations
    <2>3. budget \in [known : Nat, unknown : BOOLEAN]
      BY DEF Init
    <2>4. detector \in Detectors
      BY DEF Init, Detectors
    <2>5. proposed \in Seq(Fingerprints) /\ spent \in Seq(Usages \cup {None})
      BY DEF Init
    <2> QED
      BY <2>1, <2>2, <2>3, <2>4, <2>5 DEF TypeOK
  <1>2. DetectorRemembers
    <2>1. detector.window = <<>> /\ proposed = <<>>
      BY DEF Init
    <2>2. \A f \in Fingerprints : detector.counts[f] = 0
      BY DEF Init
    <2>3. \A f : Occurrences(<<>>, f) = 0
      <3> TAKE f
      <3>1. {i \in DOMAIN <<>> : <<>>[i] = f} = {}
        OBVIOUS
      <3> QED
        BY <3>1, FS_EmptySet DEF Occurrences
    <2>4. LastOf(<<>>, Window) = <<>>
      BY WindowPositive DEF LastOf
    <2> QED
      BY <2>1, <2>2, <2>3, <2>4 DEF DetectorRemembers, CountsAgree
  <1>3. NoRepeatSoFar
    BY Sizes DEF Init, NoRepeatSoFar
  <1>4. GuardsKept
    <2>1. options \in [maxIterations : Limits, tokenBudget : Limits,
                       wallClockMs : Limits, fingerprint : BOOLEAN, context : BOOLEAN]
      BY OptionsTyped DEF Init
    <2>2. options.maxIterations \in Limits /\ options.tokenBudget \in Limits
      BY <2>1
    <2>3. iterations = 0 /\ budget.known = 0 /\ pc = "evaluate"
      BY DEF Init
    <2> QED
      BY <2>2, <2>3 DEF GuardsKept, Exhausted, Limits
  <1>5. SummaryIsFresh /\ GoalBeforeGuards /\ Position
    BY NoneIsOutside DEF Init, SummaryIsFresh, GoalBeforeGuards, Position
  <1> QED
    BY <1>1, <1>2, <1>3, <1>4, <1>5 DEF LoopInv

(* What asking the detector does, whatever is decided on its answer.       *)
LEMMA Asked ==
  ASSUME LoopInv, AskDetector
  PROVE  /\ detector' \in Detectors /\ proposed' \in Seq(Fingerprints)
         /\ DetectorRemembers'
         /\ (options.fingerprint /\ ~Repeated) =>
                \A f \in Fingerprints : detector'.counts[f] < RepeatThreshold
  <1> DEFINE f == FingerprintOf[evaluation.action]
  <1>1. evaluation.action \in Actions
    BY DEF LoopInv, TypeOK, AskDetector, Proposes, Evaluations
  <1>2. f \in Fingerprints
    BY <1>1, Hash
  <1>3. /\ detector \in Detectors /\ proposed \in Seq(Fingerprints)
        /\ CountsAgree(detector) /\ detector.window = LastOf(proposed, Window)
    BY DEF LoopInv, TypeOK, DetectorRemembers
  <1>4. CASE options.fingerprint
    <2>1. detector' = Observe(detector, f) /\ proposed' = Append(proposed, f)
      BY <1>4 DEF AskDetector, Observed
    <2>2. /\ detector' \in Detectors /\ CountsAgree(detector')
          /\ detector'.window = LastOf(proposed', Window)
          /\ \A g \in Fingerprints : g # f => detector'.counts[g] <= detector.counts[g]
      BY <1>2, <1>3, <2>1, ObserveKeeps
    <2>3. proposed' \in Seq(Fingerprints)
      BY <1>2, <1>3, <2>1, AppendProperties
    <2>4. ASSUME ~Repeated
          PROVE  \A g \in Fingerprints : detector'.counts[g] < RepeatThreshold
      <3>1. ~(detector'.counts[f] >= RepeatThreshold)
        BY <1>4, <2>1, <2>4 DEF Repeated, Repeats, Observed
      <3>2. \A g \in Fingerprints : detector.counts[g] < RepeatThreshold
        BY <1>4 DEF LoopInv, NoRepeatSoFar, AskDetector, Proposes
      <3>3. /\ detector.counts \in [Fingerprints -> Nat]
            /\ detector'.counts \in [Fingerprints -> Nat]
        BY <1>3, <2>2 DEF Detectors
      <3> TAKE g \in Fingerprints
      <3>4. detector.counts[g] \in Nat /\ detector'.counts[g] \in Nat
        BY <3>3
      <3>5. CASE g = f
        BY <3>1, <3>4, <3>5, Sizes
      <3>6. CASE g # f
        BY <2>2, <3>2, <3>4, <3>6, Sizes
      <3> QED
        BY <3>5, <3>6
    <2> QED
      BY <1>4, <2>2, <2>3, <2>4 DEF DetectorRemembers, CountsAgree
  <1>5. CASE ~options.fingerprint
    <2>1. detector' = detector /\ proposed' = proposed
      BY <1>5 DEF AskDetector, Observed
    <2> QED
      BY <1>3, <1>5, <2>1 DEF DetectorRemembers, CountsAgree
  <1> QED
    BY <1>4, <1>5

(* The options: chosen once, each limit a number or none.                  *)
LEMMA OptionTypes ==
  ASSUME TypeOK
  PROVE  /\ options.maxIterations \in Nat \cup {None}
         /\ options.tokenBudget \in Nat \cup {None}
         /\ options.fingerprint \in BOOLEAN
  <1>1. options \in [maxIterations : Limits, tokenBudget : Limits,
                     wallClockMs : Limits, fingerprint : BOOLEAN, context : BOOLEAN]
    BY OptionsTyped DEF TypeOK
  <1> QED
    BY <1>1 DEF Limits

(* A loop that stops on an evaluation: no step is waiting to be reported.  *)
LEMMA StopKeeps ==
  ASSUME LoopInv, NEW r \in Stops, pc = "decide", Stop(r),
         detector' \in Detectors, proposed' \in Seq(Fingerprints), DetectorRemembers',
         r \in {"unfixable", "stuck", "timeout", "ceiling"} => ~evaluation.converged,
         r = "converged" => evaluation.converged,
         r # "cancelled"
  PROVE  LoopInv'
  <1>1. /\ pc' = "done" /\ outcome' = r /\ requested' = None
        /\ options' = options /\ evaluation' = evaluation /\ evaluatedAt' = evaluatedAt
        /\ iterations' = iterations /\ budget' = budget
        /\ clock' = clock /\ spent' = spent /\ requested' = requested
    BY DEF LoopInv, Position, Stop
  <1>2. TypeOK'
    BY <1>1 DEF LoopInv, TypeOK
  <1>3. SummaryIsFresh'
    BY <1>1 DEF LoopInv, Position, SummaryIsFresh
  <1>4. GoalBeforeGuards'
    BY <1>1, NoneIsOutside DEF GoalBeforeGuards
  <1>5. NoRepeatSoFar' /\ GuardsKept'
    BY <1>1 DEF LoopInv, NoRepeatSoFar, GuardsKept
  <1>6. Position'
    BY <1>1, NoneIsOutside DEF Position
  <1> QED
    BY <1>2, <1>3, <1>4, <1>5, <1>6 DEF LoopInv

LEMMA DecideKeeps == LoopInv /\ Decide => LoopInv'
  <1> SUFFICES ASSUME LoopInv, Decide PROVE LoopInv'
    OBVIOUS
  <1>0. /\ detector \in Detectors /\ proposed \in Seq(Fingerprints)
        /\ UNCHANGED <<detector, proposed>> => DetectorRemembers'
    BY DEF LoopInv, TypeOK, DetectorRemembers, CountsAgree
  <1>1. CASE StopConverged
    BY <1>0, <1>1, StopKeeps DEF StopConverged, Stops
  <1>2. CASE StopUnfixable
    BY <1>0, <1>2, StopKeeps DEF StopUnfixable, Stops
  <1>3. CASE StopStalled
    BY <1>0, <1>3, StopKeeps DEF StopStalled, Proposes, Stops
  <1>4. CASE StopRepeated
    BY <1>4, Asked, StopKeeps DEF StopRepeated, AskDetector, Proposes, Stops
  <1>5. CASE StopCeiling
    BY <1>5, Asked, StopKeeps DEF StopCeiling, AskDetector, Proposes, Stops
  <1>6. CASE StopTimeout
    BY <1>6, Asked, StopKeeps DEF StopTimeout, AskDetector, Proposes, Stops
  <1>7. CASE StartStep
    <2>1. /\ pc = "decide" /\ pc' = "execute" /\ ~Repeated /\ ~AtCeiling
          /\ UNCHANGED <<options, clock, evaluation, evaluatedAt, iterations, budget,
                         requested, outcome, spent>>
      BY <1>7 DEF StartStep, AskDetector, Proposes
    <2>2. /\ detector' \in Detectors /\ proposed' \in Seq(Fingerprints) /\ DetectorRemembers'
          /\ options.fingerprint =>
                 \A f \in Fingerprints : detector'.counts[f] < RepeatThreshold
      BY <1>7, <2>1, Asked DEF StartStep
    <2>3. TypeOK'
      BY <2>1, <2>2 DEF LoopInv, TypeOK
    <2>4. SummaryIsFresh' /\ GoalBeforeGuards' /\ Position'
      BY <2>1 DEF LoopInv, SummaryIsFresh, GoalBeforeGuards, Position
    <2>5. NoRepeatSoFar'
      BY <2>1, <2>2 DEF NoRepeatSoFar
    <2>6. GuardsKept'
      <3>1. options.maxIterations # None => iterations < options.maxIterations
        BY <2>1, OptionTypes DEF LoopInv, TypeOK, AtCeiling
      <3>2. Exhausted' <=> Exhausted
        BY <2>1 DEF Exhausted
      <3> QED
        BY <2>1, <3>1, <3>2 DEF LoopInv, GuardsKept
    <2> QED
      BY <2>2, <2>3, <2>4, <2>5, <2>6 DEF LoopInv
  <1> QED
    BY <1>1, <1>2, <1>3, <1>4, <1>5, <1>6, <1>7 DEF Decide

(* The histories and the detector are left alone by everything but a       *)
(* proposal.                                                               *)
LEMMA DetectorFrame ==
  ASSUME LoopInv, UNCHANGED <<options, detector, proposed>>, pc # "done"
  PROVE  DetectorRemembers' /\ NoRepeatSoFar'
  <1>1. DetectorRemembers'
    BY DEF LoopInv, DetectorRemembers, CountsAgree
  <1>2. NoRepeatSoFar'
    BY DEF LoopInv, NoRepeatSoFar
  <1> QED
    BY <1>1, <1>2

(* A rejected evaluation, step or offload ends the loop as it stands.      *)
LEMMA FailKeeps ==
  ASSUME LoopInv, pc # "done", pc' = "done", outcome' = "failed",
         UNCHANGED <<options, clock, evaluation, evaluatedAt, iterations, budget, detector,
                     requested, histories>>
  PROVE  LoopInv'
  <1>1. TypeOK'
    BY DEF LoopInv, TypeOK, histories
  <1>2. SummaryIsFresh' /\ GoalBeforeGuards'
    BY NoneIsOutside DEF SummaryIsFresh, GoalBeforeGuards, Stops
  <1>3. DetectorRemembers' /\ NoRepeatSoFar'
    BY DetectorFrame DEF histories
  <1>4. Position' /\ GuardsKept'
    BY DEF LoopInv, Position, GuardsKept
  <1> QED
    BY <1>1, <1>2, <1>3, <1>4 DEF LoopInv

LEMMA EvaluateKeeps == LoopInv /\ Evaluate => LoopInv'
  <1> SUFFICES ASSUME LoopInv, Evaluate PROVE LoopInv'
    OBVIOUS
  <1>1. CASE EvaluationFails
    BY <1>1, FailKeeps DEF EvaluationFails
  <1>2. ASSUME NEW e \in Evaluations, Evaluated(e) PROVE LoopInv'
    <2>1. /\ pc = "evaluate" /\ pc' = "decide" /\ evaluation' = e /\ evaluatedAt' = iterations
          /\ UNCHANGED <<options, clock, iterations, budget, detector, requested, outcome,
                         proposed, spent>>
      BY <1>2 DEF Evaluated, histories
    <2>2. TypeOK'
      BY <2>1 DEF LoopInv, TypeOK
    <2>3. outcome = "running" /\ requested = None /\ outcome' = "running"
      BY <2>1 DEF LoopInv, Position
    <2>4. SummaryIsFresh' /\ GoalBeforeGuards'
      BY <2>3, NoneIsOutside DEF SummaryIsFresh, GoalBeforeGuards
    <2>5. DetectorRemembers' /\ NoRepeatSoFar'
      BY <2>1, DetectorFrame
    <2>6. Position'
      BY <2>1, <2>3 DEF Position
    <2>7. GuardsKept'
      BY <2>1 DEF LoopInv, GuardsKept, Exhausted
    <2> QED
      BY <2>2, <2>4, <2>5, <2>6, <2>7 DEF LoopInv
  <1>3. ASSUME NEW e \in Evaluations, Refreshed(e) PROVE LoopInv'
    <2>1. /\ pc = "refresh" /\ pc' = "done" /\ evaluation' = e /\ evaluatedAt' = iterations
          /\ outcome' = IF requested # None THEN requested ELSE "budget-exhausted"
          /\ UNCHANGED <<options, clock, iterations, budget, detector, requested,
                         proposed, spent>>
      BY <1>3 DEF Refreshed, histories
    <2>2. requested \in Stops \cup {None} /\ outcome' \in Stops
      BY <2>1 DEF LoopInv, TypeOK, Stops
    <2>3. TypeOK'
      BY <2>1, <2>2 DEF LoopInv, TypeOK
    <2>4. SummaryIsFresh'
      BY <2>1 DEF SummaryIsFresh
    <2>5. GoalBeforeGuards'
      BY <2>1 DEF GoalBeforeGuards
    <2>6. DetectorRemembers' /\ NoRepeatSoFar'
      BY <2>1, DetectorFrame
    <2>7. Position'
      BY <2>1, <2>2, NoneIsOutside DEF Position
    <2>8. GuardsKept'
      BY <2>1 DEF LoopInv, GuardsKept
    <2> QED
      BY <2>3, <2>4, <2>5, <2>6, <2>7, <2>8 DEF LoopInv
  <1> QED
    BY <1>1, <1>2, <1>3 DEF Evaluate

LEMMA ExecuteKeeps == LoopInv /\ Execute => LoopInv'
  <1> SUFFICES ASSUME LoopInv, Execute PROVE LoopInv'
    OBVIOUS
  <1>1. CASE StepFails
    BY <1>1, FailKeeps DEF StepFails
  <1>2. ASSUME NEW u \in Usages \cup {None}, NEW r \in Stops \cup {None}, StepReturns(u, r)
        PROVE  LoopInv'
    <2>1. /\ pc = "execute" /\ pc' = "record" /\ iterations' = iterations + 1
          /\ budget' = RecordUsage(budget, u) /\ requested' = r /\ spent' = Append(spent, u)
          /\ UNCHANGED <<options, clock, evaluation, evaluatedAt, detector, outcome, proposed>>
      BY <1>2 DEF StepReturns
    <2>2. budget' \in [known : Nat, unknown : BOOLEAN]
      <3>1. budget \in [known : Nat, unknown : BOOLEAN]
        BY DEF LoopInv, TypeOK
      <3>2. CASE u = None
        BY <2>1, <3>1, <3>2 DEF RecordUsage
      <3>3. CASE u # None
        <4>1. u \in Nat /\ budget.known + u \in Nat
          BY <3>1, <3>3, Sizes
        <4>2. budget' = [budget EXCEPT !.known = budget.known + u]
          BY <2>1, <3>3 DEF RecordUsage
        <4> QED
          BY <3>1, <4>1, <4>2
      <3> QED
        BY <3>2, <3>3
    <2>3. spent' \in Seq(Usages \cup {None})
      BY <2>1, AppendProperties DEF LoopInv, TypeOK
    <2>4. TypeOK'
      BY <2>1, <2>2, <2>3 DEF LoopInv, TypeOK
    <2>5. outcome = "running" /\ outcome' = "running"
      BY <2>1 DEF LoopInv, Position
    <2>6. SummaryIsFresh' /\ GoalBeforeGuards' /\ Position'
      BY <2>1, <2>5, NoneIsOutside DEF SummaryIsFresh, GoalBeforeGuards, Position
    <2>7. DetectorRemembers' /\ NoRepeatSoFar'
      BY <2>1, DetectorFrame
    <2>8. GuardsKept'
      <3>1. options.maxIterations # None => iterations' <= options.maxIterations
        BY <2>1, OptionTypes DEF LoopInv, TypeOK, GuardsKept
      <3> QED
        BY <2>1, <3>1 DEF GuardsKept
    <2> QED
      BY <2>4, <2>6, <2>7, <2>8 DEF LoopInv
  <1> QED
    BY <1>1, <1>2 DEF Execute

LEMMA RecordKeeps == LoopInv /\ Record => LoopInv'
  <1> SUFFICES ASSUME LoopInv, Record PROVE LoopInv'
    OBVIOUS
  <1>1. CASE ContextFails
    BY <1>1, FailKeeps DEF ContextFails
  <1>2. CASE ContextRecorded
    <2>1. /\ pc = "record"
          /\ pc' = IF requested # None \/ Exhausted THEN "refresh" ELSE "evaluate"
          /\ UNCHANGED <<options, clock, evaluation, evaluatedAt, iterations, budget,
                         detector, requested, outcome, proposed, spent>>
      BY <1>2 DEF ContextRecorded, histories
    <2>2. TypeOK'
      BY <2>1 DEF LoopInv, TypeOK
    <2>3. SummaryIsFresh' /\ GoalBeforeGuards'
      BY <2>1 DEF LoopInv, SummaryIsFresh, GoalBeforeGuards
    <2>4. Position'
      BY <2>1 DEF LoopInv, Position
    <2>5. DetectorRemembers' /\ NoRepeatSoFar'
      BY <2>1, DetectorFrame
    <2>6. GuardsKept'
      <3>1. Exhausted' <=> Exhausted
        BY <2>1 DEF Exhausted
      <3> QED
        BY <2>1, <3>1 DEF LoopInv, GuardsKept
    <2> QED
      BY <2>2, <2>3, <2>4, <2>5, <2>6 DEF LoopInv
  <1> QED
    BY <1>1, <1>2 DEF Record

LEMMA TickKeeps == LoopInv /\ Tick => LoopInv'
  <1> SUFFICES ASSUME LoopInv, Tick PROVE LoopInv'
    OBVIOUS
  <1>1. /\ pc # "done" /\ clock' = clock + 1
        /\ UNCHANGED <<options, pc, evaluation, evaluatedAt, iterations, budget, detector,
                       requested, outcome, proposed, spent>>
    BY DEF Tick, histories
  <1>2. TypeOK'
    BY <1>1 DEF LoopInv, TypeOK
  <1>3. SummaryIsFresh' /\ GoalBeforeGuards' /\ Position' /\ GuardsKept'
    BY <1>1 DEF LoopInv, SummaryIsFresh, GoalBeforeGuards, Position, GuardsKept, Exhausted
  <1>4. DetectorRemembers' /\ NoRepeatSoFar'
    BY <1>1, DetectorFrame
  <1> QED
    BY <1>2, <1>3, <1>4 DEF LoopInv

LEMMA StutterKeeps == LoopInv /\ UNCHANGED vars => LoopInv'
  BY DEF LoopInv, vars, TypeOK, SummaryIsFresh, GoalBeforeGuards, DetectorRemembers,
         CountsAgree, NoRepeatSoFar, Position, GuardsKept, Exhausted

-----------------------------------------------------------------------------
(* The invariant holds of every execution of the loop, whatever callbacks  *)
(* answer and whatever the options are.                                    *)
THEOREM Invariance == Spec => []LoopInv
  <1>1. LoopInv /\ [Next]_vars => LoopInv'
    BY EvaluateKeeps, DecideKeeps, ExecuteKeeps, RecordKeeps, TickKeeps, StutterKeeps DEF Next
  <1> QED
    BY InitLoopInv, <1>1, PTL DEF Spec

(* Types are kept: in particular the counts of the detector stay numbers   *)
(* and the outcome stays a stop reason.                                    *)
THEOREM TypeCorrect == Spec => []TypeOK
  BY Invariance, PTL DEF LoopInv

(* Every summary executeLoop returns was evaluated after the last step.    *)
THEOREM SummaryFresh == Spec => []SummaryIsFresh
  BY Invariance, PTL DEF LoopInv

(* executeLoop gives up only on a state that has not met the goal.         *)
THEOREM GoalFirst == Spec => []GoalBeforeGuards
  BY Invariance, PTL DEF LoopInv

(* No step is begun at the ceiling, no cycle with the counter over budget. *)
THEOREM GuardsHold == Spec => []GuardsKept
  BY Invariance, PTL DEF LoopInv

(* The incremental detector misses no repeat among the last proposals, for *)
(* every hash, window and threshold.                                       *)
THEOREM RepeatsNoticed == Spec => []NoUnnoticedRepeat
  <1>1. LoopInv => NoUnnoticedRepeat
    <2> SUFFICES ASSUME LoopInv, pc = "execute", options.fingerprint,
                        NEW f \in Fingerprints
                 PROVE  Occurrences(LastOf(proposed, Window), f) < RepeatThreshold
      BY DEF NoUnnoticedRepeat
    <2>1. detector.counts[f] < RepeatThreshold
      BY DEF LoopInv, NoRepeatSoFar
    <2> QED
      BY <2>1 DEF LoopInv, DetectorRemembers, CountsAgree
  <1> QED
    BY Invariance, <1>1, PTL

-----------------------------------------------------------------------------
(* The token counter.  Total is defined by recursion over the history; the *)
(* prover has no induction over it, but the history grows by one step at a *)
(* time, so that the invariant does the induction: there is a function of  *)
(* partial sums of the history, and each ends in the counter's known total.*)
Spent(u) == IF u = None THEN 0 ELSE u

IsSum(g, s) ==
    g = [i \in 0 .. Len(s) |->
            IF i = 0 THEN 0 ELSE g[i - 1] + (IF s[i] = None THEN 0 ELSE s[i])]

SumsTo(s, n) == (\E g : IsSum(g, s)) /\ (\A g : IsSum(g, s) => g[Len(s)] = n)

(* A function that adds up the entries from the left is the one that Total *)
(* chooses.                                                                *)
LEMMA TotalIsTheSum == ASSUME NEW s, NEW n, SumsTo(s, n) PROVE Total(s) = n
  <1> DEFINE c == CHOOSE g : IsSum(g, s)
  <1>1. IsSum(c, s)
    BY Zenon DEF SumsTo
  <1>2. Total(s) = c[Len(s)]
    BY DEF Total, IsSum
  <1> QED
    BY <1>1, <1>2 DEF SumsTo

LEMMA NothingSums == SumsTo(<<>>, 0)
  <1>1. IsSum([i \in 0 .. 0 |-> 0], <<>>)
    BY DEF IsSum
  <1>2. \A g : IsSum(g, <<>>) => g[Len(<<>>)] = 0
    BY DEF IsSum
  <1> QED
    BY <1>1, <1>2 DEF SumsTo

(* One more step adds its usage.                                           *)
LEMMA AppendSums ==
  ASSUME NEW s \in Seq(Usages \cup {None}), NEW u \in Usages \cup {None},
         NEW n \in Nat, SumsTo(s, n)
  PROVE  SumsTo(Append(s, u), n + Spent(u))
  <1> DEFINE l == Len(s)
             t == Append(s, u)
  <1>1. /\ l \in Nat /\ Len(t) = l + 1 /\ t[l + 1] = u
        /\ \A i \in 1 .. l : t[i] = s[i]
    BY LenProperties, AppendProperties
  <1>2. PICK g : IsSum(g, s)
    BY DEF SumsTo
  <1>3. /\ DOMAIN g = 0 .. l /\ g[0] = 0
        /\ \A i \in 1 .. l : g[i] = g[i - 1] + Spent(s[i])
    BY <1>1, <1>2 DEF IsSum, Spent
  <1> HIDE DEF l, t
  <1>4. IsSum([i \in 0 .. l + 1 |-> IF i = l + 1 THEN g[l] + Spent(u) ELSE g[i]], t)
    <2> DEFINE h == [i \in 0 .. l + 1 |-> IF i = l + 1 THEN g[l] + Spent(u) ELSE g[i]]
    <2>1. h[0] = 0
      BY <1>1, <1>3
    <2>2. \A i \in 1 .. l + 1 : h[i] = h[i - 1] + Spent(t[i])
      <3> TAKE i \in 1 .. l + 1
      <3>1. CASE i = l + 1
        <4>1. h[i] = g[l] + Spent(u) /\ h[i - 1] = g[l]
          BY <1>1, <3>1
        <4> QED
          BY <1>1, <3>1, <4>1
      <3>2. CASE i # l + 1
        <4>1. i \in 1 .. l /\ i - 1 \in 0 .. l /\ i # l + 1 /\ i - 1 # l + 1
          BY <1>1, <3>2
        <4>2. h[i] = g[i] /\ h[i - 1] = g[i - 1]
          BY <1>1, <4>1
        <4> QED
          BY <1>1, <1>3, <4>1, <4>2
      <3> QED
        BY <3>1, <3>2
    <2>3. \A i \in 0 .. l + 1 : h[i] = IF i = 0 THEN 0 ELSE h[i - 1] + Spent(t[i])
      <3> HIDE DEF h
      <3> QED BY <1>1, <2>1, <2>2
    <2>4. DOMAIN h = 0 .. l + 1 /\ h = [i \in 0 .. l + 1 |-> h[i]]
      OBVIOUS
    <2> HIDE DEF h
    <2>5. h = [i \in 0 .. l + 1 |-> IF i = 0 THEN 0 ELSE h[i - 1] + Spent(t[i])]
      BY <2>3, <2>4
    <2>6. IsSum(h, t)
      BY <1>1, <2>5 DEF IsSum, Spent
    <2> QED
      BY <2>6 DEF h
  <1>5. ASSUME NEW h, IsSum(h, t) PROVE h[Len(t)] = n + Spent(u)
    <2> DEFINE r == [i \in 0 .. l |-> h[i]]
    <2>1. /\ h[0] = 0 /\ h[l + 1] = h[l] + Spent(u)
          /\ \A i \in 1 .. l : h[i] = h[i - 1] + Spent(s[i])
      <3>1. \A i \in 0 .. l + 1 : h[i] = IF i = 0 THEN 0 ELSE h[i - 1] + Spent(t[i])
        BY <1>1, <1>5 DEF IsSum, Spent
      <3> QED
        BY <1>1, <3>1
    <2>2. \A i \in 0 .. l : r[i] = IF i = 0 THEN 0 ELSE r[i - 1] + Spent(s[i])
      <3> TAKE i \in 0 .. l
      <3>1. i # 0 => i \in 1 .. l /\ i - 1 \in 0 .. l
        BY <1>1
      <3> QED
        BY <1>1, <2>1, <3>1
    <2>3. r = [i \in 0 .. l |-> r[i]] /\ r[l] = h[l]
      BY <1>1
    <2> HIDE DEF r
    <2>4. r = [i \in 0 .. l |-> IF i = 0 THEN 0 ELSE r[i - 1] + Spent(s[i])]
      BY <2>2, <2>3
    <2>5. IsSum(r, s)
      BY <2>4 DEF IsSum, Spent, l
    <2>6. r[l] = n
      BY <2>5 DEF SumsTo, l
    <2> QED
      BY <1>1, <2>1, <2>3, <2>6
  <1>6. SumsTo(t, n + Spent(u))
    BY <1>4, <1>5 DEF SumsTo
  <1> QED
    BY <1>6 DEF t

(* The counter knows what was spent, as long as every step reported it;    *)
(* and a loop stops for its budget on a counter that is over it.           *)
BudgetCounted ==
    /\ AllReported(spent) => ~budget.unknown
    /\ SumsTo(spent, budget.known)
    /\ (pc = "refresh" /\ requested = None) => Exhausted
    /\ (outcome = "budget-exhausted" /\ requested = None) => Exhausted

(* Nothing has been spent before the first pass.                           *)
LEMMA InitBudget == Init => BudgetCounted
  BY NothingSums, NoneIsOutside DEF Init, BudgetCounted, AllReported

(* A step that leaves the counter alone.                                   *)
LEMMA BudgetFrame ==
  ASSUME BudgetCounted, UNCHANGED <<options, budget, requested, spent>>,
         pc' = "refresh" /\ requested = None => pc = "refresh" \/ Exhausted,
         outcome' = "budget-exhausted" /\ requested = None =>
             outcome = "budget-exhausted" \/ pc = "refresh"
  PROVE  BudgetCounted'
  BY DEF BudgetCounted, Exhausted

(* Every step keeps the budget equal to the sum over the history.          *)
LEMMA StepBudget == LoopInv /\ BudgetCounted /\ [Next]_vars => BudgetCounted'
  <1> SUFFICES ASSUME LoopInv, BudgetCounted, [Next]_vars PROVE BudgetCounted'
    OBVIOUS
  <1>1. CASE Evaluate
    <2>1. /\ UNCHANGED <<options, budget, requested, spent>>
          /\ pc' = "refresh" => pc = "refresh"
          /\ outcome' = "budget-exhausted" => outcome = "budget-exhausted" \/ pc = "refresh"
                                               \/ requested # None
      BY <1>1 DEF Evaluate, EvaluationFails, Evaluated, Refreshed, histories
    <2> QED
      BY <2>1, BudgetFrame
  <1>2. CASE Decide
    <2>1. /\ UNCHANGED <<options, budget, requested, spent>> /\ pc' # "refresh"
          /\ outcome' = "budget-exhausted" => outcome = "budget-exhausted"
      BY <1>2 DEF Decide, StopConverged, StopUnfixable, StopStalled, StopRepeated, StopCeiling,
                  StopTimeout, StartStep, Stop
    <2> QED
      BY <2>1, BudgetFrame
  <1>3. CASE Execute
    <2>1. CASE StepFails
      <3>1. /\ UNCHANGED <<options, budget, requested, spent>> /\ pc' = "done"
            /\ outcome' = "failed"
        BY <2>1 DEF StepFails, histories
      <3> QED
        BY <3>1, BudgetFrame
    <2>2. ASSUME NEW usage \in Usages \cup {None}, NEW reason \in Stops \cup {None},
                 StepReturns(usage, reason)
          PROVE  BudgetCounted'
      <3>1. /\ spent \in Seq(Usages \cup {None}) /\ budget.known \in Nat
            /\ budget \in [known : Nat, unknown : BOOLEAN]
            /\ outcome = "running"
        BY <2>2 DEF LoopInv, TypeOK, Position, StepReturns
      <3>2. /\ spent' = Append(spent, usage) /\ budget' = RecordUsage(budget, usage)
            /\ pc' = "record" /\ outcome' = outcome
        BY <2>2 DEF StepReturns
      <3>3. usage # None => usage \in Nat
        BY Sizes
      <3>4. budget'.known = budget.known + Spent(usage)
        BY <3>1, <3>2, <3>3 DEF RecordUsage, Spent
      <3>5. SumsTo(spent', budget'.known)
        BY <3>1, <3>2, <3>4, AppendSums DEF BudgetCounted
      <3>6. AllReported(spent') => ~budget'.unknown
        <4> SUFFICES ASSUME AllReported(spent') PROVE ~budget'.unknown
          OBVIOUS
        <4>1. /\ Len(spent) \in Nat /\ DOMAIN spent = 1 .. Len(spent)
              /\ DOMAIN spent' = 1 .. Len(spent) + 1
              /\ spent'[Len(spent) + 1] = usage
              /\ \A i \in 1 .. Len(spent) : spent'[i] = spent[i]
          <5>1. Append(spent, usage) \in Seq(Usages \cup {None})
            BY <3>1, AppendProperties
          <5> QED
            BY <3>1, <3>2, <5>1, LenProperties, AppendProperties
        <4>2. usage # None /\ AllReported(spent)
          BY <4>1 DEF AllReported
        <4> QED
          BY <3>1, <3>2, <4>2 DEF RecordUsage, BudgetCounted
      <3> QED
        BY <3>1, <3>2, <3>5, <3>6 DEF BudgetCounted
    <2> QED
      BY <1>3, <2>1, <2>2 DEF Execute
  <1>4. CASE Record
    <2>1. /\ UNCHANGED <<options, budget, requested, spent>>
          /\ pc' = "refresh" => requested # None \/ Exhausted
          /\ outcome' = "budget-exhausted" => outcome = "budget-exhausted"
      BY <1>4 DEF Record, ContextRecorded, ContextFails, histories
    <2> QED
      BY <2>1, BudgetFrame
  <1>5. CASE Tick \/ UNCHANGED vars
    <2>1. UNCHANGED <<options, budget, requested, spent, pc, outcome>>
      BY <1>5 DEF Tick, vars, histories
    <2> QED
      BY <2>1, BudgetFrame
  <1> QED
    BY <1>1, <1>2, <1>3, <1>4, <1>5 DEF Next

(* The ceiling and the budget of the options hold in every cycle, for all  *)
(* usages and options: executeLoop's counter says what its steps reported. *)
THEOREM Seatbelts == Spec => []SeatbeltsHold
  <1>1. Spec => []BudgetCounted
    <2>1. LoopInv /\ BudgetCounted /\ [Next]_vars => BudgetCounted'
      BY StepBudget
    <2> QED
      BY InitBudget, Invariance, <2>1, PTL DEF Spec
  <1>2. LoopInv /\ BudgetCounted => SeatbeltsHold
    <2> SUFFICES ASSUME LoopInv, BudgetCounted PROVE SeatbeltsHold
      OBVIOUS
    <2>1. /\ options.maxIterations # None => iterations <= options.maxIterations
          /\ pc \in {"evaluate", "decide", "execute"} => ~Exhausted
      BY DEF LoopInv, GuardsKept
    <2>2. Total(spent) = budget.known
      BY TotalIsTheSum DEF BudgetCounted
    <2>3. budget.known \in Nat /\ options.tokenBudget \in Nat \cup {None}
      BY OptionTypes DEF LoopInv, TypeOK
    <2> QED
      BY <2>1, <2>2, <2>3 DEF SeatbeltsHold, BudgetCounted, Exhausted
  <1> QED
    BY Invariance, <1>1, <1>2, PTL
=============================================================================
