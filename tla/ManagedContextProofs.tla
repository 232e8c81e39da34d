----------------------- MODULE ManagedContextProofs -----------------------
(***************************************************************************)
(* What holds of the managed context for every window, cost and size of a  *)
(* step, however often it is compacted: it is bounded, it keeps what must  *)
(* stay, and of the rest the end of what was recorded.                     *)
(*                                                                         *)
(* A total and a filter are recursive functions on the prefixes of a       *)
(* sequence.  Of each it is shown first that there is a function with      *)
(* these equations and only one value it can end with (by induction, with  *)
(* the set of the lengths for which it holds), then that it distributes    *)
(* over concatenation: all that the compaction needs, which concatenates   *)
(* the pinned ones, stubs or a summary, and the verbatim tail.             *)
(***************************************************************************)
EXTENDS ManagedContext, SequenceTheorems, FiniteSetTheorems, WellFoundedInduction, TLAPS

(* An observation, recorded or a summary.                                  *)
Observations == [number : Nat, tokens : Nat, pinned : BOOLEAN]

-----------------------------------------------------------------------------
(* The sums and the filters.                                               *)

(* A set with zero that is closed under the successor has every natural.   *)
LEMMA NaturalsAreInductive ==
  ASSUME NEW T, 0 \in T, \A n \in Nat : n \in T => n + 1 \in T
  PROVE  Nat \subseteq T
  <1> SUFFICES ASSUME NEW k \in Nat, k \notin T
               PROVE  FALSE
    OBVIOUS
  <1> DEFINE U == Nat \ T
  <1>1. U \subseteq Nat /\ U # {}
    OBVIOUS
  <1>2. \E n \in U : \A m \in U : <<m, n>> \notin OpToRel(<, Nat)
    <2> HIDE DEF U
    <2> QED
      BY <1>1, NatLessThanWellFounded, WFMin
  <1>3. PICK n \in U : \A m \in U : ~(m < n)
    BY <1>1, <1>2 DEF OpToRel
  <1>4. n \in Nat /\ n \notin T /\ n # 0
    BY <1>3
  <1>5. n - 1 \in Nat /\ n - 1 < n /\ (n - 1) + 1 = n
    BY <1>4
  <1> QED
    BY <1>3, <1>4, <1>5

(* The pinned observations, or the others.                                 *)
Kind(p) == {o \in Observations : o.pinned = p}

(* f says what is left of each prefix of s, filtered; t what of s.         *)
KeptBy(f, p, s) ==
    /\ f \in [0 .. Len(s) -> Seq(Kind(p))]
    /\ f[0] = <<>>
    /\ \A i \in 1 .. Len(s) :
         f[i] = IF s[i].pinned = p THEN Append(f[i - 1], s[i]) ELSE f[i - 1]
Kept(p, s, t) == \E f : KeptBy(f, p, s) /\ f[Len(s)] = t

(* The recursive definition has the one value its equations allow.         *)
LEMMA KeptIsOnly ==
  ASSUME NEW p, NEW s \in Seq(Observations), NEW t, Kept(p, s, t)
  PROVE  Only(p, s) = t
  <1> DEFINE Body(g) == [n \in 0 .. Len(s) |->
                            IF n = 0 THEN <<>>
                            ELSE IF s[n].pinned = p THEN Append(g[n - 1], s[n])
                            ELSE g[n - 1]]
             c == CHOOSE g : g = Body(g)
  <1>1. PICK f : KeptBy(f, p, s) /\ f[Len(s)] = t
    BY DEF Kept
  <1>2. Len(s) \in Nat
    BY LenProperties
  <1>3. f = Body(f)
    <2>1. \A n \in 0 .. Len(s) : f[n] = Body(f)[n]
      <3> TAKE n \in 0 .. Len(s)
      <3>1. CASE n = 0
        BY <1>1, <3>1 DEF KeptBy
      <3>2. CASE n # 0
        <4>1. n \in 1 .. Len(s)
          BY <1>2, <3>2
        <4> QED
          BY <1>1, <3>2, <4>1 DEF KeptBy
      <3> QED
        BY <3>1, <3>2
    <2> QED
      BY <1>1, <2>1 DEF KeptBy
  <1>4. c = Body(c)
    <2> HIDE DEF Body
    <2> QED
      BY <1>3, Zenon
  <1>5. Only(p, s) = c[Len(s)]
    BY DEF Only
  <1> DEFINE T == {k \in Nat : k <= Len(s) => c[k] = f[k]}
  <1> HIDE DEF c
  <1>6. c[0] = <<>> /\ \A n \in 1 .. Len(s) :
               c[n] = IF s[n].pinned = p THEN Append(c[n - 1], s[n]) ELSE c[n - 1]
    <2>1. \A n \in 0 .. Len(s) : c[n] = Body(c)[n]
      BY <1>4
    <2> QED
      BY <1>2, <2>1
  <1>7. 0 \in T
    BY <1>1, <1>6 DEF KeptBy
  <1>8. ASSUME NEW k \in Nat, k \in T
        PROVE  k + 1 \in T
    <2> SUFFICES ASSUME k + 1 <= Len(s) PROVE c[k + 1] = f[k + 1]
      OBVIOUS
    <2>1. k + 1 \in 1 .. Len(s) /\ (k + 1) - 1 = k /\ c[k] = f[k]
      BY <1>2, <1>8
    <2>2. f[k + 1] = IF s[k + 1].pinned = p THEN Append(f[k], s[k + 1]) ELSE f[k]
      BY <1>1, <2>1 DEF KeptBy
    <2>3. c[k + 1] = IF s[k + 1].pinned = p THEN Append(c[k], s[k + 1]) ELSE c[k]
      BY <1>6, <2>1
    <2> QED
      BY <2>1, <2>2, <2>3
  <1>9. Len(s) \in T
    <2> HIDE DEF T
    <2> QED
      BY <1>2, <1>7, <1>8, NaturalsAreInductive
  <1> QED
    BY <1>1, <1>2, <1>5, <1>9

(* Appending commutes with a prefix.                                       *)
LEMMA AppendLast ==
  ASSUME NEW S, NEW t \in Seq(S), NEW x \in Seq(S), NEW e \in S
  PROVE  t \o Append(x, e) = Append(t \o x, e)
  <1>1. <<e>> \in Seq(S) /\ t \o x \in Seq(S)
    BY ConcatProperties
  <1>2. Append(x, e) = x \o <<e>> /\ Append(t \o x, e) = (t \o x) \o <<e>>
    BY <1>1, AppendIsConcat
  <1> QED
    BY <1>1, <1>2, ConcatAssociative

(* What is left of two sequences, one after the other.                     *)
LEMMA KeptOfBoth ==
  ASSUME NEW p, NEW s \in Seq(Observations), NEW u \in Seq(Observations),
         NEW t, NEW v, Kept(p, s, t), Kept(p, u, v)
  PROVE  Kept(p, s \o u, t \o v) /\ t \in Seq(Kind(p)) /\ v \in Seq(Kind(p))
  <1> DEFINE m == Len(s)
             n == Len(u)
             w == s \o u
  <1>1. PICK f : KeptBy(f, p, s) /\ f[Len(s)] = t
    BY DEF Kept
  <1>2. PICK g : KeptBy(g, p, u) /\ g[Len(u)] = v
    BY DEF Kept
  <1>3. /\ m \in Nat /\ n \in Nat /\ Len(w) = m + n
        /\ \A i \in 1 .. m : w[i] = s[i]
        /\ \A i \in 1 .. n : w[m + i] = u[i]
    BY ConcatProperties, LenProperties
  <1>4. /\ f \in [0 .. m -> Seq(Kind(p))] /\ g \in [0 .. n -> Seq(Kind(p))]
        /\ f[0] = <<>> /\ g[0] = <<>> /\ f[m] = t /\ g[n] = v
        /\ \A i \in 1 .. m : f[i] = IF s[i].pinned = p THEN Append(f[i - 1], s[i]) ELSE f[i - 1]
        /\ \A i \in 1 .. n : g[i] = IF u[i].pinned = p THEN Append(g[i - 1], u[i]) ELSE g[i - 1]
    BY <1>1, <1>2 DEF KeptBy
  <1>5. t \in Seq(Kind(p)) /\ v \in Seq(Kind(p))
    BY <1>3, <1>4
  <1> DEFINE h == [i \in 0 .. m + n |-> IF i <= m THEN f[i] ELSE t \o g[i - m]]
  <1>6. h \in [0 .. m + n -> Seq(Kind(p))]
    <2> HIDE DEF m, n
    <2> SUFFICES ASSUME NEW i \in 0 .. m + n
                 PROVE  (IF i <= m THEN f[i] ELSE t \o g[i - m]) \in Seq(Kind(p))
      BY Zenon
    <2>1. CASE i <= m
      BY <1>3, <1>4, <2>1
    <2>2. CASE ~(i <= m)
      <3>1. i - m \in 0 .. n
        BY <1>3, <2>2
      <3>2. g[i - m] \in Seq(Kind(p))
        BY <1>4, <3>1
      <3> QED
        BY <1>5, <2>2, <3>2, ConcatProperties
    <2> QED
      BY <2>1, <2>2
  <1>7. h[0] = <<>> /\ h[m + n] = t \o v
    <2>1. h[0] = f[0]
      BY <1>3
    <2>2. CASE n = 0
      <3>1. h[m + n] = t /\ v = <<>>
        BY <1>3, <1>4, <2>2
      <3> QED
        BY <1>4, <1>5, <2>1, <3>1, ConcatEmptySeq
    <2>3. CASE n # 0
      <3>1. ~(m + n <= m) /\ (m + n) - m = n /\ m + n \in 0 .. m + n
        BY <1>3, <2>3
      <3> QED
        BY <1>4, <2>1, <3>1
    <2> QED
      BY <2>2, <2>3
  <1>8. \A i \in 1 .. m + n :
           h[i] = IF w[i].pinned = p THEN Append(h[i - 1], w[i]) ELSE h[i - 1]
    <2> HIDE DEF m, n, w
    <2> TAKE i \in 1 .. m + n
    <2>1. CASE i <= m
      <3>1. i \in 1 .. m /\ i - 1 \in 0 .. m + n /\ i - 1 <= m /\ i \in 0 .. m + n
        BY <1>3, <2>1
      <3>2. h[i] = f[i] /\ h[i - 1] = f[i - 1] /\ w[i] = s[i]
        BY <1>3, <2>1, <3>1
      <3> QED
        BY <1>4, <3>1, <3>2
    <2>2. CASE ~(i <= m)
      <3> DEFINE j == i - m
      <3>1. j \in 1 .. n /\ i = m + j /\ i \in 0 .. m + n /\ i - 1 \in 0 .. m + n
        BY <1>3, <2>2
      <3>2. h[i] = t \o g[j] /\ w[i] = u[j]
        BY <1>3, <2>2, <3>1
      <3>3. h[i - 1] = t \o g[j - 1]
        <4>1. CASE j = 1
          <5>1. i - 1 = m /\ i - 1 <= m /\ j - 1 = 0
            BY <1>3, <3>1, <4>1
          <5>2. h[i - 1] = t /\ g[j - 1] = <<>>
            BY <1>4, <3>1, <5>1
          <5> QED
            BY <1>5, <5>2, ConcatEmptySeq
        <4>2. CASE j # 1
          <5>1. ~(i - 1 <= m) /\ (i - 1) - m = j - 1
            BY <1>3, <3>1, <4>2
          <5> QED
            BY <3>1, <5>1
        <4> QED
          BY <4>1, <4>2
      <3>4. g[j - 1] \in Seq(Kind(p)) /\ j - 1 \in 0 .. n
        BY <1>3, <1>4, <3>1
      <3> HIDE DEF j, h
      <3>5. CASE u[j].pinned = p
        <4>1. u[j] \in Kind(p)
          BY <1>3, <3>1, <3>5, ElementOfSeq DEF n, Kind
        <4>2. t \o Append(g[j - 1], u[j]) = Append(t \o g[j - 1], u[j])
          <5>1. g[j - 1] \in Seq(Kind(p)) /\ t \in Seq(Kind(p)) /\ u[j] \in Kind(p)
            BY <1>5, <3>4, <4>1
          <5>2. PICK x \in Seq(Kind(p)) : x = g[j - 1]
            BY <5>1
          <5>3. PICK e \in Kind(p) : e = u[j]
            BY <5>1
          <5>4. t \o Append(x, e) = Append(t \o x, e)
            BY <5>1, AppendLast
          <5> QED
            BY <5>2, <5>3, <5>4
        <4> QED
          BY <1>4, <3>1, <3>2, <3>3, <3>5, <4>2
      <3>6. CASE u[j].pinned # p
        BY <1>4, <3>1, <3>2, <3>3, <3>6
      <3> QED
        BY <3>5, <3>6
    <2> QED
      BY <2>1, <2>2
  <1>9. KeptBy(h, p, w) /\ h[Len(w)] = t \o v
    <2> HIDE DEF h, w
    <2> QED
      BY <1>3, <1>6, <1>7, <1>8 DEF KeptBy
  <1> QED
    BY <1>5, <1>9, Zenon DEF Kept

(* What is left of one observation, and of none.                           *)
LEMMA KeptOfOne ==
  ASSUME NEW p, NEW o \in Observations
  PROVE  Kept(p, <<o>>, IF o.pinned = p THEN <<o>> ELSE <<>>) /\ Kept(p, <<>>, <<>>)
  <1> DEFINE last == IF o.pinned = p THEN <<o>> ELSE <<>>
  <1>1. KeptBy([i \in 0 .. 1 |-> IF i = 0 THEN <<>> ELSE last], p, <<o>>)
    <2>1. last \in Seq(Kind(p)) /\ <<>> \in Seq(Kind(p))
      <3>1. <<>> \in Seq(Kind(p))
        BY EmptySeq
      <3>2. CASE o.pinned = p
        <4>1. o \in Kind(p)
          BY <3>2 DEF Kind
        <4>2. <<o>> \in Seq(Kind(p))
          BY <4>1
        <4> QED
          BY <3>1, <3>2, <4>2
      <3> QED
        BY <3>1, <3>2
    <2>2. last = IF <<o>>[1].pinned = p THEN Append(<<>>, <<o>>[1]) ELSE <<>>
      OBVIOUS
    <2> HIDE DEF last
    <2> QED
      BY <2>1, <2>2 DEF KeptBy
  <1>2. KeptBy([i \in 0 .. 0 |-> <<>>], p, <<>>)
    BY DEF KeptBy
  <1>3. Kept(p, <<o>>, last)
    <2> HIDE DEF last
    <2> QED
      BY <1>1 DEF Kept
  <1>4. Kept(p, <<>>, <<>>)
    BY <1>2 DEF Kept
  <1> QED
    BY <1>3, <1>4

(* A sequence that is not empty is a shorter one and a last element.       *)
LEMMA FrontAndLast ==
  ASSUME NEW n \in Nat, NEW u \in Seq(Observations), Len(u) = n + 1
  PROVE  \E front \in Seq(Observations), o \in Observations : u = front \o <<o>> /\ Len(front) = n
  <1>1. n + 1 \in 1 .. Len(u) /\ 1 \in 1 .. Len(u) /\ (n + 1) - 1 = n
    OBVIOUS
  <1>2. u[n + 1] \in Observations /\ \A i \in 1 .. n : u[i] \in Observations
    BY <1>1, ElementOfSeq
  <1>3. SubSeq(u, 1, n) \in Seq(Observations) /\ Len(SubSeq(u, 1, n)) = n
    BY <1>2, SubSeqProperties
  <1>4. SubSeq(u, 1, n + 1) = SubSeq(u, 1, n) \o <<u[n + 1]>>
    BY <1>1, SubSeqRecursiveSecond
  <1> QED
    BY <1>2, <1>3, <1>4, SubSeqFull

(* Every sequence of observations is filtered.                             *)
LEMMA OnlyIsKept ==
  ASSUME NEW p, NEW s \in Seq(Observations)
  PROVE  Kept(p, s, Only(p, s)) /\ Only(p, s) \in Seq(Kind(p))
  <1> DEFINE T == {n \in Nat : \A u \in Seq(Observations) : Len(u) = n => \E t : Kept(p, u, t)}
  <1>1. 0 \in T
    <2>1. \A u \in Seq(Observations) : Len(u) = 0 => u = <<>>
      BY EmptySeq
    <2>2. Kept(p, <<>>, <<>>)
      <3>1. KeptBy([i \in 0 .. 0 |-> <<>>], p, <<>>)
        BY DEF KeptBy
      <3> QED
        BY <3>1 DEF Kept
    <2> QED
      BY <2>1, <2>2
  <1>2. ASSUME NEW n \in Nat, n \in T
        PROVE  n + 1 \in T
    <2> SUFFICES ASSUME NEW u \in Seq(Observations), Len(u) = n + 1
                 PROVE  \E t : Kept(p, u, t)
      OBVIOUS
    <2>1. PICK front \in Seq(Observations), o \in Observations :
            u = front \o <<o>> /\ Len(front) = n
      BY FrontAndLast
    <2>2. PICK t : Kept(p, front, t)
      BY <1>2, <2>1
    <2>3. Kept(p, front \o <<o>>, t \o (IF o.pinned = p THEN <<o>> ELSE <<>>))
      <3>1. <<o>> \in Seq(Observations)
        OBVIOUS
      <3> QED
        BY <2>1, <2>2, <3>1, KeptOfOne, KeptOfBoth
    <2> QED
      BY <2>1, <2>3
  <1>3. Len(s) \in T /\ Len(s) \in Nat
    <2>1. Nat \subseteq T
      <3> HIDE DEF T
      <3> QED
        BY <1>1, <1>2, NaturalsAreInductive
    <2> QED
      BY <2>1, LenProperties
  <1>4. PICK t : Kept(p, s, t)
    BY <1>3
  <1>5. Only(p, s) = t
    BY <1>4, KeptIsOnly
  <1>6. t \in Seq(Kind(p))
    BY <1>3, <1>4 DEF Kept, KeptBy
  <1> QED
    BY <1>4, <1>5, <1>6

(* A filter distributes over concatenation.                                *)
LEMMA OnlyOfBoth ==
  ASSUME NEW p, NEW s \in Seq(Observations), NEW u \in Seq(Observations)
  PROVE  Only(p, s \o u) = Only(p, s) \o Only(p, u)
  <1>1. Kept(p, s \o u, Only(p, s) \o Only(p, u)) /\ s \o u \in Seq(Observations)
    BY OnlyIsKept, KeptOfBoth, ConcatProperties
  <1> QED
    BY <1>1, KeptIsOnly

(* It keeps what is all of its kind, and nothing of the other kind.        *)
LEMMA OnlyOfAKind ==
  ASSUME NEW p \in BOOLEAN, NEW s \in Seq(Kind(p))
  PROVE  Only(p, s) = s /\ Only(~p, s) = <<>>
  <1>1. s \in Seq(Observations) /\ Len(s) \in Nat /\ \A i \in 1 .. Len(s) : s[i] \in Kind(p)
    BY SeqMonotonic, ElementOfSeq, LenProperties DEF Kind
  <1>2. KeptBy([i \in 0 .. Len(s) |-> SubSeq(s, 1, i)], p, s)
    <2>1. \A i \in 0 .. Len(s) : SubSeq(s, 1, i) \in Seq(Kind(p))
      <3> TAKE i \in 0 .. Len(s)
      <3>1. \A j \in 1 .. i : s[j] \in Kind(p)
        BY <1>1
      <3> QED
        BY <1>1, <3>1, SubSeqProperties
    <2>2. SubSeq(s, 1, 0) = <<>>
      BY SubSeqEmpty
    <2>3. \A i \in 1 .. Len(s) : SubSeq(s, 1, i) = Append(SubSeq(s, 1, i - 1), s[i])
      <3> TAKE i \in 1 .. Len(s)
      <3>1. 1 \in 1 .. Len(s) /\ i \in 1 .. Len(s) /\ s[i] \in Kind(p) /\ i - 1 \in 0 .. Len(s)
        BY <1>1
      <3>2. SubSeq(s, 1, i) = SubSeq(s, 1, i - 1) \o <<s[i]>>
        BY <3>1, SubSeqRecursiveSecond
      <3>3. SubSeq(s, 1, i - 1) \in Seq(Kind(p))
        BY <2>1, <3>1
      <3> QED
        BY <3>1, <3>2, <3>3, AppendIsConcat
    <2>4. \A i \in 1 .. Len(s) : s[i].pinned = p
      BY <1>1 DEF Kind
    <2> DEFINE f == [i \in 0 .. Len(s) |-> SubSeq(s, 1, i)]
    <2>5. f \in [0 .. Len(s) -> Seq(Kind(p))]
      BY <2>1
    <2>6. f[0] = <<>>
      BY <1>1, <2>2
    <2>7. \A i \in 1 .. Len(s) : f[i] = Append(f[i - 1], s[i])
      BY <1>1, <2>3
    <2> HIDE DEF f
    <2>8. KeptBy(f, p, s)
      BY <2>4, <2>5, <2>6, <2>7 DEF KeptBy
    <2> QED
      BY <2>8 DEF f
  <1>3. KeptBy([i \in 0 .. Len(s) |-> <<>>], ~p, s)
    BY <1>1 DEF KeptBy, Kind
  <1>4. Kept(p, s, s) /\ Kept(~p, s, <<>>)
    <2>1. SubSeq(s, 1, Len(s)) = s
      BY SubSeqFull
    <2> QED
      BY <1>1, <1>2, <1>3, <2>1 DEF Kept
  <1> QED
    BY <1>1, <1>4, KeptIsOnly

(* f says what each prefix of s costs; n what s does.                      *)
SummedBy(f, s) ==
    /\ f \in [0 .. Len(s) -> Nat]
    /\ f[0] = 0
    /\ \A i \in 1 .. Len(s) : f[i] = f[i - 1] + s[i].tokens
Summed(s, n) == \E f : SummedBy(f, s) /\ f[Len(s)] = n

(* A total is the value its equations allow.                               *)
LEMMA SummedIsTotal ==
  ASSUME NEW s \in Seq(Observations), NEW t, Summed(s, t)
  PROVE  TotalTokens(s) = t
  <1> DEFINE Body(g) == [n \in 0 .. Len(s) |-> IF n = 0 THEN 0 ELSE g[n - 1] + s[n].tokens]
             c == CHOOSE g : g = Body(g)
  <1>1. PICK f : SummedBy(f, s) /\ f[Len(s)] = t
    BY DEF Summed
  <1>2. Len(s) \in Nat
    BY LenProperties
  <1>3. f = Body(f)
    <2>1. \A n \in 0 .. Len(s) : f[n] = Body(f)[n]
      <3> TAKE n \in 0 .. Len(s)
      <3>1. CASE n = 0
        BY <1>1, <3>1 DEF SummedBy
      <3>2. CASE n # 0
        <4>1. n \in 1 .. Len(s)
          BY <1>2, <3>2
        <4> QED
          BY <1>1, <3>2, <4>1 DEF SummedBy
      <3> QED
        BY <3>1, <3>2
    <2> QED
      BY <1>1, <2>1 DEF SummedBy
  <1>4. c = Body(c)
    <2> HIDE DEF Body
    <2> QED
      BY <1>3, Zenon
  <1>5. TotalTokens(s) = c[Len(s)]
    BY DEF TotalTokens
  <1> DEFINE T == {k \in Nat : k <= Len(s) => c[k] = f[k]}
  <1> HIDE DEF c
  <1>6. c[0] = 0 /\ \A n \in 1 .. Len(s) : c[n] = c[n - 1] + s[n].tokens
    <2>1. \A n \in 0 .. Len(s) : c[n] = Body(c)[n]
      BY <1>4
    <2> QED
      BY <1>2, <2>1
  <1>7. 0 \in T
    BY <1>1, <1>6 DEF SummedBy
  <1>8. ASSUME NEW k \in Nat, k \in T
        PROVE  k + 1 \in T
    <2> SUFFICES ASSUME k + 1 <= Len(s) PROVE c[k + 1] = f[k + 1]
      OBVIOUS
    <2>1. k + 1 \in 1 .. Len(s) /\ (k + 1) - 1 = k /\ c[k] = f[k]
      BY <1>2, <1>8
    <2>2. f[k + 1] = f[k] + s[k + 1].tokens
      BY <1>1, <2>1 DEF SummedBy
    <2>3. c[k + 1] = c[k] + s[k + 1].tokens
      BY <1>6, <2>1
    <2> QED
      BY <2>1, <2>2, <2>3
  <1>9. Len(s) \in T
    <2> HIDE DEF T
    <2> QED
      BY <1>2, <1>7, <1>8, NaturalsAreInductive
  <1> QED
    BY <1>1, <1>2, <1>5, <1>9

(* The total of two sequences, one after the other.                        *)
LEMMA SumOfBoth ==
  ASSUME NEW s \in Seq(Observations), NEW u \in Seq(Observations),
         NEW x, NEW y, Summed(s, x), Summed(u, y)
  PROVE  Summed(s \o u, x + y) /\ x \in Nat /\ y \in Nat
  <1> DEFINE m == Len(s)
             n == Len(u)
             w == s \o u
  <1>1. PICK f : SummedBy(f, s) /\ f[Len(s)] = x
    BY DEF Summed
  <1>2. PICK g : SummedBy(g, u) /\ g[Len(u)] = y
    BY DEF Summed
  <1>3. /\ m \in Nat /\ n \in Nat /\ Len(w) = m + n
        /\ \A i \in 1 .. m : w[i] = s[i]
        /\ \A i \in 1 .. n : w[m + i] = u[i]
    BY ConcatProperties, LenProperties
  <1>4. /\ f \in [0 .. m -> Nat] /\ g \in [0 .. n -> Nat]
        /\ f[0] = 0 /\ g[0] = 0 /\ f[m] = x /\ g[n] = y
        /\ \A i \in 1 .. m : f[i] = f[i - 1] + s[i].tokens
        /\ \A i \in 1 .. n : g[i] = g[i - 1] + u[i].tokens
    BY <1>1, <1>2 DEF SummedBy
  <1>5. x \in Nat /\ y \in Nat
    BY <1>3, <1>4
  <1> DEFINE h == [i \in 0 .. m + n |-> IF i <= m THEN f[i] ELSE x + g[i - m]]
  <1> HIDE DEF m, n, w
  <1>6. h \in [0 .. m + n -> Nat]
    <2> SUFFICES ASSUME NEW i \in 0 .. m + n
                 PROVE  (IF i <= m THEN f[i] ELSE x + g[i - m]) \in Nat
      BY Zenon
    <2>1. CASE i <= m
      BY <1>3, <1>4, <2>1
    <2>2. CASE ~(i <= m)
      <3>1. i - m \in 0 .. n
        BY <1>3, <2>2
      <3> QED
        BY <1>4, <1>5, <2>2, <3>1
    <2> QED
      BY <2>1, <2>2
  <1>7. h[0] = 0 /\ h[m + n] = x + y
    <2>1. h[0] = f[0]
      BY <1>3
    <2>2. CASE n = 0
      BY <1>3, <1>4, <1>5, <2>1, <2>2
    <2>3. CASE n # 0
      <3>1. ~(m + n <= m) /\ (m + n) - m = n /\ m + n \in 0 .. m + n
        BY <1>3, <2>3
      <3> QED
        BY <1>4, <2>1, <3>1
    <2> QED
      BY <2>2, <2>3
  <1>8. \A i \in 1 .. m + n : h[i] = h[i - 1] + w[i].tokens
    <2> TAKE i \in 1 .. m + n
    <2>1. CASE i <= m
      <3>1. i \in 1 .. m /\ i - 1 \in 0 .. m + n /\ i - 1 <= m /\ i \in 0 .. m + n
        BY <1>3, <2>1
      <3>2. h[i] = f[i] /\ h[i - 1] = f[i - 1] /\ w[i] = s[i]
        BY <1>3, <2>1, <3>1
      <3> QED
        BY <1>4, <3>1, <3>2
    <2>2. CASE ~(i <= m)
      <3> DEFINE j == i - m
      <3>1. j \in 1 .. n /\ i = m + j /\ i \in 0 .. m + n /\ i - 1 \in 0 .. m + n
        BY <1>3, <2>2
      <3>2. h[i] = x + g[j] /\ w[i] = u[j]
        BY <1>3, <2>2, <3>1
      <3>3. h[i - 1] = x + g[j - 1]
        <4>1. CASE j = 1
          <5>1. i - 1 = m /\ i - 1 <= m /\ j - 1 = 0
            BY <1>3, <3>1, <4>1
          <5>2. h[i - 1] = x /\ g[j - 1] = 0
            BY <1>4, <3>1, <5>1
          <5> QED
            BY <1>5, <5>2
        <4>2. CASE j # 1
          <5>1. ~(i - 1 <= m) /\ (i - 1) - m = j - 1
            BY <1>3, <3>1, <4>2
          <5> QED
            BY <3>1, <5>1
        <4> QED
          BY <4>1, <4>2
      <3>4. g[j - 1] \in Nat /\ g[j] \in Nat /\ g[j] = g[j - 1] + u[j].tokens
        <4>1. j - 1 \in 0 .. n /\ j \in 0 .. n
          BY <1>3, <3>1
        <4> QED
          BY <1>4, <3>1, <4>1
      <3>5. u[j].tokens \in Nat
        <4>1. u[j] \in Observations
          BY <3>1, ElementOfSeq DEF n
        <4> QED
          BY <4>1 DEF Observations
      <3> HIDE DEF j, h
      <3>6. x + g[j] = (x + g[j - 1]) + u[j].tokens
        BY <1>5, <3>4, <3>5
      <3> QED
        BY <3>2, <3>3, <3>6
    <2> QED
      BY <2>1, <2>2
  <1>9. SummedBy(h, w) /\ h[Len(w)] = x + y
    <2> HIDE DEF h
    <2> QED
      BY <1>3, <1>6, <1>7, <1>8 DEF SummedBy
  <1> QED
    BY <1>5, <1>9, Zenon DEF Summed, w

(* The total of one observation, and of none.                              *)
LEMMA SumOfOne ==
  ASSUME NEW o \in Observations
  PROVE  Summed(<<o>>, o.tokens) /\ Summed(<<>>, 0)
  <1>1. SummedBy([i \in 0 .. 1 |-> IF i = 0 THEN 0 ELSE o.tokens], <<o>>)
    BY DEF SummedBy, Observations
  <1>2. SummedBy([i \in 0 .. 0 |-> 0], <<>>)
    BY DEF SummedBy
  <1> QED
    BY <1>1, <1>2 DEF Summed

(* Every sequence of observations has a total.                             *)
LEMMA TotalIsSummed ==
  ASSUME NEW s \in Seq(Observations)
  PROVE  Summed(s, TotalTokens(s)) /\ TotalTokens(s) \in Nat
  <1> DEFINE T == {n \in Nat : \A u \in Seq(Observations) : Len(u) = n => \E t : Summed(u, t)}
  <1>1. 0 \in T
    <2>1. \A u \in Seq(Observations) : Len(u) = 0 => u = <<>>
      BY EmptySeq
    <2>2. Summed(<<>>, 0)
      <3>1. SummedBy([i \in 0 .. 0 |-> 0], <<>>)
        BY DEF SummedBy
      <3> QED
        BY <3>1 DEF Summed
    <2> QED
      BY <2>1, <2>2
  <1>2. ASSUME NEW n \in Nat, n \in T
        PROVE  n + 1 \in T
    <2> SUFFICES ASSUME NEW u \in Seq(Observations), Len(u) = n + 1
                 PROVE  \E t : Summed(u, t)
      OBVIOUS
    <2>1. PICK front \in Seq(Observations), o \in Observations :
            u = front \o <<o>> /\ Len(front) = n
      BY FrontAndLast
    <2>2. PICK t : Summed(front, t)
      BY <1>2, <2>1
    <2>3. Summed(front \o <<o>>, t + o.tokens)
      <3>1. <<o>> \in Seq(Observations)
        OBVIOUS
      <3> QED
        BY <2>1, <2>2, <3>1, SumOfOne, SumOfBoth
    <2> QED
      BY <2>1, <2>3
  <1>3. Len(s) \in T /\ Len(s) \in Nat
    <2>1. Nat \subseteq T
      <3> HIDE DEF T
      <3> QED
        BY <1>1, <1>2, NaturalsAreInductive
    <2> QED
      BY <2>1, LenProperties
  <1>4. PICK t : Summed(s, t)
    BY <1>3
  <1>5. TotalTokens(s) = t
    BY <1>4, SummedIsTotal
  <1>6. t \in Nat
    BY <1>3, <1>4 DEF Summed, SummedBy
  <1> QED
    BY <1>4, <1>5, <1>6

(* Totals add up.                                                          *)
LEMMA TotalOfBoth ==
  ASSUME NEW s \in Seq(Observations), NEW u \in Seq(Observations)
  PROVE  TotalTokens(s \o u) = TotalTokens(s) + TotalTokens(u)
  <1>1. Summed(s \o u, TotalTokens(s) + TotalTokens(u)) /\ s \o u \in Seq(Observations)
    BY TotalIsSummed, SumOfBoth, ConcatProperties
  <1> QED
    BY <1>1, SummedIsTotal

(* The empty total, and that of one observation.                           *)
LEMMA SmallTotals ==
  /\ TotalTokens(<<>>) = 0
  /\ \A o \in Observations : TotalTokens(<<o>>) = o.tokens
  <1>1. Summed(<<>>, 0)
    <2>1. SummedBy([i \in 0 .. 0 |-> 0], <<>>)
      BY DEF SummedBy
    <2> QED
      BY <2>1 DEF Summed
  <1>2. TotalTokens(<<>>) = 0
    BY <1>1, EmptySeq, SummedIsTotal
  <1>3. ASSUME NEW o \in Observations PROVE TotalTokens(<<o>>) = o.tokens
    <2>1. <<o>> \in Seq(Observations)
      OBVIOUS
    <2> QED
      BY <2>1, SumOfOne, SummedIsTotal
  <1> QED
    BY <1>2, <1>3

(* Stubs cost the same.                                                    *)
LEMMA TotalOfStubs ==
  ASSUME NEW s \in Seq(Observations), \A i \in 1 .. Len(s) : s[i].tokens = MaskTokens
  PROVE  TotalTokens(s) = MaskTokens * Len(s)
  <1> DEFINE f == [i \in 0 .. Len(s) |-> MaskTokens * i]
  <1>1. Len(s) \in Nat
    BY LenProperties
  <1>2. SummedBy(f, s) /\ f[Len(s)] = MaskTokens * Len(s)
    BY <1>1 DEF SummedBy, MaskTokens
  <1> HIDE DEF f
  <1> QED
    BY <1>2, SummedIsTotal DEF Summed

-----------------------------------------------------------------------------
(* The parts of a compaction.                                              *)

(* The larger and the smaller of two numbers.                              *)
LEMMA OfTwo ==
  ASSUME NEW a \in Int, NEW b \in Int
  PROVE  /\ Max({a, b}) = IF a >= b THEN a ELSE b
         /\ Min({a, b}) = IF a <= b THEN a ELSE b
  <1>1. Max({a, b}) \in {a, b} /\ Max({a, b}) >= a /\ Max({a, b}) >= b
    <2> DEFINE Top(x) == \A y \in {a, b} : x >= y
    <2>1. \E x \in {a, b} : Top(x)
      OBVIOUS
    <2>2. LET m == CHOOSE x \in {a, b} : Top(x) IN m \in {a, b} /\ Top(m)
      <3> HIDE DEF Top
      <3> QED
        BY <2>1
    <2> QED
      BY <2>2 DEF Max
  <1>2. Min({a, b}) \in {a, b} /\ Min({a, b}) <= a /\ Min({a, b}) <= b
    <2> DEFINE Bottom(x) == \A y \in {a, b} : x <= y
    <2>1. \E x \in {a, b} : Bottom(x)
      OBVIOUS
    <2>2. LET m == CHOOSE x \in {a, b} : Bottom(x) IN m \in {a, b} /\ Bottom(m)
      <3> HIDE DEF Bottom
      <3> QED
        BY <2>1
    <2> QED
      BY <2>2 DEF Min
  <1> QED
    BY <1>1, <1>2

(* A set of numbers up to n has a largest.                                 *)
LEMMA LargestUpTo ==
  ASSUME NEW n \in Nat, NEW S, S \subseteq 0 .. n, S # {}
  PROVE  Max(S) \in S /\ \A y \in S : y <= Max(S)
  <1> DEFINE U == {n - x : x \in S}
  <1>1. U \subseteq Nat /\ U # {}
    OBVIOUS
  <1>2. \E u \in U : \A v \in U : <<v, u>> \notin OpToRel(<, Nat)
    <2> HIDE DEF U
    <2> QED
      BY <1>1, NatLessThanWellFounded, WFMin
  <1>3. PICK u \in U : \A v \in U : ~(v < u)
    BY <1>1, <1>2 DEF OpToRel
  <1>4. \E x \in S : \A y \in S : x >= y
    <2>1. PICK x \in S : u = n - x
      BY <1>3
    <2>2. \A y \in S : ~(n - y < n - x)
      BY <1>3, <2>1
    <2> QED
      BY <2>1, <2>2
  <1>5. Max(S) \in S /\ \A y \in S : Max(S) >= y
    BY <1>4 DEF Max
  <1> QED
    BY <1>5

(* The last n of a sequence.                                               *)
LEMMA Tails ==
  ASSUME NEW S, NEW s \in Seq(S), NEW n \in 0 .. Len(s)
  PROVE  /\ LastN(s, n) \in Seq(S) /\ Len(LastN(s, n)) = n
         /\ \A i \in 1 .. n : LastN(s, n)[i] = s[Len(s) - n + i]
  <1> DEFINE a == Len(s) - n + 1
             b == Len(s)
  <1>1. a \in Int /\ b \in Int /\ b \in Nat /\ n \in Nat /\ a >= 1 /\ b - a + 1 = n
    BY LenProperties
  <1>2. \A i \in a .. b : s[i] \in S
    BY <1>1, ElementOfSeq
  <1>3. LastN(s, n) = SubSeq(s, a, b)
    BY DEF LastN
  <1>4. \A i \in 1 .. n : a + i - 1 = Len(s) - n + i
    BY <1>1
  <1> HIDE DEF a, b
  <1>5. /\ SubSeq(s, a, b) \in Seq(S)
        /\ Len(SubSeq(s, a, b)) = IF a <= b THEN b - a + 1 ELSE 0
        /\ \A i \in 1 .. b - a + 1 : SubSeq(s, a, b)[i] = s[a + i - 1]
    BY <1>1, <1>2, SubSeqProperties
  <1>6. a <= b <=> n # 0
    BY <1>1
  <1>7. Len(SubSeq(s, a, b)) = n
    BY <1>1, <1>5, <1>6
  <1>8. \A i \in 1 .. n : SubSeq(s, a, b)[i] = s[Len(s) - n + i]
    BY <1>1, <1>4, <1>5
  <1> QED
    BY <1>3, <1>5, <1>7, <1>8

(* A function on 1 .. n is a sequence of length n.                         *)
LEMMA FunctionsAreSequences ==
  ASSUME NEW S, NEW n \in Nat, NEW f \in [1 .. n -> S]
  PROVE  f \in Seq(S) /\ Len(f) = n
  OBVIOUS

(* A sequence of one.                                                      *)
LEMMA Singleton == ASSUME NEW S, NEW e \in S PROVE <<e>> \in Seq(S)
  OBVIOUS

(* The first n of a sequence.                                              *)
LEMMA Heads ==
  ASSUME NEW S, NEW s \in Seq(S), NEW n \in 0 .. Len(s)
  PROVE  /\ SubSeq(s, 1, n) \in Seq(S) /\ Len(SubSeq(s, 1, n)) = n
         /\ \A i \in 1 .. n : SubSeq(s, 1, n)[i] = s[i]
  <1>1. n \in Int /\ Len(s) \in Nat /\ 1 \in Int
    BY LenProperties
  <1>2. \A i \in 1 .. n : i \in 1 .. Len(s)
    BY <1>1
  <1>3. \A i \in 1 .. n : s[i] \in S
    BY <1>2, ElementOfSeq
  <1>4. /\ SubSeq(s, 1, n) \in Seq(S)
        /\ Len(SubSeq(s, 1, n)) = IF 1 <= n THEN n - 1 + 1 ELSE 0
        /\ \A i \in 1 .. n - 1 + 1 : SubSeq(s, 1, n)[i] = s[1 + i - 1]
    BY <1>1, <1>3, SubSeqProperties
  <1>5. n - 1 + 1 = n /\ \A i \in 1 .. n : 1 + i - 1 = i
    BY <1>1
  <1> QED
    BY <1>1, <1>4, <1>5

(* The pinned ones and the others are typed.                               *)
LEMMA PartsTyped ==
  ASSUME NEW s \in Seq(Observations)
  PROVE  /\ Pinned(s) \in Seq(Kind(TRUE)) /\ Flow(s) \in Seq(Kind(FALSE))
         /\ Pinned(s) \in Seq(Observations) /\ Flow(s) \in Seq(Observations)
  <1>1. Pinned(s) \in Seq(Kind(TRUE)) /\ Flow(s) \in Seq(Kind(FALSE))
    BY OnlyIsKept DEF Pinned, Flow
  <1>2. Kind(TRUE) \subseteq Observations /\ Kind(FALSE) \subseteq Observations
    BY DEF Kind
  <1> QED
    BY <1>1, <1>2, SeqMonotonic

(* The verbatim tail is the newest or fits its budget.                     *)
RecentOf(s, k) ==
    /\ k \in 0 .. Len(Flow(s)) /\ (k = 0 <=> Flow(s) = <<>>)
    /\ Recent(s) = LastN(Flow(s), k)
    /\ k <= 1 \/ TotalTokens(LastN(Flow(s), k)) <= RecentBudget(s)

(* The verbatim tail is the newest, or what fits the budget with it.       *)
LEMMA RecentIsATail ==
  ASSUME NEW s \in Seq(Observations)
  PROVE  \E k : RecentOf(s, k)
  <1> DEFINE l == Len(Flow(s))
             fits == {n \in 1 .. l : n = 1 \/ TotalTokens(LastN(Flow(s), n)) <= RecentBudget(s)}
             k == Max(fits \cup {0})
  <1>1. l \in Nat /\ (l = 0 <=> Flow(s) = <<>>)
    BY PartsTyped, LenProperties, EmptySeq
  <1>2. Recent(s) = LastN(Flow(s), k)
    BY DEF Recent
  <1>3. fits \cup {0} \subseteq 0 .. l /\ fits \cup {0} # {}
    BY <1>1
  <1>4. k \in fits \cup {0} /\ \A y \in fits \cup {0} : y <= k
    <2> HIDE DEF fits, l
    <2> QED
      BY <1>1, <1>3, LargestUpTo
  <1>5. l # 0 => 1 \in fits
    BY <1>1
  <1>6. k \in 0 .. l /\ (k = 0 <=> l = 0)
        /\ (k <= 1 \/ TotalTokens(LastN(Flow(s), k)) <= RecentBudget(s))
    <2>1. k \in 0 .. l
      BY <1>3, <1>4
    <2>2. k \in fits => k = 1 \/ TotalTokens(LastN(Flow(s), k)) <= RecentBudget(s)
      OBVIOUS
    <2> HIDE DEF k
    <2> QED
      BY <1>1, <1>4, <1>5, <2>1, <2>2
  <1> HIDE DEF k
  <1> QED
    BY <1>1, <1>2, <1>6, Zenon DEF RecentOf

(* A summary costs no more than its cap.                                   *)
LEMMA SummaryTyped ==
  ASSUME NEW h \in Seq(Observations), Len(h) # 0
  PROVE  /\ Summary(h) \in Kind(FALSE) /\ Summary(h).number = 0
         /\ Summary(h).tokens <= SummaryTokenCap
  <1> DEFINE n == Len(h)
             summaries == Cardinality({i \in DOMAIN h : h[i].number = 0})
             ids == SummaryIdLength * summaries + IdLength * (n - summaries)
             chars == 36 + Digits(n) + ids + 2 * (n - 1)
  <1>1. n \in Nat \ {0} /\ DOMAIN h = 1 .. n
    BY LenProperties
  <1>2. Digits(n) \in Nat
    <2>1. IsFiniteSet(0 .. n)
      BY <1>1, FS_Interval
    <2>2. IsFiniteSet({d \in 0 .. n : 10^d <= n})
      BY <2>1, FS_Subset
    <2> QED
      BY <2>2, FS_CardinalityType DEF Digits
  <1>3. summaries \in Nat /\ summaries <= n
    <2>1. IsFiniteSet(1 .. n) /\ Cardinality(1 .. n) = n
      BY <1>1, FS_Interval
    <2>2. IsFiniteSet({i \in 1 .. n : h[i].number = 0})
          /\ Cardinality({i \in 1 .. n : h[i].number = 0}) <= Cardinality(1 .. n)
      BY <2>1, FS_Subset
    <2> QED
      BY <1>1, <2>1, <2>2, FS_CardinalityType
  <1> HIDE DEF summaries, n
  <1>4. ids \in Nat
    <2>1. n - summaries \in Nat /\ IdLength \in Nat
      BY <1>1, <1>3, CostsAssumption
    <2>2. IdLength * (n - summaries) \in Nat
      BY <2>1
    <2> QED
      BY <1>3, <2>2 DEF SummaryIdLength
  <1> HIDE DEF ids
  <1>5. chars \in Nat
    BY <1>1, <1>2, <1>4
  <1> DEFINE cost == (chars + 3) \div 4
  <1>6. cost \in Nat
    <2> HIDE DEF chars
    <2> QED
      BY <1>5
  <1>7. Summary(h) = [number |-> 0, tokens |-> Min({SummaryTokenCap, cost}), pinned |-> FALSE]
    BY DEF Summary, n, summaries, ids
  <1> HIDE DEF cost
  <1>8. Min({SummaryTokenCap, cost}) \in Nat /\ Min({SummaryTokenCap, cost}) <= SummaryTokenCap
    <2>1. SummaryTokenCap \in Nat /\ SummaryTokenCap \in Int /\ cost \in Int
      BY <1>6 DEF SummaryTokenCap
    <2>2. Min({SummaryTokenCap, cost}) = IF SummaryTokenCap <= cost THEN SummaryTokenCap ELSE cost
      BY <2>1, OfTwo
    <2> QED
      BY <1>6, <2>1, <2>2
  <1> QED
    BY <1>7, <1>8 DEF Kind, Observations

-----------------------------------------------------------------------------
(* A compaction as a whole.                                                *)

(* Between the pinned ones and the tail: stubs of the observations next to *)
(* the tail, which fit the window unless there are none, or one summary of *)
(* something.                                                              *)
Stubs(s, k, middle) ==
    LET flow == Flow(s) IN
    /\ Len(middle) <= Len(flow) - k
    /\ \A i \in 1 .. Len(middle) :
         middle[i].number = flow[Len(flow) - k - Len(middle) + i].number
    /\ \/ middle = <<>>
       \/ TotalTokens(Pinned(s)) + TotalTokens(middle) + TotalTokens(LastN(flow, k))
            <= WorkingWindow

Gist(s, k, middle) ==
    /\ k < Len(Flow(s))
    /\ \E o \in Kind(FALSE) :
         middle = <<o>> /\ o.number = 0 /\ o.tokens <= SummaryTokenCap

Shape(s, k, middle) ==
    /\ RecentOf(s, k) /\ middle \in Seq(Kind(FALSE))
    /\ Compact(s).observations = Pinned(s) \o middle \o LastN(Flow(s), k)
    /\ Stubs(s, k, middle) \/ Gist(s, k, middle)

(* A compaction leaves what fits the window as it is, or the pinned ones,  *)
(* stubs or a summary, and the verbatim tail.                              *)
LEMMA CompactShape ==
  ASSUME NEW s \in Seq(Observations)
  PROVE  \/ TotalTokens(s) <= WorkingWindow /\ Compact(s).observations = s
         \/ \E k, middle : Shape(s, k, middle)
  <1>1. CASE TotalTokens(s) <= WorkingWindow
    BY <1>1 DEF Compact, Compacted
  <1>2. CASE ~(TotalTokens(s) <= WorkingWindow)
    <2>1. PICK k : RecentOf(s, k)
      BY RecentIsATail
    <2> DEFINE pinned == Pinned(s)
               recent == Recent(s)
               flow == Flow(s)
               history == SubSeq(flow, 1, Len(flow) - Len(recent))
               masked == [i \in DOMAIN history |-> Mask(history[i])]
               fixed == TotalTokens(pinned) + TotalTokens(recent)
               room == Max({0, WorkingWindow - fixed})
               keep == Min({Len(masked), room \div MaskTokens})
               drop == Len(masked) - keep
    <2>2. Compact(s).observations =
            IF fixed + TotalTokens(masked) <= WorkingWindow THEN pinned \o masked \o recent
            ELSE IF 2 * drop <= Len(masked) THEN pinned \o Pruned(masked, keep) \o recent
            ELSE pinned \o <<Summary(history)>> \o recent
      BY <1>2 DEF Compact, Compacted
    <2>3. /\ pinned \in Seq(Observations) /\ flow \in Seq(Kind(FALSE)) /\ Len(flow) \in Nat
          /\ flow \in Seq(Observations) /\ k \in 0 .. Len(flow) /\ recent = LastN(flow, k)
      BY <2>1, PartsTyped, LenProperties DEF RecentOf
    <2>4. recent \in Seq(Observations) /\ Len(recent) = k
      BY <2>3, Tails
    <2> DEFINE m == Len(flow) - k
    <2>5. /\ history \in Seq(Kind(FALSE)) /\ Len(history) = m /\ m \in Nat
          /\ \A i \in 1 .. m : history[i] = flow[i]
          /\ DOMAIN history = 1 .. m
      <3>1. m \in 0 .. Len(flow) /\ m \in Nat
        BY <2>3
      <3>2. history = SubSeq(flow, 1, m)
        BY <2>4
      <3> HIDE DEF m, history
      <3>3. /\ history \in Seq(Kind(FALSE)) /\ Len(history) = m
            /\ \A i \in 1 .. m : history[i] = flow[i]
        <4>1. flow \in Seq(Kind(FALSE))
          BY <2>3
        <4> HIDE DEF flow
        <4> QED
          BY <3>1, <3>2, <4>1, Heads
      <3> QED
        BY <3>1, <3>3, LenProperties
    <2>6. /\ masked \in Seq(Kind(FALSE)) /\ Len(masked) = m
          /\ \A i \in 1 .. m : masked[i].number = flow[i].number /\ masked[i].tokens = MaskTokens
      <3> HIDE DEF history, m
      <3>1. \A i \in 1 .. m : /\ Mask(history[i]) \in Kind(FALSE)
                              /\ Mask(history[i]).number = flow[i].number
                              /\ Mask(history[i]).tokens = MaskTokens
        <4> TAKE i \in 1 .. m
        <4>1. history[i] \in Kind(FALSE) /\ history[i] = flow[i]
          BY <2>5, ElementOfSeq
        <4> QED
          BY <4>1 DEF Mask, Kind, Observations, MaskTokens
      <3>2. masked \in [1 .. m -> Kind(FALSE)]
        BY <2>5, <3>1
      <3>3. masked \in Seq(Kind(FALSE)) /\ Len(masked) = m
        <4> HIDE DEF masked
        <4> QED
          BY <2>5, <3>2, FunctionsAreSequences
      <3> QED
        BY <2>5, <3>1, <3>3
    <2>7. history \in Seq(Observations) /\ masked \in Seq(Observations)
      <3>1. Kind(FALSE) \subseteq Observations
        BY DEF Kind
      <3> HIDE DEF history, masked
      <3> QED
        BY <2>5, <2>6, <3>1, SeqMonotonic
    <2> HIDE DEF history, masked
    <2>8. fixed \in Nat /\ WorkingWindow \in Nat
          /\ TotalTokens(pinned) \in Nat /\ TotalTokens(recent) \in Nat
      BY <2>3, <2>4, TotalIsSummed, WindowAssumption
    <2> HIDE DEF fixed
    <2>9. room \in Nat /\ (room # 0 => room = WorkingWindow - fixed)
      <3>1. 0 \in Int /\ WorkingWindow - fixed \in Int
        BY <2>8
      <3>2. room = IF 0 >= WorkingWindow - fixed THEN 0 ELSE WorkingWindow - fixed
        BY <3>1, OfTwo
      <3> HIDE DEF room
      <3> QED
        BY <2>8, <3>2
    <2> HIDE DEF room
    <2>10. keep \in 0 .. m /\ MaskTokens * keep <= room
      <3>1. room \div MaskTokens \in Nat /\ MaskTokens * (room \div MaskTokens) <= room
        BY <2>9 DEF MaskTokens
      <3>2. keep = IF m <= room \div MaskTokens THEN m ELSE room \div MaskTokens
        <4>1. m \in Int /\ room \div MaskTokens \in Int /\ Len(masked) = m
          BY <2>5, <2>6, <3>1
        <4> QED
          BY <4>1, OfTwo
      <3> HIDE DEF keep, m
      <3> QED
        BY <2>5, <2>9, <3>1, <3>2 DEF MaskTokens
    <2> HIDE DEF keep
    <2>11. CASE fixed + TotalTokens(masked) <= WorkingWindow
      <3>1. Compact(s).observations = pinned \o masked \o recent
        BY <2>2, <2>11
      <3>2. TotalTokens(pinned) + TotalTokens(masked) + TotalTokens(recent) <= WorkingWindow
        BY <2>7, <2>8, <2>11, TotalIsSummed DEF fixed
      <3>3. \A i \in 1 .. Len(masked) :
              masked[i].number = flow[Len(flow) - k - Len(masked) + i].number
        BY <2>3, <2>5, <2>6
      <3>4. Stubs(s, k, masked)
        BY <2>3, <2>6, <3>2, <3>3 DEF Stubs
      <3>5. Shape(s, k, masked)
        BY <2>1, <2>3, <2>6, <3>1, <3>4 DEF Shape
      <3> QED
        BY <3>5
    <2>12. CASE ~(fixed + TotalTokens(masked) <= WorkingWindow) /\ 2 * drop <= Len(masked)
      <3> DEFINE x == LastN(masked, keep)
      <3>1. Compact(s).observations = pinned \o x \o recent
        BY <2>2, <2>12 DEF Pruned
      <3>2. /\ x \in Seq(Kind(FALSE)) /\ Len(x) = keep
            /\ \A i \in 1 .. keep : x[i] = masked[m - keep + i]
        <4>1. m = Len(masked) /\ keep \in 0 .. Len(masked) /\ masked \in Seq(Kind(FALSE))
          BY <2>6, <2>10
        <4>2. /\ LastN(masked, keep) \in Seq(Kind(FALSE)) /\ Len(LastN(masked, keep)) = keep
              /\ \A i \in 1 .. keep : LastN(masked, keep)[i] = masked[Len(masked) - keep + i]
          BY <4>1, Tails
        <4> HIDE DEF m
        <4> QED
          BY <4>1, <4>2
      <3> HIDE DEF x
      <3>3. \A i \in 1 .. keep : x[i].tokens = MaskTokens
                                 /\ x[i].number = flow[m - keep + i].number
        <4> TAKE i \in 1 .. keep
        <4>1. m - keep + i \in 1 .. m
          BY <2>5, <2>10
        <4> QED
          BY <2>6, <3>2, <4>1
      <3>4. x \in Seq(Observations)
        <4>1. Kind(FALSE) \subseteq Observations
          BY DEF Kind
        <4> QED
          BY <3>2, <4>1, SeqMonotonic
      <3>5. TotalTokens(x) = MaskTokens * keep
        BY <3>2, <3>3, <3>4, TotalOfStubs
      <3>6. x = <<>> \/ TotalTokens(pinned) + TotalTokens(x) + TotalTokens(recent) <= WorkingWindow
        <4>1. CASE keep = 0
          BY <3>2, <4>1, EmptySeq
        <4>2. CASE keep # 0
          <5>1. room # 0 /\ MaskTokens * keep <= WorkingWindow - fixed /\ MaskTokens * keep \in Nat
            BY <2>9, <2>10, <4>2 DEF MaskTokens
          <5> QED
            BY <2>8, <3>5, <5>1 DEF fixed
        <4> QED
          BY <4>1, <4>2
      <3>7. Stubs(s, k, x)
        <4>1. Len(x) <= Len(flow) - k
          BY <2>10, <3>2
        <4>2. \A i \in 1 .. Len(x) : x[i].number = flow[Len(flow) - k - Len(x) + i].number
          BY <3>2, <3>3
        <4> QED
          BY <2>3, <3>6, <4>1, <4>2 DEF Stubs
      <3>8. Shape(s, k, x)
        BY <2>1, <2>3, <3>1, <3>2, <3>7 DEF Shape
      <3> QED
        BY <3>8
    <2>13. CASE ~(fixed + TotalTokens(masked) <= WorkingWindow) /\ ~(2 * drop <= Len(masked))
      <3>1. Compact(s).observations = pinned \o <<Summary(history)>> \o recent
        BY <2>2, <2>13
      <3>2. m # 0
        BY <2>5, <2>6, <2>10, <2>13
      <3>3. /\ Summary(history) \in Kind(FALSE) /\ Summary(history).number = 0
            /\ Summary(history).tokens <= SummaryTokenCap
        BY <2>5, <2>7, <3>2, SummaryTyped
      <3>4. Gist(s, k, <<Summary(history)>>)
        <4>1. k < Len(Flow(s))
          BY <2>3, <2>5, <3>2
        <4> QED
          BY <3>3, <4>1, Zenon DEF Gist
      <3>5. <<Summary(history)>> \in Seq(Kind(FALSE))
        BY <3>3, Singleton
      <3>6. Shape(s, k, <<Summary(history)>>)
        BY <2>1, <2>3, <3>1, <3>4, <3>5 DEF Shape
      <3> QED
        BY <3>6
    <2> QED
      BY <2>11, <2>12, <2>13
  <1> QED
    BY <1>1, <1>2

(* The parts of what a compaction leaves, and their costs.                 *)
LEMMA CompactedParts ==
  ASSUME NEW s \in Seq(Observations), NEW k, NEW middle, Shape(s, k, middle)
  PROVE  LET c == Compact(s).observations
             tail == LastN(Flow(s), k)
         IN  /\ c \in Seq(Observations) /\ Pinned(c) = Pinned(s) /\ Flow(c) = middle \o tail
             /\ tail \in Seq(Observations) /\ middle \in Seq(Observations)
             /\ TotalTokens(c) = TotalTokens(Pinned(s)) + TotalTokens(middle) + TotalTokens(tail)
  <1> DEFINE c == Compact(s).observations
             tail == LastN(Flow(s), k)
             p == Pinned(s)
  <1>1. /\ c = p \o middle \o tail /\ middle \in Seq(Kind(FALSE)) /\ k \in 0 .. Len(Flow(s))
        /\ p \in Seq(Kind(TRUE)) /\ Flow(s) \in Seq(Kind(FALSE))
    BY PartsTyped DEF Shape, RecentOf
  <1>2. tail \in Seq(Kind(FALSE))
    BY <1>1, Tails
  <1> HIDE DEF c, tail, p
  <1>3. p \in Seq(Observations) /\ middle \in Seq(Observations) /\ tail \in Seq(Observations)
    <2>1. Kind(TRUE) \subseteq Observations /\ Kind(FALSE) \subseteq Observations
      BY DEF Kind
    <2> QED
      BY <1>1, <1>2, <2>1, SeqMonotonic
  <1>4. p \o middle \in Seq(Observations) /\ c \in Seq(Observations)
    BY <1>1, <1>3, ConcatProperties
  <1>5. \A q : Only(q, c) = (Only(q, p) \o Only(q, middle)) \o Only(q, tail)
    <2> TAKE q
    <2>1. Only(q, p \o middle) = Only(q, p) \o Only(q, middle)
      BY <1>3, OnlyOfBoth
    <2>2. Only(q, (p \o middle) \o tail) = Only(q, p \o middle) \o Only(q, tail)
      BY <1>3, <1>4, OnlyOfBoth
    <2> QED
      BY <1>1, <2>1, <2>2
  <1>6. /\ Only(TRUE, p) = p /\ Only(FALSE, p) = <<>>
        /\ Only(TRUE, middle) = <<>> /\ Only(FALSE, middle) = middle
        /\ Only(TRUE, tail) = <<>> /\ Only(FALSE, tail) = tail
    <2>1. ~TRUE = FALSE /\ ~FALSE = TRUE
      OBVIOUS
    <2> QED
      BY <1>1, <1>2, <2>1, OnlyOfAKind
  <1>7. Only(TRUE, c) = p /\ Only(FALSE, c) = middle \o tail
    BY <1>3, <1>5, <1>6, ConcatEmptySeq
  <1>8. TotalTokens(c) = TotalTokens(p) + TotalTokens(middle) + TotalTokens(tail)
    BY <1>1, <1>3, <1>4, TotalOfBoth
  <1> QED
    BY <1>3, <1>4, <1>7, <1>8 DEF c, tail, p, Pinned, Flow

(* The newest of what is not pinned.                                       *)
LEMMA NewestIsTheLast ==
  ASSUME NEW s \in Seq(Observations)
  PROVE  /\ Flow(s) = <<>> => Newest(s) = <<>>
         /\ Flow(s) # <<>> => Newest(s) = <<Flow(s)[Len(Flow(s))]>>
  <1> DEFINE f == Flow(s)
  <1>1. f \in Seq(Observations) /\ Len(f) \in Nat /\ (f = <<>> <=> Len(f) = 0)
    BY PartsTyped, LenProperties, EmptySeq
  <1>2. Min({1, Len(f)}) = IF 1 <= Len(f) THEN 1 ELSE Len(f)
    <2>1. 1 \in Int /\ Len(f) \in Int
      BY <1>1
    <2> HIDE DEF f
    <2> QED
      BY <2>1, OfTwo
  <1>3. Newest(s) = LastN(f, IF 1 <= Len(f) THEN 1 ELSE Len(f))
    BY <1>2 DEF Newest
  <1> HIDE DEF f
  <1>4. CASE f = <<>>
    <2>1. Newest(s) = LastN(f, 0) /\ 0 \in 0 .. Len(f)
      BY <1>1, <1>3, <1>4
    <2>2. Newest(s) \in Seq(Observations) /\ Len(Newest(s)) = 0
      BY <1>1, <2>1, Tails
    <2>3. Newest(s) = <<>>
      BY <2>2, EmptySeq
    <2> QED
      BY <1>4, <2>3 DEF f
  <1>5. CASE f # <<>>
    <2>1. Newest(s) = LastN(f, 1) /\ 1 \in 0 .. Len(f) /\ Len(f) \in 1 .. Len(f)
      BY <1>1, <1>3, <1>5
    <2>2. /\ LastN(f, 1) \in Seq(Observations) /\ Len(LastN(f, 1)) = 1
          /\ \A i \in 1 .. 1 : LastN(f, 1)[i] = f[Len(f) - 1 + i]
      BY <1>1, <2>1, Tails
    <2>3. LastN(f, 1)[1] = f[Len(f)]
      BY <1>1, <2>2
    <2>4. <<f[Len(f)]>> \in Seq(Observations)
      BY <1>1, <2>1, ElementOfSeq, Singleton
    <2>5. LastN(f, 1) = <<f[Len(f)]>>
      BY <2>2, <2>3, <2>4, SeqEqual
    <2> QED
      BY <1>5, <2>1, <2>5 DEF f
  <1> QED
    BY <1>4, <1>5

(* What is newest is recorded like any other.                              *)
LEMMA NewestTyped ==
  ASSUME NEW s \in Seq(Observations)
  PROVE  Newest(s) \in Seq(Observations)
  <1> DEFINE f == Flow(s)
  <1>1. f \in Seq(Observations) /\ Len(f) \in Nat /\ (f = <<>> <=> Len(f) = 0)
    BY PartsTyped, LenProperties, EmptySeq
  <1>2. CASE f = <<>>
    BY <1>2, NewestIsTheLast, EmptySeq
  <1>3. CASE f # <<>>
    <2>1. Len(f) \in 1 .. Len(f)
      BY <1>1, <1>3
    <2>2. f[Len(f)] \in Observations
      BY <1>1, <2>1, ElementOfSeq
    <2> QED
      BY <1>3, <2>2, NewestIsTheLast, Singleton
  <1> QED
    BY <1>2, <1>3

(* A compaction keeps the newest.                                          *)
LEMMA CompactKeepsNewest ==
  ASSUME NEW s \in Seq(Observations), NEW k, NEW middle, Shape(s, k, middle)
  PROVE  Newest(Compact(s).observations) = Newest(s)
  <1> DEFINE c == Compact(s).observations
             f == Flow(s)
             tail == LastN(f, k)
  <1>1. c \in Seq(Observations) /\ Flow(c) = middle \o tail
        /\ tail \in Seq(Observations) /\ middle \in Seq(Observations)
    BY CompactedParts
  <1>2. k \in 0 .. Len(f) /\ (k = 0 <=> f = <<>>) /\ f \in Seq(Observations) /\ Len(f) \in Nat
    BY PartsTyped, LenProperties DEF Shape, RecentOf
  <1> HIDE DEF c, f
  <1>3. CASE f = <<>>
    <2>1. k = 0 /\ Len(f) = 0
      BY <1>2, <1>3
    <2>2. Len(middle) <= 0
      BY <2>1 DEF Shape, Stubs, Gist, f
    <2>3. middle = <<>> /\ tail = <<>>
      <3>1. Len(tail) = 0
        BY <1>2, <2>1, Tails
      <3> QED
        BY <1>1, <2>2, <3>1, EmptySeq
    <2>4. Flow(c) = <<>>
      BY <1>1, <2>3
    <2> QED
      BY <1>1, <1>3, <2>4, NewestIsTheLast DEF c, f
  <1>4. CASE f # <<>>
    <2>1. k \in 1 .. Len(f) /\ k \in Nat
      BY <1>2, <1>4
    <2>2. Len(tail) = k /\ tail[k] = f[Len(f)]
      <3>1. Len(tail) = k /\ \A i \in 1 .. k : tail[i] = f[Len(f) - k + i]
        BY <1>2, Tails
      <3>2. k \in 1 .. k /\ Len(f) - k + k = Len(f)
        BY <1>2, <2>1
      <3> QED
        BY <3>1, <3>2
    <2>3. Len(Flow(c)) = Len(middle) + k /\ Flow(c)[Len(middle) + k] = tail[k]
      <3>1. Len(middle) \in Nat
        BY <1>1, LenProperties
      <3>2. Len(middle) + k \in 1 .. Len(middle) + Len(tail) /\ ~(Len(middle) + k <= Len(middle))
            /\ (Len(middle) + k) - Len(middle) = k
        BY <2>1, <2>2, <3>1
      <3> HIDE DEF tail
      <3>3. /\ Len(middle \o tail) = Len(middle) + Len(tail)
            /\ \A i \in 1 .. Len(middle) + Len(tail) : (middle \o tail)[i] =
                 IF i <= Len(middle) THEN middle[i] ELSE tail[i - Len(middle)]
        BY <1>1, ConcatProperties
      <3> QED
        BY <1>1, <2>2, <3>2, <3>3
    <2>4. Flow(c) # <<>>
      <3>1. Len(Flow(c)) # 0
        BY <1>1, <2>1, <2>3, LenProperties
      <3> QED
        BY <3>1, EmptySeq
    <2>5. Newest(c) = <<Flow(c)[Len(Flow(c))]>> /\ Newest(s) = <<f[Len(f)]>>
      BY <1>1, <1>4, <2>4, NewestIsTheLast DEF f
    <2> QED
      BY <2>2, <2>3, <2>5 DEF c
  <1> QED
    BY <1>3, <1>4

(* ContextBounded, of any observations.                                    *)
Bounded(o) ==
    TotalTokens(o) <=
        Max({WorkingWindow,
             TotalTokens(Pinned(o)) + TotalTokens(Newest(o)) + SummaryTokenCap})

(* No more than the window, or what must stay and one summary.             *)
LEMMA CompactIsBounded ==
  ASSUME NEW s \in Seq(Observations), NEW k, NEW middle, Shape(s, k, middle)
  PROVE  Bounded(Compact(s).observations)
  <1> DEFINE c == Compact(s).observations
             f == Flow(s)
             tail == LastN(f, k)
             P == TotalTokens(Pinned(s))
             M == TotalTokens(middle)
             R == TotalTokens(tail)
             N == TotalTokens(Newest(s))
             W == WorkingWindow
  <1>1. /\ c \in Seq(Observations) /\ Pinned(c) = Pinned(s)
        /\ tail \in Seq(Observations) /\ middle \in Seq(Observations)
        /\ TotalTokens(c) = P + M + R
    BY CompactedParts
  <1>2. k \in 0 .. Len(f) /\ (k = 0 <=> f = <<>>) /\ f \in Seq(Observations) /\ Len(f) \in Nat
        /\ (k <= 1 \/ R <= RecentBudget(s))
    BY PartsTyped, LenProperties DEF Shape, RecentOf
  <1>3. Newest(c) = Newest(s)
    BY CompactKeepsNewest
  <1>4. P \in Nat /\ M \in Nat /\ R \in Nat /\ W \in Nat
    BY <1>1, PartsTyped, TotalIsSummed, WindowAssumption
  <1>5. N \in Nat
    <2>1. Newest(s) \in Seq(Observations)
      BY NewestTyped
    <2> QED
      BY <2>1, TotalIsSummed
  <1>6. k <= 1 => R <= N
    <2>1. CASE k = 0
      <3>1. Len(tail) = 0
        BY <1>2, <2>1, Tails
      <3>2. tail = <<>>
        BY <1>1, <3>1, EmptySeq
      <3> QED
        BY <1>5, <3>2, SmallTotals
    <2>2. CASE k = 1
      <3>1. f # <<>> /\ 1 <= Len(f) /\ tail = LastN(f, 1)
        BY <1>2, <2>2
      <3>2. Newest(s) = LastN(f, Min({1, Len(f)})) /\ Min({1, Len(f)}) = 1
        <4>1. 1 \in Int /\ Len(f) \in Int
          BY <1>2
        <4>2. Min({1, Len(f)}) = IF 1 <= Len(f) THEN 1 ELSE Len(f)
          <5> HIDE DEF f
          <5> QED
            BY <4>1, OfTwo
        <4> QED
          BY <3>1, <4>2 DEF Newest
      <3> QED
        BY <1>4, <3>1, <3>2
    <2> QED
      BY <1>2, <2>1, <2>2
  <1>7. RecentBudget(s) = IF 0 >= W - P - SummaryTokenCap THEN 0 ELSE W - P - SummaryTokenCap
    <2>1. 0 \in Int /\ W - P - SummaryTokenCap \in Int
      BY <1>4 DEF SummaryTokenCap
    <2> QED
      BY <2>1, OfTwo DEF RecentBudget
  <1>8. P + M + R <= W \/ M <= SummaryTokenCap
    <2>1. CASE Stubs(s, k, middle) /\ middle # <<>>
      BY <2>1 DEF Stubs
    <2>2. CASE Stubs(s, k, middle) /\ middle = <<>>
      BY <2>2, SmallTotals DEF SummaryTokenCap
    <2>3. CASE Gist(s, k, middle)
      <3>1. PICK o \in Kind(FALSE) : middle = <<o>> /\ o.tokens <= SummaryTokenCap
        BY <2>3 DEF Gist
      <3>2. o \in Observations
        BY DEF Kind
      <3> QED
        BY <3>1, <3>2, SmallTotals
    <2> QED
      BY <2>1, <2>2, <2>3 DEF Shape
  <1> HIDE DEF P, M, R, N, W, c, f, tail
  <1>9. P + M + R <= W \/ P + M + R <= P + N + SummaryTokenCap
    BY <1>2, <1>4, <1>5, <1>6, <1>7, <1>8 DEF SummaryTokenCap
  <1>10. Max({W, P + N + SummaryTokenCap}) =
           IF W >= P + N + SummaryTokenCap THEN W ELSE P + N + SummaryTokenCap
    <2>1. W \in Int /\ P + N + SummaryTokenCap \in Int
      BY <1>4, <1>5 DEF SummaryTokenCap
    <2> QED
      BY <2>1, OfTwo
  <1>11. P + M + R <= Max({W, P + N + SummaryTokenCap})
    BY <1>4, <1>5, <1>9, <1>10 DEF SummaryTokenCap
  <1> QED
    BY <1>1, <1>3, <1>11 DEF Bounded, P, N, W, c

-----------------------------------------------------------------------------
(* What survives.                                                          *)

(* f ends with the last of r, behind a summary if z is one.                *)
Survives(f, r, z) ==
    /\ z \in {0, 1} /\ z <= Len(f) /\ Len(f) - z <= Len(r)
    /\ z = 1 => f[1].number = 0
    /\ \A i \in z + 1 .. Len(f) : f[i].number = r[Len(r) - Len(f) + i].number

(* What is appended to both keeps the end of the one the end of the other. *)
LEMMA AppendSurvives ==
  ASSUME NEW f \in Seq(Observations), NEW r \in Seq(Observations), NEW b \in Seq(Observations),
         NEW z, Survives(f, r, z)
  PROVE  Survives(f \o b, r \o b, z)
  <1> DEFINE x == f \o b
             y == r \o b
             l == Len(f)
             m == Len(r)
             n == Len(b)
  <1>1. l \in Nat /\ m \in Nat /\ n \in Nat
    BY LenProperties
  <1>2. /\ Len(x) = l + n
        /\ \A i \in 1 .. l + n : x[i] = IF i <= l THEN f[i] ELSE b[i - l]
    BY ConcatProperties
  <1>3. /\ Len(y) = m + n
        /\ \A i \in 1 .. m + n : y[i] = IF i <= m THEN r[i] ELSE b[i - m]
    BY ConcatProperties
  <1>4. /\ z \in {0, 1} /\ z <= l /\ l - z <= m
        /\ z = 1 => f[1].number = 0
        /\ \A i \in z + 1 .. l : f[i].number = r[m - l + i].number
    BY DEF Survives
  <1> HIDE DEF x, y, l, m, n
  <1>5. z = 1 => x[1].number = 0
    BY <1>1, <1>2, <1>4
  <1>6. ASSUME NEW i \in z + 1 .. l + n
        PROVE  x[i].number = y[(m + n) - (l + n) + i].number
    <2>1. (m + n) - (l + n) + i = m - l + i /\ i \in 1 .. l + n
      BY <1>1, <1>4
    <2>2. CASE i <= l
      <3>1. i \in z + 1 .. l /\ m - l + i \in 1 .. m + n /\ m - l + i <= m
        BY <1>1, <1>4, <2>2
      <3>2. x[i] = f[i] /\ y[m - l + i] = r[m - l + i]
        BY <1>2, <1>3, <2>1, <2>2, <3>1
      <3> QED
        BY <1>4, <2>1, <3>1, <3>2
    <2>3. CASE ~(i <= l)
      <3>1. m - l + i \in 1 .. m + n /\ ~(m - l + i <= m) /\ (m - l + i) - m = i - l
        BY <1>1, <1>4, <2>3
      <3>2. x[i] = b[i - l] /\ y[m - l + i] = b[i - l]
        BY <1>2, <1>3, <2>1, <2>3, <3>1
      <3> QED
        BY <2>1, <3>2
    <2> QED
      BY <2>2, <2>3
  <1>7. z <= l + n /\ (l + n) - z <= m + n /\ Len(x) = l + n /\ Len(y) = m + n
    BY <1>1, <1>2, <1>3, <1>4
  <1>8. Survives(x, y, z)
    BY <1>4, <1>5, <1>6, <1>7 DEF Survives
  <1> QED
    BY <1>8 DEF x, y

(* Of what survived so far a compaction keeps the end, behind one summary: *)
(* of an older summary only the newer one knows.                           *)
LEMMA CompactSurvives ==
  ASSUME NEW s \in Seq(Observations), NEW k, NEW middle, Shape(s, k, middle),
         NEW r \in Seq(Observations), NEW z, Survives(Flow(s), r, z)
  PROVE  \E y : Survives(Flow(Compact(s).observations), r, y)
  <1> DEFINE c == Compact(s).observations
             f == Flow(s)
             tail == LastN(f, k)
             g == Flow(c)
             j == Len(middle)
             l == Len(f)
             m == Len(r)
  <1>1. g = middle \o tail /\ tail \in Seq(Observations) /\ middle \in Seq(Observations)
    BY CompactedParts
  <1>2. k \in 0 .. l /\ f \in Seq(Observations) /\ l \in Nat /\ j \in Nat /\ m \in Nat
    BY <1>1, PartsTyped, LenProperties DEF Shape, RecentOf
  <1>3. Len(tail) = k /\ \A i \in 1 .. k : tail[i] = f[l - k + i]
    BY <1>2, Tails
  <1>4. /\ z \in {0, 1} /\ z <= l /\ l - z <= m
        /\ z = 1 => f[1].number = 0
        /\ \A i \in z + 1 .. l : f[i].number = r[m - l + i].number
    BY DEF Survives
  <1>5. /\ Len(g) = j + k
        /\ \A i \in 1 .. j + k : g[i] = IF i <= j THEN middle[i] ELSE tail[i - j]
    <2> HIDE DEF tail, c, f, g
    <2>1. /\ Len(middle \o tail) = Len(middle) + Len(tail)
          /\ \A i \in 1 .. Len(middle) + Len(tail) : (middle \o tail)[i] =
               IF i <= Len(middle) THEN middle[i] ELSE tail[i - Len(middle)]
      BY <1>1, ConcatProperties
    <2> QED
      BY <1>1, <1>3, <2>1 DEF j
  <1> HIDE DEF c, tail, g, l, m, j, f
  <1>6. CASE Stubs(s, k, middle)
    <2> DEFINE n == j + k
    <2>1. n \in 0 .. l /\ n \in Nat
      BY <1>2, <1>6 DEF Stubs, l, j, f
    <2>2. ASSUME NEW i \in 1 .. n PROVE g[i].number = f[l - n + i].number
      <3>1. CASE i <= j
        <4>1. i \in 1 .. j /\ l - n + i = l - k - j + i
          BY <1>2, <2>1, <3>1
        <4>2. middle[i].number = f[l - k - j + i].number
          BY <1>6, <4>1 DEF Stubs, l, j, f
        <4> QED
          BY <1>5, <3>1, <4>1, <4>2
      <3>2. CASE ~(i <= j)
        <4>1. i - j \in 1 .. k /\ l - k + (i - j) = l - n + i
          BY <1>2, <2>1, <3>2
        <4> QED
          BY <1>3, <1>5, <3>2, <4>1
      <3> QED
        BY <3>1, <3>2
    <2> HIDE DEF n
    <2>3. CASE n = l
      <3>1. z = 1 => g[1].number = 0
        <4> SUFFICES ASSUME z = 1 PROVE g[1].number = 0
          OBVIOUS
        <4>1. 1 \in 1 .. n /\ l - n + 1 = 1
          BY <1>2, <1>4, <2>1, <2>3
        <4> QED
          BY <1>4, <2>2, <4>1
      <3>2. ASSUME NEW i \in z + 1 .. n PROVE g[i].number = r[m - n + i].number
        <4>1. i \in 1 .. n /\ l - n + i = i /\ i \in z + 1 .. l /\ m - n + i = m - l + i
          BY <1>2, <1>4, <2>1, <2>3
        <4> QED
          BY <1>4, <2>2, <4>1
      <3>3. Survives(g, r, z)
        BY <1>4, <1>5, <2>1, <2>3, <3>1, <3>2 DEF Survives, n, m, l
      <3> QED
        BY <3>3 DEF g, c
    <2>4. CASE n # l
      <3>1. ASSUME NEW i \in 0 + 1 .. n PROVE g[i].number = r[m - n + i].number
        <4>1. i \in 1 .. n /\ l - n + i \in z + 1 .. l /\ m - l + (l - n + i) = m - n + i
          BY <1>2, <1>4, <2>1, <2>4
        <4>2. f[l - n + i].number = r[m - l + (l - n + i)].number
          BY <1>4, <4>1
        <4> QED
          BY <2>2, <4>1, <4>2
      <3>2. n - 0 <= m /\ 0 <= n
        BY <1>2, <1>4, <2>1, <2>4
      <3>3. Survives(g, r, 0)
        BY <1>5, <3>1, <3>2 DEF Survives, n, m
      <3> QED
        BY <3>3 DEF g, c
    <2> QED
      BY <2>3, <2>4
  <1>7. CASE Gist(s, k, middle)
    <2>1. k < l /\ j = 1 /\ middle[1].number = 0
      BY <1>7 DEF Gist, l, j, f
    <2>2. g[1].number = 0 /\ Len(g) = 1 + k
      <3>1. 1 \in 1 .. j + k /\ 1 <= j
        BY <1>2, <2>1
      <3> QED
        BY <1>5, <2>1, <3>1
    <2>3. ASSUME NEW i \in 1 + 1 .. 1 + k PROVE g[i].number = r[m - (1 + k) + i].number
      <3>1. i \in 1 .. j + k /\ ~(i <= j) /\ i - j = i - 1 /\ i - 1 \in 1 .. k
        BY <1>2, <2>1
      <3>2. g[i] = f[l - k + (i - 1)]
        BY <1>3, <1>5, <3>1
      <3>3. l - k + (i - 1) \in z + 1 .. l /\ m - l + (l - k + (i - 1)) = m - (1 + k) + i
        BY <1>2, <1>4, <2>1, <3>1
      <3>4. f[l - k + (i - 1)].number = r[m - l + (l - k + (i - 1))].number
        BY <1>4, <3>3
      <3> QED
        BY <3>2, <3>3, <3>4
    <2>4. (1 + k) - 1 <= m /\ 1 <= 1 + k
      BY <1>2, <1>4, <2>1
    <2>5. Survives(g, r, 1)
      BY <2>2, <2>3, <2>4 DEF Survives, m
    <2> QED
      BY <2>5 DEF g, c
  <1> QED
    BY <1>6, <1>7 DEF Shape

(* A filter adds nothing.                                                  *)
LEMMA OnlyOfASet ==
  ASSUME NEW S, S \subseteq Observations, NEW p, NEW s \in Seq(S)
  PROVE  Only(p, s) \in Seq(S)
  <1> DEFINE T == {n \in Nat : \A u \in Seq(S) : Len(u) = n => Only(p, u) \in Seq(S)}
  <1>1. 0 \in T
    <2>1. \A u \in Seq(S) : Len(u) = 0 => u = <<>>
      BY EmptySeq
    <2>2. KeptBy([i \in 0 .. 0 |-> <<>>], p, <<>>)
      BY DEF KeptBy
    <2>3. Kept(p, <<>>, <<>>)
      BY <2>2 DEF Kept
    <2>4. Only(p, <<>>) = <<>>
      BY <2>3, EmptySeq, KeptIsOnly
    <2> QED
      BY <2>1, <2>4, EmptySeq
  <1>2. ASSUME NEW n \in Nat, n \in T
        PROVE  n + 1 \in T
    <2> SUFFICES ASSUME NEW u \in Seq(S), Len(u) = n + 1
                 PROVE  Only(p, u) \in Seq(S)
      OBVIOUS
    <2> DEFINE front == SubSeq(u, 1, n)
               o == u[n + 1]
    <2>1. n \in 0 .. Len(u) /\ n + 1 \in 1 .. Len(u) /\ 1 \in 1 .. Len(u) /\ (n + 1) - 1 = n
      OBVIOUS
    <2>2. front \in Seq(S) /\ Len(front) = n /\ o \in S
      BY <2>1, Heads, ElementOfSeq
    <2>3. u = front \o <<o>>
      <3>1. SubSeq(u, 1, n + 1) = SubSeq(u, 1, n) \o <<u[n + 1]>>
        BY <2>1, SubSeqRecursiveSecond
      <3> QED
        BY <3>1, SubSeqFull
    <2> HIDE DEF front, o
    <2>4. front \in Seq(Observations) /\ o \in Observations /\ <<o>> \in Seq(Observations)
      BY <2>2, SeqMonotonic, Singleton
    <2>5. Only(p, u) = Only(p, front) \o Only(p, <<o>>)
      BY <2>3, <2>4, OnlyOfBoth
    <2>6. Only(p, <<o>>) \in {<<o>>, <<>>}
      <3>1. Only(p, <<o>>) = IF o.pinned = p THEN <<o>> ELSE <<>>
        BY <2>4, KeptOfOne, KeptIsOnly
      <3> QED
        BY <3>1
    <2>7. <<o>> \in Seq(S) /\ <<>> \in Seq(S)
      BY <2>2, Singleton, EmptySeq
    <2>8. Only(p, front) \in Seq(S)
      BY <1>2, <2>2
    <2>9. Only(p, <<o>>) \in Seq(S)
      BY <2>6, <2>7
    <2> QED
      BY <2>5, <2>8, <2>9, ConcatProperties
  <1>3. Nat \subseteq T /\ Len(s) \in Nat
    <2> HIDE DEF T
    <2> QED
      BY <1>1, <1>2, NaturalsAreInductive, LenProperties
  <1> QED
    BY <1>3

-----------------------------------------------------------------------------
(* One step.                                                               *)

(* Appended to two contexts with the same newest observation, a batch      *)
(* leaves them with the same one.                                          *)
LEMMA AppendKeepsNewest ==
  ASSUME NEW c \in Seq(Observations), NEW r \in Seq(Observations),
         NEW b \in Seq(Observations), Newest(c) = Newest(r)
  PROVE  Newest(c \o b) = Newest(r \o b)
  <1>1. ASSUME NEW s \in Seq(Observations)
        PROVE  /\ s \o b \in Seq(Observations)
               /\ Flow(s \o b) = Flow(s) \o Flow(b)
               /\ Flow(s) \in Seq(Observations) /\ Flow(b) \in Seq(Observations)
    BY OnlyOfBoth, PartsTyped, ConcatProperties DEF Flow
  <1>2. CASE Flow(b) = <<>>
    <2>1. ASSUME NEW s \in Seq(Observations) PROVE Newest(s \o b) = Newest(s)
      <3>1. Flow(s \o b) = Flow(s)
        BY <1>1, <1>2, ConcatEmptySeq
      <3> QED
        BY <3>1 DEF Newest
    <2> QED
      BY <2>1
  <1>3. CASE Flow(b) # <<>>
    <2>1. ASSUME NEW s \in Seq(Observations)
          PROVE  Newest(s \o b) = <<Flow(b)[Len(Flow(b))]>>
      <3> DEFINE f == Flow(s)
                 g == Flow(b)
                 l == Len(f)
                 n == Len(g)
      <3>1. f \in Seq(Observations) /\ g \in Seq(Observations) /\ Flow(s \o b) = f \o g
        BY <1>1
      <3> HIDE DEF f, g
      <3>2. l \in Nat /\ n \in Nat /\ n # 0
        BY <1>3, <3>1, LenProperties, EmptySeq DEF g
      <3>3. /\ Len(f \o g) = l + n
            /\ \A i \in 1 .. l + n : (f \o g)[i] = IF i <= l THEN f[i] ELSE g[i - l]
        BY <3>1, ConcatProperties
      <3> HIDE DEF l, n
      <3>4. l + n \in 1 .. l + n /\ ~(l + n <= l) /\ (l + n) - l = n /\ l + n # 0
        BY <3>2
      <3>5. (f \o g)[Len(f \o g)] = g[n] /\ f \o g # <<>>
        <4>1. (f \o g)[l + n] = g[n]
          BY <3>3, <3>4
        <4>2. f \o g # <<>>
          BY <3>1, <3>3, <3>4, ConcatProperties, EmptySeq
        <4> QED
          BY <3>3, <4>1, <4>2
      <3>6. s \o b \in Seq(Observations)
        BY <1>1
      <3>7. Newest(s \o b) = <<Flow(s \o b)[Len(Flow(s \o b))]>>
        BY <3>1, <3>5, <3>6, NewestIsTheLast
      <3> QED
        BY <3>1, <3>5, <3>7 DEF g, n
    <2> QED
      BY <2>1
  <1> QED
    BY <1>2, <1>3

(* What is recorded is numbered from 1.                                    *)
Numbered == {o \in Observations : o.number # 0}

(* What a context promises about all that was recorded.                    *)
Promised(c, r) ==
    /\ Pinned(c) = Pinned(r)
    /\ Newest(c) = Newest(r)
    /\ Bounded(c)
    /\ \E z \in {0, 1} : Survives(Flow(c), Flow(r), z)

(* A step, appended and compacted, keeps the promise.                      *)
LEMMA StepKeepsPromise ==
  ASSUME NEW c \in Seq(Observations), NEW r \in Seq(Observations),
         NEW b \in Seq(Observations), Promised(c, r)
  PROVE  /\ Promised(Compact(c \o b).observations, r \o b)
         /\ Compact(c \o b).observations \in Seq(Observations)
  <1> DEFINE s == c \o b
             q == r \o b
             d == Compact(s).observations
  <1>1. s \in Seq(Observations) /\ q \in Seq(Observations)
    BY ConcatProperties
  <1>2. Pinned(s) = Pinned(q)
    <2>1. Pinned(s) = Pinned(c) \o Pinned(b) /\ Pinned(q) = Pinned(r) \o Pinned(b)
      BY OnlyOfBoth DEF Pinned
    <2> QED
      BY <2>1 DEF Promised
  <1>3. Newest(s) = Newest(q)
    BY AppendKeepsNewest DEF Promised
  <1>4. Flow(s) = Flow(c) \o Flow(b) /\ Flow(q) = Flow(r) \o Flow(b)
    BY OnlyOfBoth DEF Flow
  <1>5. PICK z \in {0, 1} : Survives(Flow(c), Flow(r), z)
    BY DEF Promised
  <1>6. Survives(Flow(s), Flow(q), z)
    <2>1. Flow(c) \in Seq(Observations) /\ Flow(r) \in Seq(Observations)
          /\ Flow(b) \in Seq(Observations)
      BY PartsTyped
    <2>2. Survives(Flow(c) \o Flow(b), Flow(r) \o Flow(b), z)
      BY <1>5, <2>1, AppendSurvives
    <2> QED
      BY <1>4, <2>2
  <1> HIDE DEF s, q
  <1>7. CASE TotalTokens(s) <= WorkingWindow /\ d = s
    <2>1. Bounded(s)
      <3> DEFINE bound == TotalTokens(Pinned(s)) + TotalTokens(Newest(s)) + SummaryTokenCap
      <3>1. TotalTokens(s) \in Nat /\ WorkingWindow \in Nat /\ bound \in Int
        <4>1. Pinned(s) \in Seq(Observations) /\ Newest(s) \in Seq(Observations)
          BY <1>1, PartsTyped, NewestTyped
        <4> QED
          BY <1>1, <4>1, TotalIsSummed, WindowAssumption DEF SummaryTokenCap
      <3>2. Max({WorkingWindow, bound}) = IF WorkingWindow >= bound THEN WorkingWindow ELSE bound
        <4>1. WorkingWindow \in Int /\ bound \in Int
          BY <3>1
        <4> HIDE DEF bound
        <4> QED
          BY <4>1, OfTwo
      <3> HIDE DEF bound
      <3>3. TotalTokens(s) <= Max({WorkingWindow, bound})
        BY <1>7, <3>1, <3>2
      <3> QED
        BY <3>3 DEF Bounded, bound
    <2> QED
      BY <1>1, <1>2, <1>3, <1>5, <1>6, <1>7, <2>1 DEF Promised, s, q
  <1>8. CASE \E k, middle : Shape(s, k, middle)
    <2>1. PICK k, middle : Shape(s, k, middle)
      BY <1>8
    <2>2. d \in Seq(Observations) /\ Pinned(d) = Pinned(s)
      BY <1>1, <2>1, CompactedParts
    <2>3. Newest(d) = Newest(s)
      BY <1>1, <2>1, CompactKeepsNewest
    <2>4. Bounded(d)
      BY <1>1, <2>1, CompactIsBounded
    <2>5. \E y \in {0, 1} : Survives(Flow(d), Flow(q), y)
      <3>1. Flow(q) \in Seq(Observations)
        BY <1>1, PartsTyped
      <3>2. PICK y : Survives(Flow(d), Flow(q), y)
        BY <1>1, <1>6, <2>1, <3>1, CompactSurvives
      <3>3. y \in {0, 1}
        BY <3>2 DEF Survives
      <3> QED
        BY <3>2, <3>3
    <2> QED
      BY <1>2, <1>3, <2>2, <2>3, <2>4, <2>5 DEF Promised, s, q
  <1> QED
    BY <1>1, <1>7, <1>8, CompactShape

-----------------------------------------------------------------------------
(* The invariant.                                                          *)

ContextInv ==
    /\ context \in Seq(Observations)
    /\ recorded \in Seq(Numbered)
    /\ Promised(context, recorded)

(* The observations of a step, as they are appended.                       *)
LEMMA BatchNumbered ==
  ASSUME NEW n \in Nat, NEW batch \in Batches
  PROVE  [i \in DOMAIN batch |-> [number |-> n + i, tokens |-> batch[i].tokens,
                                  pinned |-> batch[i].pinned]] \in Seq(Numbered)
  <1>1. PICK m \in 0 .. BatchSize : batch \in [1 .. m -> Inputs]
    BY DEF Batches
  <1>2. m \in Nat /\ DOMAIN batch = 1 .. m
    BY <1>1, CostsAssumption
  <1>3. ASSUME NEW i \in 1 .. m
        PROVE  [number |-> n + i, tokens |-> batch[i].tokens, pinned |-> batch[i].pinned]
                 \in Numbered
    <2>1. batch[i] \in Inputs
      BY <1>1
    <2>2. batch[i].tokens \in Nat /\ batch[i].pinned \in BOOLEAN
      BY <2>1, CostsAssumption DEF Inputs
    <2>3. n + i \in Nat /\ n + i # 0
      BY <1>2
    <2> QED
      BY <2>2, <2>3 DEF Numbered, Observations
  <1> DEFINE bounded == [i \in DOMAIN batch |->
                           [number |-> n + i, tokens |-> batch[i].tokens,
                            pinned |-> batch[i].pinned]]
  <1>4. bounded \in [1 .. m -> Numbered]
    BY <1>2, <1>3
  <1> HIDE DEF bounded
  <1>5. bounded \in Seq(Numbered)
    BY <1>2, <1>4, FunctionsAreSequences
  <1> QED
    BY <1>5 DEF bounded

(* An empty context promises nothing false.                                *)
LEMMA ContextInvInit == ContextInit => ContextInv
  <1> SUFFICES ASSUME ContextInit PROVE ContextInv
    OBVIOUS
  <1>1. context = <<>> /\ recorded = <<>>
    BY DEF ContextInit
  <1>2. <<>> \in Seq(Observations) /\ <<>> \in Seq(Numbered)
    BY EmptySeq
  <1>3. Flow(<<>>) = <<>>
    <2>1. Only(FALSE, <<>>) = <<>>
      <3>1. [number |-> 1, tokens |-> 0, pinned |-> FALSE] \in Observations
        BY DEF Observations
      <3>2. Kept(FALSE, <<>>, <<>>)
        BY <3>1, KeptOfOne
      <3> QED
        BY <1>2, <3>2, KeptIsOnly
    <2> QED
      BY <2>1 DEF Flow
  <1>4. Survives(<<>>, <<>>, 0)
    BY EmptySeq DEF Survives
  <1>5. Bounded(<<>>)
    <2> DEFINE bound == TotalTokens(Pinned(<<>>)) + TotalTokens(Newest(<<>>)) + SummaryTokenCap
    <2>1. bound \in Nat /\ WorkingWindow \in Nat
      <3>1. Pinned(<<>>) \in Seq(Observations) /\ Newest(<<>>) \in Seq(Observations)
        BY <1>2, PartsTyped, NewestTyped
      <3> QED
        BY <3>1, TotalIsSummed, WindowAssumption DEF SummaryTokenCap
    <2>2. Max({WorkingWindow, bound}) = IF WorkingWindow >= bound THEN WorkingWindow ELSE bound
      <3>1. WorkingWindow \in Int /\ bound \in Int
        BY <2>1
      <3> HIDE DEF bound
      <3> QED
        BY <3>1, OfTwo
    <2> HIDE DEF bound
    <2>3. 0 <= Max({WorkingWindow, bound})
      BY <2>1, <2>2
    <2> QED
      BY <2>3, SmallTotals DEF Bounded, bound
  <1> QED
    BY <1>1, <1>2, <1>3, <1>4, <1>5 DEF ContextInv, Promised

(* Every step keeps the invariant.                                         *)
LEMMA ContextInvStep == ContextInv /\ [ContextNext]_contextVars => ContextInv'
  <1> SUFFICES ASSUME ContextInv, [ContextNext]_contextVars
               PROVE  ContextInv'
    OBVIOUS
  <1> USE DEF ContextInv
  <1>1. ASSUME NEW batch \in Batches, RecordBatch(batch)
        PROVE  ContextInv'
    <2> DEFINE b == [i \in DOMAIN batch |->
                       [number |-> Len(recorded) + i, tokens |-> batch[i].tokens,
                        pinned |-> batch[i].pinned]]
    <2>1. context' = Compact(context \o b).observations /\ recorded' = recorded \o b
      BY <1>1 DEF RecordBatch
    <2>2. Len(recorded) \in Nat
      BY LenProperties
    <2>3. b \in Seq(Numbered)
      BY <2>2, BatchNumbered
    <2> HIDE DEF b
    <2>4. Numbered \subseteq Observations
      BY DEF Numbered
    <2>5. b \in Seq(Observations) /\ recorded \in Seq(Observations)
      BY <2>3, <2>4, SeqMonotonic
    <2>6. /\ Promised(Compact(context \o b).observations, recorded \o b)
          /\ Compact(context \o b).observations \in Seq(Observations)
      BY <2>5, StepKeepsPromise
    <2>7. recorded \o b \in Seq(Numbered)
      BY <2>3, ConcatProperties
    <2>8. Promised(context, recorded)' <=> Promised(context', recorded')
      BY DEF Promised, Bounded
    <2> QED
      BY <2>1, <2>6, <2>7, <2>8
  <1>2. ASSUME UNCHANGED <<context, recorded>>
        PROVE  ContextInv'
    BY <1>2 DEF Promised, Bounded
  <1>3. ASSUME NEW batch \in Batches, OffloadFails(batch)
        PROVE  ContextInv'
    BY <1>2, <1>3 DEF OffloadFails
  <1>4. CASE UNCHANGED contextVars
    BY <1>2, <1>4 DEF contextVars
  <1> QED
    BY <1>1, <1>3, <1>4 DEF ContextNext

(* The invariant of the managed context.                                   *)
LEMMA ContextInvariant == ContextSpec => []ContextInv
  <1> QED
    BY ContextInvInit, ContextInvStep, PTL DEF ContextSpec

(* Compaction upon compaction never leaves more than the window, or than   *)
(* what must stay and one summary beside it.                               *)
THEOREM ContextStaysBounded == ContextSpec => []ContextBounded
  <1>1. ContextInv => ContextBounded
    BY DEF ContextInv, Promised, Bounded, ContextBounded
  <1> QED
    BY <1>1, ContextInvariant, PTL

(* The pinned observations and the newest other stay as recorded.          *)
THEOREM WhatMustStayStays == ContextSpec => []PinnedAndNewestKept
  <1>1. ContextInv => PinnedAndNewestKept
    BY DEF ContextInv, Promised, PinnedAndNewestKept
  <1> QED
    BY <1>1, ContextInvariant, PTL

(* The numbers of a sequence of observations.                              *)
LEMMA NumbersOf ==
  ASSUME NEW s \in Seq(Observations)
  PROVE  LET numbers == [i \in DOMAIN s |-> s[i].number]
         IN  /\ numbers \in Seq(Nat) /\ Len(numbers) = Len(s) /\ Len(s) \in Nat
             /\ \A i \in 1 .. Len(s) : numbers[i] = s[i].number
  <1> DEFINE numbers == [i \in DOMAIN s |-> s[i].number]
  <1>1. Len(s) \in Nat /\ DOMAIN s = 1 .. Len(s)
    BY LenProperties
  <1>2. \A i \in 1 .. Len(s) : s[i].number \in Nat
    <2> TAKE i \in 1 .. Len(s)
    <2>1. s[i] \in Observations
      BY ElementOfSeq
    <2> QED
      BY <2>1 DEF Observations
  <1>3. numbers \in [1 .. Len(s) -> Nat]
    BY <1>1, <1>2
  <1>4. \A i \in 1 .. Len(s) : numbers[i] = s[i].number
    BY <1>1
  <1> HIDE DEF numbers
  <1>5. numbers \in Seq(Nat) /\ Len(numbers) = Len(s)
    BY <1>1, <1>3, FunctionsAreSequences
  <1> QED
    BY <1>1, <1>4, <1>5 DEF numbers

(* The invariant says what SurvivorsAreNewest does: the number of a        *)
(* recorded observation is not that of a summary.                          *)
LEMMA SurvivorsSurvive == ContextInv => SurvivorsAreNewest
  <1> SUFFICES ASSUME ContextInv PROVE SurvivorsAreNewest
    OBVIOUS
  <1> DEFINE g == Flow(context)
             h == Flow(recorded)
             l == Len(g)
             m == Len(h)
             numbers == [i \in DOMAIN g |-> g[i].number]
             all == [i \in DOMAIN h |-> h[i].number]
             own == IF numbers # <<>> /\ numbers[1] = 0 THEN Tail(numbers) ELSE numbers
  <1>1. g \in Seq(Observations) /\ h \in Seq(Observations) /\ h \in Seq(Numbered)
    <2>1. Numbered \subseteq Observations
      BY DEF Numbered
    <2>2. recorded \in Seq(Observations)
      BY <2>1, SeqMonotonic DEF ContextInv
    <2>3. Only(FALSE, recorded) \in Seq(Numbered)
      BY <2>1, OnlyOfASet DEF ContextInv
    <2> QED
      BY <2>2, <2>3, PartsTyped DEF ContextInv, Flow
  <1>2. PICK z \in {0, 1} : Survives(g, h, z)
    BY DEF ContextInv, Promised
  <1>3. /\ z <= l /\ l - z <= m
        /\ z = 1 => g[1].number = 0
        /\ \A i \in z + 1 .. l : g[i].number = h[m - l + i].number
    BY <1>2 DEF Survives
  <1> HIDE DEF g, h
  <1>4. /\ numbers \in Seq(Nat) /\ Len(numbers) = l /\ l \in Nat
        /\ \A i \in 1 .. l : numbers[i] = g[i].number
    BY <1>1, NumbersOf
  <1>5. /\ all \in Seq(Nat) /\ Len(all) = m /\ m \in Nat
        /\ \A i \in 1 .. m : all[i] = h[i].number
    BY <1>1, NumbersOf
  <1> HIDE DEF numbers, all, l, m
  <1>6. numbers = <<>> <=> l = 0
    BY <1>4, EmptySeq
  <1>7. \A i \in z + 1 .. l : numbers[i] = all[m - l + i]
    <2> TAKE i \in z + 1 .. l
    <2>1. i \in 1 .. l /\ m - l + i \in 1 .. m
      BY <1>3, <1>4, <1>5
    <2> QED
      BY <1>3, <1>4, <1>5, <2>1
  <1>8. /\ own \in Seq(Nat) /\ Len(own) = l - z
        /\ \A i \in 1 .. l - z : own[i] = numbers[i + z]
    <2>1. CASE z = 1
      <3>1. numbers # <<>> /\ numbers[1] = 0
        BY <1>3, <1>4, <1>6, <2>1
      <3>2. own = Tail(numbers)
        BY <3>1
      <3>3. /\ Tail(numbers) \in Seq(Nat) /\ Len(Tail(numbers)) = l - 1
            /\ \A i \in 1 .. l - 1 : Tail(numbers)[i] = numbers[i + 1]
        BY <1>4, <3>1, HeadTailProperties
      <3> QED
        BY <2>1, <3>2, <3>3
    <2>2. CASE z = 0
      <3>1. numbers # <<>> => numbers[1] # 0
        <4> SUFFICES ASSUME numbers # <<>> PROVE numbers[1] # 0
          OBVIOUS
        <4>1. 1 \in z + 1 .. l /\ m - l + 1 \in 1 .. m
          BY <1>3, <1>4, <1>5, <1>6, <2>2
        <4>2. h[m - l + 1] \in Numbered /\ all[m - l + 1] = h[m - l + 1].number
          BY <1>1, <1>5, <4>1, ElementOfSeq DEF m
        <4> QED
          BY <1>7, <4>1, <4>2 DEF Numbered
      <3>2. own = numbers
        BY <3>1
      <3> QED
        BY <1>4, <2>2, <3>2
    <2> QED
      BY <2>1, <2>2
  <1> HIDE DEF own
  <1>9. LET last == LastN(all, l - z)
        IN  /\ last \in Seq(Nat) /\ Len(last) = l - z
            /\ \A i \in 1 .. l - z : last[i] = all[m - (l - z) + i]
    <2>1. l - z \in 0 .. Len(all)
      BY <1>3, <1>4, <1>5
    <2> QED
      BY <1>5, <2>1, Tails
  <1>10. ASSUME NEW i \in 1 .. l - z
         PROVE  own[i] = LastN(all, l - z)[i]
    <2>1. i + z \in z + 1 .. l /\ m - l + (i + z) = m - (l - z) + i
      BY <1>3, <1>4, <1>5
    <2> QED
      BY <1>7, <1>8, <1>9, <2>1
  <1>11. own = LastN(all, l - z)
    BY <1>8, <1>9, <1>10, SeqEqual
  <1>12. Len(own) <= Len(all) /\ own = LastN(all, Len(own))
    BY <1>3, <1>5, <1>8, <1>11
  <1> QED
    BY <1>12 DEF SurvivorsAreNewest, own, numbers, all, g, h

(* Behind at most one summary, the rest that survives is the end of what   *)
(* was recorded.                                                           *)
THEOREM TheNewestSurvive == ContextSpec => []SurvivorsAreNewest
  <1> QED
    BY ContextInvariant, SurvivorsSurvive, PTL
=============================================================================
