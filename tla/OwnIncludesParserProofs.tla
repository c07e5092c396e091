---------------------- MODULE OwnIncludesParserProofs -----------------------
(***************************************************************************)
(* What holds of the own includes parser for any number of invocations and *)
(* for all command lines and file systems with which it can be expected to *)
(* find what the compiler does: Agreeing of OwnIncludesParser.  The order  *)
(* needs SourcesAgree as well, and .d files need DepsAgree.                *)
(***************************************************************************)
EXTENDS OwnIncludesParser, SequenceTheorems, FiniteSetTheorems, TLAPS

-----------------------------------------------------------------------------
(* The first of a sequence that is not in a set                            *)

(***************************************************************************)
(* A nonempty set of numbers has a least one: induction by the minimal     *)
(* counterexample.                                                         *)
(***************************************************************************)
LEMMA LeastOf ==
  ASSUME NEW T \in SUBSET Nat, T # {}
  PROVE  \E m \in T : \A k \in T : m <= k
<1> DEFINE Below == {1 .. k : k \in T}
<1>1. Below \subseteq FiniteSubsetsOf(Nat) /\ Below # {}
  <2>1. \A k \in T : k \in Int /\ 1 .. k \in SUBSET Nat /\ IsFiniteSet(1 .. k)
    BY FS_Interval
  <2> QED  BY <2>1 DEF FiniteSubsetsOf
<1>2. PICK B \in Below : \A C \in Below : ~ (<<C, B>> \in StrictSubsetOrdering(Nat))
  <2> HIDE DEF Below
  <2> QED  BY <1>1, FS_StrictSubsetOrderingWellFounded, WFMin, Zenon
<1>3. PICK m \in T : B = 1 .. m
  OBVIOUS
<1>4. ASSUME NEW k \in T, k < m PROVE FALSE
  <2>1. 1 .. k \subseteq 1 .. m /\ m \in 1 .. m /\ m \notin 1 .. k
    BY <1>4
  <2>2. 1 .. k \in SUBSET Nat /\ 1 .. m \in SUBSET Nat
    OBVIOUS
  <2>3. <<1 .. k, 1 .. m>> \in StrictSubsetOrdering(Nat)
    BY <2>1, <2>2 DEF StrictSubsetOrdering
  <2> QED  BY <2>3, <1>2, <1>3
<1> QED  BY <1>4

LEMMA MinOf ==
  ASSUME NEW T \in SUBSET Nat, T # {}
  PROVE  Min(T) \in T /\ \A k \in T : Min(T) <= k
  BY LeastOf DEF Min

\* The first element that is not in a set, None for none.
First(seq, W) ==
  LET out == {k \in DOMAIN seq : seq[k] \notin W}
  IN IF out = {} THEN None ELSE seq[Min(out)]

\* The k-th element is the first outside.
IsFirst(seq, W, k) ==
  k \in 1 .. Len(seq) /\ seq[k] \notin W /\ \A n \in 1 .. (k - 1) : seq[n] \in W

LEMMA FirstExists ==
  ASSUME NEW S, NEW seq \in Seq(S), NEW W, \E k \in 1 .. Len(seq) : seq[k] \notin W
  PROVE  \E k \in 1 .. Len(seq) : IsFirst(seq, W, k) /\ First(seq, W) = seq[k]
<1> DEFINE out == {k \in DOMAIN seq : seq[k] \notin W}
<1>1. out \in SUBSET Nat /\ out # {} /\ DOMAIN seq = 1 .. Len(seq) /\ Len(seq) \in Nat
  BY LenProperties
<1>2. Min(out) \in out /\ \A k \in out : Min(out) <= k
  <2> HIDE DEF out
  <2> QED  BY <1>1, MinOf
<1>3. First(seq, W) = seq[Min(out)]
  BY <1>1 DEF First
<1>4. IsFirst(seq, W, Min(out))
  <2>1. Min(out) \in 1 .. Len(seq) /\ seq[Min(out)] \notin W
    BY <1>1, <1>2
  <2>2. ASSUME NEW n \in 1 .. (Min(out) - 1) PROVE seq[n] \in W
    <3>1. n \in DOMAIN seq /\ ~ (Min(out) <= n)
      BY <1>1, <2>1
    <3>2. n \notin out
      BY <1>2, <3>1
    <3> QED  BY <3>1, <3>2
  <2> HIDE DEF out
  <2> QED  BY <2>1, <2>2 DEF IsFirst
<1> HIDE DEF out
<1> QED  BY <1>1, <1>2, <1>3, <1>4 DEF IsFirst

LEMMA FirstNone ==
  ASSUME NEW S, NEW seq \in Seq(S), NEW W, \A k \in 1 .. Len(seq) : seq[k] \in W
  PROVE  First(seq, W) = None
  BY LenProperties DEF First

LEMMA FirstUnique ==
  ASSUME NEW S, NEW seq \in Seq(S), NEW W, NEW k, NEW l,
         IsFirst(seq, W, k), IsFirst(seq, W, l)
  PROVE  k = l
<1>1. Len(seq) \in Nat /\ k \in Nat /\ l \in Nat
  BY LenProperties DEF IsFirst
<1>2. CASE k < l
  BY <1>1, <1>2 DEF IsFirst
<1>3. CASE l < k
  BY <1>1, <1>3 DEF IsFirst
<1> QED  BY <1>1, <1>2, <1>3

LEMMA FirstIs ==
  ASSUME NEW S, NEW seq \in Seq(S), NEW W, NEW k, IsFirst(seq, W, k)
  PROVE  First(seq, W) = seq[k]
<1>1. \E l \in 1 .. Len(seq) : IsFirst(seq, W, l) /\ First(seq, W) = seq[l]
  BY FirstExists DEF IsFirst
<1> QED  BY <1>1, FirstUnique

\* None is in the set: what is not None is an element outside.
LEMMA FirstFacts ==
  ASSUME NEW S, NEW seq \in Seq(S), NEW W, None \in W
  PROVE  /\ First(seq, W) = None <=> \A k \in 1 .. Len(seq) : seq[k] \in W
         /\ First(seq, W) # None =>
              \E k \in 1 .. Len(seq) : IsFirst(seq, W, k) /\ First(seq, W) = seq[k]
<1>1. CASE \A k \in 1 .. Len(seq) : seq[k] \in W
  BY <1>1, FirstNone
<1>2. CASE \E k \in 1 .. Len(seq) : seq[k] \notin W
  <2>1. PICK k \in 1 .. Len(seq) : IsFirst(seq, W, k) /\ First(seq, W) = seq[k]
    BY <1>2, FirstExists
  <2>2. First(seq, W) # None
    BY <2>1 DEF IsFirst
  <2> QED  BY <1>2, <2>1, <2>2
<1> QED  BY <1>1, <1>2

LEMMA FirstOfTail ==
  ASSUME NEW S, NEW seq \in Seq(S), seq # <<>>, NEW W, None \in W
  PROVE  /\ seq[1] \notin W => First(seq, W) = seq[1]
         /\ seq[1] \in W => First(seq, W) = First(Tail(seq), W)
<1>1. /\ Tail(seq) \in Seq(S) /\ Len(Tail(seq)) = Len(seq) - 1 /\ Len(seq) \in Nat
      /\ Len(seq) >= 1 /\ \A k \in 1 .. Len(Tail(seq)) : Tail(seq)[k] = seq[k + 1]
  BY HeadTailProperties, LenProperties, EmptySeq
<1>2. ASSUME seq[1] \notin W PROVE First(seq, W) = seq[1]
  BY <1>1, <1>2, FirstIs DEF IsFirst
<1>3. ASSUME seq[1] \in W PROVE First(seq, W) = First(Tail(seq), W)
  <2>1. CASE First(Tail(seq), W) = None
    <3>1. \A k \in 1 .. Len(Tail(seq)) : Tail(seq)[k] \in W
      BY <1>1, <2>1, FirstFacts
    <3>2. ASSUME NEW k \in 1 .. Len(seq) PROVE seq[k] \in W
      <4>1. CASE k = 1
        BY <4>1, <1>3
      <4>2. CASE k # 1
        <5>1. k - 1 \in 1 .. Len(Tail(seq)) /\ (k - 1) + 1 = k
          BY <1>1, <4>2
        <5>2. Tail(seq)[k - 1] = seq[(k - 1) + 1]
          BY <1>1, <5>1
        <5> QED  BY <3>1, <5>1, <5>2
      <4> QED  BY <4>1, <4>2
    <3> QED  BY <2>1, <3>2, FirstNone
  <2>2. CASE First(Tail(seq), W) # None
    <3>1. PICK k \in 1 .. Len(Tail(seq)) :
            IsFirst(Tail(seq), W, k) /\ First(Tail(seq), W) = Tail(seq)[k]
      BY <1>1, <2>2, FirstFacts
    <3>2. k + 1 \in 1 .. Len(seq) /\ Tail(seq)[k] = seq[k + 1] /\ seq[k + 1] \notin W
      BY <1>1, <3>1 DEF IsFirst
    <3>3. ASSUME NEW n \in 1 .. ((k + 1) - 1) PROVE seq[n] \in W
      <4>1. CASE n = 1
        BY <4>1, <1>3
      <4>2. CASE n # 1
        <5>1. n - 1 \in 1 .. (k - 1) /\ n - 1 \in 1 .. Len(Tail(seq)) /\ (n - 1) + 1 = n
          BY <1>1, <3>1, <4>2
        <5>2. Tail(seq)[n - 1] = seq[(n - 1) + 1]
          BY <1>1, <5>1
        <5>3. Tail(seq)[n - 1] \in W
          BY <3>1, <5>1 DEF IsFirst
        <5> QED  BY <5>1, <5>2, <5>3
      <4> QED  BY <4>1, <4>2
    <3>4. IsFirst(seq, W, k + 1)
      BY <3>2, <3>3 DEF IsFirst
    <3> QED  BY <3>1, <3>2, <3>4, FirstIs
  <2> QED  BY <2>1, <2>2
<1> QED  BY <1>2, <1>3

LEMMA FirstOfConcat ==
  ASSUME NEW S, NEW a \in Seq(S), NEW b \in Seq(S), NEW W, None \in W
  PROVE  First(a \o b, W) = IF First(a, W) # None THEN First(a, W) ELSE First(b, W)
<1>1. /\ a \o b \in Seq(S) /\ Len(a \o b) = Len(a) + Len(b) /\ Len(a) \in Nat /\ Len(b) \in Nat
      /\ \A k \in 1 .. Len(a) : (a \o b)[k] = a[k]
      /\ \A k \in 1 .. Len(b) : (a \o b)[Len(a) + k] = b[k]
  BY ConcatProperties, LenProperties
<1>2. CASE First(a, W) # None
  <2>1. PICK k \in 1 .. Len(a) : IsFirst(a, W, k) /\ First(a, W) = a[k]
    BY <1>2, FirstFacts
  <2>2. IsFirst(a \o b, W, k)
    BY <1>1, <2>1 DEF IsFirst
  <2>3. First(a \o b, W) = (a \o b)[k]
    BY <1>1, <2>2, FirstIs
  <2> QED  BY <1>1, <1>2, <2>1, <2>3
<1>3. CASE First(a, W) = None
  <2>1. \A k \in 1 .. Len(a) : a[k] \in W
    BY <1>3, FirstFacts
  <2>2. CASE First(b, W) = None
    <3>1. \A k \in 1 .. Len(b) : b[k] \in W
      BY <2>2, FirstFacts
    <3>2. ASSUME NEW k \in 1 .. Len(a \o b) PROVE (a \o b)[k] \in W
      <4>1. CASE k <= Len(a)
        BY <1>1, <2>1, <4>1
      <4>2. CASE k > Len(a)
        <5>1. k - Len(a) \in 1 .. Len(b) /\ Len(a) + (k - Len(a)) = k
          BY <1>1, <4>2
        <5> QED  BY <1>1, <3>1, <5>1
      <4> QED  BY <1>1, <4>1, <4>2
    <3> QED  BY <1>1, <1>3, <2>2, <3>2, FirstNone
  <2>3. CASE First(b, W) # None
    <3>1. PICK k \in 1 .. Len(b) : IsFirst(b, W, k) /\ First(b, W) = b[k]
      BY <2>3, FirstFacts
    <3>2. Len(a) + k \in 1 .. Len(a \o b) /\ (a \o b)[Len(a) + k] = b[k]
      BY <1>1
    <3>3. ASSUME NEW n \in 1 .. ((Len(a) + k) - 1) PROVE (a \o b)[n] \in W
      <4>1. CASE n <= Len(a)
        BY <1>1, <2>1, <4>1
      <4>2. CASE n > Len(a)
        <5>1. /\ n - Len(a) \in 1 .. Len(b) /\ n - Len(a) \in 1 .. (k - 1)
              /\ Len(a) + (n - Len(a)) = n
          BY <1>1, <4>2
        <5> QED  BY <1>1, <3>1, <5>1 DEF IsFirst
      <4> QED  BY <1>1, <4>1, <4>2
    <3>4. IsFirst(a \o b, W, Len(a) + k)
      BY <3>1, <3>2, <3>3 DEF IsFirst
    <3> QED  BY <1>1, <1>3, <3>1, <3>2, <3>4, FirstIs
  <2> QED  BY <2>2, <2>3
<1> QED  BY <1>2, <1>3

\* Two sequences cannot be told apart by the first that is not in a set that includes V.
Alike(a, b, V) == \A W : V \subseteq W => First(a, W) = First(b, W)

-----------------------------------------------------------------------------
(* Sequences that name the same things first                               *)

LEMMA AlikeRefl == ASSUME NEW a, NEW V PROVE Alike(a, a, V)
  BY DEF Alike

LEMMA AlikeMore ==
  ASSUME NEW a, NEW b, NEW V, NEW V2, V \subseteq V2, Alike(a, b, V)
  PROVE  Alike(a, b, V2)
  BY DEF Alike

LEMMA AlikeTrans ==
  ASSUME NEW a, NEW b, NEW c, NEW V, Alike(a, b, V), Alike(b, c, V)
  PROVE  Alike(a, c, V)
  BY DEF Alike

\* What is in one of them is in the other or in the set.
LEMMA AlikeWithin ==
  ASSUME NEW S, NEW a \in Seq(S), NEW b \in Seq(S), NEW V, NEW W, None \in V, V \subseteq W,
         Alike(a, b, V), ToSet(a) \subseteq W
  PROVE  ToSet(b) \subseteq W
<1>1. \A k \in 1 .. Len(a) : a[k] \in W
  BY LenProperties DEF ToSet
<1>2. First(a, W) = None
  BY <1>1, FirstNone
<1>3. First(b, W) = None
  BY <1>2 DEF Alike
<1>4. \A k \in 1 .. Len(b) : b[k] \in W
  BY <1>3, FirstFacts
<1> QED  BY <1>4, LenProperties DEF ToSet

LEMMA AlikeSets ==
  ASSUME NEW S, NEW a \in Seq(S), NEW b \in Seq(S), Alike(a, b, {None})
  PROVE  ToSet(a) \ {None} = ToSet(b) \ {None}
<1> DEFINE V == {None}
           Wa == ToSet(a) \cup {None}
           Wb == ToSet(b) \cup {None}
<1>1. /\ None \in V /\ V \subseteq Wa /\ V \subseteq Wb
      /\ ToSet(a) \subseteq Wa /\ ToSet(b) \subseteq Wb
      /\ Alike(a, b, V) /\ Alike(b, a, V)
  BY DEF Alike
<1>2. ToSet(b) \subseteq Wa /\ ToSet(a) \subseteq Wb
  <2> HIDE DEF V, Wa, Wb
  <2> QED  BY <1>1, AlikeWithin
<1> QED  BY <1>2

\* The head is dropped when it is in the set.
LEMMA AlikeTail ==
  ASSUME NEW S, NEW a \in Seq(S), a # <<>>, NEW b, NEW V, None \in V, Head(a) \in V,
         Alike(a, b, V)
  PROVE  Alike(Tail(a), b, V)
<1>1. Head(a) = a[1]
  BY EmptySeq
<1> SUFFICES ASSUME NEW W, V \subseteq W PROVE First(Tail(a), W) = First(b, W)
  BY DEF Alike
<1>2. First(a, W) = First(Tail(a), W)
  BY <1>1, FirstOfTail
<1>3. First(a, W) = First(b, W)
  BY DEF Alike
<1> QED  BY <1>2, <1>3

\* The head of the second sequence is None and dropped.
LEMMA AlikeDropNone ==
  ASSUME NEW S, NEW a \in Seq(S), NEW c \in Seq(S), c # <<>>, c[1] = None, NEW b,
         Alike(a \o c, b, {None})
  PROVE  Alike(a \o Tail(c), b, {None})
<1> SUFFICES ASSUME NEW W, {None} \subseteq W PROVE First(a \o Tail(c), W) = First(b, W)
  BY DEF Alike
<1>1. Tail(c) \in Seq(S) /\ None \in W
  BY HeadTailProperties
<1>2. First(a \o c, W) = IF First(a, W) # None THEN First(a, W) ELSE First(c, W)
  BY <1>1, FirstOfConcat
<1>3. First(a \o Tail(c), W) = IF First(a, W) # None THEN First(a, W) ELSE First(Tail(c), W)
  <2> DEFINE t == Tail(c)
  <2> HIDE DEF t
  <2>1. t \in Seq(S)
    BY <1>1 DEF t
  <2>2. First(a \o t, W) = IF First(a, W) # None THEN First(a, W) ELSE First(t, W)
    BY <1>1, <2>1, FirstOfConcat
  <2> QED  BY <2>2 DEF t
<1>4. First(c, W) = First(Tail(c), W)
  BY <1>1, FirstOfTail
<1>5. First(a \o c, W) = First(b, W)
  BY DEF Alike
<1> QED  BY <1>2, <1>3, <1>4, <1>5

\* The head of the second sequence moves to the end of the first.
LEMMA MoveHead ==
  ASSUME NEW S, NEW a \in Seq(S), NEW c \in Seq(S), c # <<>>
  PROVE  Append(a, c[1]) \o Tail(c) = a \o c
<1>1. /\ Tail(c) \in Seq(S) /\ Len(Tail(c)) = Len(c) - 1 /\ Len(c) \in Nat /\ Len(c) >= 1
      /\ \A k \in 1 .. Len(Tail(c)) : Tail(c)[k] = c[k + 1]
      /\ c[1] \in S
  BY HeadTailProperties, LenProperties, EmptySeq
<1>2. /\ Append(a, c[1]) \in Seq(S) /\ Len(Append(a, c[1])) = Len(a) + 1 /\ Len(a) \in Nat
      /\ \A k \in 1 .. Len(a) : Append(a, c[1])[k] = a[k]
      /\ Append(a, c[1])[Len(a) + 1] = c[1]
  BY <1>1, AppendProperties, LenProperties
<1> DEFINE l == Append(a, c[1]) \o Tail(c)
           r == a \o c
<1>3. /\ l \in Seq(S) /\ Len(l) = Len(a) + Len(c)
      /\ \A k \in 1 .. Len(a) + Len(c) :
           l[k] = IF k <= Len(a) + 1 THEN Append(a, c[1])[k] ELSE Tail(c)[k - (Len(a) + 1)]
  <2>1. /\ l \in Seq(S) /\ Len(l) = Len(Append(a, c[1])) + Len(Tail(c))
        /\ \A k \in 1 .. Len(Append(a, c[1])) + Len(Tail(c)) :
             l[k] = IF k <= Len(Append(a, c[1])) THEN Append(a, c[1])[k]
                    ELSE Tail(c)[k - Len(Append(a, c[1]))]
    BY <1>1, <1>2, ConcatProperties
  <2>2. Len(Append(a, c[1])) + Len(Tail(c)) = Len(a) + Len(c)
    BY <1>1, <1>2
  <2> HIDE DEF l
  <2> QED  BY <2>1, <2>2, <1>2
<1>4. /\ r \in Seq(S) /\ Len(r) = Len(a) + Len(c)
      /\ \A k \in 1 .. Len(a) + Len(c) : r[k] = IF k <= Len(a) THEN a[k] ELSE c[k - Len(a)]
  BY ConcatProperties
<1> HIDE DEF l, r
<1>5. ASSUME NEW k \in 1 .. Len(l) PROVE l[k] = r[k]
  <2>1. CASE k <= Len(a)
    BY <1>1, <1>2, <1>3, <1>4, <2>1
  <2>2. CASE k = Len(a) + 1
    BY <1>1, <1>2, <1>3, <1>4, <2>2
  <2>3. CASE k > Len(a) + 1
    <3>1. /\ k - (Len(a) + 1) \in 1 .. Len(Tail(c)) /\ (k - (Len(a) + 1)) + 1 = k - Len(a)
      BY <1>1, <1>2, <1>3, <2>3
    <3>2. Tail(c)[k - (Len(a) + 1)] = c[(k - (Len(a) + 1)) + 1]
      BY <1>1, <3>1
    <3>3. l[k] = Tail(c)[k - (Len(a) + 1)] /\ r[k] = c[k - Len(a)]
      BY <1>1, <1>2, <1>3, <1>4, <2>3
    <3> QED  BY <3>1, <3>2, <3>3
  <2> QED  BY <1>1, <1>2, <1>3, <2>1, <2>2, <2>3
<1>6. l = r
  BY <1>3, <1>4, <1>5, SeqEqual
<1> QED  BY <1>6 DEF l, r

LEMMA ConsSeq ==
  ASSUME NEW S, NEW e \in S, NEW seq \in Seq(S)
  PROVE  /\ <<e>> \o seq \in Seq(S) /\ Len(<<e>> \o seq) = Len(seq) + 1 /\ Len(seq) \in Nat
         /\ (<<e>> \o seq)[1] = e
         /\ \A k \in 1 .. Len(seq) : (<<e>> \o seq)[k + 1] = seq[k]
<1> DEFINE one == <<e>>
<1>1. one \in Seq(S) /\ Len(one) = 1 /\ one[1] = e /\ Len(seq) \in Nat
  BY LenProperties
<1> HIDE DEF one
<1>2. /\ one \o seq \in Seq(S) /\ Len(one \o seq) = Len(one) + Len(seq)
      /\ \A k \in 1 .. Len(one) + Len(seq) :
           (one \o seq)[k] = IF k <= Len(one) THEN one[k] ELSE seq[k - Len(one)]
  BY <1>1, ConcatProperties
<1>3. (one \o seq)[1] = e
  BY <1>1, <1>2
<1>4. ASSUME NEW k \in 1 .. Len(seq) PROVE (one \o seq)[k + 1] = seq[k]
  <2>1. k + 1 \in 1 .. Len(one) + Len(seq) /\ ~ (k + 1 <= Len(one)) /\ (k + 1) - Len(one) = k
    BY <1>1
  <2> QED  BY <1>2, <2>1
<1> QED  BY <1>1, <1>2, <1>3, <1>4 DEF one

LEMMA ToSetSeq ==
  ASSUME NEW S, NEW seq \in Seq(S)
  PROVE  /\ seq \in Seq(ToSet(seq)) /\ ToSet(seq) \subseteq S /\ IsSeq(seq)
         /\ \A k \in 1 .. Len(seq) : seq[k] \in ToSet(seq)
         /\ \A e \in ToSet(seq) : \E k \in 1 .. Len(seq) : e = seq[k]
<1>1. ToSet(seq) = Range(seq)
  BY DEF ToSet, Range
<1>2. seq \in Seq(ToSet(seq))
  BY <1>1, SeqOfRange
<1> QED  BY <1>2, LenProperties DEF ToSet, IsSeq

-----------------------------------------------------------------------------
(* What an #include stands for                                             *)

\* What an #include in a file stands for.
Target(i, system, current, inc) ==
  IF inc.form = "abs" THEN inc.arg ELSE RefFile(i, current, inc, DOMAIN system)

Targets(i, system, current, todo) ==
  [k \in DOMAIN todo |-> Target(i, system, current, todo[k])]

\* All that a header includes, in its order.
Adj(i, system, file) == Targets(i, system, file, RefStatements(system[file]))

\* An #include that the parser may meet in a file.
Proper(i, system, current, inc) ==
  /\ inc \in [kind : {"#include"}, form : {"quote", "angle", "next", "abs"}, arg : {inc.arg},
              pch : BOOLEAN]
  /\ inc.form = "abs" => inc.arg \in DOMAIN system
  /\ inc.form # "abs" => inc.arg # "nocc-pch"
  /\ inc.form = "next" =>
       \E k \in DOMAIN RefChain[i] :
         /\ RefChain[i][k] = current[1]
         /\ \A n \in 1..(k-1) : ~ Within(current[1], RefChain[i][n])

LEMMA RefFileIs ==
  ASSUME NEW i, NEW current, NEW inc, NEW existing, NEW S, RefDirs(i, current, inc) \in Seq(S)
  PROVE  \/ \E k \in 1 .. Len(RefDirs(i, current, inc)) :
              /\ <<RefDirs(i, current, inc)[k], inc.arg>> \in existing
              /\ \A n \in 1 .. (k - 1) : <<RefDirs(i, current, inc)[n], inc.arg>> \notin existing
              /\ RefFile(i, current, inc, existing) = <<RefDirs(i, current, inc)[k], inc.arg>>
         \/ /\ \A k \in 1 .. Len(RefDirs(i, current, inc)) :
                 <<RefDirs(i, current, inc)[k], inc.arg>> \notin existing
            /\ RefFile(i, current, inc, existing) = None
<1> DEFINE dirs == RefDirs(i, current, inc)
           hits == {k \in DOMAIN dirs : <<dirs[k], inc.arg>> \in existing}
<1>1. /\ DOMAIN dirs = 1 .. Len(dirs) /\ Len(dirs) \in Nat
      /\ hits \in SUBSET Nat
  BY LenProperties
<1>2. RefFile(i, current, inc, existing)
        = IF hits = {} THEN None ELSE <<dirs[Min(hits)], inc.arg>>
  BY DEF RefFile, RefFirst
<1>3. CASE hits = {}
  BY <1>1, <1>2, <1>3
<1>4. CASE hits # {}
  <2>1. Min(hits) \in hits /\ \A k \in hits : Min(hits) <= k
    <3> HIDE DEF hits
    <3> QED  BY <1>1, <1>4, MinOf
  <2>2. Min(hits) \in 1 .. Len(dirs) /\ <<dirs[Min(hits)], inc.arg>> \in existing
    BY <1>1, <2>1
  <2>3. ASSUME NEW n \in 1 .. (Min(hits) - 1) PROVE <<dirs[n], inc.arg>> \notin existing
    <3>1. n \in DOMAIN dirs /\ ~ (Min(hits) <= n)
      BY <1>1, <2>2
    <3> QED  BY <3>1, <2>1
  <2> HIDE DEF hits
  <2> QED  BY <1>2, <1>4, <2>2, <2>3
<1> QED  BY <1>3, <1>4

SearchesAlike(a, b, c, d) == ((a \o b) \o c) \o d = a \o (b \o (c \o d))

LEMMA ConcatFour ==
  ASSUME NEW S, NEW a \in Seq(S), NEW b \in Seq(S), NEW c \in Seq(S), NEW d \in Seq(S)
  PROVE  SearchesAlike(a, b, c, d)
<1>1. a \o b \in Seq(S) /\ c \o d \in Seq(S)
  BY ConcatProperties
<1>2. ((a \o b) \o c) \o d = (a \o b) \o (c \o d)
  BY <1>1, ConcatAssociative
<1>3. (a \o b) \o (c \o d) = a \o (b \o (c \o d))
  BY <1>1, ConcatAssociative
<1> QED  BY <1>2, <1>3 DEF SearchesAlike

\* Where the search of an #include_next begins.
WithinAt(chain, dir) == {k \in 1 .. Len(chain) : Within(dir, chain[k])}
SameAt(chain, dir) == {k \in 1 .. Len(chain) : chain[k] = dir}

LEMMA NextBegins ==
  ASSUME NEW S, NEW chain \in Seq(S), NEW dir, NEW k \in 1 .. Len(chain), chain[k] = dir,
         \A n \in 1 .. (k - 1) : ~ Within(dir, chain[n])
  PROVE  /\ WithinAt(chain, dir) # {} /\ Min(WithinAt(chain, dir)) = k
         /\ SameAt(chain, dir) # {} /\ Min(SameAt(chain, dir)) = k
         /\ k # 0 /\ SubSeq(chain, k + 1, Len(chain)) \in Seq(S)
<1>1. Len(chain) \in Nat
  BY LenProperties
<1>2. /\ k \in WithinAt(chain, dir) /\ WithinAt(chain, dir) \in SUBSET Nat
      /\ k \in SameAt(chain, dir) /\ SameAt(chain, dir) \in SUBSET Nat
  BY <1>1 DEF Within, WithinAt, SameAt
<1>3. /\ \A n \in WithinAt(chain, dir) : n \in 1 .. Len(chain) /\ ~ (n < k)
      /\ \A n \in SameAt(chain, dir) : n \in 1 .. Len(chain) /\ ~ (n < k)
  <2>1. ASSUME NEW n \in 1 .. Len(chain), n < k PROVE ~ Within(dir, chain[n])
    <3>1. n \in 1 .. (k - 1)
      BY <1>1, <2>1
    <3> QED  BY <3>1
  <2>2. \A n \in 1 .. Len(chain) : chain[n] = dir => Within(dir, chain[n])
    BY DEF Within
  <2> QED  BY <2>1, <2>2 DEF WithinAt, SameAt
<1>4. /\ Min(WithinAt(chain, dir)) \in WithinAt(chain, dir) /\ Min(WithinAt(chain, dir)) <= k
      /\ Min(SameAt(chain, dir)) \in SameAt(chain, dir) /\ Min(SameAt(chain, dir)) <= k
  BY <1>2, MinOf
<1>5. \A n \in (k + 1) .. Len(chain) : chain[n] \in S
  BY <1>1, ElementOfSeq
<1>6. SubSeq(chain, k + 1, Len(chain)) \in Seq(S)
  BY <1>1, <1>5, SubSeqProperties
<1> QED  BY <1>1, <1>2, <1>3, <1>4, <1>6

(***************************************************************************)
(* The parser searches the directories that the compiler searches.         *)
(***************************************************************************)
LEMMA SearchedDirs ==
  ASSUME OptionsAgree, NEW i \in Compiled, NEW system, NEW current, NEW inc,
         Proper(i, system, current, inc), inc.form # "abs"
  PROVE  /\ \E S : RefDirs(i, current, inc) \in Seq(S)
         /\ SearchPaths(i, current, inc) =
              [k \in DOMAIN RefDirs(i, current, inc) |-> <<RefDirs(i, current, inc)[k], inc.arg>>]
<1> DEFINE dI == invocation[i].dirsI
           dQ == invocation[i].dirsIquote
           dS == invocation[i].dirsIsystem
           S == ToSet(dI) \cup ToSet(dQ) \cup ToSet(dS) \cup {current[1]}
           chain == dI \o dS
<1>1. /\ dI \in Seq(S) /\ dQ \in Seq(S) /\ dS \in Seq(S) /\ <<current[1]>> \in Seq(S)
      /\ RefChain[i] = chain /\ RefQuoteChain[i] = dQ \o chain
  <2>1. dI \in Seq(ToSet(dI)) /\ dQ \in Seq(ToSet(dQ)) /\ dS \in Seq(ToSet(dS))
        /\ RefChain[i] = chain /\ RefQuoteChain[i] = dQ \o chain
    BY DEF OptionsAgree, IsSeq
  <2>2. ToSet(dI) \subseteq S /\ ToSet(dQ) \subseteq S /\ ToSet(dS) \subseteq S
        /\ current[1] \in S
    OBVIOUS
  <2> HIDE DEF S
  <2> QED  BY <2>1, <2>2, SeqMonotonic
<1>2. inc.form \in {"quote", "angle", "next"}
  BY DEF Proper
<1> HIDE DEF S
<1>3. chain \in Seq(S) /\ dQ \o chain \in Seq(S) /\ <<current[1]>> \o (dQ \o chain) \in Seq(S)
  BY <1>1, ConcatProperties
<1>4. (<<>> \o dI) \o dS = chain
  BY <1>1, ConcatEmptySeq
<1>5. CASE inc.form = "quote"
  <2>1. ((<<current[1]>> \o dQ) \o dI) \o dS = <<current[1]>> \o (dQ \o chain)
    <3>1. SearchesAlike(<<current[1]>>, dQ, dI, dS)
      BY <1>1, ConcatFour
    <3> QED  BY <3>1 DEF SearchesAlike
  <2>2. RefDirs(i, current, inc) = <<current[1]>> \o (dQ \o chain)
    BY <1>1, <1>5 DEF RefDirs
  <2>3. SearchPaths(i, current, inc) =
          [k \in DOMAIN (((<<current[1]>> \o dQ) \o dI) \o dS) |->
             <<(((<<current[1]>> \o dQ) \o dI) \o dS)[k], inc.arg>>]
    BY <1>5 DEF SearchPaths
  <2> QED  BY <1>3, <2>1, <2>2, <2>3
<1>6. CASE inc.form = "angle"
  <2>1. RefDirs(i, current, inc) = chain
    BY <1>1, <1>6 DEF RefDirs
  <2>2. SearchPaths(i, current, inc) =
          [k \in DOMAIN ((<<>> \o dI) \o dS) |-> <<((<<>> \o dI) \o dS)[k], inc.arg>>]
    BY <1>6 DEF SearchPaths
  <2> QED  BY <1>3, <1>4, <2>1, <2>2
<1>7. CASE inc.form = "next"
  <2>1. DOMAIN chain = 1 .. Len(chain)
    BY <1>3, LenProperties
  <2>2. PICK k \in 1 .. Len(chain) : /\ chain[k] = current[1]
                                     /\ \A n \in 1 .. (k - 1) : ~ Within(current[1], chain[n])
    BY <1>1, <1>7, <2>1 DEF Proper
  <2>3. /\ WithinAt(chain, current[1]) # {} /\ Min(WithinAt(chain, current[1])) = k
        /\ SameAt(chain, current[1]) # {} /\ Min(SameAt(chain, current[1])) = k
        /\ k # 0 /\ SubSeq(chain, k + 1, Len(chain)) \in Seq(S)
    <3> HIDE DEF chain
    <3> QED  BY <1>3, <2>2, NextBegins
  <2>6. RefDirs(i, current, inc) = SubSeq(chain, k + 1, Len(chain))
    <3>1. SelectInSeq(RefChain[i], LAMBDA dir : dir = current[1])
            = IF SameAt(chain, current[1]) # {} THEN Min(SameAt(chain, current[1])) ELSE 0
      BY <1>1 DEF SelectInSeq, SameAt
    <3>2. SelectInSeq(RefChain[i], LAMBDA dir : dir = current[1]) = k
      BY <3>1, <2>3
    <3> QED  BY <1>1, <1>7, <3>2 DEF RefDirs
  <2>7. SearchPaths(i, current, inc) =
          [n \in DOMAIN SubSeq(chain, k + 1, Len(chain)) |->
             <<SubSeq(chain, k + 1, Len(chain))[n], inc.arg>>]
    <3>1. FirstWithin(chain, current[1])
            = IF WithinAt(chain, current[1]) # {} THEN Min(WithinAt(chain, current[1])) ELSE 0
      BY DEF FirstWithin, SelectInSeq, WithinAt
    <3>2. FirstWithin(chain, current[1]) = k /\ k # 0
      BY <3>1, <2>3
    <3>3. ((IF inc.form = "quote" THEN <<current[1]>> \o dQ ELSE <<>>) \o dI) \o dS = chain
      BY <1>4, <1>7
    <3> HIDE DEF chain
    <3> QED  BY <1>7, <3>2, <3>3 DEF SearchPaths
  <2> QED  BY <2>3, <2>6, <2>7
<1> QED  BY <1>2, <1>5, <1>6, <1>7

-----------------------------------------------------------------------------
(* What invocations remember                                               *)

\* What an invocation remembers of the paths it has tried.
SeenIsTrue(system, u) ==
  \A file \in DOMAIN u :
    \/ file \in DOMAIN system /\ u[file] = file
    \/ file \in OwnPchs /\ u[file] = PchOf(file)
    \/ file \notin DOMAIN system /\ u[file] = None
    \/ \E header \in OwnPchs : file = PchOf(header) /\ u[file] = file

\* What an <angle> name may be remembered to stand for.
NamesAreRight(system, names) ==
  \A name \in DOMAIN names, j \in Compiled :
    names[name] = RefFile(j, CppInFile(j), Angle(name), DOMAIN system)

\* What a header may be remembered to include.
HeadersAreRight(system, info) ==
  \A file \in DOMAIN info :
    /\ file \in DOMAIN system /\ info[file] \in Seq(DOMAIN system)
    /\ \A j \in Compiled : Alike(info[file], Adj(j, system, file), {None})

LEMMA DirsAgree ==
  ASSUME OptionsAgree, NEW i \in Compiled, NEW j \in Compiled
  PROVE  /\ RefChain[i] = RefChain[j] /\ RefQuoteChain[i] = RefQuoteChain[j]
         /\ invocation[i].dirsI = invocation[j].dirsI
         /\ invocation[i].dirsIsystem = invocation[j].dirsIsystem
<1>1. /\ invocation[i].dirsI = invocation[j].dirsI
      /\ invocation[i].dirsIquote = invocation[j].dirsIquote
      /\ invocation[i].dirsIsystem = invocation[j].dirsIsystem
  BY DEF OptionsAgree
<1>2. /\ RefChain[i] = invocation[i].dirsI \o invocation[i].dirsIsystem
      /\ RefChain[j] = invocation[j].dirsI \o invocation[j].dirsIsystem
      /\ RefQuoteChain[i] = invocation[i].dirsIquote \o RefChain[i]
      /\ RefQuoteChain[j] = invocation[j].dirsIquote \o RefChain[j]
  BY DEF OptionsAgree
<1> QED  BY <1>1, <1>2

LEMMA TargetsAgree ==
  ASSUME OptionsAgree, NEW i \in Compiled, NEW j \in Compiled, NEW system
  PROVE  /\ \A current, inc, existing :
              RefFile(i, current, inc, existing) = RefFile(j, current, inc, existing)
         /\ \A current, inc : Target(i, system, current, inc) = Target(j, system, current, inc)
         /\ \A current, todo :
              Targets(i, system, current, todo) = Targets(j, system, current, todo)
         /\ \A file : Adj(i, system, file) = Adj(j, system, file)
         /\ \A file : RefNested(i, system, file) = RefNested(j, system, file)
         /\ \A file : shouldCacheHFile(i, file) <=> shouldCacheHFile(j, file)
<1>1. \A current, inc : RefDirs(i, current, inc) = RefDirs(j, current, inc)
  BY DirsAgree DEF RefDirs
<1>2. \A current, inc, existing :
        RefFile(i, current, inc, existing) = RefFile(j, current, inc, existing)
  BY <1>1 DEF RefFile
<1>3. \A current, inc : Target(i, system, current, inc) = Target(j, system, current, inc)
  BY <1>2 DEF Target
<1>4. \A current, todo : Targets(i, system, current, todo) = Targets(j, system, current, todo)
  BY <1>3 DEF Targets
<1>5. \A file : Adj(i, system, file) = Adj(j, system, file)
  BY <1>4 DEF Adj
<1>6. \A file : RefNested(i, system, file) = RefNested(j, system, file)
  BY <1>2 DEF RefNested
<1>7. \A file : shouldCacheHFile(i, file) <=> shouldCacheHFile(j, file)
  BY DirsAgree DEF shouldCacheHFile
<1> QED  BY <1>2, <1>3, <1>4, <1>5, <1>6, <1>7

\* An <angle> name stands for the same in every file.
LEMMA NameStandsFor ==
  ASSUME OptionsAgree, NEW i \in Compiled, NEW j \in Compiled, NEW system, NEW current, NEW inc,
         inc.form = "angle"
  PROVE  Target(i, system, current, inc)
           = RefFile(j, CppInFile(j), Angle(inc.arg), DOMAIN system)
<1>1. /\ RefDirs(i, current, inc) = RefDirs(j, CppInFile(j), Angle(inc.arg))
      /\ Angle(inc.arg).arg = inc.arg
  BY DirsAgree DEF RefDirs, Angle
<1>2. RefFile(i, current, inc, DOMAIN system)
        = RefFile(j, CppInFile(j), Angle(inc.arg), DOMAIN system)
  BY <1>1 DEF RefFile
<1> QED  BY <1>2 DEF Target

\* What an #include may stand for.
Answers(system) == DOMAIN system \cup {None}

LEMMA TargetExists ==
  ASSUME OptionsAgree, NEW i \in Compiled, NEW system, NEW current, NEW inc,
         Proper(i, system, current, inc)
  PROVE  Target(i, system, current, inc) \in Answers(system)
<1>1. CASE inc.form = "abs"
  BY <1>1 DEF Target, Proper, Answers
<1>2. CASE inc.form # "abs"
  <2>1. PICK S : RefDirs(i, current, inc) \in Seq(S)
    BY <1>2, SearchedDirs
  <2> QED  BY <1>2, <2>1, RefFileIs DEF Target, Answers
<1> QED  BY <1>1, <1>2

\* A path that an #include may be looked for at.
MayBeAt(system, path) == path \in DOMAIN system \/ \A header \in OwnPchs : path # PchOf(header)

(***************************************************************************)
(* What is known of a path that is tried says whether the file exists.     *)
(***************************************************************************)
LEMMA FoundIsThere ==
  ASSUME NEW i, SeenIsTrue(files, uniqSeen[i]), HeadersAreRight(files, hFilesInfo),
         OwnPchs \subseteq DOMAIN files, None \notin DOMAIN files,
         \A header \in OwnPchs : PchOf(header) # None,
         NEW inc, NEW path, MayBeAt(files, path),
         \A header \in OwnPchs : PchOf(header) \notin DOMAIN files
  PROVE  Found(i, inc, path) <=> path \in DOMAIN files
<1>1. CASE Seen(i, path)
  <2>1. Found(i, inc, path) <=> uniqSeen[i][path] # None
    BY <1>1 DEF Found
  <2> QED  BY <1>1, <2>1 DEF Seen, SeenIsTrue, MayBeAt
<1>2. CASE ~ Seen(i, path)
  BY <1>2 DEF Found, HasPch, IsCached, HeadersAreRight
<1> QED  BY <1>1, <1>2

\* The first path that is there.
IsFirstHit(system, tried, hit) ==
  /\ hit = 0 => \A k \in 1 .. Len(tried) : tried[k] \notin DOMAIN system
  /\ hit # 0 => /\ hit \in 1 .. Len(tried) /\ tried[hit] \in DOMAIN system
                /\ \A k \in 1 .. (hit - 1) : tried[k] \notin DOMAIN system

LEMMA FirstFoundIs ==
  ASSUME NEW i, NEW S, NEW tried \in Seq(S),
         \A k \in 1 .. Len(tried) : Found(i, NextInclude(i), tried[k]) <=> tried[k] \in DOMAIN files
  PROVE  IsFirstHit(files, tried, FirstFound(i, tried))
<1> DEFINE T == {k \in 1 .. Len(tried) : Found(i, NextInclude(i), tried[k])}
<1>1. Len(tried) \in Nat
  BY LenProperties
<1>2. FirstFound(i, tried) = IF T # {} THEN Min(T) ELSE 0
  BY DEF FirstFound, SelectInSeq
<1>3. \A k \in 1 .. Len(tried) : k \in T <=> tried[k] \in DOMAIN files
  OBVIOUS
<1>4. T \subseteq 1 .. Len(tried) /\ T \in SUBSET Nat
  BY <1>1
<1> HIDE DEF T
<1>5. CASE T = {}
  BY <1>2, <1>3, <1>5 DEF IsFirstHit
<1>6. CASE T # {}
  <2>1. Min(T) \in T /\ \A k \in T : Min(T) <= k
    BY <1>4, <1>6, MinOf
  <2>2. ASSUME NEW k \in 1 .. (Min(T) - 1) PROVE tried[k] \notin DOMAIN files
    <3> DEFINE m == Min(T)
    <3>2. m \in 1 .. Len(tried) /\ k \in 1 .. (m - 1)
      BY <1>4, <2>1
    <3> HIDE DEF m
    <3>3. k \in 1 .. Len(tried) /\ ~ (m <= k)
      BY <1>1, <3>2
    <3>1. k \in 1 .. Len(tried) /\ ~ (Min(T) <= k)
      BY <3>3 DEF m
    <3> QED  BY <1>3, <2>1, <3>1
  <2> DEFINE m == Min(T)
  <2>4. m \in T /\ m \in 1 .. Len(tried)
    BY <1>4, <2>1
  <2> HIDE DEF m
  <2>5. tried[m] \in DOMAIN files /\ m # 0
    BY <1>1, <1>3, <2>4
  <2>3. Min(T) \in 1 .. Len(tried) /\ tried[Min(T)] \in DOMAIN files /\ Min(T) # 0
    BY <2>4, <2>5 DEF m
  <2> QED  BY <1>2, <1>6, <2>2, <2>3 DEF IsFirstHit
<1> QED  BY <1>5, <1>6

-----------------------------------------------------------------------------
(* Where the parser looks                                                  *)

LEMMA PchFacts ==
  ASSUME OrdinarySystems, NEW system \in FileSystems
  PROVE  /\ OwnPchs \subseteq DOMAIN system /\ None \notin DOMAIN system
         /\ \A header \in OwnPchs : PchOf(header) \notin DOMAIN system /\ PchOf(header) # None
  BY DEF OrdinarySystems, OrdinaryPch

LEMMA PathsAreOrdinary ==
  ASSUME NEW i, NEW system, NEW current, NEW inc, Proper(i, system, current, inc),
         inc.form # "abs", NEW dir
  PROVE  MayBeAt(system, <<dir, inc.arg>>)
<1>1. inc.arg # "nocc-pch"
  BY DEF Proper
<1> QED  BY <1>1 DEF MayBeAt, PchOf

(***************************************************************************)
(* Where the parser looks for what an #include in a file stands for, it    *)
(* finds that, whether it has seen the path, has it in a cache, or asks    *)
(* the disk.                                                               *)
(***************************************************************************)
LEMMA Resolve ==
  ASSUME Agreeing, NEW i \in Compiled, files \in FileSystems,
         SeenIsTrue(files, uniqSeen[i]),
         NamesAreRight(files, includesResolve), HeadersAreRight(files, hFilesInfo),
         NEW current, NEW inc, inc = NextInclude(i), Proper(i, files, current, inc),
         NEW tried, tried = Attempts(i, current, inc)
  PROVE  /\ \E S : tried \in Seq(S)
         /\ IsFirstHit(files, tried, FirstFound(i, tried))
         /\ FirstFound(i, tried) = 0 => Target(i, files, current, inc) = None
         /\ FirstFound(i, tried) # 0
              => Target(i, files, current, inc) = tried[FirstFound(i, tried)]
<1> DEFINE t == Target(i, files, current, inc)
<1>1. /\ OwnPchs \subseteq DOMAIN files /\ None \notin DOMAIN files
      /\ \A header \in OwnPchs : PchOf(header) \notin DOMAIN files /\ PchOf(header) # None
      /\ OptionsAgree
  BY PchFacts DEF Agreeing
<1>2. ASSUME NEW path, MayBeAt(files, path)
      PROVE  Found(i, NextInclude(i), path) <=> path \in DOMAIN files
  BY <1>1, <1>2, FoundIsThere
<1>3. CASE inc.form = "abs"
  <2>1. tried = <<inc.arg>> /\ inc.arg \in DOMAIN files /\ t = inc.arg
    BY <1>3 DEF Attempts, InResolveCache, Proper, Target
  <2> DEFINE D == {inc.arg}
  <2>2. tried \in Seq(D) /\ Len(tried) = 1 /\ tried[1] = inc.arg
    BY <2>1
  <2> HIDE DEF D
  <2>3. \A k \in 1 .. Len(tried) : Found(i, NextInclude(i), tried[k]) <=> tried[k] \in DOMAIN files
    BY <1>2, <2>1, <2>2 DEF MayBeAt
  <2>6. tried \in Seq(D)
    BY <2>2
  <2>4. IsFirstHit(files, tried, FirstFound(i, tried))
    BY <2>3, <2>6, FirstFoundIs
  <2>5. FirstFound(i, tried) = 1
    BY <2>1, <2>2, <2>4 DEF IsFirstHit
  <2> QED  BY <2>1, <2>2, <2>4, <2>5
<1>4. CASE inc.form # "abs" /\ InResolveCache(inc)
  <2>1. inc.form = "angle" /\ inc.arg \in DOMAIN includesResolve
    BY <1>4 DEF InResolveCache
  <2>2. t = includesResolve[inc.arg]
    BY <1>1, <2>1, NameStandsFor DEF NamesAreRight
  <2>3. t \in DOMAIN files \cup {None}
    BY <1>1, TargetExists DEF Answers
  <2>4. CASE t = None
    <3>1. tried = <<>>
      BY <1>4, <2>2, <2>4 DEF Attempts
    <3> DEFINE D == {}
    <3>2. tried \in Seq(D) /\ Len(tried) = 0
      BY <3>1
    <3> HIDE DEF D
    <3>4. \A k \in 1 .. Len(tried) :
            Found(i, NextInclude(i), tried[k]) <=> tried[k] \in DOMAIN files
      BY <3>2
    <3>3. IsFirstHit(files, tried, FirstFound(i, tried))
      BY <3>2, <3>4, FirstFoundIs
    <3> QED  BY <2>4, <3>2, <3>3 DEF IsFirstHit
  <2>5. CASE t # None
    <3>1. tried = <<t>>
      BY <1>4, <2>2, <2>5 DEF Attempts
    <3> DEFINE D == {t}
    <3>2. tried \in Seq(D) /\ Len(tried) = 1 /\ tried[1] = t /\ t \in DOMAIN files
      BY <2>3, <2>5, <3>1
    <3> HIDE DEF D
    <3>3. \A k \in 1 .. Len(tried) :
            Found(i, NextInclude(i), tried[k]) <=> tried[k] \in DOMAIN files
      BY <1>2, <3>2 DEF MayBeAt
    <3>6. tried \in Seq(D)
      BY <3>2
    <3>4. IsFirstHit(files, tried, FirstFound(i, tried))
      BY <3>3, <3>6, FirstFoundIs
    <3>5. FirstFound(i, tried) = 1
      BY <3>2, <3>4 DEF IsFirstHit
    <3> QED  BY <3>2, <3>4, <3>5
  <2> QED  BY <2>4, <2>5
<1>5. CASE inc.form # "abs" /\ ~ InResolveCache(inc)
  <2> DEFINE dirs == RefDirs(i, current, inc)
  <2>1. PICK S : dirs \in Seq(S)
    BY <1>1, <1>5, SearchedDirs
  <2>2. tried = [k \in DOMAIN dirs |-> <<dirs[k], inc.arg>>]
    BY <1>1, <1>5, SearchedDirs DEF Attempts
  <2>3. /\ DOMAIN dirs = 1 .. Len(dirs) /\ Len(dirs) \in Nat
    BY <2>1, LenProperties
  <2> DEFINE D == {<<dirs[k], inc.arg>> : k \in 1 .. Len(dirs)}
  <2>4. /\ tried \in Seq(D) /\ Len(tried) = Len(dirs)
        /\ \A k \in 1 .. Len(tried) : tried[k] = <<dirs[k], inc.arg>>
    BY <2>2, <2>3
  <2>5. \A k \in 1 .. Len(tried) : Found(i, NextInclude(i), tried[k]) <=> tried[k] \in DOMAIN files
    BY <1>2, <1>5, <2>4, PathsAreOrdinary
  <2>6. IsFirstHit(files, tried, FirstFound(i, tried))
    BY <2>4, <2>5, FirstFoundIs
  <2>7. t = RefFile(i, current, inc, DOMAIN files)
    BY <1>5 DEF Target
  <2>8. CASE FirstFound(i, tried) = 0
    <3>1. \A k \in 1 .. Len(dirs) : <<dirs[k], inc.arg>> \notin DOMAIN files
      BY <2>4, <2>6, <2>8 DEF IsFirstHit
    <3>2. t = None
      BY <2>1, <2>7, <3>1, RefFileIs
    <3> QED  BY <2>4, <2>6, <2>8, <3>2
  <2>9. CASE FirstFound(i, tried) # 0
    <3> DEFINE hit == FirstFound(i, tried)
    <3>5. /\ hit \in 1 .. Len(tried) /\ tried[hit] \in DOMAIN files
          /\ \A k \in 1 .. (hit - 1) : tried[k] \notin DOMAIN files
      BY <2>6, <2>9 DEF IsFirstHit
    <3> HIDE DEF hit
    <3>6. \A k \in 1 .. (hit - 1) : k \in 1 .. Len(tried)
      BY <2>3, <2>4, <3>5
    <3>1. /\ hit \in 1 .. Len(dirs) /\ <<dirs[hit], inc.arg>> \in DOMAIN files
          /\ \A k \in 1 .. (hit - 1) : <<dirs[k], inc.arg>> \notin DOMAIN files
      BY <2>4, <3>5, <3>6
    <3>2. PICK k \in 1 .. Len(dirs) :
            /\ <<dirs[k], inc.arg>> \in DOMAIN files
            /\ \A n \in 1 .. (k - 1) : <<dirs[n], inc.arg>> \notin DOMAIN files
            /\ t = <<dirs[k], inc.arg>>
      BY <2>1, <2>7, <3>1, RefFileIs
    <3> HIDE DEF hit
    <3>3. k = hit
      <4>1. ~ (k < hit) /\ ~ (hit < k)
        BY <2>3, <3>1, <3>2
      <4> QED  BY <2>3, <3>1, <3>2, <4>1
    <3>4. t = tried[hit]
      BY <2>4, <3>1, <3>2, <3>3
    <3> QED  BY <2>4, <2>6, <2>9, <3>4 DEF hit
  <2> QED  BY <2>8, <2>9
<1> QED  BY <1>3, <1>4, <1>5

-----------------------------------------------------------------------------
(* Sequences of #includes                                                  *)

\* A sequence of #includes that the parser may meet in a file.
AllProper(i, system, current, todo) ==
  IsSeq(todo) /\ \A inc \in ToSet(todo) : Proper(i, system, current, inc)

LEMMA TargetsSeq ==
  ASSUME OptionsAgree, NEW i \in Compiled, NEW system, NEW current, NEW todo,
         AllProper(i, system, current, todo)
  PROVE  /\ Targets(i, system, current, todo) \in Seq(Answers(system))
         /\ Len(Targets(i, system, current, todo)) = Len(todo)
         /\ DOMAIN todo = 1 .. Len(todo) /\ Len(todo) \in Nat
         /\ \A k \in 1 .. Len(todo) :
              /\ Targets(i, system, current, todo)[k] = Target(i, system, current, todo[k])
              /\ Proper(i, system, current, todo[k])
<1>1. todo \in Seq(ToSet(todo))
  BY DEF AllProper, IsSeq
<1>2. DOMAIN todo = 1 .. Len(todo) /\ Len(todo) \in Nat
  BY <1>1, LenProperties
<1>3. \A k \in 1 .. Len(todo) : todo[k] \in ToSet(todo)
  BY <1>2 DEF ToSet
<1>4. \A k \in 1 .. Len(todo) : Proper(i, system, current, todo[k])
  BY <1>3 DEF AllProper
<1>5. \A k \in 1 .. Len(todo) :
        Target(i, system, current, todo[k]) \in Answers(system)
  BY <1>4, TargetExists
<1>6. Targets(i, system, current, todo) \in [1 .. Len(todo) -> Answers(system)]
  BY <1>2, <1>5 DEF Targets
<1>7. /\ Targets(i, system, current, todo) \in Seq(Answers(system))
      /\ Len(Targets(i, system, current, todo)) = Len(todo)
  BY <1>2, <1>6
<1>8. \A k \in 1 .. Len(todo) :
        Targets(i, system, current, todo)[k] = Target(i, system, current, todo[k])
  BY <1>2 DEF Targets
<1> QED  BY <1>2, <1>4, <1>7, <1>8

LEMMA TailProper ==
  ASSUME OptionsAgree, NEW i \in Compiled, NEW system, NEW current, NEW todo,
         AllProper(i, system, current, todo), todo # <<>>
  PROVE  /\ AllProper(i, system, current, Tail(todo)) /\ Head(todo) = todo[1]
         /\ Proper(i, system, current, todo[1]) /\ todo[1] \in ToSet(todo)
         /\ ToSet(Tail(todo)) \subseteq ToSet(todo)
         /\ Targets(i, system, current, todo) # <<>>
         /\ Targets(i, system, current, todo)[1] = Target(i, system, current, todo[1])
         /\ Targets(i, system, current, Tail(todo)) = Tail(Targets(i, system, current, todo))
<1> DEFINE S == ToSet(todo)
           T == Targets(i, system, current, todo)
           U == Targets(i, system, current, Tail(todo))
<1>1. /\ todo \in Seq(S) /\ Len(todo) \in Nat /\ Len(todo) >= 1
      /\ Len(T) = Len(todo) /\ T \in Seq(Answers(system))
      /\ \A k \in 1 .. Len(todo) :
           T[k] = Target(i, system, current, todo[k]) /\ Proper(i, system, current, todo[k])
  <2>1. todo \in Seq(S)
    BY DEF AllProper, IsSeq
  <2> HIDE DEF S
  <2> QED  BY <2>1, TargetsSeq, EmptySeq
<1>2. /\ Tail(todo) \in Seq(S) /\ Len(Tail(todo)) = Len(todo) - 1
      /\ \A k \in 1 .. Len(Tail(todo)) : Tail(todo)[k] = todo[k + 1]
  <2> HIDE DEF S
  <2> QED  BY <1>1, HeadTailProperties
<1>3. /\ IsSeq(Tail(todo)) /\ ToSet(Tail(todo)) \subseteq S
  <2> HIDE DEF S
  <2> QED  BY <1>2, ToSetSeq
<1>4. AllProper(i, system, current, Tail(todo))
  BY <1>3 DEF AllProper
<1>5. todo[1] \in S
  <2> HIDE DEF S
  <2> QED  BY <1>1, ElementOfSeq
<1>6. /\ U \in Seq(Answers(system)) /\ Len(U) = Len(Tail(todo))
      /\ \A k \in 1 .. Len(Tail(todo)) : U[k] = Target(i, system, current, Tail(todo)[k])
  <2> DEFINE rest == Tail(todo)
             V == Targets(i, system, current, rest)
  <2>1. AllProper(i, system, current, rest)
    BY <1>4
  <2> HIDE DEF rest
  <2>2. /\ V \in Seq(Answers(system)) /\ Len(V) = Len(rest)
        /\ \A k \in 1 .. Len(rest) : V[k] = Target(i, system, current, rest[k])
    BY <2>1, TargetsSeq
  <2> QED  BY <2>2 DEF rest
<1> HIDE DEF T, U, S
<1>7. T # <<>>
  BY <1>1
<1>8. /\ Tail(T) \in Seq(Answers(system)) /\ Len(Tail(T)) = Len(T) - 1
      /\ \A k \in 1 .. Len(Tail(T)) : Tail(T)[k] = T[k + 1]
  BY <1>1, <1>7, HeadTailProperties
<1>9. \A k \in 1 .. Len(U) : U[k] = Tail(T)[k]
  <2> TAKE k \in 1 .. Len(U)
  <2>1. /\ k \in 1 .. Len(Tail(todo)) /\ k \in 1 .. Len(Tail(T))
        /\ k + 1 \in 1 .. Len(todo)
    BY <1>1, <1>2, <1>6, <1>8
  <2> QED  BY <2>1, <1>1, <1>2, <1>6, <1>8
<1>10. U = Tail(T)
  <2>1. U \in Seq(Answers(system)) /\ Tail(T) \in Seq(Answers(system)) /\ Len(U) = Len(Tail(T))
    BY <1>1, <1>2, <1>6, <1>8
  <2> QED  BY <2>1, <1>9, SeqEqual
<1>11. Head(todo) = todo[1]
  BY <1>1
<1> QED  BY <1>1, <1>3, <1>4, <1>5, <1>7, <1>10, <1>11 DEF T, U, S

\* Any file is read properly.
LEMMA StatementsProper ==
  ASSUME OrdinarySystems, NEW system \in FileSystems, NEW i \in Compiled,
         NEW file \in DOMAIN system
  PROVE  /\ AllProper(i, system, file, RefStatements(system[file]))
         /\ \A inc \in ToSet(RefStatements(system[file])) :
              /\ inc.pch = FALSE /\ inc.form \in {"quote", "angle", "next"}
         /\ collectIncludeStatementsInFile(system[file]) = RefStatements(system[file])
<1>1. OrdinaryFile(system, file)
  BY DEF OrdinarySystems
<1> DEFINE found == RefStatements(system[file])
<1>2. collectIncludeStatementsInFile(system[file]) = found /\ IsSeq(found)
  BY <1>1 DEF OrdinaryFile
<1>3. ASSUME NEW inc \in ToSet(found)
      PROVE  /\ Proper(i, system, file, inc) /\ inc.pch = FALSE
             /\ inc.form \in {"quote", "angle", "next"}
  <2>1. /\ inc \in [kind : {"#include"}, form : {"quote", "angle", "next"}, arg : {inc.arg},
                    pch : {FALSE}]
        /\ inc.arg # "nocc-pch"
        /\ inc.form = "next" =>
              \E k \in DOMAIN RefChain[i] :
                /\ RefChain[i][k] = file[1]
                /\ \A n \in 1..(k-1) : ~ Within(file[1], RefChain[i][n])
    BY <1>1 DEF OrdinaryFile
  <2>2. /\ inc.pch = FALSE /\ inc.form \in {"quote", "angle", "next"}
        /\ inc \in [kind : {"#include"}, form : {"quote", "angle", "next", "abs"},
                    arg : {inc.arg}, pch : BOOLEAN]
    BY <2>1
  <2> QED  BY <2>1, <2>2 DEF Proper
<1> QED  BY <1>2, <1>3 DEF AllProper

LEMMA AdjIsNested ==
  ASSUME Agreeing, NEW system \in FileSystems, NEW i \in Compiled, NEW file \in DOMAIN system
  PROVE  /\ Adj(i, system, file) \in Seq(Answers(system))
         /\ ToSet(Adj(i, system, file)) \ {None} = RefNested(i, system, file)
         /\ RefNested(i, system, file) \subseteq DOMAIN system
<1> DEFINE found == RefStatements(system[file])
<1>1. /\ AllProper(i, system, file, found)
      /\ \A inc \in ToSet(found) : inc.form \in {"quote", "angle", "next"}
      /\ OptionsAgree
  BY StatementsProper DEF Agreeing
<1>2. /\ Adj(i, system, file) \in Seq(Answers(system))
      /\ Len(Adj(i, system, file)) = Len(found)
      /\ DOMAIN found = 1 .. Len(found)
      /\ \A k \in 1 .. Len(found) : Adj(i, system, file)[k] = Target(i, system, file, found[k])
  BY <1>1, TargetsSeq DEF Adj
<1>3. \A k \in 1 .. Len(found) : Adj(i, system, file)[k] = RefFile(i, file, found[k], DOMAIN system)
  <2> TAKE k \in 1 .. Len(found)
  <2>1. found[k] \in ToSet(found)
    BY <1>2 DEF ToSet
  <2> QED  BY <2>1, <1>1, <1>2 DEF Target
<1>4. RefIncludes[system[file]] = found
  <2>1. system[file] \in UNION {{y[f] : f \in DOMAIN y} : y \in FileSystems}
    OBVIOUS
  <2> QED  BY <2>1 DEF RefIncludes
<1>5. ToSet(Adj(i, system, file))
        = {RefFile(i, file, inc, DOMAIN system) : inc \in ToSet(found)}
  <2>1. DOMAIN Adj(i, system, file) = 1 .. Len(found)
    BY <1>2, LenProperties
  <2> QED  BY <1>2, <1>3, <2>1 DEF ToSet
<1>6. RefNested(i, system, file) = ToSet(Adj(i, system, file)) \ {None}
  BY <1>4, <1>5 DEF RefNested
<1>7. ToSet(Adj(i, system, file)) \subseteq Answers(system)
  BY <1>2, ToSetSeq
<1> QED  BY <1>2, <1>6, <1>7 DEF Answers

-----------------------------------------------------------------------------
(* The stack of files that are being read                                  *)

(***************************************************************************)
(* A file that is being read: if it will be cached, what it has included   *)
(* and what is left to read are together all that it includes.             *)
(***************************************************************************)
FrameIsRight(i, system, frame) ==
  /\ frame \in [file : {frame.file}, todo : {frame.todo}, cache : BOOLEAN,
                nested : {frame.nested}, remember : {frame.remember}]
  /\ frame.file \in DOMAIN system
  /\ AllProper(i, system, frame.file, frame.todo)
  /\ frame.cache => /\ shouldCacheHFile(i, frame.file) /\ frame.nested \in Seq(DOMAIN system)
                    /\ Alike(frame.nested \o Targets(i, system, frame.file, frame.todo),
                             Adj(i, system, frame.file), {None})
  /\ NamesAreRight(system, frame.remember)

\* A file is being read because of the #include that its reader is at.
LeadsTo(i, system, reader, file) ==
  /\ reader.todo # <<>>
  /\ file = Target(i, system, reader.file, Head(reader.todo))

StackIsRight(i, system, st) ==
  /\ IsSeq(st)
  /\ \A p \in 1 .. Len(st) : FrameIsRight(i, system, st[p])
  /\ \A p \in 1 .. (Len(st) - 1) : LeadsTo(i, system, st[p + 1], st[p].file)

LEMMA PopFrame ==
  ASSUME Agreeing, NEW i \in Compiled, NEW system \in FileSystems, NEW frame,
         FrameIsRight(i, system, frame), frame.todo # <<>>, NEW d,
         frame.cache => d = Target(i, system, frame.file, Head(frame.todo))
  PROVE  /\ FrameIsRight(i, system, Popped(frame, d))
         /\ Popped(frame, d).file = frame.file /\ Popped(frame, d).todo = Tail(frame.todo)
         /\ Popped(frame, d).cache = frame.cache
<1> DEFINE new == Popped(frame, d)
           nested == IF d = None THEN frame.nested ELSE Append(frame.nested, d)
           T == Targets(i, system, frame.file, frame.todo)
           U == Targets(i, system, frame.file, Tail(frame.todo))
<1>1. /\ new.file = frame.file /\ new.todo = Tail(frame.todo) /\ new.cache = frame.cache
      /\ new.nested = nested /\ new.remember = frame.remember
      /\ new \in [file : {new.file}, todo : {new.todo}, cache : BOOLEAN,
                  nested : {new.nested}, remember : {new.remember}]
  BY DEF FrameIsRight, Popped
<1>2. /\ OptionsAgree /\ AllProper(i, system, frame.file, frame.todo)
      /\ None \notin DOMAIN system
  BY PchFacts DEF FrameIsRight, Agreeing
<1>3. /\ AllProper(i, system, frame.file, Tail(frame.todo))
      /\ T # <<>> /\ T[1] = Target(i, system, frame.file, Head(frame.todo)) /\ U = Tail(T)
      /\ T \in Seq(Answers(system))
  BY <1>2, TailProper, TargetsSeq
<1>4. ASSUME frame.cache
      PROVE  /\ shouldCacheHFile(i, frame.file) /\ nested \in Seq(DOMAIN system)
             /\ Alike(nested \o U, Adj(i, system, frame.file), {None})
  <2>1. /\ shouldCacheHFile(i, frame.file) /\ frame.nested \in Seq(DOMAIN system)
        /\ Alike(frame.nested \o T, Adj(i, system, frame.file), {None})
        /\ d = T[1]
    BY <1>3, <1>4 DEF FrameIsRight
  <2>2. frame.nested \in Seq(Answers(system)) /\ T[1] \in Answers(system)
    <3>1. DOMAIN system \subseteq Answers(system)
      BY DEF Answers
    <3>2. frame.nested \in Seq(Answers(system))
      BY <2>1, <3>1, SeqMonotonic
    <3>3. T[1] \in Answers(system)
      <4> HIDE DEF T
      <4> QED  BY <1>3, EmptySeq, ElementOfSeq
    <3> QED  BY <3>2, <3>3
  <2>3. CASE d = None
    <3> HIDE DEF T, U
    <3>1. Alike(frame.nested \o Tail(T), Adj(i, system, frame.file), {None})
      BY <1>3, <2>1, <2>2, <2>3, AlikeDropNone
    <3> QED  BY <1>3, <2>1, <2>3, <3>1
  <2>4. CASE d # None
    <3>1. d \in DOMAIN system
      BY <2>1, <2>2, <2>4 DEF Answers
    <3>2. Append(frame.nested, T[1]) \o Tail(T) = frame.nested \o T
      <4> HIDE DEF T, U
      <4> QED  BY <1>3, <2>2, MoveHead
    <3>3. Append(frame.nested, d) \in Seq(DOMAIN system)
      BY <2>1, <3>1, AppendProperties
    <3> HIDE DEF T, U
    <3> QED  BY <1>3, <2>1, <2>4, <3>2, <3>3
  <2> QED  BY <2>3, <2>4
<1>5. /\ frame.file \in DOMAIN system /\ NamesAreRight(system, frame.remember)
  BY DEF FrameIsRight
<1> HIDE DEF new, nested, T
<1>6. FrameIsRight(i, system, new)
  BY <1>1, <1>3, <1>4, <1>5 DEF FrameIsRight
<1> QED  BY <1>1, <1>6 DEF new

LEMMA PopStack ==
  ASSUME Agreeing, NEW i \in Compiled, NEW system \in FileSystems, NEW st,
         StackIsRight(i, system, st), st # <<>>, st[1].todo # <<>>, NEW d,
         st[1].cache => d = Target(i, system, st[1].file, Head(st[1].todo))
  PROVE  StackIsRight(i, system, <<Popped(st[1], d)>> \o Tail(st))
<1> DEFINE new == Popped(st[1], d)
           st2 == <<new>> \o Tail(st)
           S == ToSet(st) \cup {new}
<1>1. st \in Seq(ToSet(st))
  BY DEF StackIsRight, IsSeq
<1>2. st \in Seq(S)
  BY <1>1, SeqMonotonic
<1> HIDE DEF S
<1>3. /\ Len(st) \in Nat /\ Len(st) >= 1
      /\ Tail(st) \in Seq(S) /\ Len(Tail(st)) = Len(st) - 1
      /\ \A p \in 1 .. Len(Tail(st)) : Tail(st)[p] = st[p + 1]
  BY <1>2, HeadTailProperties, EmptySeq
<1>4. new \in S
  BY DEF S
<1>5. /\ st2 \in Seq(S) /\ Len(st2) = Len(st) /\ st2[1] = new
      /\ \A p \in 2 .. Len(st) : st2[p] = st[p]
  <2> DEFINE rest == Tail(st)
  <2>1. /\ rest \in Seq(S) /\ Len(rest) = Len(st) - 1
        /\ \A p \in 1 .. Len(rest) : rest[p] = st[p + 1]
    BY <1>3
  <2> HIDE DEF rest, new
  <2>2. /\ <<new>> \o rest \in Seq(S) /\ Len(<<new>> \o rest) = Len(rest) + 1
        /\ (<<new>> \o rest)[1] = new
        /\ \A p \in 1 .. Len(rest) : (<<new>> \o rest)[p + 1] = rest[p]
    BY <1>4, <2>1, ConsSeq
  <2>3. Len(rest) + 1 = Len(st)
    BY <1>3, <2>1
  <2>5. ASSUME NEW p \in 2 .. Len(st) PROVE (<<new>> \o rest)[p] = st[p]
    <3>1. p - 1 \in 1 .. Len(rest) /\ (p - 1) + 1 = p
      BY <1>3, <2>1
    <3>2. (<<new>> \o rest)[(p - 1) + 1] = rest[p - 1] /\ rest[p - 1] = st[(p - 1) + 1]
      BY <2>1, <2>2, <3>1
    <3> QED  BY <3>1, <3>2
  <2> QED  BY <2>2, <2>3, <2>5 DEF rest
<1>6. /\ FrameIsRight(i, system, new) /\ new.file = st[1].file
  <2>1. FrameIsRight(i, system, st[1])
    BY <1>3 DEF StackIsRight
  <2> QED  BY <2>1, PopFrame
<1>7. IsSeq(st2)
  <2> HIDE DEF st2
  <2> QED  BY <1>5, ToSetSeq
<1>8. \A p \in 1 .. Len(st2) : FrameIsRight(i, system, st2[p])
  <2> TAKE p \in 1 .. Len(st2)
  <2>1. CASE p = 1
    BY <1>5, <1>6, <2>1
  <2>2. CASE p # 1
    <3>1. p \in 2 .. Len(st) /\ p \in 1 .. Len(st)
      BY <1>3, <1>5, <2>2
    <3> QED  BY <1>5, <3>1 DEF StackIsRight
  <2> QED  BY <2>1, <2>2
<1>9. \A p \in 1 .. (Len(st2) - 1) : LeadsTo(i, system, st2[p + 1], st2[p].file)
  <2> TAKE p \in 1 .. (Len(st2) - 1)
  <2>1. /\ p \in 1 .. (Len(st) - 1) /\ p + 1 \in 2 .. Len(st) /\ p \in 1 .. Len(st)
    BY <1>3, <1>5
  <2>2. st2[p + 1] = st[p + 1] /\ st2[p].file = st[p].file
    <3>1. CASE p = 1
      BY <1>5, <1>6, <2>1, <3>1
    <3>2. CASE p # 1
      <4>1. p \in 2 .. Len(st)
        BY <1>3, <2>1, <3>2
      <4> QED  BY <1>5, <2>1, <4>1
    <3> QED  BY <3>1, <3>2
  <2> QED  BY <2>1, <2>2 DEF StackIsRight
<1> QED  BY <1>7, <1>8, <1>9 DEF StackIsRight

LEMMA PushStack ==
  ASSUME NEW i, NEW system, NEW st, StackIsRight(i, system, st), NEW frame,
         FrameIsRight(i, system, frame),
         st # <<>> => LeadsTo(i, system, st[1], frame.file)
  PROVE  StackIsRight(i, system, <<frame>> \o st)
<1> DEFINE S == ToSet(st) \cup {frame}
           st2 == <<frame>> \o st
<1>1. st \in Seq(ToSet(st))
  BY DEF StackIsRight, IsSeq
<1>2. st \in Seq(S) /\ Len(st) \in Nat
  BY <1>1, SeqMonotonic, LenProperties
<1>3. frame \in S
  OBVIOUS
<1> HIDE DEF S
<1>4. /\ st2 \in Seq(S) /\ Len(st2) = Len(st) + 1
      /\ st2[1] = frame /\ \A p \in 1 .. Len(st) : st2[p + 1] = st[p]
  BY <1>2, <1>3, ConsSeq
<1> HIDE DEF st2
<1>5. IsSeq(st2)
  BY <1>4, ToSetSeq
<1>6. st2[1] = frame /\ \A p \in 1 .. Len(st) : st2[p + 1] = st[p]
  BY <1>4
<1>7. \A p \in 1 .. Len(st2) : FrameIsRight(i, system, st2[p])
  <2> TAKE p \in 1 .. Len(st2)
  <2>1. CASE p = 1
    BY <1>6, <2>1
  <2>2. CASE p # 1
    <3>1. p - 1 \in 1 .. Len(st) /\ (p - 1) + 1 = p
      BY <1>2, <1>4, <2>2
    <3>2. st2[p] = st[p - 1]
      BY <1>6, <3>1
    <3> QED  BY <3>1, <3>2 DEF StackIsRight
  <2> QED  BY <2>1, <2>2
<1>8. \A p \in 1 .. (Len(st2) - 1) : LeadsTo(i, system, st2[p + 1], st2[p].file)
  <2> TAKE p \in 1 .. (Len(st2) - 1)
  <2>1. p \in 1 .. Len(st)
    BY <1>2, <1>4
  <2>2. CASE p = 1
    <3>1. st # <<>>
      BY <1>2, <2>1, EmptySeq
    <3> QED  BY <1>6, <2>1, <2>2, <3>1
  <2>3. CASE p # 1
    <3>1. p - 1 \in 1 .. (Len(st) - 1) /\ (p - 1) + 1 = p /\ p - 1 \in 1 .. Len(st)
      BY <1>2, <2>1, <2>3
    <3>2. st2[p] = st[p - 1] /\ st2[p + 1] = st[p]
      BY <1>6, <2>1, <3>1
    <3>3. LeadsTo(i, system, st[(p - 1) + 1], st[p - 1].file)
      BY <3>1 DEF StackIsRight
    <3> QED  BY <3>1, <3>2, <3>3
  <2> QED  BY <2>2, <2>3
<1> QED  BY <1>5, <1>7, <1>8 DEF StackIsRight, st2

\* The stack below the innermost file.
LEMMA TailStack ==
  ASSUME NEW i, NEW system, NEW st, StackIsRight(i, system, st), st # <<>>
  PROVE  /\ StackIsRight(i, system, Tail(st)) /\ Len(Tail(st)) = Len(st) - 1
         /\ Len(st) \in Nat /\ Len(st) >= 1
         /\ \A p \in 1 .. Len(Tail(st)) : Tail(st)[p] = st[p + 1]
<1> DEFINE S == ToSet(st)
           rest == Tail(st)
<1>1. st \in Seq(S)
  BY DEF StackIsRight, IsSeq
<1> HIDE DEF S
<1>2. /\ rest \in Seq(S) /\ Len(rest) = Len(st) - 1 /\ Len(st) \in Nat /\ Len(st) >= 1
      /\ \A p \in 1 .. Len(rest) : rest[p] = st[p + 1]
  BY <1>1, HeadTailProperties, EmptySeq
<1> HIDE DEF rest
<1>3. IsSeq(rest)
  BY <1>2, ToSetSeq
<1>4. \A p \in 1 .. Len(rest) : p + 1 \in 1 .. Len(st) /\ FrameIsRight(i, system, rest[p])
  BY <1>2 DEF StackIsRight
<1>5. \A p \in 1 .. (Len(rest) - 1) : LeadsTo(i, system, rest[p + 1], rest[p].file)
  <2> TAKE p \in 1 .. (Len(rest) - 1)
  <2>1. p \in 1 .. Len(rest) /\ p + 1 \in 1 .. Len(rest) /\ p + 1 \in 1 .. (Len(st) - 1)
    BY <1>2
  <2>2. LeadsTo(i, system, st[(p + 1) + 1], st[p + 1].file)
    BY <2>1 DEF StackIsRight
  <2> QED  BY <1>2, <2>1, <2>2
<1> QED  BY <1>2, <1>3, <1>4, <1>5 DEF StackIsRight, rest

-----------------------------------------------------------------------------
(* What a .cpp includes, and what caches and paths gain                    *)

\* The #includes of a .cpp with those of the command line before them.
Explicit(i) ==
  [k \in DOMAIN invocation[i].filesI |-> AbsPath(invocation[i].filesI[k], SearchesForPch(i))]
Marked(i, system) ==
  [k \in DOMAIN RefStatements(system[CppInFile(i)]) |->
     MarkPch(RefStatements(system[CppInFile(i)])[k], k = 1 /\ SearchesForPch(i))]
CppTodo(i, system) == (<<Angle(Predef)>> \o Explicit(i)) \o Marked(i, system)

LEMMA AngleProper ==
  ASSUME NEW i, NEW system, NEW current, NEW name, name # "nocc-pch"
  PROVE  Proper(i, system, current, Angle(name))
<1>1. Angle(name).form = "angle" /\ Angle(name).arg = name
  BY DEF Angle
<1>2. Angle(name) \in [kind : {"#include"}, form : {"quote", "angle", "next", "abs"},
                       arg : {name}, pch : BOOLEAN]
  BY DEF Angle
<1> QED  BY <1>1, <1>2 DEF Proper

LEMMA AbsProper ==
  ASSUME NEW i, NEW system, NEW current, NEW file \in DOMAIN system
  PROVE  Proper(i, system, current, AbsPath(file, FALSE)) /\ AbsPath(file, FALSE).pch = FALSE
<1>1. /\ AbsPath(file, FALSE).form = "abs" /\ AbsPath(file, FALSE).arg = file
      /\ AbsPath(file, FALSE).pch = FALSE
  BY DEF AbsPath
<1>2. AbsPath(file, FALSE) \in [kind : {"#include"}, form : {"quote", "angle", "next", "abs"},
                               arg : {file}, pch : BOOLEAN]
  BY DEF AbsPath
<1> QED  BY <1>1, <1>2 DEF Proper

LEMMA CppTodoIs ==
  ASSUME Agreeing, NEW system \in FileSystems, NEW i \in Compiled, CppInFile(i) \in DOMAIN system
  PROVE  LET found == RefStatements(system[CppInFile(i)])
             filesI == invocation[i].filesI
             todo == CppTodo(i, system)
         IN /\ AllProper(i, system, CppInFile(i), todo)
            /\ Len(filesI) \in Nat /\ Len(found) \in Nat
            /\ Len(todo) = (1 + Len(filesI)) + Len(found)
            /\ todo[1] = Angle(Predef)
            /\ \A k \in 1 .. Len(filesI) : todo[1 + k] = AbsPath(filesI[k], SearchesForPch(i))
            /\ \A k \in 1 .. Len(found) :
                 todo[(1 + Len(filesI)) + k] = MarkPch(found[k], k = 1 /\ SearchesForPch(i))
<1> DEFINE found == RefStatements(system[CppInFile(i)])
           filesI == invocation[i].filesI
           todo == CppTodo(i, system)
           a == <<Angle(Predef)>>
           b == Explicit(i)
           c == Marked(i, system)
           S == {Angle(Predef)} \cup ToSet(b) \cup ToSet(c)
<1>1. /\ OptionsAgree /\ IsSeq(filesI) /\ AllProper(i, system, CppInFile(i), found)
      /\ IsSeq(found) /\ RefExplicit[i] = ToSet(filesI) /\ RefExplicit[i] \subseteq DOMAIN system
      /\ Predef # "nocc-pch"
  BY StatementsProper DEF Agreeing, OptionsAgree, OrdinarySystems, AllProper
<1>2. /\ DOMAIN filesI = 1 .. Len(filesI) /\ Len(filesI) \in Nat
      /\ DOMAIN found = 1 .. Len(found) /\ Len(found) \in Nat
  BY <1>1, LenProperties DEF IsSeq
<1>3. /\ \A k \in 1 .. Len(filesI) : b[k] = AbsPath(filesI[k], SearchesForPch(i))
      /\ \A k \in 1 .. Len(found) : c[k] = MarkPch(found[k], k = 1 /\ SearchesForPch(i))
      /\ DOMAIN b = 1 .. Len(filesI) /\ DOMAIN c = 1 .. Len(found)
  BY <1>2 DEF Explicit, Marked
<1>4. /\ \A k \in 1 .. Len(filesI) : b[k] \in ToSet(b)
      /\ \A k \in 1 .. Len(found) : c[k] \in ToSet(c)
  BY <1>3 DEF ToSet
<1>5. b \in Seq(S) /\ Len(b) = Len(filesI) /\ c \in Seq(S) /\ Len(c) = Len(found)
  <2>1. b \in [1 .. Len(filesI) -> S]
    BY <1>2, <1>4 DEF Explicit
  <2>2. c \in [1 .. Len(found) -> S]
    BY <1>2, <1>4 DEF Marked
  <2> HIDE DEF b, c, S
  <2> QED  BY <1>2, <2>1, <2>2
<1>6. Angle(Predef) \in S
  OBVIOUS
<1> HIDE DEF S, b, c
<1>7. /\ a \o b \in Seq(S) /\ Len(a \o b) = 1 + Len(filesI)
      /\ (a \o b)[1] = Angle(Predef)
      /\ \A k \in 1 .. Len(filesI) : (a \o b)[1 + k] = b[k]
  <2>1. /\ a \o b \in Seq(S) /\ Len(a \o b) = Len(b) + 1 /\ (a \o b)[1] = Angle(Predef)
        /\ \A k \in 1 .. Len(b) : (a \o b)[k + 1] = b[k]
    BY <1>5, <1>6, ConsSeq
  <2>2. Len(b) + 1 = 1 + Len(filesI) /\ \A k \in 1 .. Len(filesI) : 1 + k = k + 1
    BY <1>2, <1>5
  <2> QED  BY <1>5, <2>1, <2>2
<1> DEFINE ab == a \o b
<1>8. /\ ab \in Seq(S) /\ Len(ab) = 1 + Len(filesI) /\ todo = ab \o c
  BY <1>7 DEF CppTodo, b, c
<1> HIDE DEF ab, todo
<1>9. /\ todo \in Seq(S) /\ Len(todo) = (1 + Len(filesI)) + Len(found)
      /\ \A k \in 1 .. (1 + Len(filesI)) + Len(found) :
           todo[k] = IF k <= 1 + Len(filesI) THEN ab[k] ELSE c[k - (1 + Len(filesI))]
  <2>1. /\ ab \o c \in Seq(S) /\ Len(ab \o c) = Len(ab) + Len(c)
        /\ \A k \in 1 .. Len(ab) + Len(c) :
             (ab \o c)[k] = IF k <= Len(ab) THEN ab[k] ELSE c[k - Len(ab)]
    <3>1. ab \in Seq(S) /\ c \in Seq(S)
      BY <1>5, <1>8
    <3> QED  BY <3>1, ConcatProperties
  <2> QED  BY <1>5, <1>8, <2>1
<1>10. todo[1] = Angle(Predef)
  <2>1. 1 \in 1 .. (1 + Len(filesI)) + Len(found) /\ 1 <= 1 + Len(filesI)
    BY <1>2
  <2>2. ab[1] = Angle(Predef)
    BY <1>7 DEF ab
  <2> QED  BY <1>9, <2>1, <2>2
<1>11. ASSUME NEW k \in 1 .. Len(filesI)
       PROVE  todo[1 + k] = AbsPath(filesI[k], SearchesForPch(i))
  <2>1. 1 + k \in 1 .. (1 + Len(filesI)) + Len(found) /\ 1 + k <= 1 + Len(filesI)
    BY <1>2
  <2>2. ab[1 + k] = b[k]
    BY <1>7 DEF ab
  <2> QED  BY <1>3, <1>9, <2>1, <2>2
<1>12. ASSUME NEW k \in 1 .. Len(found)
       PROVE  todo[(1 + Len(filesI)) + k] = MarkPch(found[k], k = 1 /\ SearchesForPch(i))
  <2>1. /\ (1 + Len(filesI)) + k \in 1 .. (1 + Len(filesI)) + Len(found)
        /\ ~ ((1 + Len(filesI)) + k <= 1 + Len(filesI))
        /\ ((1 + Len(filesI)) + k) - (1 + Len(filesI)) = k
    BY <1>2
  <2> QED  BY <1>3, <1>9, <2>1
<1>13. ASSUME NEW k \in 1 .. Len(todo) PROVE Proper(i, system, CppInFile(i), todo[k])
  <2>1. CASE k = 1
    BY <1>1, <1>10, <2>1, AngleProper
  <2>2. CASE k # 1 /\ k <= 1 + Len(filesI)
    <3>1. k - 1 \in 1 .. Len(filesI) /\ 1 + (k - 1) = k
      BY <1>2, <2>2
    <3>2. filesI[k - 1] \in DOMAIN system
      BY <1>1, <1>2, <3>1 DEF ToSet
    <3>3. todo[k] = AbsPath(filesI[k - 1], SearchesForPch(i))
      BY <1>11, <3>1
    <3>4. SearchesForPch(i) \in BOOLEAN
      BY DEF SearchesForPch
    <3> QED  BY <3>2, <3>3, <3>4 DEF Proper, AbsPath
  <2>3. CASE k > 1 + Len(filesI)
    <3> DEFINE n == k - (1 + Len(filesI))
    <3>1. n \in 1 .. Len(found) /\ (1 + Len(filesI)) + n = k
      BY <1>2, <1>9, <2>3
    <3> HIDE DEF n
    <3>2. todo[k] = MarkPch(found[n], n = 1 /\ SearchesForPch(i))
      BY <1>12, <3>1
    <3>3. Proper(i, system, CppInFile(i), found[n])
      BY <1>1, <1>2, <3>1 DEF AllProper, ToSet
    <3>4. (n = 1 /\ SearchesForPch(i)) \in BOOLEAN
      OBVIOUS
    <3> QED  BY <3>2, <3>3, <3>4 DEF Proper, MarkPch
  <2> QED  BY <1>2, <1>9, <2>1, <2>2, <2>3
<1>14. AllProper(i, system, CppInFile(i), todo)
  <2>1. IsSeq(todo) /\ \A inc \in ToSet(todo) : \E k \in 1 .. Len(todo) : inc = todo[k]
    BY <1>9, ToSetSeq
  <2> QED  BY <1>13, <2>1 DEF AllProper
<1> QED  BY <1>2, <1>9, <1>10, <1>11, <1>12, <1>14 DEF todo

-----------------------------------------------------------------------------
LEMMA NamesInto ==
  ASSUME NEW system, NEW a, NEW b, NamesAreRight(system, a), NamesAreRight(system, b)
  PROVE  NamesAreRight(system, Into(a, b))
  BY DEF NamesAreRight, Into

LEMMA NoNames == ASSUME NEW system PROVE NamesAreRight(system, <<>>)
  BY DEF NamesAreRight

LEMMA NameEntry ==
  ASSUME OptionsAgree, NEW i \in Compiled, NEW system, NEW current, NEW inc, inc.form = "angle"
  PROVE  NamesAreRight(system, Entry(inc.arg, Target(i, system, current, inc)))
  BY NameStandsFor DEF NamesAreRight, Entry

LEMMA HeadersInto ==
  ASSUME NEW system, NEW a, NEW b, HeadersAreRight(system, a), HeadersAreRight(system, b)
  PROVE  HeadersAreRight(system, Into(a, b))
<1> SUFFICES ASSUME NEW file \in DOMAIN Into(a, b)
             PROVE  /\ file \in DOMAIN system /\ Into(a, b)[file] \in Seq(DOMAIN system)
                    /\ \A j \in Compiled : Alike(Into(a, b)[file], Adj(j, system, file), {None})
  BY DEF HeadersAreRight
<1>1. CASE file \in DOMAIN b
  <2>1. Into(a, b)[file] = b[file]
    BY <1>1 DEF Into
  <2> QED  BY <1>1, <2>1 DEF HeadersAreRight
<1>2. CASE file \notin DOMAIN b
  <2>1. Into(a, b)[file] = a[file] /\ file \in DOMAIN a
    BY <1>2 DEF Into
  <2> QED  BY <2>1 DEF HeadersAreRight
<1> QED  BY <1>1, <1>2

LEMMA NoHeaders == ASSUME NEW system PROVE HeadersAreRight(system, <<>>)
  BY DEF HeadersAreRight

LEMMA SeenFailed ==
  ASSUME NEW system, NEW u, SeenIsTrue(system, u), NEW paths, paths \cap DOMAIN system = {}
  PROVE  SeenIsTrue(system, Into([file \in paths |-> None], u))
  BY DEF SeenIsTrue, Into

LEMMA SeenNew ==
  ASSUME NEW system, NEW u, SeenIsTrue(system, u), NEW file \in DOMAIN system
  PROVE  SeenIsTrue(system, Into(u, Entry(file, file)))
  BY DEF SeenIsTrue, Into, Entry

\* The entries for a file that a precompiled header stands for.
PchEntries(file) == [f \in {file, PchOf(file)} |-> PchOf(file)]

LEMMA SeenPch ==
  ASSUME NEW system, NEW u, SeenIsTrue(system, u), NEW file \in OwnPchs
  PROVE  SeenIsTrue(system, Into(u, PchEntries(file)))
  BY DEF SeenIsTrue, Into, PchEntries

-----------------------------------------------------------------------------
(* What a step is to the files that were found                             *)

\* The files that an invocation has found.
Known(system, u) == DOMAIN u \cap DOMAIN system

\* What the innermost file needs next.
Wanted(i, system, st) == Target(i, system, st[1].file, Head(st[1].todo))

(***************************************************************************)
(* What an invocation goes through: an #include that tells it nothing new, *)
(* one that is replaced by a precompiled header, one that leads to another *)
(* file, and the end of a file.                                            *)
(***************************************************************************)
SkipMove(i, system, st, K, h, st2, K2, h2) ==
  /\ st[1].todo # <<>> /\ Wanted(i, system, st) \in K \cup {None}
  /\ K2 = K /\ h2 = h
  /\ \E d : st2 = <<Popped(st[1], d)>> \o Tail(st)

PchMove(i, system, st, K, h, st2, K2, h2) ==
  LET t == Wanted(i, system, st) IN
    /\ st[1].todo # <<>> /\ t \notin K /\ t \in OwnPchs /\ Head(st[1].todo).pch
    /\ K2 = K \cup {t} /\ h2 = Append(h, PchOf(t))
    /\ \E d : st2 = <<Popped(st[1], d)>> \o Tail(st)

\* A file that is opened, or taken from the cache, with what is to be read of it.
Opened(i, system, frame, file) ==
  /\ frame.file = file
  /\ Alike(Targets(i, system, file, frame.todo), Adj(i, system, file), {None})
  /\ \A inc \in ToSet(frame.todo) : inc.pch = FALSE

OpenMove(i, system, st, K, h, st2, K2, h2) ==
  LET t == Wanted(i, system, st) IN
    /\ st[1].todo # <<>> /\ t \notin K /\ t \in DOMAIN system
    /\ ~ (Head(st[1].todo).pch /\ t \in OwnPchs)
    /\ K2 = K \cup {t} /\ h2 = Append(h, t)
    /\ \E frame : st2 = <<frame>> \o st /\ Opened(i, system, frame, t)

ReturnMove(i, system, st, K, h, st2, K2, h2) ==
  /\ st[1].todo = <<>> /\ Len(st) > 1
  /\ K2 = K /\ h2 = h
  /\ \E d : st2 = <<Popped(Tail(st)[1], d)>> \o Tail(Tail(st))

Move(i, system, st, K, h, st2, K2, h2) ==
  \/ SkipMove(i, system, st, K, h, st2, K2, h2)
  \/ PchMove(i, system, st, K, h, st2, K2, h2)
  \/ OpenMove(i, system, st, K, h, st2, K2, h2)
  \/ ReturnMove(i, system, st, K, h, st2, K2, h2)

-----------------------------------------------------------------------------
(***************************************************************************)
(* What all of them know is true.                                          *)
(***************************************************************************)
SharedIsTrue ==
  /\ files \in FileSystems
  /\ statements = [file \in DOMAIN files |-> RefStatements(files[file])]
  /\ NamesAreRight(files, includesResolve) /\ HeadersAreRight(files, hFilesInfo)
  /\ DOMAIN pc = Invocations /\ DOMAIN stack = Invocations
  /\ DOMAIN uniqSeen = Invocations /\ DOMAIN hFiles = Invocations

OwnIsTrue(i) ==
  /\ pc[i] \in {"idle", "collect", "done"}
  /\ pc[i] = "idle" => uniqSeen[i] = <<>> /\ hFiles[i] = <<>>
  /\ pc[i] # "idle" => /\ i \in Compiled /\ CppInFile(i) \in DOMAIN files
                       /\ SeenIsTrue(files, uniqSeen[i])
  /\ pc[i] = "collect" => StackIsRight(i, files, stack[i]) /\ stack[i] # <<>>

TruthInv == SharedIsTrue /\ \A i \in Invocations : OwnIsTrue(i)

\* A step of one invocation on its own state and the caches.
OnlyOf(i) ==
  /\ UNCHANGED <<files, statements>>
  /\ DOMAIN pc' = Invocations /\ DOMAIN stack' = Invocations
  /\ DOMAIN uniqSeen' = Invocations /\ DOMAIN hFiles' = Invocations
  /\ \A j \in Invocations \ {i} :
       /\ pc'[j] = pc[j] /\ stack'[j] = stack[j]
       /\ uniqSeen'[j] = uniqSeen[j] /\ hFiles'[j] = hFiles[j]

\* A step while it collects.
Collects(i) ==
  /\ OnlyOf(i) /\ pc[i] = "collect" /\ pc'[i] = "collect"
  /\ Move(i, files, stack[i], Known(files, uniqSeen[i]), hFiles[i],
          stack'[i], Known(files, uniqSeen'[i]), hFiles'[i])

LEMMA OthersStayTrue ==
  ASSUME TruthInv, NEW i \in Invocations, OnlyOf(i),
         NamesAreRight(files, includesResolve'), HeadersAreRight(files, hFilesInfo'),
         OwnIsTrue(i)'
  PROVE  TruthInv'
<1>1. SharedIsTrue'
  BY DEF TruthInv, SharedIsTrue, OnlyOf
<1>2. ASSUME NEW j \in Invocations, j # i PROVE OwnIsTrue(j)'
  <2>1. /\ pc'[j] = pc[j] /\ stack'[j] = stack[j] /\ uniqSeen'[j] = uniqSeen[j]
        /\ hFiles'[j] = hFiles[j] /\ files' = files
    BY <1>2 DEF OnlyOf
  <2>2. OwnIsTrue(j)
    BY DEF TruthInv
  <2> QED  BY <2>1, <2>2 DEF OwnIsTrue
<1> QED  BY <1>1, <1>2 DEF TruthInv

-----------------------------------------------------------------------------
(* Paths that failed, names and precompiled headers                        *)

LEMMA KnownFailed ==
  ASSUME NEW system, NEW u, NEW paths, paths \cap DOMAIN system = {}
  PROVE  Known(system, Into([file \in paths |-> None], u)) = Known(system, u)
  BY DEF Known, Into

\* The paths that are tried before the one that is there.
LEMMA FailedBefore ==
  ASSUME NEW system, NEW S, NEW tried \in Seq(S),
         NEW hit, hit # 0, IsFirstHit(system, tried, hit)
  PROVE  ToSet(SubSeq(tried, 1, hit - 1)) \cap DOMAIN system = {}
<1>1. /\ hit \in 1 .. Len(tried) /\ \A k \in 1 .. (hit - 1) : tried[k] \notin DOMAIN system
      /\ Len(tried) \in Nat
  BY LenProperties DEF IsFirstHit
<1>2. \A k \in 1 .. (hit - 1) : tried[k] \in S
  BY <1>1, ElementOfSeq
<1> DEFINE failed == SubSeq(tried, 1, hit - 1)
<1>3. /\ failed \in Seq(S) /\ Len(failed) = hit - 1
      /\ \A k \in 1 .. (hit - 1) : failed[k] = tried[k]
  BY <1>1, <1>2, SubSeqProperties
<1> HIDE DEF failed
<1>4. \A p \in ToSet(failed) : \E k \in 1 .. (hit - 1) : p = tried[k]
  <2>1. \A e \in ToSet(failed) : \E k \in 1 .. Len(failed) : e = failed[k]
    BY <1>3, ToSetSeq
  <2> QED  BY <1>3, <2>1
<1>5. ToSet(failed) \cap DOMAIN system = {}
  BY <1>1, <1>4
<1> QED  BY <1>5 DEF failed

LEMMA AllFailed ==
  ASSUME NEW system, NEW S, NEW tried \in Seq(S), IsFirstHit(system, tried, 0)
  PROVE  ToSet(tried) \cap DOMAIN system = {}
  BY ToSetSeq DEF IsFirstHit

LEMMA RememberedRight ==
  ASSUME OptionsAgree, NEW i \in Compiled, NEW system, NEW current, NEW inc
  PROVE  NamesAreRight(system, Remembered(i, inc, Target(i, system, current, inc)))
<1>1. CASE inc.form = "angle"
  BY <1>1, NameEntry, NoNames DEF Remembered
<1>2. CASE inc.form # "angle"
  BY <1>2, NoNames DEF Remembered
<1> QED  BY <1>1, <1>2

\* A precompiled header of its own has no part in what is cached of a header.
LEMMA CachedWithoutPch ==
  ASSUME Agreeing, NEW system \in FileSystems, NEW i \in Compiled, NEW frame,
         FrameIsRight(i, system, frame), frame.cache, frame.todo # <<>>
  PROVE  Target(i, system, frame.file, Head(frame.todo)) \notin OwnPchs
<1> DEFINE t == Target(i, system, frame.file, Head(frame.todo))
           T == Targets(i, system, frame.file, frame.todo)
           A == Adj(i, system, frame.file)
           l == frame.nested \o T
<1>1. /\ OptionsAgree /\ AllProper(i, system, frame.file, frame.todo)
      /\ frame.file \in DOMAIN system /\ None \notin DOMAIN system
      /\ shouldCacheHFile(i, frame.file) /\ frame.nested \in Seq(DOMAIN system)
      /\ Alike(l, A, {None})
  BY PchFacts DEF Agreeing, FrameIsRight
<1>2. T \in Seq(Answers(system)) /\ T # <<>> /\ T[1] = t
  BY <1>1, TargetsSeq, TailProper
<1>3. frame.nested \in Seq(Answers(system)) /\ A \in Seq(Answers(system))
  <2>1. DOMAIN system \subseteq Answers(system)
    BY DEF Answers
  <2>2. frame.nested \in Seq(Answers(system))
    BY <1>1, <2>1, SeqMonotonic
  <2> QED  BY <1>1, <2>2, AdjIsNested
<1> HIDE DEF T, A
<1>4. /\ l \in Seq(Answers(system)) /\ Len(l) = Len(frame.nested) + Len(T)
      /\ Len(T) \in Nat /\ Len(T) >= 1 /\ Len(frame.nested) \in Nat
      /\ \A k \in 1 .. Len(frame.nested) + Len(T) :
           l[k] = IF k <= Len(frame.nested) THEN frame.nested[k] ELSE T[k - Len(frame.nested)]
  <2>1. Len(T) \in Nat /\ Len(T) >= 1 /\ Len(frame.nested) \in Nat
    BY <1>2, <1>3, EmptySeq, LenProperties
  <2> QED  BY <1>2, <1>3, <2>1, ConcatProperties
<1>5. l[Len(frame.nested) + 1] = t /\ Len(frame.nested) + 1 \in 1 .. Len(l)
  <2>1. /\ Len(frame.nested) + 1 \in 1 .. Len(frame.nested) + Len(T)
        /\ ~ (Len(frame.nested) + 1 <= Len(frame.nested))
        /\ (Len(frame.nested) + 1) - Len(frame.nested) = 1
    BY <1>4
  <2> QED  BY <1>2, <1>4, <2>1
<1> HIDE DEF l
<1>6. t \in ToSet(l)
  BY <1>4, <1>5, ToSetSeq
<1>7. ToSet(l) \ {None} = ToSet(A) \ {None}
  BY <1>1, <1>3, <1>4, AlikeSets
<1>8. t \in RefNested(i, system, frame.file) \cup {None}
  BY <1>1, <1>6, <1>7, AdjIsNested DEF A
<1>9. ASSUME t \in OwnPchs PROVE FALSE
  <2>1. OrdinaryPch(system, t)
    BY <1>9 DEF Agreeing, OrdinarySystems
  <2>2. t \notin RefNested(i, system, frame.file)
    BY <1>1, <2>1 DEF OrdinaryPch
  <2>3. t \in DOMAIN system
    BY <1>9, PchFacts DEF Agreeing
  <2> QED  BY <1>1, <1>8, <2>2, <2>3
<1> QED  BY <1>9

-----------------------------------------------------------------------------
(* Each way an #include is dealt with: nothing new                         *)

LEMMA CollectStep ==
  ASSUME TruthInv, NEW i \in Invocations, pc[i] = "collect", OnlyOf(i), pc'[i] = "collect",
         NamesAreRight(files, includesResolve'), HeadersAreRight(files, hFilesInfo'),
         SeenIsTrue(files, uniqSeen'[i]), StackIsRight(i, files, stack'[i]), stack'[i] # <<>>
  PROVE  TruthInv'
<1>1. files' = files
  BY DEF OnlyOf
<1>2. i \in Compiled /\ CppInFile(i) \in DOMAIN files
  BY DEF TruthInv, OwnIsTrue
<1>3. OwnIsTrue(i)'
  BY <1>1, <1>2 DEF OwnIsTrue
<1> QED  BY <1>3, OthersStayTrue

LEMMA AtInclude ==
  ASSUME Agreeing, TruthInv, NEW i \in Invocations, Collecting(i)
  PROVE  /\ i \in Compiled /\ files \in FileSystems /\ pc[i] = "collect" /\ OptionsAgree
         /\ NamesAreRight(files, includesResolve) /\ HeadersAreRight(files, hFilesInfo)
         /\ SeenIsTrue(files, uniqSeen[i])
         /\ StackIsRight(i, files, stack[i]) /\ stack[i] # <<>> /\ stack[i][1] = Frame(i)
         /\ FrameIsRight(i, files, Frame(i)) /\ Frame(i).todo # <<>>
         /\ NextInclude(i) = Head(stack[i][1].todo) /\ NextInclude(i) \in ToSet(Frame(i).todo)
         /\ Proper(i, files, Frame(i).file, NextInclude(i))
         /\ Wanted(i, files, stack[i]) = Target(i, files, Frame(i).file, NextInclude(i))
         /\ DOMAIN stack = Invocations /\ DOMAIN uniqSeen = Invocations
         /\ DOMAIN hFiles = Invocations /\ DOMAIN pc = Invocations
         /\ OwnPchs \subseteq DOMAIN files /\ None \notin DOMAIN files
         /\ \A header \in OwnPchs : PchOf(header) \notin DOMAIN files /\ PchOf(header) # None
<1>1. /\ i \in Compiled /\ files \in FileSystems /\ pc[i] = "collect" /\ OptionsAgree
      /\ NamesAreRight(files, includesResolve) /\ HeadersAreRight(files, hFilesInfo)
      /\ SeenIsTrue(files, uniqSeen[i])
      /\ StackIsRight(i, files, stack[i]) /\ stack[i] # <<>> /\ Frame(i).todo # <<>>
      /\ DOMAIN stack = Invocations /\ DOMAIN uniqSeen = Invocations
      /\ DOMAIN hFiles = Invocations /\ DOMAIN pc = Invocations
  BY DEF Agreeing, TruthInv, SharedIsTrue, OwnIsTrue, Collecting
<1>2. Len(stack[i]) \in Nat /\ Len(stack[i]) >= 1
  BY <1>1, TailStack
<1>3. stack[i][1] = Frame(i)
  BY <1>1 DEF Frame
<1>4. FrameIsRight(i, files, Frame(i))
  BY <1>1, <1>2, <1>3 DEF StackIsRight
<1>5. AllProper(i, files, Frame(i).file, Frame(i).todo)
  BY <1>4 DEF FrameIsRight
<1>6. /\ Head(Frame(i).todo) = Frame(i).todo[1] /\ Frame(i).todo[1] \in ToSet(Frame(i).todo)
      /\ Proper(i, files, Frame(i).file, Frame(i).todo[1])
  <2> DEFINE todo == Frame(i).todo
             current == Frame(i).file
  <2>1. AllProper(i, files, current, todo) /\ todo # <<>>
    BY <1>1, <1>5
  <2> HIDE DEF todo, current
  <2>2. /\ Head(todo) = todo[1] /\ todo[1] \in ToSet(todo)
        /\ Proper(i, files, current, todo[1])
    BY <1>1, <2>1, TailProper
  <2> QED  BY <2>2 DEF todo, current
<1>7. /\ NextInclude(i) = Frame(i).todo[1] /\ NextInclude(i) = Head(stack[i][1].todo)
      /\ Wanted(i, files, stack[i]) = Target(i, files, Frame(i).file, NextInclude(i))
  BY <1>3, <1>6 DEF NextInclude, Wanted
<1> QED  BY <1>1, <1>3, <1>4, <1>6, <1>7, PchFacts DEF Agreeing

\* The #include is dropped from what is to be read.
LEMMA PopTop ==
  ASSUME Agreeing, TruthInv, NEW i \in Invocations, Collecting(i), NEW d,
         Frame(i).cache => d = Target(i, files, Frame(i).file, NextInclude(i)),
         SetTop(i, Popped(Frame(i), d))
  PROVE  /\ stack'[i] = <<Popped(stack[i][1], d)>> \o Tail(stack[i])
         /\ StackIsRight(i, files, stack'[i]) /\ stack'[i] # <<>>
         /\ DOMAIN stack' = Invocations
         /\ \A j \in Invocations \ {i} : stack'[j] = stack[j]
<1> DEFINE st == stack[i]
<1>1. /\ i \in Compiled /\ files \in FileSystems
      /\ StackIsRight(i, files, st) /\ st # <<>> /\ st[1] = Frame(i)
      /\ st[1].todo # <<>> /\ NextInclude(i) = Head(st[1].todo)
      /\ DOMAIN stack = Invocations
  BY AtInclude
<1>2. /\ stack'[i] = <<Popped(st[1], d)>> \o Tail(st)
      /\ DOMAIN stack' = Invocations
      /\ \A j \in Invocations \ {i} : stack'[j] = stack[j]
  BY <1>1 DEF SetTop
<1>3. st[1].cache => d = Target(i, files, st[1].file, Head(st[1].todo))
  BY <1>1
<1> HIDE DEF st
<1>4. StackIsRight(i, files, <<Popped(st[1], d)>> \o Tail(st))
  BY <1>1, <1>3, PopStack
<1>5. <<Popped(st[1], d)>> \o Tail(st) # <<>>
  <2> DEFINE f == Popped(st[1], d)
             rest == Tail(st)
             S == ToSet(rest) \cup {f}
  <2>1. f \in S /\ rest \in Seq(ToSet(rest)) /\ ToSet(rest) \subseteq S
    <3>1. StackIsRight(i, files, rest)
      BY <1>1, TailStack
    <3> QED  BY <3>1 DEF StackIsRight, IsSeq
  <2> HIDE DEF f, rest, S
  <2>2. rest \in Seq(S)
    BY <2>1, SeqMonotonic
  <2>3. <<f>> \o rest \in Seq(S) /\ Len(<<f>> \o rest) = Len(rest) + 1 /\ Len(rest) \in Nat
    BY <2>1, <2>2, ConsSeq
  <2>4. <<f>> \o rest # <<>>
    BY <2>3, EmptySeq
  <2> QED  BY <2>4 DEF f, rest
<1> QED  BY <1>2, <1>4, <1>5 DEF st

-----------------------------------------------------------------------------
LEMMA NothingStep ==
  ASSUME Agreeing, TruthInv, NEW i \in Invocations, Collecting(i), NEW S, NEW tried \in Seq(S),
         IsFirstHit(files, tried, 0),
         Target(i, files, Frame(i).file, NextInclude(i)) = None,
         FindNothing(i, tried)
  PROVE  TruthInv' /\ Collects(i)
<1> DEFINE t == Target(i, files, Frame(i).file, NextInclude(i))
<1>1. /\ i \in Compiled /\ files \in FileSystems /\ pc[i] = "collect" /\ OptionsAgree
      /\ NamesAreRight(files, includesResolve) /\ HeadersAreRight(files, hFilesInfo)
      /\ SeenIsTrue(files, uniqSeen[i])
      /\ Wanted(i, files, stack[i]) = t /\ stack[i][1] = Frame(i) /\ Frame(i).todo # <<>>
      /\ DOMAIN uniqSeen = Invocations /\ DOMAIN hFiles = Invocations /\ DOMAIN pc = Invocations
  BY AtInclude
<1>2. /\ stack'[i] = <<Popped(stack[i][1], None)>> \o Tail(stack[i])
      /\ StackIsRight(i, files, stack'[i]) /\ stack'[i] # <<>>
      /\ DOMAIN stack' = Invocations
      /\ \A j \in Invocations \ {i} : stack'[j] = stack[j]
  BY PopTop DEF FindNothing
<1>3. ToSet(tried) \cap DOMAIN files = {}
  BY AllFailed
<1>4. /\ uniqSeen'[i] = Into([file \in ToSet(tried) |-> None], uniqSeen[i])
      /\ DOMAIN uniqSeen' = Invocations /\ hFiles' = hFiles /\ pc' = pc
      /\ \A j \in Invocations \ {i} : uniqSeen'[j] = uniqSeen[j]
      /\ UNCHANGED <<files, statements, hFilesInfo>>
  BY <1>1 DEF FindNothing, WithFailed
<1>5. SeenIsTrue(files, uniqSeen'[i]) /\ Known(files, uniqSeen'[i]) = Known(files, uniqSeen[i])
  BY <1>1, <1>3, <1>4, SeenFailed, KnownFailed
<1>6. NamesAreRight(files, includesResolve')
  <2>1. CASE NextInclude(i).form = "angle" /\ ~ InResolveCache(NextInclude(i))
    <3>1. includesResolve' = Into(includesResolve, Entry(NextInclude(i).arg, t))
      BY <2>1 DEF FindNothing, AddIncludeResolve
    <3>2. NamesAreRight(files, Entry(NextInclude(i).arg, t))
      BY <1>1, <2>1, NameEntry
    <3> QED  BY <1>1, <3>1, <3>2, NamesInto
  <2>2. CASE ~ (NextInclude(i).form = "angle" /\ ~ InResolveCache(NextInclude(i)))
    <3>1. includesResolve' = Into(includesResolve, <<>>)
      BY <2>2 DEF FindNothing, AddIncludeResolve
    <3> QED  BY <1>1, <3>1, NoNames, NamesInto
  <2> QED  BY <2>1, <2>2
<1>7. OnlyOf(i)
  BY <1>1, <1>2, <1>4 DEF OnlyOf
<1>8. TruthInv'
  BY <1>1, <1>2, <1>4, <1>5, <1>6, <1>7, CollectStep
<1>9. SkipMove(i, files, stack[i], Known(files, uniqSeen[i]), hFiles[i],
               stack'[i], Known(files, uniqSeen'[i]), hFiles'[i])
  BY <1>1, <1>2, <1>4, <1>5 DEF SkipMove
<1> QED  BY <1>1, <1>4, <1>7, <1>8, <1>9 DEF Collects, Move

LEMMA SeenStep ==
  ASSUME Agreeing, TruthInv, NEW i \in Invocations, Collecting(i), NEW S, NEW tried \in Seq(S),
         NEW hit, hit # 0, IsFirstHit(files, tried, hit),
         Target(i, files, Frame(i).file, NextInclude(i)) = tried[hit],
         FindSeen(i, tried[hit], SubSeq(tried, 1, hit - 1))
  PROVE  TruthInv' /\ Collects(i)
<1> DEFINE t == Target(i, files, Frame(i).file, NextInclude(i))
           failed == SubSeq(tried, 1, hit - 1)
<1>1. /\ i \in Compiled /\ files \in FileSystems /\ pc[i] = "collect" /\ OptionsAgree
      /\ NamesAreRight(files, includesResolve) /\ HeadersAreRight(files, hFilesInfo)
      /\ SeenIsTrue(files, uniqSeen[i])
      /\ Wanted(i, files, stack[i]) = t /\ stack[i][1] = Frame(i) /\ Frame(i).todo # <<>>
      /\ FrameIsRight(i, files, Frame(i))
      /\ DOMAIN uniqSeen = Invocations /\ DOMAIN hFiles = Invocations /\ DOMAIN pc = Invocations
      /\ None \notin DOMAIN files
      /\ \A header \in OwnPchs : PchOf(header) \notin DOMAIN files
  BY AtInclude
<1>2. t \in DOMAIN files /\ t \in DOMAIN uniqSeen[i]
  BY DEF IsFirstHit, FindSeen, Seen
<1>3. uniqSeen[i][t] = t \/ t \in OwnPchs
  BY <1>1, <1>2 DEF SeenIsTrue
<1>4. Frame(i).cache => uniqSeen[i][t] = t
  <2>1. Frame(i).cache => t \notin OwnPchs
    BY <1>1, CachedWithoutPch DEF NextInclude
  <2> QED  BY <1>3, <2>1
<1>5. /\ stack'[i] = <<Popped(stack[i][1], uniqSeen[i][t])>> \o Tail(stack[i])
      /\ StackIsRight(i, files, stack'[i]) /\ stack'[i] # <<>>
      /\ DOMAIN stack' = Invocations
      /\ \A j \in Invocations \ {i} : stack'[j] = stack[j]
  BY <1>4, PopTop DEF FindSeen
<1>6. ToSet(failed) \cap DOMAIN files = {}
  BY FailedBefore
<1>7. /\ uniqSeen'[i] = Into([file \in ToSet(failed) |-> None], uniqSeen[i])
      /\ DOMAIN uniqSeen' = Invocations /\ hFiles' = hFiles /\ pc' = pc
      /\ \A j \in Invocations \ {i} : uniqSeen'[j] = uniqSeen[j]
      /\ UNCHANGED <<files, statements, hFilesInfo>>
      /\ includesResolve' = Into(includesResolve, Remembered(i, NextInclude(i), t))
  BY <1>1 DEF FindSeen, WithFailed, AddIncludeResolve
<1> HIDE DEF failed
<1>8. SeenIsTrue(files, uniqSeen'[i]) /\ Known(files, uniqSeen'[i]) = Known(files, uniqSeen[i])
  BY <1>1, <1>6, <1>7, SeenFailed, KnownFailed
<1>9. NamesAreRight(files, includesResolve')
  BY <1>1, <1>7, RememberedRight, NamesInto
<1>10. OnlyOf(i)
  BY <1>1, <1>5, <1>7 DEF OnlyOf
<1>11. TruthInv'
  BY <1>1, <1>5, <1>7, <1>8, <1>9, <1>10, CollectStep
<1>12. SkipMove(i, files, stack[i], Known(files, uniqSeen[i]), hFiles[i],
                stack'[i], Known(files, uniqSeen'[i]), hFiles'[i])
  <2>1. t \in Known(files, uniqSeen[i])
    BY <1>2 DEF Known
  <2> QED  BY <1>1, <1>5, <1>7, <1>8, <2>1 DEF SkipMove
<1> QED  BY <1>1, <1>7, <1>10, <1>11, <1>12 DEF Collects, Move

-----------------------------------------------------------------------------
(* Each way an #include is dealt with: something new                       *)

LEMMA PchStep ==
  ASSUME Agreeing, TruthInv, NEW i \in Invocations, Collecting(i), NEW S, NEW tried \in Seq(S),
         NEW hit, hit # 0, IsFirstHit(files, tried, hit),
         Target(i, files, Frame(i).file, NextInclude(i)) = tried[hit],
         FindPch(i, tried[hit], SubSeq(tried, 1, hit - 1))
  PROVE  TruthInv' /\ Collects(i)
<1> DEFINE t == Target(i, files, Frame(i).file, NextInclude(i))
           failed == SubSeq(tried, 1, hit - 1)
<1>1. /\ i \in Compiled /\ files \in FileSystems /\ pc[i] = "collect" /\ OptionsAgree
      /\ NamesAreRight(files, includesResolve) /\ HeadersAreRight(files, hFilesInfo)
      /\ SeenIsTrue(files, uniqSeen[i])
      /\ Wanted(i, files, stack[i]) = t /\ stack[i][1] = Frame(i) /\ Frame(i).todo # <<>>
      /\ FrameIsRight(i, files, Frame(i)) /\ NextInclude(i) = Head(stack[i][1].todo)
      /\ DOMAIN uniqSeen = Invocations /\ DOMAIN hFiles = Invocations /\ DOMAIN pc = Invocations
      /\ None \notin DOMAIN files
      /\ \A header \in OwnPchs : PchOf(header) \notin DOMAIN files
  BY AtInclude
<1>2. /\ t \in DOMAIN files /\ t \notin DOMAIN uniqSeen[i] /\ t \in OwnPchs
      /\ NextInclude(i).pch
  BY DEF IsFirstHit, FindPch, Seen, HasPch
<1>3. ~ Frame(i).cache
  BY <1>1, <1>2, CachedWithoutPch DEF NextInclude
<1>4. /\ stack'[i] = <<Popped(stack[i][1], None)>> \o Tail(stack[i])
      /\ StackIsRight(i, files, stack'[i]) /\ stack'[i] # <<>>
      /\ DOMAIN stack' = Invocations
      /\ \A j \in Invocations \ {i} : stack'[j] = stack[j]
  BY <1>3, PopTop DEF FindPch
<1>5. ToSet(failed) \cap DOMAIN files = {}
  BY FailedBefore
<1> DEFINE u == Into([file \in ToSet(failed) |-> None], uniqSeen[i])
<1>6. /\ uniqSeen'[i] = Into(u, PchEntries(t))
      /\ DOMAIN uniqSeen' = Invocations /\ DOMAIN hFiles' = Invocations /\ pc' = pc
      /\ hFiles'[i] = Append(hFiles[i], PchOf(t))
      /\ \A j \in Invocations \ {i} : uniqSeen'[j] = uniqSeen[j] /\ hFiles'[j] = hFiles[j]
      /\ UNCHANGED <<files, statements, hFilesInfo>>
      /\ includesResolve' = Into(includesResolve, Remembered(i, NextInclude(i), t))
  BY <1>1 DEF FindPch, WithFailed, AddIncludeResolve, PchEntries
<1> HIDE DEF failed
<1>7. SeenIsTrue(files, u)
  BY <1>1, <1>5, SeenFailed
<1>8. SeenIsTrue(files, uniqSeen'[i])
  <2> HIDE DEF u
  <2> QED  BY <1>2, <1>6, <1>7, SeenPch
<1>9. Known(files, uniqSeen'[i]) = Known(files, uniqSeen[i]) \cup {t}
  BY <1>1, <1>2, <1>5, <1>6 DEF Known, Into, PchEntries
<1>10. NamesAreRight(files, includesResolve')
  BY <1>1, <1>6, RememberedRight, NamesInto
<1>11. OnlyOf(i)
  BY <1>1, <1>4, <1>6 DEF OnlyOf
<1>12. TruthInv'
  BY <1>1, <1>4, <1>6, <1>8, <1>10, <1>11, CollectStep
<1>13. PchMove(i, files, stack[i], Known(files, uniqSeen[i]), hFiles[i],
               stack'[i], Known(files, uniqSeen'[i]), hFiles'[i])
  <2>1. t \notin Known(files, uniqSeen[i])
    BY <1>2 DEF Known
  <2> QED  BY <1>1, <1>2, <1>4, <1>6, <1>9, <2>1 DEF PchMove
<1> QED  BY <1>1, <1>6, <1>11, <1>12, <1>13 DEF Collects, Move

\* A new file, and the frame in which it is read.
LEMMA NewStep ==
  ASSUME Agreeing, TruthInv, NEW i \in Invocations, Collecting(i), NEW S, NEW tried \in Seq(S),
         NEW hit, hit # 0, IsFirstHit(files, tried, hit),
         Target(i, files, Frame(i).file, NextInclude(i)) = tried[hit],
         FindNew(i, tried[hit], SubSeq(tried, 1, hit - 1)),
         NEW todo, NEW cache, Enter(i, tried[hit], todo, cache),
         cache \in BOOLEAN, AllProper(i, files, tried[hit], todo),
         \A inc \in ToSet(todo) : inc.pch = FALSE,
         Alike(Targets(i, files, tried[hit], todo), Adj(i, files, tried[hit]), {None}),
         cache => shouldCacheHFile(i, tried[hit])
  PROVE  TruthInv' /\ Collects(i)
<1> DEFINE t == Target(i, files, Frame(i).file, NextInclude(i))
           failed == SubSeq(tried, 1, hit - 1)
           frame == [file |-> t, todo |-> todo, cache |-> cache, nested |-> <<>>,
                     remember |-> Remembered(i, NextInclude(i), t)]
<1>1. /\ i \in Compiled /\ files \in FileSystems /\ pc[i] = "collect" /\ OptionsAgree
      /\ NamesAreRight(files, includesResolve) /\ HeadersAreRight(files, hFilesInfo)
      /\ SeenIsTrue(files, uniqSeen[i])
      /\ Wanted(i, files, stack[i]) = t /\ stack[i][1] = Frame(i) /\ Frame(i).todo # <<>>
      /\ FrameIsRight(i, files, Frame(i)) /\ NextInclude(i) = Head(stack[i][1].todo)
      /\ StackIsRight(i, files, stack[i]) /\ stack[i] # <<>>
      /\ DOMAIN uniqSeen = Invocations /\ DOMAIN hFiles = Invocations /\ DOMAIN pc = Invocations
      /\ DOMAIN stack = Invocations
  BY AtInclude
<1>2. /\ t \in DOMAIN files /\ t \notin DOMAIN uniqSeen[i]
      /\ ~ (NextInclude(i).pch /\ t \in OwnPchs)
  BY DEF IsFirstHit, FindNew, Seen, HasPch
<1>3. /\ stack'[i] = <<frame>> \o stack[i] /\ DOMAIN stack' = Invocations
      /\ \A j \in Invocations \ {i} : stack'[j] = stack[j]
  BY <1>1 DEF Enter
<1>4. ToSet(failed) \cap DOMAIN files = {}
  BY FailedBefore
<1> DEFINE u == Into([file \in ToSet(failed) |-> None], uniqSeen[i])
<1>5. /\ uniqSeen'[i] = Into(u, Entry(t, t))
      /\ DOMAIN uniqSeen' = Invocations /\ DOMAIN hFiles' = Invocations /\ pc' = pc
      /\ hFiles'[i] = Append(hFiles[i], t)
      /\ \A j \in Invocations \ {i} : uniqSeen'[j] = uniqSeen[j] /\ hFiles'[j] = hFiles[j]
      /\ UNCHANGED <<files, statements, hFilesInfo, includesResolve>>
  BY <1>1 DEF FindNew, WithFailed
<1> HIDE DEF failed
<1>6. SeenIsTrue(files, u)
  BY <1>1, <1>4, SeenFailed
<1>7. SeenIsTrue(files, uniqSeen'[i])
  <2> HIDE DEF u
  <2> QED  BY <1>2, <1>5, <1>6, SeenNew
<1>8. Known(files, uniqSeen'[i]) = Known(files, uniqSeen[i]) \cup {t}
  BY <1>1, <1>2, <1>4, <1>5 DEF Known, Into, Entry
<1>9. /\ frame.file = t /\ frame.todo = todo /\ frame.cache = cache /\ frame.nested = <<>>
      /\ frame.remember = Remembered(i, NextInclude(i), t)
      /\ frame \in [file : {t}, todo : {todo}, cache : BOOLEAN,
                    nested : {frame.nested}, remember : {frame.remember}]
  OBVIOUS
<1> HIDE DEF frame
<1>10. FrameIsRight(i, files, frame)
  <2>1. NamesAreRight(files, frame.remember)
    BY <1>1, <1>9, RememberedRight
  <2>2. AllProper(i, files, frame.file, frame.todo)
    BY <1>9
  <2>3. ASSUME frame.cache
        PROVE  /\ shouldCacheHFile(i, frame.file) /\ frame.nested \in Seq(DOMAIN files)
               /\ Alike(frame.nested \o Targets(i, files, frame.file, frame.todo),
                        Adj(i, files, frame.file), {None})
    <3>1. Targets(i, files, t, todo) \in Seq(Answers(files))
      BY <1>1, TargetsSeq
    <3>2. <<>> \o Targets(i, files, t, todo) = Targets(i, files, t, todo)
      BY <3>1, ConcatEmptySeq
    <3>3. <<>> \in Seq(DOMAIN files)
      BY EmptySeq
    <3> QED  BY <1>9, <2>3, <3>2, <3>3
  <2> QED  BY <1>2, <1>9, <2>1, <2>2, <2>3 DEF FrameIsRight
<1>11. StackIsRight(i, files, <<frame>> \o stack[i])
  <2> DEFINE st == stack[i]
  <2>1. LeadsTo(i, files, st[1], frame.file) /\ StackIsRight(i, files, st)
    BY <1>1, <1>9 DEF LeadsTo
  <2> HIDE DEF st
  <2>2. StackIsRight(i, files, <<frame>> \o st)
    BY <1>10, <2>1, PushStack
  <2> QED  BY <2>2 DEF st
<1>12. stack'[i] # <<>>
  <2> DEFINE st == stack[i]
             F == ToSet(st) \cup {frame}
  <2>1. frame \in F /\ st \in Seq(ToSet(st)) /\ ToSet(st) \subseteq F
    BY <1>1 DEF StackIsRight, IsSeq
  <2> HIDE DEF st, F
  <2>2. st \in Seq(F)
    BY <2>1, SeqMonotonic
  <2>3. <<frame>> \o st \in Seq(F) /\ Len(<<frame>> \o st) = Len(st) + 1 /\ Len(st) \in Nat
    BY <2>1, <2>2, ConsSeq
  <2>4. <<frame>> \o st # <<>>
    BY <2>3, EmptySeq
  <2> QED  BY <1>3, <2>4 DEF st
<1>13. OnlyOf(i)
  BY <1>1, <1>3, <1>5 DEF OnlyOf
<1>14. TruthInv'
  BY <1>1, <1>3, <1>5, <1>7, <1>11, <1>12, <1>13, CollectStep
<1>15. OpenMove(i, files, stack[i], Known(files, uniqSeen[i]), hFiles[i],
                stack'[i], Known(files, uniqSeen'[i]), hFiles'[i])
  <2>1. t \notin Known(files, uniqSeen[i])
    BY <1>2 DEF Known
  <2>2. Opened(i, files, frame, t)
    BY <1>9 DEF Opened
  <2> QED  BY <1>1, <1>2, <1>3, <1>5, <1>8, <2>1, <2>2 DEF OpenMove
<1> QED  BY <1>1, <1>5, <1>13, <1>14, <1>15 DEF Collects, Move

LEMMA ReadStep ==
  ASSUME Agreeing, TruthInv, NEW i \in Invocations, Collecting(i), NEW S, NEW tried \in Seq(S),
         NEW hit, hit # 0, IsFirstHit(files, tried, hit),
         Target(i, files, Frame(i).file, NextInclude(i)) = tried[hit],
         ReadFile(i, tried[hit], SubSeq(tried, 1, hit - 1))
  PROVE  TruthInv' /\ Collects(i)
<1> DEFINE file == tried[hit]
           cache == shouldCacheHFile(i, file)
<1>1. /\ file \in DOMAIN files /\ i \in Compiled /\ files \in FileSystems
      /\ statements[file] = RefStatements(files[file])
  BY AtInclude DEF IsFirstHit, TruthInv, SharedIsTrue
<1>2. /\ AllProper(i, files, file, statements[file])
      /\ \A inc \in ToSet(statements[file]) : inc.pch = FALSE
  BY <1>1, StatementsProper DEF Agreeing
<1>3. Alike(Targets(i, files, file, statements[file]), Adj(i, files, file), {None})
  BY <1>1, AlikeRefl DEF Adj
<1>4. cache \in BOOLEAN
  BY DEF shouldCacheHFile
<1>5. /\ FindNew(i, file, SubSeq(tried, 1, hit - 1))
      /\ Enter(i, file, statements[file], cache)
  BY DEF ReadFile
<1> QED  BY <1>2, <1>3, <1>4, <1>5, NewStep

LEMMA CachedStep ==
  ASSUME Agreeing, TruthInv, NEW i \in Invocations, Collecting(i), NEW S, NEW tried \in Seq(S),
         NEW hit, hit # 0, IsFirstHit(files, tried, hit),
         Target(i, files, Frame(i).file, NextInclude(i)) = tried[hit],
         FindCached(i, tried[hit], SubSeq(tried, 1, hit - 1))
  PROVE  TruthInv' /\ Collects(i)
<1> DEFINE file == tried[hit]
           info == hFilesInfo[file]
           todo == [k \in DOMAIN info |-> AbsPath(info[k], FALSE)]
<1>1. /\ file \in DOMAIN files /\ i \in Compiled /\ files \in FileSystems
      /\ HeadersAreRight(files, hFilesInfo) /\ file \in DOMAIN hFilesInfo
  BY AtInclude DEF IsFirstHit, FindCached, IsCached
<1>2. info \in Seq(DOMAIN files) /\ Alike(info, Adj(i, files, file), {None})
  BY <1>1 DEF HeadersAreRight
<1>3. /\ DOMAIN info = 1 .. Len(info) /\ Len(info) \in Nat
      /\ \A k \in 1 .. Len(info) : info[k] \in DOMAIN files
  BY <1>2, LenProperties, ElementOfSeq
<1> DEFINE F == {AbsPath(f, FALSE) : f \in DOMAIN files}
<1>4. todo \in [1 .. Len(info) -> F] /\ \A k \in 1 .. Len(info) : todo[k] = AbsPath(info[k], FALSE)
  BY <1>3
<1>5. \A inc \in F : Proper(i, files, file, inc) /\ inc.pch = FALSE
  BY AbsProper
<1>6. Targets(i, files, file, todo) = info
  <2>1. DOMAIN todo = 1 .. Len(info)
    BY <1>4
  <2>2. \A k \in 1 .. Len(info) : Target(i, files, file, todo[k]) = info[k]
    BY <1>4 DEF Target, AbsPath
  <2>3. Targets(i, files, file, todo) = [k \in 1 .. Len(info) |-> info[k]]
    BY <2>1, <2>2 DEF Targets
  <2>4. info = [k \in 1 .. Len(info) |-> info[k]]
    BY <1>2
  <2> QED  BY <2>3, <2>4
<1>7. FindNew(i, file, SubSeq(tried, 1, hit - 1)) /\ Enter(i, file, todo, FALSE)
  BY DEF FindCached
<1> HIDE DEF todo, F
<1>8. todo \in Seq(F)
  BY <1>3, <1>4
<1>9. IsSeq(todo) /\ ToSet(todo) \subseteq F
  BY <1>8, ToSetSeq
<1>10. AllProper(i, files, file, todo) /\ \A inc \in ToSet(todo) : inc.pch = FALSE
  BY <1>5, <1>9 DEF AllProper
<1>11. Alike(Targets(i, files, file, todo), Adj(i, files, file), {None})
  BY <1>2, <1>6
<1> QED  BY <1>7, <1>10, <1>11, NewStep

-----------------------------------------------------------------------------
(* The end of a file, and every #include                                   *)

LEMMA FromThird ==
  ASSUME NEW S, NEW seq \in Seq(S), NEW L, L = Len(seq), L > 1
  PROVE  SubSeq(seq, 3, Len(seq)) = Tail(Tail(seq))
<1> DEFINE rest == Tail(seq)
           rest2 == Tail(rest)
           third == SubSeq(seq, 3, L)
<1>1. L \in Nat /\ L > 1 /\ seq # <<>>
  BY LenProperties, EmptySeq
<1>2. /\ rest \in Seq(S) /\ Len(rest) = L - 1
      /\ \A k \in 1 .. Len(rest) : rest[k] = seq[k + 1]
  BY <1>1, HeadTailProperties
<1>3. rest # <<>>
  <2> HIDE DEF rest
  <2> QED  BY <1>1, <1>2, EmptySeq
<1>4. /\ rest2 \in Seq(S) /\ Len(rest2) = Len(rest) - 1
      /\ \A k \in 1 .. Len(rest2) : rest2[k] = rest[k + 1]
  <2>1. rest \in Seq(S) /\ rest # <<>>
    BY <1>2, <1>3
  <2> HIDE DEF rest
  <2> QED  BY <2>1, HeadTailProperties
<1>5. \A k \in 3 .. L : seq[k] \in S
  <2>1. \A k \in 1 .. L : seq[k] \in S
    BY ElementOfSeq
  <2> QED  BY <1>1, <2>1
<1>6. third \in Seq(S) /\ Len(third) = L - 2 /\ \A k \in 1 .. (L - 2) : third[k] = seq[k + 2]
  <2>1. /\ third \in Seq(S) /\ Len(third) = (IF 3 <= L THEN L - 3 + 1 ELSE 0)
        /\ \A k \in 1 .. (L - 3 + 1) : third[k] = seq[3 + k - 1]
    <3>1. seq \in Seq(S) /\ 3 \in Int /\ L \in Int /\ \A k \in 3 .. L : seq[k] \in S
      BY <1>1, <1>5
    <3> QED  BY <3>1, SubSeqProperties DEF third
  <2>2. (IF 3 <= L THEN L - 3 + 1 ELSE 0) = L - 2 /\ L - 3 + 1 = L - 2
    BY <1>1
  <2>3. \A k \in 1 .. (L - 2) : 3 + k - 1 = k + 2
    BY <1>1
  <2> QED  BY <2>1, <2>2, <2>3
<1> HIDE DEF rest2, third, rest
<1>7. Len(rest2) = L - 2
  BY <1>1, <1>2, <1>4
<1>8. ASSUME NEW k \in 1 .. (L - 2) PROVE rest2[k] = third[k]
  <2>1. k + 1 \in 1 .. Len(rest) /\ (k + 1) + 1 = k + 2 /\ k \in 1 .. Len(rest2)
    BY <1>1, <1>2, <1>7
  <2> QED  BY <1>2, <1>4, <1>6, <2>1
<1>9. third = rest2
  BY <1>4, <1>6, <1>7, <1>8, SeqEqual
<1> QED  BY <1>9 DEF rest2, third, rest

LEMMA ReturnStep ==
  ASSUME Agreeing, TruthInv, NEW i \in Invocations, Return(i)
  PROVE  TruthInv' /\ Collects(i)
<1> DEFINE st == stack[i]
           rest == Tail(st)
           f == st[1]
<1>1. /\ i \in Compiled /\ files \in FileSystems /\ pc[i] = "collect" /\ OptionsAgree
      /\ NamesAreRight(files, includesResolve) /\ HeadersAreRight(files, hFilesInfo)
      /\ SeenIsTrue(files, uniqSeen[i]) /\ StackIsRight(i, files, st) /\ st # <<>>
      /\ DOMAIN uniqSeen = Invocations /\ DOMAIN hFiles = Invocations /\ DOMAIN pc = Invocations
      /\ DOMAIN stack = Invocations
  BY DEF Agreeing, TruthInv, SharedIsTrue, OwnIsTrue, Return
<1>2. f = Frame(i) /\ f.todo = <<>> /\ Len(st) > 1 /\ Len(st) \in Nat
  BY <1>1, TailStack DEF Frame, Return
<1>3. /\ StackIsRight(i, files, rest) /\ Len(rest) = Len(st) - 1 /\ rest[1] = st[2]
  <2>1. /\ StackIsRight(i, files, rest) /\ Len(rest) = Len(st) - 1
        /\ \A p \in 1 .. Len(rest) : rest[p] = st[p + 1]
    BY <1>1, TailStack
  <2>2. 1 \in 1 .. Len(rest) /\ 1 + 1 = 2
    BY <1>2, <2>1
  <2> QED  BY <2>1, <2>2
<1>4. rest # <<>>
  BY <1>2, <1>3, EmptySeq
<1>5. FrameIsRight(i, files, f) /\ LeadsTo(i, files, rest[1], f.file)
  <2>1. 1 \in 1 .. Len(st) /\ 1 \in 1 .. (Len(st) - 1) /\ 1 + 1 = 2
    BY <1>2
  <2>2. FrameIsRight(i, files, st[1]) /\ LeadsTo(i, files, st[1 + 1], st[1].file)
    BY <1>1, <2>1 DEF StackIsRight
  <2> QED  BY <1>3, <2>1, <2>2
<1>6. /\ stack'[i] = <<Popped(rest[1], f.file)>> \o Tail(rest)
      /\ DOMAIN stack' = Invocations
      /\ \A j \in Invocations \ {i} : stack'[j] = stack[j]
  <2>1. SubSeq(st, 3, Len(st)) = Tail(rest)
    BY <1>1, <1>2, FromThird DEF StackIsRight, IsSeq
  <2>2. stack' = [stack EXCEPT ![i] = <<Popped(st[2], Frame(i).file)>> \o SubSeq(st, 3, Len(st))]
    BY DEF Return
  <2> QED  BY <1>1, <1>2, <1>3, <2>1, <2>2
<1> HIDE DEF st, f
<1>7. StackIsRight(i, files, stack'[i])
  <2>1. rest[1].todo # <<>> /\ f.file = Target(i, files, rest[1].file, Head(rest[1].todo))
    BY <1>5 DEF LeadsTo
  <2> HIDE DEF rest
  <2> QED  BY <1>1, <1>3, <1>4, <1>6, <2>1, PopStack
<1>8. stack'[i] # <<>>
  <2> DEFINE g == Popped(rest[1], f.file)
             rest2 == Tail(rest)
             F == ToSet(rest2) \cup {g}
  <2>1. g \in F /\ rest2 \in Seq(ToSet(rest2)) /\ ToSet(rest2) \subseteq F
    <3>1. StackIsRight(i, files, rest2)
      <4> HIDE DEF rest
      <4> QED  BY <1>3, <1>4, TailStack
    <3> QED  BY <3>1 DEF StackIsRight, IsSeq
  <2> HIDE DEF g, rest2, F
  <2>2. rest2 \in Seq(F)
    BY <2>1, SeqMonotonic
  <2>3. <<g>> \o rest2 \in Seq(F) /\ Len(<<g>> \o rest2) = Len(rest2) + 1 /\ Len(rest2) \in Nat
    BY <2>1, <2>2, ConsSeq
  <2>4. <<g>> \o rest2 # <<>>
    BY <2>3, EmptySeq
  <2> QED  BY <1>6, <2>4 DEF g, rest2
<1>9. NamesAreRight(files, includesResolve')
  BY <1>1, <1>2, <1>5, NamesInto DEF Return, AddIncludeResolve, FrameIsRight
<1>10. HeadersAreRight(files, hFilesInfo')
  <2>1. CASE f.cache
    <3>1. hFilesInfo' = Into(hFilesInfo, Entry(f.file, f.nested))
      BY <1>2, <2>1 DEF Return, AddHFileInfo
    <3>2. /\ f.file \in DOMAIN files /\ f.nested \in Seq(DOMAIN files)
          /\ Alike(f.nested \o Targets(i, files, f.file, f.todo), Adj(i, files, f.file), {None})
      BY <1>5, <2>1 DEF FrameIsRight
    <3>3. Targets(i, files, f.file, f.todo) = <<>>
      <4>1. AllProper(i, files, f.file, <<>>)
        BY <1>2, <1>5 DEF FrameIsRight
      <4>2. /\ Targets(i, files, f.file, <<>>) \in Seq(Answers(files))
            /\ Len(Targets(i, files, f.file, <<>>)) = Len(<<>>)
        BY <1>1, <4>1, TargetsSeq
      <4>3. Targets(i, files, f.file, <<>>) = <<>>
        BY <4>2, EmptySeq
      <4> QED  BY <1>2, <4>3
    <3>4. f.nested \o <<>> = f.nested
      BY <3>2, ConcatEmptySeq
    <3>5. Alike(f.nested, Adj(i, files, f.file), {None})
      BY <3>2, <3>3, <3>4
    <3>6. \A j \in Compiled : Adj(j, files, f.file) = Adj(i, files, f.file)
      BY <1>1, TargetsAgree
    <3>7. HeadersAreRight(files, Entry(f.file, f.nested))
      <4>1. \A g \in {f.file} : /\ g \in DOMAIN files /\ f.nested \in Seq(DOMAIN files)
                                /\ \A j \in Compiled : Alike(f.nested, Adj(j, files, g), {None})
        BY <3>2, <3>5, <3>6
      <4> QED  BY <4>1 DEF HeadersAreRight, Entry
    <3> QED  BY <1>1, <3>1, <3>7, HeadersInto
  <2>2. CASE ~ f.cache
    <3>1. hFilesInfo' = Into(hFilesInfo, <<>>)
      BY <1>2, <2>2 DEF Return, AddHFileInfo
    <3> QED  BY <1>1, <3>1, NoHeaders, HeadersInto
  <2> QED  BY <2>1, <2>2
<1>11. /\ pc' = pc /\ uniqSeen' = uniqSeen /\ hFiles' = hFiles
       /\ UNCHANGED <<files, statements>>
  BY DEF Return
<1>12. OnlyOf(i)
  BY <1>1, <1>6, <1>11 DEF OnlyOf
<1>13. SeenIsTrue(files, uniqSeen'[i])
  BY <1>1, <1>11
<1>14. TruthInv'
  BY <1>1, <1>7, <1>8, <1>9, <1>10, <1>11, <1>12, <1>13, CollectStep
<1>15. ReturnMove(i, files, stack[i], Known(files, uniqSeen[i]), hFiles[i],
                  stack'[i], Known(files, uniqSeen'[i]), hFiles'[i])
  <2>1. /\ st[1].todo = <<>> /\ Len(st) > 1
        /\ \E d : stack'[i] = <<Popped(Tail(st)[1], d)>> \o Tail(Tail(st))
    BY <1>2, <1>6 DEF f
  <2> QED  BY <1>11, <2>1 DEF ReturnMove, st
<1> QED  BY <1>1, <1>11, <1>12, <1>14, <1>15 DEF Collects, Move

-----------------------------------------------------------------------------
LEMMA IncludeStep ==
  ASSUME Agreeing, TruthInv, NEW i \in Invocations, onHashInclude(i)
  PROVE  TruthInv' /\ Collects(i)
<1>1. PICK tried \in {Attempts(i, Frame(i).file, NextInclude(i))} :
        \E hit \in {FirstFound(i, tried)} :
         \/ hit = 0 /\ FindNothing(i, tried)
         \/ /\ hit # 0
            /\ \/ FindSeen(i, tried[hit], SubSeq(tried, 1, hit - 1))
               \/ FindPch(i, tried[hit], SubSeq(tried, 1, hit - 1))
               \/ FindCached(i, tried[hit], SubSeq(tried, 1, hit - 1))
               \/ ReadFile(i, tried[hit], SubSeq(tried, 1, hit - 1))
  BY DEF onHashInclude
<1>2. PICK hit \in {FirstFound(i, tried)} :
         \/ hit = 0 /\ FindNothing(i, tried)
         \/ /\ hit # 0
            /\ \/ FindSeen(i, tried[hit], SubSeq(tried, 1, hit - 1))
               \/ FindPch(i, tried[hit], SubSeq(tried, 1, hit - 1))
               \/ FindCached(i, tried[hit], SubSeq(tried, 1, hit - 1))
               \/ ReadFile(i, tried[hit], SubSeq(tried, 1, hit - 1))
  BY <1>1
<1>3. Collecting(i)
  BY DEF onHashInclude
<1>4. /\ i \in Compiled /\ files \in FileSystems /\ SeenIsTrue(files, uniqSeen[i])
      /\ NamesAreRight(files, includesResolve) /\ HeadersAreRight(files, hFilesInfo)
      /\ Proper(i, files, Frame(i).file, NextInclude(i))
  BY <1>3, AtInclude
<1>5. /\ \E S : tried \in Seq(S)
      /\ IsFirstHit(files, tried, hit)
      /\ hit = 0 => Target(i, files, Frame(i).file, NextInclude(i)) = None
      /\ hit # 0 => Target(i, files, Frame(i).file, NextInclude(i)) = tried[hit]
  BY <1>1, <1>2, <1>4, Resolve
<1>6. PICK S : tried \in Seq(S)
  BY <1>5
<1>7. CASE hit = 0 /\ FindNothing(i, tried)
  BY <1>3, <1>5, <1>6, <1>7, NothingStep
<1>8. CASE hit # 0 /\ FindSeen(i, tried[hit], SubSeq(tried, 1, hit - 1))
  BY <1>3, <1>5, <1>6, <1>8, SeenStep
<1>9. CASE hit # 0 /\ FindPch(i, tried[hit], SubSeq(tried, 1, hit - 1))
  BY <1>3, <1>5, <1>6, <1>9, PchStep
<1>10. CASE hit # 0 /\ FindCached(i, tried[hit], SubSeq(tried, 1, hit - 1))
  BY <1>3, <1>5, <1>6, <1>10, CachedStep
<1>11. CASE hit # 0 /\ ReadFile(i, tried[hit], SubSeq(tried, 1, hit - 1))
  BY <1>3, <1>5, <1>6, <1>11, ReadStep
<1> QED  BY <1>2, <1>7, <1>8, <1>9, <1>10, <1>11

-----------------------------------------------------------------------------
(* The cache tells the truth                                               *)

\* Begins and ends, and all that leaves the files it has found as they are.
Begins(i) ==
  /\ OnlyOf(i) /\ pc[i] = "idle" /\ pc'[i] = "collect" /\ i \in Compiled
  /\ CppInFile(i) \in DOMAIN files
  /\ \E frame : /\ stack'[i] = <<frame>> /\ frame.file = CppInFile(i)
                /\ frame.todo = CppTodo(i, files)
  /\ uniqSeen'[i] = uniqSeen[i] /\ hFiles'[i] = hFiles[i]

Ends(i) ==
  /\ OnlyOf(i) /\ pc[i] = "collect" /\ pc'[i] = "done"
  /\ Len(stack[i]) = 1 /\ stack[i][1].todo = <<>>
  /\ uniqSeen'[i] = uniqSeen[i] /\ hFiles'[i] = hFiles[i]

Idles == UNCHANGED <<files, pc, stack, uniqSeen, hFiles>>

LEMMA InitTruth == ASSUME Agreeing, Init PROVE TruthInv
<1>1. \A file \in DOMAIN files :
        collectIncludeStatementsInFile(files[file]) = RefStatements(files[file])
  BY DEF Agreeing, OrdinarySystems, OrdinaryFile, Init
<1>2. statements = [file \in DOMAIN files |-> RefStatements(files[file])]
  BY <1>1 DEF Init
<1>3. SharedIsTrue
  BY <1>2, NoNames, NoHeaders DEF Init, SharedIsTrue
<1>4. ASSUME NEW i \in Invocations PROVE OwnIsTrue(i)
  BY DEF Init, OwnIsTrue
<1> QED  BY <1>3, <1>4 DEF TruthInv

LEMMA CppStatementsAre ==
  ASSUME TruthInv, NEW i, CppInFile(i) \in DOMAIN files
  PROVE  CppStatements(i) = CppTodo(i, files)
<1>1. statements[CppInFile(i)] = RefStatements(files[CppInFile(i)])
  BY DEF TruthInv, SharedIsTrue
<1> QED  BY <1>1 DEF CppStatements, CppTodo, Explicit, Marked

LEMMA BeginStep ==
  ASSUME Agreeing, TruthInv, NEW i \in Invocations, CollectDependentIncludes(i)
  PROVE  TruthInv' /\ Begins(i)
<1> DEFINE frame == [file |-> CppInFile(i), todo |-> CppStatements(i), cache |-> FALSE,
                     nested |-> <<>>, remember |-> <<>>]
<1>1. /\ i \in Compiled /\ files \in FileSystems /\ pc[i] = "idle"
      /\ CppInFile(i) \in DOMAIN files /\ uniqSeen[i] = <<>>
      /\ NamesAreRight(files, includesResolve) /\ HeadersAreRight(files, hFilesInfo)
      /\ DOMAIN uniqSeen = Invocations /\ DOMAIN hFiles = Invocations /\ DOMAIN pc = Invocations
      /\ DOMAIN stack = Invocations
  BY DEF TruthInv, SharedIsTrue, OwnIsTrue, CollectDependentIncludes
<1>2. /\ stack'[i] = <<frame>> /\ pc'[i] = "collect"
      /\ \A j \in Invocations \ {i} : stack'[j] = stack[j] /\ pc'[j] = pc[j]
      /\ DOMAIN stack' = Invocations /\ DOMAIN pc' = Invocations
      /\ uniqSeen' = uniqSeen /\ hFiles' = hFiles /\ UNCHANGED <<files, statements>>
  BY <1>1 DEF CollectDependentIncludes
<1>3. /\ frame.file = CppInFile(i) /\ frame.todo = CppTodo(i, files) /\ ~ frame.cache
      /\ frame.remember = <<>>
      /\ frame \in [file : {frame.file}, todo : {frame.todo}, cache : BOOLEAN,
                    nested : {frame.nested}, remember : {frame.remember}]
  BY <1>1, CppStatementsAre
<1> HIDE DEF frame
<1>4. AllProper(i, files, CppInFile(i), CppTodo(i, files))
  BY <1>1, CppTodoIs
<1>5. FrameIsRight(i, files, frame)
  BY <1>1, <1>3, <1>4, NoNames DEF FrameIsRight
<1>6. StackIsRight(i, files, <<frame>>) /\ <<frame>> # <<>>
  <2>1. <<frame>> \in Seq({frame}) /\ Len(<<frame>>) = 1 /\ <<frame>>[1] = frame
    OBVIOUS
  <2>2. IsSeq(<<frame>>)
    BY <2>1, ToSetSeq
  <2> QED  BY <1>5, <2>1, <2>2, EmptySeq DEF StackIsRight
<1>7. OnlyOf(i)
  BY <1>1, <1>2 DEF OnlyOf
<1>8. NamesAreRight(files, includesResolve') /\ HeadersAreRight(files, hFilesInfo')
  BY <1>1, NoNames, NoHeaders DEF CollectDependentIncludes, Cleared
<1>9. SeenIsTrue(files, uniqSeen[i])
  BY <1>1 DEF SeenIsTrue
<1>10. OwnIsTrue(i)'
  BY <1>1, <1>2, <1>6, <1>9 DEF OwnIsTrue
<1>11. TruthInv'
  BY <1>7, <1>8, <1>10, OthersStayTrue
<1> QED  BY <1>1, <1>2, <1>3, <1>7, <1>11 DEF Begins

LEMMA EndStep ==
  ASSUME TruthInv, NEW i \in Invocations, EndCollecting(i)
  PROVE  TruthInv' /\ Ends(i)
<1>1. /\ pc[i] = "collect" /\ OwnIsTrue(i)
      /\ NamesAreRight(files, includesResolve) /\ HeadersAreRight(files, hFilesInfo)
      /\ DOMAIN uniqSeen = Invocations /\ DOMAIN hFiles = Invocations /\ DOMAIN pc = Invocations
      /\ DOMAIN stack = Invocations
  BY DEF TruthInv, SharedIsTrue, EndCollecting
<1>2. /\ pc'[i] = "done" /\ \A j \in Invocations \ {i} : stack'[j] = stack[j] /\ pc'[j] = pc[j]
      /\ DOMAIN stack' = Invocations /\ DOMAIN pc' = Invocations
      /\ uniqSeen' = uniqSeen /\ hFiles' = hFiles /\ UNCHANGED <<files, statements>>
      /\ includesResolve' = includesResolve /\ hFilesInfo' = hFilesInfo
  BY <1>1 DEF EndCollecting
<1>3. OnlyOf(i)
  BY <1>1, <1>2 DEF OnlyOf
<1>4. OwnIsTrue(i)'
  BY <1>1, <1>2 DEF OwnIsTrue
<1>5. TruthInv'
  BY <1>1, <1>2, <1>3, <1>4, OthersStayTrue
<1>6. Len(stack[i]) = 1 /\ stack[i][1].todo = <<>>
  <2>1. StackIsRight(i, files, stack[i]) /\ stack[i] # <<>>
    BY <1>1 DEF OwnIsTrue
  <2> QED  BY <2>1, TailStack DEF EndCollecting, Frame
<1> QED  BY <1>1, <1>2, <1>3, <1>5, <1>6 DEF Ends

LEMMA IdleStep ==
  ASSUME TruthInv, UNCHANGED <<files, statements, includesResolve, hFilesInfo, pc, stack,
                               uniqSeen, hFiles>>
  PROVE  TruthInv' /\ Idles
<1>1. SharedIsTrue'
  BY DEF TruthInv, SharedIsTrue
<1>2. ASSUME NEW i \in Invocations PROVE OwnIsTrue(i)'
  <2>1. OwnIsTrue(i)
    BY DEF TruthInv
  <2> QED  BY <2>1 DEF OwnIsTrue
<1> QED  BY <1>1, <1>2 DEF TruthInv, Idles

\* What a step is to the files that the invocations have found.
LEMMA EachStep ==
  ASSUME Agreeing, TruthInv, [Next]_vars
  PROVE  /\ TruthInv'
         /\ Idles \/ \E i \in Invocations : Begins(i) \/ Collects(i) \/ Ends(i)
<1>1. CASE UNCHANGED vars
  BY <1>1, IdleStep DEF vars
<1>2. CASE AllDone
  BY <1>2, IdleStep DEF AllDone, vars
<1>3. ASSUME NEW i \in Invocations, Step(i)
      PROVE  /\ TruthInv'
             /\ Idles \/ \E j \in Invocations : Begins(j) \/ Collects(j) \/ Ends(j)
  <2>1. CASE CollectDependentIncludes(i)
    BY <2>1, BeginStep
  <2>2. CASE onHashInclude(i)
    BY <2>2, IncludeStep
  <2>3. CASE Return(i)
    BY <2>3, ReturnStep
  <2>4. CASE EndCollecting(i)
    BY <2>4, EndStep
  <2>5. CASE GenerateAndSaveDepFile(i)
    BY <2>5, IdleStep DEF GenerateAndSaveDepFile
  <2> QED  BY <1>3, <2>1, <2>2, <2>3, <2>4, <2>5 DEF Step
<1> QED  BY <1>1, <1>2, <1>3 DEF Next

LEMMA TruthImplies == ASSUME Agreeing, TruthInv PROVE CacheIsTruth
<1> SUFFICES ASSUME NEW i \in Invocations, pc[i] \in {"collect", "done"}
             PROVE  /\ \A name \in DOMAIN includesResolve :
                         includesResolve[name]
                           = RefFile(i, CppInFile(i), Angle(name), DOMAIN files)
                    /\ \A file \in DOMAIN hFilesInfo :
                         ToSet(hFilesInfo[file]) = RefNested(i, files, file)
  BY DEF CacheIsTruth
<1>1. /\ i \in Compiled /\ files \in FileSystems /\ None \notin DOMAIN files
      /\ NamesAreRight(files, includesResolve) /\ HeadersAreRight(files, hFilesInfo)
  BY PchFacts DEF Agreeing, TruthInv, SharedIsTrue, OwnIsTrue
<1>2. \A name \in DOMAIN includesResolve :
        includesResolve[name] = RefFile(i, CppInFile(i), Angle(name), DOMAIN files)
  BY <1>1 DEF NamesAreRight
<1>3. ASSUME NEW file \in DOMAIN hFilesInfo
      PROVE  ToSet(hFilesInfo[file]) = RefNested(i, files, file)
  <2> DEFINE info == hFilesInfo[file]
             adj == Adj(i, files, file)
  <2>1. /\ file \in DOMAIN files /\ info \in Seq(DOMAIN files) /\ Alike(info, adj, {None})
    BY <1>1 DEF HeadersAreRight
  <2>2. /\ adj \in Seq(Answers(files)) /\ ToSet(adj) \ {None} = RefNested(i, files, file)
    BY <1>1, <2>1, AdjIsNested
  <2> HIDE DEF info, adj
  <2>3. DOMAIN files \subseteq Answers(files)
    BY DEF Answers
  <2>4. info \in Seq(Answers(files)) /\ ToSet(info) \subseteq DOMAIN files
    BY <2>1, <2>3, SeqMonotonic, ToSetSeq
  <2>5. ToSet(info) \ {None} = ToSet(adj) \ {None}
    BY <2>1, <2>2, <2>4, AlikeSets
  <2>6. ToSet(info) = RefNested(i, files, file)
    BY <1>1, <2>2, <2>4, <2>5
  <2> QED  BY <2>6 DEF info
<1> QED  BY <1>2, <1>3

LEMMA TruthInvariance == ASSUME Agreeing PROVE Spec => []TruthInv
<1>1. Init => TruthInv
  BY InitTruth
<1>2. TruthInv /\ [Next]_vars => TruthInv'
  BY EachStep
<1> QED  BY <1>1, <1>2, PTL DEF Spec

(***************************************************************************)
(* CacheIsTruth: however the invocations interleave, what is remembered of *)
(* an <angle> name is the file that it stands for, and what is remembered  *)
(* of a header is all that it includes, even with cycles.                  *)
(***************************************************************************)
THEOREM CacheTruth == ASSUME Agreeing PROVE Spec => []CacheIsTruth
<1>1. TruthInv => CacheIsTruth
  BY TruthImplies
<1> QED  BY <1>1, TruthInvariance, PTL

-----------------------------------------------------------------------------
(* What the reference reaches, as a least closed set                       *)

\* A set of files which includes what its files include, but for those left out.
Closed(i, system, roots, without, S) ==
  /\ S \subseteq DOMAIN system
  /\ roots \ (without \cup {None}) \subseteq S
  /\ \A file \in S : RefNested(i, system, file) \ without \subseteq S

LEMMA ClosureIs ==
  ASSUME NEW i, NEW system, NEW roots, NEW without
  PROVE  RefClosure(i, system, roots, without)
           = {file \in DOMAIN system :
                \A S : Closed(i, system, roots, without, S) => file \in S}
<1> DEFINE nested == [file \in DOMAIN system |-> RefNested(i, system, file)]
           closed == {S \in SUBSET DOMAIN system :
                        /\ roots \ (without \cup {None}) \subseteq S
                        /\ \A file \in S : nested[file] \ without \subseteq S}
<1>1. ASSUME NEW S PROVE S \in closed <=> Closed(i, system, roots, without, S)
  <2>1. S \subseteq DOMAIN system =>
          \A file \in S : nested[file] = RefNested(i, system, file)
    OBVIOUS
  <2> QED  BY <2>1 DEF Closed
<1>2. RefClosure(i, system, roots, without)
        = {file \in DOMAIN system : \A S \in closed : file \in S}
  BY DEF RefClosure
<1> HIDE DEF closed, nested
<1> QED  BY <1>1, <1>2

LEMMA ClosureIsLeast ==
  ASSUME NEW i, NEW system, NEW roots, NEW without, NEW S, Closed(i, system, roots, without, S)
  PROVE  RefClosure(i, system, roots, without) \subseteq S
  BY ClosureIs

LEMMA ClosureIsClosed ==
  ASSUME NEW i, NEW system, NEW roots, NEW without,
         roots \ (without \cup {None}) \subseteq DOMAIN system,
         \A file \in DOMAIN system : RefNested(i, system, file) \subseteq DOMAIN system
  PROVE  Closed(i, system, roots, without, RefClosure(i, system, roots, without))
<1> DEFINE C == RefClosure(i, system, roots, without)
<1>1. C = {file \in DOMAIN system :
             \A S : Closed(i, system, roots, without, S) => file \in S}
  BY ClosureIs
<1>2. ASSUME NEW f \in roots \ (without \cup {None}) PROVE f \in C
  BY <1>1 DEF Closed
<1>3. ASSUME NEW file \in C, NEW f \in RefNested(i, system, file) \ without PROVE f \in C
  <2>1. f \in DOMAIN system
    BY <1>1
  <2>2. ASSUME NEW S, Closed(i, system, roots, without, S) PROVE f \in S
    BY <1>1, <2>2 DEF Closed
  <2> QED  BY <1>1, <2>1, <2>2
<1>4. C \subseteq DOMAIN system
  BY <1>1
<1> HIDE DEF C
<1>5. Closed(i, system, roots, without, C)
  BY <1>2, <1>3, <1>4 DEF Closed
<1> QED  BY <1>5 DEF C

-----------------------------------------------------------------------------
\* What all of the .cpp's #includes and those before them stand for.
Root(i, system) == Targets(i, system, CppInFile(i), CppTodo(i, system))

\* How many #includes there are before those in the .cpp.
Ahead(i) == 1 + Len(invocation[i].filesI)

RefAfter(i, system) ==
  RefClosure(i, system, RefNested(i, system, CppInFile(i)), RefPch(i, system))

LEMMA RootIs ==
  ASSUME Agreeing, NEW system \in FileSystems, NEW i \in Compiled, CppInFile(i) \in DOMAIN system
  PROVE  LET adj == Adj(i, system, CppInFile(i))
         IN /\ Root(i, system) \in Seq(Answers(system)) /\ adj \in Seq(Answers(system))
            /\ Ahead(i) \in Nat /\ Ahead(i) >= 1 /\ Len(adj) \in Nat
            /\ Len(Root(i, system)) = Ahead(i) + Len(adj)
            /\ Len(CppTodo(i, system)) = Ahead(i) + Len(adj)
            /\ Root(i, system)[1] = RefFile(i, CppInFile(i), Angle(Predef), DOMAIN system)
            /\ \A n \in 2 .. Ahead(i) : Root(i, system)[n] \in RefExplicit[i]
            /\ \A f \in RefExplicit[i] : \E n \in 2 .. Ahead(i) : Root(i, system)[n] = f
            /\ \A n \in 1 .. Len(adj) : Root(i, system)[Ahead(i) + n] = adj[n]
            /\ CppTodo(i, system)[1].pch = FALSE
            /\ CppTodo(i, system)[Ahead(i) + 1].pch = SearchesForPch(i) \/ Len(adj) = 0
            /\ \A n \in 2 .. Len(adj) : CppTodo(i, system)[Ahead(i) + n].pch = FALSE
<1> DEFINE found == RefStatements(system[CppInFile(i)])
           filesI == invocation[i].filesI
           todo == CppTodo(i, system)
           root == Root(i, system)
           adj == Adj(i, system, CppInFile(i))
           a == Ahead(i)
<1>1. /\ AllProper(i, system, CppInFile(i), todo)
      /\ Len(filesI) \in Nat /\ Len(found) \in Nat
      /\ Len(todo) = a + Len(found)
      /\ todo[1] = Angle(Predef)
      /\ \A k \in 1 .. Len(filesI) : todo[1 + k] = AbsPath(filesI[k], SearchesForPch(i))
      /\ \A k \in 1 .. Len(found) : todo[a + k] = MarkPch(found[k], k = 1 /\ SearchesForPch(i))
  BY CppTodoIs DEF Ahead
<1>2. /\ AllProper(i, system, CppInFile(i), found) /\ OptionsAgree
  BY StatementsProper DEF Agreeing
<1>3. a \in Nat /\ a >= 1 /\ a = 1 + Len(filesI)
  BY <1>1 DEF Ahead
<1>4. /\ root \in Seq(Answers(system)) /\ Len(root) = Len(todo)
      /\ \A k \in 1 .. Len(todo) : root[k] = Target(i, system, CppInFile(i), todo[k])
  BY <1>1, <1>2, TargetsSeq DEF Root
<1>5. /\ adj \in Seq(Answers(system)) /\ Len(adj) = Len(found)
      /\ \A k \in 1 .. Len(found) :
           /\ adj[k] = Target(i, system, CppInFile(i), found[k])
           /\ Proper(i, system, CppInFile(i), found[k])
  BY <1>2, TargetsSeq DEF Adj
<1> HIDE DEF found, todo, root, adj, a
<1>6. root[1] = RefFile(i, CppInFile(i), Angle(Predef), DOMAIN system) /\ todo[1].pch = FALSE
  <2>1. 1 \in 1 .. Len(todo)
    BY <1>1, <1>3
  <2>2. root[1] = Target(i, system, CppInFile(i), Angle(Predef))
    BY <1>1, <1>4, <2>1
  <2>3. Angle(Predef).form = "angle" /\ Angle(Predef).pch = FALSE
    BY DEF Angle
  <2> QED  BY <1>1, <2>2, <2>3 DEF Target
<1>7. ASSUME NEW k \in 1 .. Len(filesI) PROVE root[1 + k] = filesI[k]
  <2>1. 1 + k \in 1 .. Len(todo)
    BY <1>1, <1>3
  <2>2. root[1 + k] = Target(i, system, CppInFile(i), AbsPath(filesI[k], SearchesForPch(i)))
    BY <1>1, <1>4, <2>1
  <2> QED  BY <2>2 DEF Target, AbsPath
<1>8. RefExplicit[i] = ToSet(filesI) /\ IsSeq(filesI)
  BY <1>2 DEF OptionsAgree
<1>9. /\ \A k \in 1 .. Len(filesI) : filesI[k] \in RefExplicit[i]
      /\ \A f \in RefExplicit[i] : \E k \in 1 .. Len(filesI) : f = filesI[k]
  <2>1. filesI \in Seq(ToSet(filesI)) /\ RefExplicit[i] = ToSet(filesI)
    BY <1>8 DEF IsSeq
  <2> HIDE DEF filesI
  <2> QED  BY <2>1, ToSetSeq
<1>10. ASSUME NEW n \in 2 .. a PROVE root[n] \in RefExplicit[i]
  <2>1. n - 1 \in 1 .. Len(filesI) /\ 1 + (n - 1) = n
    BY <1>1, <1>3
  <2> QED  BY <1>7, <1>9, <2>1
<1>11. ASSUME NEW f \in RefExplicit[i] PROVE \E n \in 2 .. a : root[n] = f
  <2>1. PICK k \in 1 .. Len(filesI) : f = filesI[k]
    BY <1>9
  <2>2. 1 + k \in 2 .. a
    BY <1>1, <1>3
  <2> QED  BY <1>7, <2>1, <2>2
<1>12. ASSUME NEW n \in 1 .. Len(found)
       PROVE  /\ root[a + n] = adj[n]
              /\ todo[a + n].pch = (n = 1 /\ SearchesForPch(i))
  <2>1. a + n \in 1 .. Len(todo)
    BY <1>1, <1>3
  <2> DEFINE pch == n = 1 /\ SearchesForPch(i)
             inc == found[n]
             inc2 == MarkPch(inc, pch)
  <2>2. root[a + n] = Target(i, system, CppInFile(i), inc2) /\ todo[a + n] = inc2
    BY <1>1, <1>4, <2>1
  <2>3. /\ adj[n] = Target(i, system, CppInFile(i), inc) /\ Proper(i, system, CppInFile(i), inc)
    BY <1>5
  <2>4. pch \in BOOLEAN
    OBVIOUS
  <2> HIDE DEF pch, inc
  <2>5. inc2.form = inc.form /\ inc2.arg = inc.arg /\ inc2.pch = pch
    BY <2>3, <2>4 DEF MarkPch, Proper
  <2> HIDE DEF inc2
  <2>6. RefDirs(i, CppInFile(i), inc2) = RefDirs(i, CppInFile(i), inc)
    BY <2>5 DEF RefDirs
  <2>7. Target(i, system, CppInFile(i), inc2) = Target(i, system, CppInFile(i), inc)
    BY <2>5, <2>6 DEF Target, RefFile
  <2>8. todo[a + n].pch = pch
    BY <2>2, <2>5
  <2> QED  BY <2>2, <2>3, <2>7, <2>8 DEF pch
<1>13. todo[a + 1].pch = SearchesForPch(i) \/ Len(adj) = 0
  <2>1. CASE Len(found) = 0
    BY <1>5, <2>1
  <2>2. CASE Len(found) # 0
    <3>1. 1 \in 1 .. Len(found)
      BY <1>1, <2>2
    <3>2. SearchesForPch(i) \in BOOLEAN
      BY DEF SearchesForPch
    <3> QED  BY <1>12, <3>1, <3>2
  <2> QED  BY <2>1, <2>2
<1>14. \A n \in 2 .. Len(adj) : todo[a + n].pch = FALSE
  <2>1. \A n \in 2 .. Len(adj) : n \in 1 .. Len(found) /\ n # 1
    BY <1>1, <1>5
  <2> QED  BY <1>12, <2>1
<1> QED  BY <1>1, <1>3, <1>4, <1>5, <1>6, <1>10, <1>11, <1>12, <1>13, <1>14
         DEF todo, root, adj, a

-----------------------------------------------------------------------------
(* What comes before and after a precompiled header                        *)

LEMMA BeforeIs ==
  ASSUME Agreeing, NEW system \in FileSystems, NEW i \in Compiled, CppInFile(i) \in DOMAIN system
  PROVE  /\ RefBefore(i, system) \subseteq DOMAIN system
         /\ \A n \in 1 .. Ahead(i) : Root(i, system)[n] \in RefBefore(i, system) \cup {None}
         /\ \A file \in RefBefore(i, system) :
              RefNested(i, system, file) \subseteq RefBefore(i, system)
         /\ \A S \in SUBSET DOMAIN system :
              /\ \A n \in 1 .. Ahead(i) : Root(i, system)[n] \in S \cup {None}
              /\ \A file \in S : RefNested(i, system, file) \subseteq S
              => RefBefore(i, system) \subseteq S
<1> DEFINE first == RefFile(i, CppInFile(i), Angle(Predef), DOMAIN system)
           roots == {first} \cup RefExplicit[i]
           root == Root(i, system)
           a == Ahead(i)
           before == RefBefore(i, system)
<1>0. /\ root \in Seq(Answers(system)) /\ a \in Nat /\ a >= 1 /\ a <= Len(root)
  <2>1. /\ root \in Seq(Answers(system)) /\ a \in Nat /\ a >= 1
        /\ \E n \in Nat : Len(root) = a + n
    BY RootIs
  <2> QED  BY <2>1
<1>1. /\ root \in Seq(Answers(system)) /\ a \in Nat /\ a >= 1 /\ a <= Len(root)
      /\ root[1] = first
      /\ \A n \in 2 .. a : root[n] \in RefExplicit[i]
      /\ \A f \in RefExplicit[i] : \E n \in 2 .. a : root[n] = f
  BY <1>0, RootIs
<1>2. before = RefClosure(i, system, roots, {})
  BY DEF RefBefore
<1>3. RefExplicit[i] \subseteq DOMAIN system
  BY DEF Agreeing, OrdinarySystems
<1> HIDE DEF a, root, before, first
<1>4. \A n \in 1 .. a : root[n] \in roots
  BY <1>1
<1>5. \A f \in roots : \E n \in 1 .. a : root[n] = f
  BY <1>1
<1>6. \A n \in 1 .. a : root[n] \in DOMAIN system \cup {None}
  BY <1>1, ElementOfSeq DEF Answers
<1>7. roots \ ({} \cup {None}) \subseteq DOMAIN system
  BY <1>5, <1>6
<1>8. \A file \in DOMAIN system : RefNested(i, system, file) \subseteq DOMAIN system
  BY AdjIsNested
<1> HIDE DEF roots
<1>9. Closed(i, system, roots, {}, before)
  BY <1>2, <1>7, <1>8, ClosureIsClosed
<1>10. /\ before \subseteq DOMAIN system /\ roots \ {None} \subseteq before
       /\ \A file \in before : RefNested(i, system, file) \subseteq before
  BY <1>9 DEF Closed
<1>11. ASSUME NEW S \in SUBSET DOMAIN system, \A n \in 1 .. a : root[n] \in S \cup {None},
              \A file \in S : RefNested(i, system, file) \subseteq S
       PROVE  before \subseteq S
  <2>1. Closed(i, system, roots, {}, S)
    BY <1>5, <1>11 DEF Closed
  <2> QED  BY <1>2, <2>1, ClosureIsLeast
<1>12. \A n \in 1 .. a : root[n] \in before \cup {None}
  BY <1>4, <1>10
<1> QED  BY <1>10, <1>11, <1>12 DEF a, root, before

LEMMA AfterIs ==
  ASSUME Agreeing, NEW system \in FileSystems, NEW i \in Compiled, CppInFile(i) \in DOMAIN system
  PROVE  /\ RefAfter(i, system) \subseteq DOMAIN system
         /\ RefNested(i, system, CppInFile(i))
              \subseteq RefAfter(i, system) \cup RefPch(i, system)
         /\ \A file \in RefAfter(i, system) :
              RefNested(i, system, file) \subseteq RefAfter(i, system) \cup RefPch(i, system)
         /\ \A S \in SUBSET DOMAIN system :
              /\ RefNested(i, system, CppInFile(i)) \subseteq S \cup RefPch(i, system)
              /\ \A file \in S : RefNested(i, system, file) \subseteq S \cup RefPch(i, system)
              => RefAfter(i, system) \subseteq S
<1> DEFINE roots == RefNested(i, system, CppInFile(i))
           pch == RefPch(i, system)
           after == RefAfter(i, system)
<1>1. after = RefClosure(i, system, roots, pch)
  BY DEF RefAfter
<1>2. \A file \in DOMAIN system : RefNested(i, system, file) \subseteq DOMAIN system
  BY AdjIsNested
<1>3. roots \subseteq DOMAIN system /\ None \notin DOMAIN system
  BY <1>2, PchFacts DEF Agreeing
<1> HIDE DEF roots, pch, after
<1>4. roots \ (pch \cup {None}) \subseteq DOMAIN system
  BY <1>3
<1>5. Closed(i, system, roots, pch, after)
  BY <1>1, <1>2, <1>4, ClosureIsClosed
<1>6. /\ after \subseteq DOMAIN system /\ roots \subseteq after \cup pch
      /\ \A file \in after : RefNested(i, system, file) \subseteq after \cup pch
  BY <1>3, <1>5 DEF Closed
<1>7. ASSUME NEW S \in SUBSET DOMAIN system, roots \subseteq S \cup pch,
             \A file \in S : RefNested(i, system, file) \subseteq S \cup pch
      PROVE  after \subseteq S
  <2>1. Closed(i, system, roots, pch, S)
    BY <1>7 DEF Closed
  <2> QED  BY <1>1, <2>1, ClosureIsLeast
<1> QED  BY <1>6, <1>7 DEF roots, pch, after

\* At most the first #include of the .cpp is replaced by a precompiled header.
LEMMA PchIs ==
  ASSUME Agreeing, NEW system \in FileSystems, NEW i \in Compiled, CppInFile(i) \in DOMAIN system,
         NEW f
  PROVE  f \in RefPch(i, system)
           <=> /\ SearchesForPch(i) /\ Len(Adj(i, system, CppInFile(i))) >= 1
               /\ f = Root(i, system)[Ahead(i) + 1] /\ f \in OwnPchs
               /\ f \notin RefBefore(i, system)
<1> DEFINE found == RefStatements(system[CppInFile(i)])
           adj == Adj(i, system, CppInFile(i))
           first == {RefFile(i, CppInFile(i), found[k], DOMAIN system) :
                       k \in DOMAIN found \cap {1}}
<1>1. /\ OwnPchs \subseteq DOMAIN system /\ AllProper(i, system, CppInFile(i), found)
      /\ \A inc \in ToSet(found) : inc.form \in {"quote", "angle", "next"}
      /\ OptionsAgree
  BY PchFacts, StatementsProper DEF Agreeing
<1>2. DOMAIN system \cup OwnPchs = DOMAIN system
  BY <1>1
<1>3. RefIncludes[system[CppInFile(i)]] = found
  <2>1. system[CppInFile(i)] \in UNION {{y[g] : g \in DOMAIN y} : y \in FileSystems}
    OBVIOUS
  <2> QED  BY <2>1 DEF RefIncludes
<1>4. /\ Len(adj) = Len(found) /\ Len(found) \in Nat /\ DOMAIN found = 1 .. Len(found)
      /\ \A k \in 1 .. Len(found) : adj[k] = Target(i, system, CppInFile(i), found[k])
  BY <1>1, TargetsSeq DEF Adj
<1>5. f \in RefPch(i, system)
        <=> /\ SearchesForPch(i) /\ f \in OwnPchs /\ f \notin RefBefore(i, system)
            /\ f \in first
  BY <1>2, <1>3 DEF RefPch
<1>6. 1 \in 1 .. Len(found) => adj[1] = RefFile(i, CppInFile(i), found[1], DOMAIN system)
  <2>1. 1 \in 1 .. Len(found) => found[1] \in ToSet(found)
    BY <1>4 DEF ToSet
  <2> QED  BY <1>1, <1>4, <2>1 DEF Target
<1>7. 1 \in 1 .. Len(adj) => Root(i, system)[Ahead(i) + 1] = adj[1]
  BY RootIs
<1>8. f \in first <=> 1 \in 1 .. Len(found) /\ f = adj[1]
  BY <1>4, <1>6
<1> HIDE DEF found, adj, first
<1>9. f \in first <=> Len(adj) >= 1 /\ f = Root(i, system)[Ahead(i) + 1]
  BY <1>4, <1>7, <1>8
<1> QED  BY <1>5, <1>9 DEF adj

-----------------------------------------------------------------------------
(* The files between the innermost one and the .cpp                        *)

\* A file that has been found by an #include, not yet read to its end: all that
\* it includes and that isn't known is still to be read, in the same order.
Nested(i, system, frame, K) ==
  /\ frame.file \in K \ RefPch(i, system)
  /\ \A inc \in ToSet(frame.todo) : inc.pch = FALSE
  /\ Alike(Targets(i, system, frame.file, frame.todo), Adj(i, system, frame.file), K \cup {None})

\* How many of the #includes for the .cpp have been followed.
Passed(i, system, frame) == Len(CppTodo(i, system)) - Len(frame.todo)

\* The .cpp itself.
Bottom(i, system, frame, K) ==
  LET m == Passed(i, system, frame)
  IN /\ frame.file = CppInFile(i) /\ m \in Nat
     /\ \A k \in 1 .. Len(frame.todo) : frame.todo[k] = CppTodo(i, system)[m + k]
     /\ \A k \in 1 .. m : Root(i, system)[k] \in K \cup {None}

LEMMA NestedMore ==
  ASSUME NEW i, NEW system, NEW frame, NEW K, Nested(i, system, frame, K), NEW K2, K \subseteq K2
  PROVE  Nested(i, system, frame, K2)
<1>1. K \cup {None} \subseteq K2 \cup {None}
  OBVIOUS
<1> QED  BY <1>1, AlikeMore DEF Nested

LEMMA BottomMore ==
  ASSUME NEW i, NEW system, NEW frame, NEW K, Bottom(i, system, frame, K), NEW K2, K \subseteq K2
  PROVE  Bottom(i, system, frame, K2)
  BY DEF Bottom

LEMMA PoppedIs ==
  ASSUME NEW i, NEW system, NEW frame, FrameIsRight(i, system, frame), NEW d
  PROVE  Popped(frame, d).file = frame.file /\ Popped(frame, d).todo = Tail(frame.todo)
  BY DEF FrameIsRight, Popped

\* What a file's next #include stands for is one of those it includes.
LEMMA NestedWants ==
  ASSUME Agreeing, NEW system \in FileSystems, NEW i \in Compiled, NEW frame, NEW K,
         FrameIsRight(i, system, frame), Nested(i, system, frame, K), frame.todo # <<>>
  PROVE  LET t == Target(i, system, frame.file, Head(frame.todo))
         IN /\ Head(frame.todo).pch = FALSE
            /\ t \notin K \cup {None} =>
                 /\ First(Adj(i, system, frame.file), K \cup {None}) = t
                 /\ t \in RefNested(i, system, frame.file)
<1> DEFINE t == Target(i, system, frame.file, Head(frame.todo))
           T == Targets(i, system, frame.file, frame.todo)
           A == Adj(i, system, frame.file)
           W == K \cup {None}
           todo == frame.todo
           current == frame.file
<1>1. /\ OptionsAgree /\ AllProper(i, system, current, todo) /\ current \in DOMAIN system
      /\ Alike(T, A, W) /\ None \in W /\ \A inc \in ToSet(todo) : inc.pch = FALSE
      /\ todo # <<>>
  BY DEF Agreeing, FrameIsRight, Nested
<1>2. T \in Seq(Answers(system)) /\ T # <<>> /\ T[1] = t /\ Head(todo) \in ToSet(todo)
  <2> HIDE DEF todo, current
  <2>1. /\ T \in Seq(Answers(system)) /\ T # <<>> /\ Head(todo) = todo[1]
        /\ T[1] = Target(i, system, current, todo[1]) /\ todo[1] \in ToSet(todo)
    BY <1>1, TargetsSeq, TailProper DEF todo, current
  <2> QED  BY <2>1 DEF todo, current
<1>3. A \in Seq(Answers(system)) /\ ToSet(A) \ {None} = RefNested(i, system, current)
  BY <1>1, AdjIsNested
<1> HIDE DEF T, A, W, todo, current
<1>4. ASSUME t \notin W PROVE First(A, W) = t
  <2>1. First(T, W) = t
    BY <1>1, <1>2, <1>4, FirstOfTail
  <2> QED  BY <1>1, <2>1 DEF Alike
<1>5. ASSUME t \notin W PROVE t \in RefNested(i, system, current)
  <2>1. t # None
    BY <1>1, <1>5
  <2>2. \E k \in 1 .. Len(A) : t = A[k]
    BY <1>1, <1>3, <1>4, <1>5, <2>1, FirstFacts
  <2>3. t \in ToSet(A)
    BY <1>3, <2>2, ToSetSeq
  <2> QED  BY <1>3, <2>1, <2>3
<1> QED  BY <1>1, <1>2, <1>4, <1>5 DEF A, W, todo, current

LEMMA NestedPop ==
  ASSUME Agreeing, NEW system \in FileSystems, NEW i \in Compiled, NEW frame, NEW K,
         FrameIsRight(i, system, frame), Nested(i, system, frame, K), frame.todo # <<>>,
         Target(i, system, frame.file, Head(frame.todo)) \in K \cup {None}, NEW d
  PROVE  Nested(i, system, Popped(frame, d), K)
<1> DEFINE t == Target(i, system, frame.file, Head(frame.todo))
           T == Targets(i, system, frame.file, frame.todo)
           A == Adj(i, system, frame.file)
           W == K \cup {None}
           todo == frame.todo
           current == frame.file
<1>1. /\ OptionsAgree /\ AllProper(i, system, current, todo)
      /\ Alike(T, A, W) /\ None \in W /\ \A inc \in ToSet(todo) : inc.pch = FALSE
      /\ todo # <<>> /\ t \in W /\ current \in K \ RefPch(i, system)
  BY DEF Agreeing, FrameIsRight, Nested
<1>2. /\ T \in Seq(Answers(system)) /\ T # <<>> /\ T[1] = t
      /\ ToSet(Tail(todo)) \subseteq ToSet(todo)
      /\ Targets(i, system, current, Tail(todo)) = Tail(T)
  <2> HIDE DEF todo, current
  <2>1. /\ T \in Seq(Answers(system)) /\ T # <<>> /\ Head(todo) = todo[1]
        /\ T[1] = Target(i, system, current, todo[1])
        /\ ToSet(Tail(todo)) \subseteq ToSet(todo)
        /\ Targets(i, system, current, Tail(todo)) = Tail(T)
    BY <1>1, TargetsSeq, TailProper DEF todo, current
  <2> QED  BY <2>1 DEF todo, current
<1> HIDE DEF T, A, W
<1>3. Alike(Tail(T), A, W)
  <2>1. Head(T) = T[1]
    BY <1>2
  <2> QED  BY <1>1, <1>2, <2>1, AlikeTail
<1>4. Popped(frame, d).file = current /\ Popped(frame, d).todo = Tail(todo)
  BY PoppedIs
<1> HIDE DEF todo, current
<1>5. Alike(Targets(i, system, current, Tail(todo)), Adj(i, system, current), K \cup {None})
  BY <1>2, <1>3 DEF A, W, current
<1> QED  BY <1>1, <1>2, <1>4, <1>5 DEF Nested

\* A file that has been read to its end has all it includes known.
LEMMA NestedEnd ==
  ASSUME Agreeing, NEW system \in FileSystems, NEW i \in Compiled, NEW frame, NEW K,
         FrameIsRight(i, system, frame), Nested(i, system, frame, K), frame.todo = <<>>
  PROVE  ToSet(Adj(i, system, frame.file)) \subseteq K \cup {None}
<1> DEFINE T == Targets(i, system, frame.file, frame.todo)
           A == Adj(i, system, frame.file)
           W == K \cup {None}
<1>1. /\ OptionsAgree /\ AllProper(i, system, frame.file, frame.todo)
      /\ frame.file \in DOMAIN system /\ Alike(T, A, W) /\ None \in W
  BY DEF Agreeing, FrameIsRight, Nested
<1>2. T \in Seq(Answers(system)) /\ Len(T) = Len(frame.todo) /\ Len(frame.todo) = 0
  BY <1>1, TargetsSeq
<1>3. A \in Seq(Answers(system))
  BY <1>1, AdjIsNested
<1> HIDE DEF T, A, W
<1>4. ToSet(T) \subseteq W
  <2>1. \A e \in ToSet(T) : \E k \in 1 .. Len(T) : e = T[k]
    BY <1>2, ToSetSeq
  <2>2. 1 .. Len(T) = {}
    BY <1>2
  <2> QED  BY <2>1, <2>2
<1>5. ToSet(A) \subseteq W
  BY <1>1, <1>2, <1>3, <1>4, AlikeWithin
<1> QED  BY <1>5 DEF A, W

LEMMA OpenedNested ==
  ASSUME NEW i, NEW system, NEW frame, NEW file, Opened(i, system, frame, file), NEW K,
         file \in K \ RefPch(i, system)
  PROVE  Nested(i, system, frame, K)
<1>1. {None} \subseteq K \cup {None}
  OBVIOUS
<1> QED  BY <1>1, AlikeMore DEF Opened, Nested

-----------------------------------------------------------------------------
(* The .cpp                                                                *)

\* The next #include for the .cpp.
LEMMA BottomAt ==
  ASSUME Agreeing, NEW system \in FileSystems, NEW i \in Compiled, CppInFile(i) \in DOMAIN system,
         NEW frame, NEW K,
         FrameIsRight(i, system, frame), Bottom(i, system, frame, K), frame.todo # <<>>
  PROVE  LET m == Passed(i, system, frame)
         IN /\ m \in Nat /\ m + 1 \in 1 .. Len(Root(i, system))
            /\ Head(frame.todo) = CppTodo(i, system)[m + 1]
            /\ Target(i, system, frame.file, Head(frame.todo)) = Root(i, system)[m + 1]
<1> DEFINE m == Passed(i, system, frame)
           todo == frame.todo
           all == CppTodo(i, system)
           current == frame.file
<1>1. /\ OptionsAgree /\ AllProper(i, system, current, todo) /\ todo # <<>>
      /\ current = CppInFile(i) /\ m \in Nat /\ m = Len(all) - Len(todo)
      /\ \A k \in 1 .. Len(todo) : todo[k] = all[m + k]
  BY DEF Agreeing, FrameIsRight, Bottom, Passed
<1>2. AllProper(i, system, CppInFile(i), all)
  BY CppTodoIs
<1> HIDE DEF m, todo, all, current
<1>3. Len(todo) \in Nat /\ Len(todo) >= 1 /\ Head(todo) = todo[1]
  <2>1. Len(todo) \in Nat /\ Head(todo) = todo[1] /\ todo \in Seq(ToSet(todo))
    BY <1>1, TargetsSeq, TailProper DEF AllProper, IsSeq
  <2> QED  BY <1>1, <2>1, EmptySeq
<1>4. /\ Len(all) \in Nat
      /\ \A k \in 1 .. Len(all) :
           Targets(i, system, CppInFile(i), all)[k] = Target(i, system, CppInFile(i), all[k])
      /\ Len(Targets(i, system, CppInFile(i), all)) = Len(all)
  BY <1>1, <1>2, TargetsSeq
<1>5. m + 1 \in 1 .. Len(all) /\ todo[1] = all[m + 1]
  BY <1>1, <1>3, <1>4
<1>6. Root(i, system) = Targets(i, system, CppInFile(i), all)
  BY DEF Root, all
<1>7. Target(i, system, current, Head(todo)) = Root(i, system)[m + 1]
  BY <1>1, <1>3, <1>4, <1>5, <1>6
<1> QED  BY <1>1, <1>3, <1>4, <1>5, <1>6, <1>7 DEF m, todo, all, current

LEMMA BottomPop ==
  ASSUME Agreeing, NEW system \in FileSystems, NEW i \in Compiled, CppInFile(i) \in DOMAIN system,
         NEW frame, NEW K,
         FrameIsRight(i, system, frame), Bottom(i, system, frame, K), frame.todo # <<>>,
         Target(i, system, frame.file, Head(frame.todo)) \in K \cup {None}, NEW d
  PROVE  /\ Bottom(i, system, Popped(frame, d), K)
         /\ Passed(i, system, Popped(frame, d)) = Passed(i, system, frame) + 1
<1> DEFINE m == Passed(i, system, frame)
           todo == frame.todo
           rest == Tail(todo)
           all == CppTodo(i, system)
           root == Root(i, system)
           frame2 == Popped(frame, d)
<1>1. /\ IsSeq(todo) /\ todo # <<>>
      /\ frame.file = CppInFile(i) /\ m \in Nat /\ m = Len(all) - Len(todo)
      /\ \A k \in 1 .. Len(todo) : todo[k] = all[m + k]
      /\ \A k \in 1 .. m : root[k] \in K \cup {None}
  BY DEF FrameIsRight, AllProper, Bottom, Passed
<1>2. root[m + 1] \in K \cup {None}
  BY BottomAt
<1>3. frame2.file = frame.file /\ frame2.todo = rest
  BY PoppedIs
<1>4. /\ Len(rest) = Len(todo) - 1 /\ Len(todo) \in Nat /\ Len(todo) >= 1
      /\ \A k \in 1 .. Len(rest) : rest[k] = todo[k + 1]
  <2>1. todo \in Seq(ToSet(todo)) /\ todo # <<>>
    BY <1>1 DEF IsSeq
  <2> HIDE DEF todo
  <2> QED  BY <2>1, HeadTailProperties, LenProperties, EmptySeq
<1>5. Len(all) \in Nat
  <2>1. AllProper(i, system, CppInFile(i), all) /\ OptionsAgree
    BY CppTodoIs DEF Agreeing
  <2> HIDE DEF all
  <2> QED  BY <2>1, TargetsSeq
<1>6. Passed(i, system, frame2) = Len(all) - Len(rest)
  BY <1>3 DEF Passed
<1> HIDE DEF m, todo, rest, all, root, frame2
<1>7. Passed(i, system, frame2) = m + 1
  BY <1>1, <1>4, <1>5, <1>6
<1>8. ASSUME NEW k \in 1 .. Len(rest) PROVE rest[k] = all[(m + 1) + k]
  <2>1. k + 1 \in 1 .. Len(todo) /\ m + (k + 1) = (m + 1) + k /\ k \in Int
    BY <1>1, <1>4
  <2>2. rest[k] = todo[k + 1]
    BY <1>4
  <2>3. todo[k + 1] = all[m + (k + 1)]
    BY <1>1, <2>1
  <2> QED  BY <2>1, <2>2, <2>3
<1>9. ASSUME NEW k \in 1 .. (m + 1) PROVE root[k] \in K \cup {None}
  <2>1. m \in Nat
    BY <1>1
  <2>2. k \in 1 .. m \/ k = m + 1
    BY <2>1
  <2> QED  BY <1>1, <1>2, <2>2
<1>10. m + 1 \in Nat
  BY <1>1
<1>11. Bottom(i, system, frame2, K)
  <2>1. /\ frame2.file = CppInFile(i) /\ Passed(i, system, frame2) \in Nat
        /\ \A k \in 1 .. Len(frame2.todo) :
             frame2.todo[k] = CppTodo(i, system)[Passed(i, system, frame2) + k]
    BY <1>1, <1>3, <1>7, <1>8, <1>10 DEF all
  <2>2. \A k \in 1 .. Passed(i, system, frame2) : Root(i, system)[k] \in K \cup {None}
    BY <1>7, <1>9 DEF root
  <2> QED  BY <2>1, <2>2 DEF Bottom
<1> QED  BY <1>7, <1>11 DEF m, frame2

-----------------------------------------------------------------------------
\* All that is being read has its place.
Inner(i, system, st, K) == \A p \in 1 .. (Len(st) - 1) : Nested(i, system, st[p], K)
Outer(i, system, st, K) == Bottom(i, system, st[Len(st)], K)

\* The same files are being read.
SameFiles(st, st2) == Len(st2) = Len(st) /\ \A p \in 1 .. Len(st) : st2[p].file = st[p].file

LEMMA ConsStack ==
  ASSUME NEW i, NEW system, NEW st, StackIsRight(i, system, st), NEW frame
  PROVE  /\ Len(<<frame>> \o st) = Len(st) + 1 /\ Len(st) \in Nat
         /\ (<<frame>> \o st)[1] = frame
         /\ \A p \in 1 .. Len(st) : (<<frame>> \o st)[p + 1] = st[p]
<1> DEFINE F == ToSet(st) \cup {frame}
<1>1. frame \in F /\ st \in Seq(ToSet(st)) /\ ToSet(st) \subseteq F
  BY DEF StackIsRight, IsSeq
<1> HIDE DEF F
<1>2. st \in Seq(F)
  BY <1>1, SeqMonotonic
<1> QED  BY <1>1, <1>2, ConsSeq

LEMMA PopStackIs ==
  ASSUME NEW i, NEW system, NEW st, StackIsRight(i, system, st), st # <<>>, NEW frame, NEW st2,
         st2 = <<frame>> \o Tail(st)
  PROVE  /\ Len(st2) = Len(st) /\ Len(st) \in Nat /\ Len(st) >= 1
         /\ st2[1] = frame /\ \A p \in 2 .. Len(st) : st2[p] = st[p]
<1> DEFINE rest == Tail(st)
<1>1. /\ StackIsRight(i, system, rest) /\ Len(rest) = Len(st) - 1
      /\ Len(st) \in Nat /\ Len(st) >= 1
      /\ \A p \in 1 .. Len(rest) : rest[p] = st[p + 1]
  BY TailStack
<1> HIDE DEF rest
<1>2. /\ Len(<<frame>> \o rest) = Len(rest) + 1 /\ (<<frame>> \o rest)[1] = frame
      /\ \A p \in 1 .. Len(rest) : (<<frame>> \o rest)[p + 1] = rest[p]
  BY <1>1, ConsStack
<1>3. st2 = <<frame>> \o rest
  BY DEF rest
<1>4. ASSUME NEW p \in 2 .. Len(st) PROVE st2[p] = st[p]
  <2>1. p - 1 \in 1 .. Len(rest) /\ (p - 1) + 1 = p
    BY <1>1
  <2> QED  BY <1>1, <1>2, <1>3, <2>1
<1> QED  BY <1>1, <1>2, <1>3, <1>4

-----------------------------------------------------------------------------
(* What a move does to the files being read                                *)

\* The frame of the .cpp, and how far it is.
Lowest(st) == st[Len(st)]

LEMMA ReadingMore ==
  ASSUME NEW i, NEW system, NEW st, NEW K, Inner(i, system, st, K), Outer(i, system, st, K),
         NEW K2, K \subseteq K2
  PROVE  Inner(i, system, st, K2) /\ Outer(i, system, st, K2)
  BY NestedMore, BottomMore DEF Inner, Outer

\* The next #include of the innermost file is followed.
PopsTop(st, st2) == \E d : st2 = <<Popped(st[1], d)>> \o Tail(st)

\* An #include has been followed that leads to what is known.
LEMMA ReadingPop ==
  ASSUME Agreeing, NEW system \in FileSystems, NEW i \in Compiled, CppInFile(i) \in DOMAIN system,
         NEW st, StackIsRight(i, system, st), st # <<>>, st[1].todo # <<>>, NEW K,
         Inner(i, system, st, K), Outer(i, system, st, K),
         Wanted(i, system, st) \in K \cup {None}, NEW st2, PopsTop(st, st2)
  PROVE  /\ Inner(i, system, st2, K) /\ Outer(i, system, st2, K) /\ SameFiles(st, st2)
         /\ Len(st) = 1 => Passed(i, system, Lowest(st2)) = Passed(i, system, Lowest(st)) + 1
         /\ Len(st) # 1 => Passed(i, system, Lowest(st2)) = Passed(i, system, Lowest(st))
<1>0. PICK d : st2 = <<Popped(st[1], d)>> \o Tail(st)
  BY DEF PopsTop
<1> DEFINE f == st[1]
           f2 == Popped(f, d)
<1>1. /\ Len(st2) = Len(st) /\ Len(st) \in Nat /\ Len(st) >= 1
      /\ st2[1] = f2 /\ \A p \in 2 .. Len(st) : st2[p] = st[p]
  BY <1>0, PopStackIs
<1>2. FrameIsRight(i, system, f) /\ f.todo # <<>>
  <2>1. 1 \in 1 .. Len(st)
    BY <1>1
  <2> QED  BY <2>1 DEF StackIsRight
<1>3. Target(i, system, f.file, Head(f.todo)) \in K \cup {None}
  BY DEF Wanted
<1>4. f2.file = f.file
  BY <1>2, PoppedIs
<1> HIDE DEF f, f2
<1>5. SameFiles(st, st2)
  <2>1. ASSUME NEW p \in 1 .. Len(st) PROVE st2[p].file = st[p].file
    <3>1. p = 1 \/ p \in 2 .. Len(st)
      BY <1>1
    <3> QED  BY <1>1, <1>4, <3>1 DEF f
  <2> QED  BY <1>1, <2>1 DEF SameFiles
<1>6. CASE Len(st) = 1
  <2>1. Bottom(i, system, f, K)
    BY <1>6 DEF Outer, f
  <2>2. Bottom(i, system, f2, K) /\ Passed(i, system, f2) = Passed(i, system, f) + 1
    BY <1>2, <1>3, <2>1, BottomPop DEF f2
  <2>3. Lowest(st2) = f2 /\ Lowest(st) = f
    BY <1>1, <1>6 DEF Lowest, f
  <2>4. (\A p \in 1 .. (Len(st2) - 1) : FALSE) /\ st2[Len(st2)] = f2
    <3>1. Len(st2) = 1 /\ st2[1] = f2
      BY <1>1, <1>6
    <3>2. st2[Len(st2)] = f2
      BY <3>1
    <3>3. \A p \in 1 .. (Len(st2) - 1) : FALSE
      <4>1. Len(st2) - 1 = 0
        BY <3>1
      <4>2. \A p \in 1 .. 0 : FALSE
        OBVIOUS
      <4> QED  BY <4>1, <4>2
    <3> QED  BY <3>2, <3>3
  <2>5. Inner(i, system, st2, K) /\ Outer(i, system, st2, K)
    BY <2>2, <2>4 DEF Inner, Outer
  <2> QED  BY <1>5, <1>6, <2>2, <2>3, <2>5
<1>7. CASE Len(st) # 1
  <2>1. 1 \in 1 .. (Len(st) - 1) /\ Len(st) \in 2 .. Len(st) /\ Len(st) \in 1 .. Len(st)
    BY <1>1, <1>7
  <2>2. Nested(i, system, f, K)
    BY <2>1 DEF Inner, f
  <2>3. Nested(i, system, f2, K)
    BY <1>2, <1>3, <2>2, NestedPop DEF f2
  <2>4. ASSUME NEW p \in 1 .. (Len(st2) - 1) PROVE Nested(i, system, st2[p], K)
    <3>1. p \in 1 .. (Len(st) - 1) /\ (p = 1 \/ p \in 2 .. Len(st))
      BY <1>1
    <3> QED  BY <1>1, <2>3, <3>1 DEF Inner
  <2>5. Lowest(st2) = Lowest(st) /\ st2[Len(st2)] = st[Len(st)]
    BY <1>1, <2>1 DEF Lowest
  <2>6. Inner(i, system, st2, K) /\ Outer(i, system, st2, K)
    BY <2>4, <2>5 DEF Inner, Outer
  <2> QED  BY <1>5, <1>7, <2>5, <2>6
<1> QED  BY <1>6, <1>7

\* The end of a file that was read.
LEMMA ReadingTail ==
  ASSUME NEW system, NEW i, NEW st, StackIsRight(i, system, st), Len(st) > 1, NEW K,
         Inner(i, system, st, K), Outer(i, system, st, K)
  PROVE  /\ StackIsRight(i, system, Tail(st)) /\ Tail(st) # <<>>
         /\ Len(Tail(st)) = Len(st) - 1 /\ Len(st) \in Nat
         /\ \A p \in 1 .. (Len(st) - 1) : Tail(st)[p] = st[p + 1]
         /\ Inner(i, system, Tail(st), K) /\ Outer(i, system, Tail(st), K)
         /\ Lowest(Tail(st)) = Lowest(st)
         /\ Tail(st)[1].todo # <<>> /\ Wanted(i, system, Tail(st)) = st[1].file
         /\ Nested(i, system, st[1], K) /\ FrameIsRight(i, system, st[1])
<1> DEFINE rest == Tail(st)
<1>1. st # <<>>
  BY EmptySeq
<1>2. /\ StackIsRight(i, system, rest) /\ Len(rest) = Len(st) - 1 /\ Len(st) \in Nat
      /\ \A p \in 1 .. Len(rest) : rest[p] = st[p + 1]
  BY <1>1, TailStack
<1> HIDE DEF rest
<1>3. /\ 1 \in 1 .. Len(st) /\ 1 \in 1 .. (Len(st) - 1) /\ 1 \in 1 .. Len(rest)
      /\ Len(rest) \in 1 .. Len(rest) /\ Len(rest) + 1 = Len(st)
  BY <1>2
<1>4. rest # <<>>
  BY <1>2, EmptySeq
<1>5. Inner(i, system, rest, K)
  <2>1. ASSUME NEW p \in 1 .. (Len(rest) - 1) PROVE Nested(i, system, rest[p], K)
    <3>1. p \in 1 .. Len(rest) /\ p + 1 \in 1 .. (Len(st) - 1)
      BY <1>2
    <3> QED  BY <1>2, <3>1 DEF Inner
  <2> QED  BY <2>1 DEF Inner
<1>6. rest[Len(rest)] = st[Len(st)]
  BY <1>2, <1>3
<1>7. FrameIsRight(i, system, st[1]) /\ LeadsTo(i, system, st[2], st[1].file)
  <2>1. FrameIsRight(i, system, st[1]) /\ LeadsTo(i, system, st[1 + 1], st[1].file)
    BY <1>3 DEF StackIsRight
  <2> QED  BY <2>1
<1>8. rest[1] = st[2]
  <2>1. rest[1] = st[1 + 1]
    BY <1>2, <1>3
  <2> QED  BY <2>1
<1>9. rest[1].todo # <<>> /\ Wanted(i, system, rest) = st[1].file
  BY <1>7, <1>8 DEF LeadsTo, Wanted
<1>10. Nested(i, system, st[1], K)
  BY <1>3 DEF Inner
<1>11. Outer(i, system, rest, K) /\ Lowest(rest) = Lowest(st)
  BY <1>6 DEF Outer, Lowest
<1> QED  BY <1>2, <1>4, <1>5, <1>7, <1>9, <1>10, <1>11 DEF rest

\* Another file is begun.
Pushes(frame, st, st2) == st2 = <<frame>> \o st

LEMMA ReadingPush ==
  ASSUME NEW system, NEW i, NEW st, StackIsRight(i, system, st), st # <<>>, NEW K,
         Inner(i, system, st, K), Outer(i, system, st, K), NEW K2, K \subseteq K2,
         NEW frame, Nested(i, system, frame, K2), NEW st2, Pushes(frame, st, st2)
  PROVE  /\ Inner(i, system, st2, K2) /\ Outer(i, system, st2, K2)
         /\ Lowest(st2) = Lowest(st)
         /\ Len(st2) = Len(st) + 1 /\ Len(st) \in Nat /\ Len(st) >= 1
         /\ st2[1] = frame /\ \A p \in 1 .. Len(st) : st2[p + 1] = st[p]
<1>1. /\ Len(st2) = Len(st) + 1 /\ Len(st) \in Nat /\ st2[1] = frame
      /\ \A p \in 1 .. Len(st) : st2[p + 1] = st[p]
  BY ConsStack DEF Pushes
<1>2. Len(st) >= 1
  BY TailStack
<1>3. Inner(i, system, st, K2) /\ Outer(i, system, st, K2)
  BY ReadingMore
<1>4. ASSUME NEW p \in 1 .. (Len(st2) - 1) PROVE Nested(i, system, st2[p], K2)
  <2>1. CASE p = 1
    BY <1>1, <2>1
  <2>2. CASE p # 1
    <3>1. p - 1 \in 1 .. Len(st) /\ p - 1 \in 1 .. (Len(st) - 1) /\ (p - 1) + 1 = p
      BY <1>1, <2>2
    <3>2. st2[(p - 1) + 1] = st[p - 1]
      BY <1>1, <3>1
    <3>3. Nested(i, system, st[p - 1], K2)
      BY <1>3, <3>1 DEF Inner
    <3> QED  BY <3>1, <3>2, <3>3
  <2> QED  BY <2>1, <2>2
<1>5. st2[Len(st2)] = st[Len(st)]
  <2>1. Len(st) \in 1 .. Len(st)
    BY <1>1, <1>2
  <2> QED  BY <1>1, <2>1
<1>6. Inner(i, system, st2, K2) /\ Outer(i, system, st2, K2) /\ Lowest(st2) = Lowest(st)
  BY <1>3, <1>4, <1>5 DEF Inner, Outer, Lowest
<1> QED  BY <1>1, <1>2, <1>6

-----------------------------------------------------------------------------
(* What has been found so far                                              *)

\* What the server needs for a file that the .cpp depends on.
Dep(i, system, file) == IF file \in RefPch(i, system) THEN PchOf(file) ELSE file

\* Nothing has been looked at yet that a precompiled header may stand for.
Early(i, system, st) ==
  LET m == Passed(i, system, Lowest(st))
  IN m < Ahead(i) \/ (m = Ahead(i) /\ Len(st) = 1)

\* All files but those that are still being read have been read to their end.
AllRead(i, system, st, K) ==
  \A file \in K \ RefPch(i, system) :
    \/ \E p \in 1 .. (Len(st) - 1) : st[p].file = file
    \/ ToSet(Adj(i, system, file)) \subseteq K \cup {None}

Phase(i, system, st, K) ==
  /\ Early(i, system, st) => K \subseteq RefBefore(i, system)
  /\ ~ Early(i, system, st) => RefPch(i, system) \subseteq K

Reached(i, system, K) ==
  /\ K \subseteq DOMAIN system
  /\ K \subseteq RefBefore(i, system) \cup RefAfter(i, system) \cup RefPch(i, system)

Listed(i, system, K, h) ==
  IsSeq(h) /\ ToSet(h) = {Dep(i, system, file) : file \in K}

(***************************************************************************)
(* While an invocation collects: what it has found is what the reference   *)
(* reaches, and what is missing is included by a file still being read.    *)
(***************************************************************************)
Collected(i, system, st, K, h) ==
  /\ Inner(i, system, st, K) /\ Outer(i, system, st, K)
  /\ AllRead(i, system, st, K) /\ Phase(i, system, st, K)
  /\ Reached(i, system, K) /\ Listed(i, system, K, h)

LEMMA AppendListed ==
  ASSUME NEW i, NEW system, NEW K, NEW h, Listed(i, system, K, h), NEW file
  PROVE  Listed(i, system, K \cup {file}, Append(h, Dep(i, system, file)))
<1> DEFINE e == Dep(i, system, file)
           S == ToSet(h) \cup {e}
           h2 == Append(h, e)
<1>1. h \in Seq(ToSet(h)) /\ ToSet(h) \subseteq S /\ e \in S
  BY DEF Listed, IsSeq
<1> HIDE DEF e, S
<1>2. h \in Seq(S) /\ Len(h) \in Nat
  BY <1>1, SeqMonotonic, LenProperties
<1>3. /\ h2 \in Seq(S) /\ Len(h2) = Len(h) + 1
      /\ \A k \in 1 .. Len(h) : h2[k] = h[k]
      /\ h2[Len(h) + 1] = e
  BY <1>1, <1>2, AppendProperties
<1> HIDE DEF h2
<1>4. /\ IsSeq(h2)
      /\ \A k \in 1 .. Len(h2) : h2[k] \in ToSet(h2)
      /\ \A x \in ToSet(h2) : \E k \in 1 .. Len(h2) : x = h2[k]
      /\ \A k \in 1 .. Len(h) : h[k] \in ToSet(h)
      /\ \A x \in ToSet(h) : \E k \in 1 .. Len(h) : x = h[k]
  BY <1>2, <1>3, ToSetSeq
<1>5. \A x \in ToSet(h2) : x \in ToSet(h) \cup {e}
  <2>1. ASSUME NEW x \in ToSet(h2) PROVE x \in ToSet(h) \cup {e}
    <3>1. PICK k \in 1 .. Len(h2) : x = h2[k]
      BY <1>4
    <3>2. k \in 1 .. Len(h) \/ k = Len(h) + 1
      BY <1>2, <1>3
    <3> QED  BY <1>3, <1>4, <3>1, <3>2
  <2> QED  BY <2>1
<1>6. \A x \in ToSet(h) : x \in ToSet(h2)
  <2>1. \A k \in 1 .. Len(h) : k \in 1 .. Len(h2)
    BY <1>2, <1>3
  <2> QED  BY <1>3, <1>4, <2>1
<1>7. e \in ToSet(h2)
  <2>1. Len(h) + 1 \in 1 .. Len(h2)
    BY <1>2, <1>3
  <2> QED  BY <1>3, <1>4, <2>1
<1>8. ToSet(h2) = ToSet(h) \cup {e}
  BY <1>5, <1>6, <1>7
<1>9. ToSet(h) = {Dep(i, system, f) : f \in K}
  BY DEF Listed
<1>10. ToSet(h2) = {Dep(i, system, f) : f \in K \cup {file}}
  BY <1>8, <1>9 DEF e
<1> QED  BY <1>4, <1>10 DEF Listed, h2, e

\* The files that the .cpp gets before its own #includes are complete as soon as
\* those for them have been followed.
LEMMA BeforeIsKnown ==
  ASSUME Agreeing, NEW system \in FileSystems, NEW i \in Compiled, CppInFile(i) \in DOMAIN system,
         NEW st, StackIsRight(i, system, st), Len(st) = 1, NEW K, NEW h,
         Collected(i, system, st, K, h), Passed(i, system, Lowest(st)) >= Ahead(i)
  PROVE  RefBefore(i, system) \subseteq K
<1> DEFINE before == RefBefore(i, system)
           S == K \cap before
           m == Passed(i, system, Lowest(st))
<1>1. /\ before \subseteq DOMAIN system
      /\ \A n \in 1 .. Ahead(i) : Root(i, system)[n] \in before \cup {None}
      /\ \A file \in before : RefNested(i, system, file) \subseteq before
      /\ \A S2 \in SUBSET DOMAIN system :
           /\ \A n \in 1 .. Ahead(i) : Root(i, system)[n] \in S2 \cup {None}
           /\ \A file \in S2 : RefNested(i, system, file) \subseteq S2
           => before \subseteq S2
  BY BeforeIs
<1>2. /\ m \in Nat /\ m >= Ahead(i) /\ Ahead(i) \in Nat
      /\ \A k \in 1 .. m : Root(i, system)[k] \in K \cup {None}
  BY RootIs DEF Collected, Outer, Bottom, Lowest
<1>3. \A n \in 1 .. Ahead(i) : Root(i, system)[n] \in S \cup {None}
  <2> HIDE DEF m, before
  <2>1. \A n \in 1 .. Ahead(i) : n \in 1 .. m
    BY <1>2
  <2> QED  BY <1>1, <1>2, <2>1
<1>4. ASSUME NEW file \in S PROVE RefNested(i, system, file) \subseteq S
  <2>1. file \in K \ RefPch(i, system) /\ file \in DOMAIN system
    BY <1>1, PchIs
  <2>2. ToSet(Adj(i, system, file)) \subseteq K \cup {None}
    BY <2>1 DEF Collected, AllRead
  <2>3. RefNested(i, system, file) \subseteq K
    BY <2>1, <2>2, AdjIsNested, PchFacts DEF Agreeing
  <2> QED  BY <1>1, <2>3
<1>5. S \in SUBSET DOMAIN system
  BY <1>1
<1> QED  BY <1>1, <1>3, <1>4, <1>5

-----------------------------------------------------------------------------
(* An #include that tells nothing new, and a precompiled header            *)

LEMMA SkipCollected ==
  ASSUME Agreeing, NEW system \in FileSystems, NEW i \in Compiled, CppInFile(i) \in DOMAIN system,
         NEW st, StackIsRight(i, system, st), st # <<>>, NEW K, NEW h,
         Collected(i, system, st, K, h), NEW st2, NEW K2, NEW h2,
         SkipMove(i, system, st, K, h, st2, K2, h2)
  PROVE  Collected(i, system, st2, K2, h2)
<1> DEFINE m == Passed(i, system, Lowest(st))
           m2 == Passed(i, system, Lowest(st2))
           a == Ahead(i)
           root == Root(i, system)
<1>1. /\ st[1].todo # <<>> /\ Wanted(i, system, st) \in K \cup {None}
      /\ K2 = K /\ h2 = h
      /\ Inner(i, system, st, K) /\ Outer(i, system, st, K)
  BY DEF SkipMove, Collected
<1>2. PopsTop(st, st2)
  BY DEF SkipMove, PopsTop
<1>3. /\ Inner(i, system, st2, K) /\ Outer(i, system, st2, K) /\ SameFiles(st, st2)
      /\ Len(st) = 1 => m2 = m + 1
      /\ Len(st) # 1 => m2 = m
  BY <1>1, <1>2, ReadingPop
<1>4. AllRead(i, system, st2, K)
  <2>1. Len(st2) = Len(st) /\ \A p \in 1 .. (Len(st) - 1) : st2[p].file = st[p].file
    <3>1. Len(st) \in Nat
      BY TailStack
    <3>2. \A p \in 1 .. (Len(st) - 1) : p \in 1 .. Len(st)
      BY <3>1
    <3> QED  BY <1>3, <3>2 DEF SameFiles
  <2>2. AllRead(i, system, st, K)
    BY DEF Collected
  <2> QED  BY <2>1, <2>2 DEF AllRead
<1>5. m \in Nat /\ a \in Nat /\ Len(st2) = Len(st)
  BY <1>1, <1>3, RootIs DEF Outer, Bottom, Lowest, SameFiles
<1>6. /\ Early(i, system, st) => K \subseteq RefBefore(i, system)
      /\ ~ Early(i, system, st) => RefPch(i, system) \subseteq K
      /\ Early(i, system, st) <=> m < a \/ (m = a /\ Len(st) = 1)
      /\ Early(i, system, st2) <=> m2 < a \/ (m2 = a /\ Len(st2) = 1)
  BY DEF Collected, Phase, Early
<1>7. Phase(i, system, st2, K)
  <2>1. CASE Len(st) = 1 /\ m = a
    <3>1. K \subseteq RefBefore(i, system) /\ ~ Early(i, system, st2)
      BY <1>3, <1>5, <1>6, <2>1
    <3>2. Wanted(i, system, st) = root[a + 1]
      <4>1. 1 \in 1 .. Len(st) /\ Lowest(st) = st[1]
        BY <2>1 DEF Lowest
      <4>2. FrameIsRight(i, system, st[1]) /\ Bottom(i, system, st[1], K)
        BY <1>1, <4>1 DEF StackIsRight, Outer, Lowest
      <4> QED  BY <1>1, <2>1, <4>1, <4>2, BottomAt DEF Wanted
    <3>3. ASSUME NEW f \in RefPch(i, system) PROVE FALSE
      <4>1. f = root[a + 1] /\ f \in OwnPchs /\ f \notin RefBefore(i, system)
        BY PchIs
      <4>2. f # None
        BY <4>1, PchFacts DEF Agreeing
      <4> QED  BY <1>1, <3>1, <3>2, <4>1, <4>2
    <3> QED  BY <3>1, <3>3 DEF Phase
  <2>2. CASE ~ (Len(st) = 1 /\ m = a)
    <3>1. Early(i, system, st2) <=> Early(i, system, st)
      BY <1>3, <1>5, <1>6, <2>2
    <3> QED  BY <1>6, <3>1 DEF Phase
  <2> QED  BY <2>1, <2>2
<1> QED  BY <1>1, <1>3, <1>4, <1>7 DEF Collected

\* A precompiled header is found at the first #include of the .cpp.
LEMMA PchCollected ==
  ASSUME Agreeing, NEW system \in FileSystems, NEW i \in Compiled, CppInFile(i) \in DOMAIN system,
         NEW st, StackIsRight(i, system, st), st # <<>>, NEW K, NEW h,
         Collected(i, system, st, K, h), NEW st2, NEW K2, NEW h2,
         PchMove(i, system, st, K, h, st2, K2, h2)
  PROVE  /\ Collected(i, system, st2, K2, h2) /\ Len(st) = 1
         /\ Wanted(i, system, st) \in RefPch(i, system)
<1> DEFINE m == Passed(i, system, Lowest(st))
           m2 == Passed(i, system, Lowest(st2))
           a == Ahead(i)
           root == Root(i, system)
           t == Wanted(i, system, st)
           all == CppTodo(i, system)
<1>1. /\ st[1].todo # <<>> /\ t \notin K /\ t \in OwnPchs /\ Head(st[1].todo).pch
      /\ K2 = K \cup {t} /\ h2 = Append(h, PchOf(t))
      /\ Inner(i, system, st, K) /\ Outer(i, system, st, K)
  BY DEF PchMove, Collected
<1>2. PopsTop(st, st2)
  BY DEF PchMove, PopsTop
<1>3. Len(st) \in Nat /\ Len(st) >= 1 /\ FrameIsRight(i, system, st[1])
  <2>1. Len(st) \in Nat /\ Len(st) >= 1
    BY TailStack
  <2>2. 1 \in 1 .. Len(st)
    BY <2>1
  <2> QED  BY <2>1, <2>2 DEF StackIsRight
<1>4. Len(st) = 1
  <2>1. ASSUME Len(st) # 1 PROVE FALSE
    <3>1. 1 \in 1 .. (Len(st) - 1)
      BY <1>3, <2>1
    <3>2. Nested(i, system, st[1], K)
      BY <1>1, <3>1 DEF Inner
    <3>3. Head(st[1].todo).pch = FALSE
      BY <1>1, <1>3, <3>2, NestedWants
    <3> QED  BY <1>1, <3>3
  <2> QED  BY <2>1
<1>5. /\ m \in Nat /\ m + 1 \in 1 .. Len(root) /\ Head(st[1].todo) = all[m + 1]
      /\ t = root[m + 1]
  <2>1. Bottom(i, system, st[1], K) /\ Lowest(st) = st[1]
    BY <1>1, <1>4 DEF Outer, Lowest
  <2> QED  BY <1>1, <1>3, <2>1, BottomAt DEF Wanted
<1>6. /\ a \in Nat /\ a >= 1 /\ \E n \in Nat : n = Len(Adj(i, system, CppInFile(i)))
      /\ Len(root) = a + Len(Adj(i, system, CppInFile(i)))
      /\ \A n \in 2 .. a : root[n] \in RefExplicit[i]
      /\ all[1].pch = FALSE
      /\ all[a + 1].pch = SearchesForPch(i) \/ Len(Adj(i, system, CppInFile(i))) = 0
      /\ \A n \in 2 .. Len(Adj(i, system, CppInFile(i))) : all[a + n].pch = FALSE
  BY RootIs
<1> DEFINE L == Len(Adj(i, system, CppInFile(i)))
<1>7. t \notin RefExplicit[i] /\ t \in DOMAIN system
  BY <1>1 DEF Agreeing, OrdinarySystems, OrdinaryPch
<1>8. /\ L \in Nat /\ Len(root) = a + L /\ all[m + 1].pch
      /\ all[a + 1].pch = SearchesForPch(i) \/ L = 0
      /\ \A n \in 2 .. L : all[a + n].pch = FALSE
  BY <1>1, <1>5, <1>6
<1> HIDE DEF m, a, root, t, all, L
<1>9. m = a /\ L >= 1 /\ SearchesForPch(i)
  <2>1. m + 1 # 1
    BY <1>5, <1>6, <1>8
  <2>2. m + 1 \notin 2 .. a
    BY <1>5, <1>6, <1>7
  <2>3. ~ (m + 1 > a + 1)
    <3>1. ASSUME m + 1 > a + 1 PROVE FALSE
      <4>1. (m + 1) - a \in 2 .. L /\ a + ((m + 1) - a) = m + 1
        BY <1>5, <1>6, <1>8, <3>1
      <4> QED  BY <1>8, <4>1
    <3> QED  BY <3>1
  <2>4. m = a
    BY <1>5, <1>6, <2>1, <2>2, <2>3
  <2>5. L >= 1
    BY <1>5, <1>6, <1>8, <2>4
  <2>6. all[a + 1].pch /\ L # 0
    BY <1>8, <2>4, <2>5
  <2>7. SearchesForPch(i)
    BY <1>8, <2>6
  <2> QED  BY <2>4, <2>5, <2>7
<1>10. K \subseteq RefBefore(i, system) /\ RefBefore(i, system) \subseteq K
  <2>1. Early(i, system, st)
    BY <1>4, <1>9 DEF Early, m, a
  <2>2. K \subseteq RefBefore(i, system)
    BY <2>1 DEF Collected, Phase
  <2>3. m >= a
    BY <1>6, <1>9
  <2>4. RefBefore(i, system) \subseteq K
    BY <1>4, <2>3, BeforeIsKnown DEF m, a
  <2> QED  BY <2>2, <2>4
<1>11. t \in RefPch(i, system)
  <2>1. t = root[a + 1] /\ t \notin RefBefore(i, system)
    BY <1>1, <1>5, <1>9, <1>10
  <2> QED  BY <1>1, <1>9, <2>1, PchIs DEF root, a, L
<1>12. RefPch(i, system) = {t}
  <2>1. \A f \in RefPch(i, system) : f = t
    BY <1>5, <1>9, PchIs DEF root, a
  <2> QED  BY <1>11, <2>1
<1>13. /\ Inner(i, system, st2, K2) /\ Outer(i, system, st2, K2) /\ SameFiles(st, st2)
       /\ m2 = m + 1
  <2>1. Inner(i, system, st, K2) /\ Outer(i, system, st, K2)
    BY <1>1, ReadingMore
  <2>2. Wanted(i, system, st) \in K2 \cup {None}
    BY <1>1 DEF t
  <2> QED  BY <1>1, <1>2, <1>4, <2>1, <2>2, ReadingPop DEF m, t
<1>14. AllRead(i, system, st2, K2)
  <2>1. ASSUME NEW f \in K2 \ RefPch(i, system)
        PROVE  ToSet(Adj(i, system, f)) \subseteq K2 \cup {None}
    <3>1. f \in K \ RefPch(i, system)
      BY <1>1, <1>12, <2>1
    <3>2. \A p \in 1 .. (Len(st) - 1) : FALSE
      BY <1>4
    <3>3. ToSet(Adj(i, system, f)) \subseteq K \cup {None}
      BY <3>1, <3>2 DEF Collected, AllRead
    <3> QED  BY <1>1, <3>3
  <2> QED  BY <2>1 DEF AllRead
<1>15. Phase(i, system, st2, K2)
  <2>1. ~ Early(i, system, st2)
    <3>1. ~ (m2 < a) /\ m2 # a
      BY <1>5, <1>6, <1>9, <1>13
    <3> QED  BY <3>1 DEF Early, a
  <2>2. RefPch(i, system) \subseteq K2
    BY <1>1, <1>12
  <2> QED  BY <2>1, <2>2 DEF Phase
<1>16. Reached(i, system, K2)
  BY <1>1, <1>7, <1>11 DEF Collected, Reached
<1>17. Listed(i, system, K2, h2)
  <2>1. Dep(i, system, t) = PchOf(t)
    BY <1>11 DEF Dep
  <2>2. Listed(i, system, K \cup {t}, Append(h, Dep(i, system, t)))
    BY AppendListed DEF Collected
  <2> QED  BY <1>1, <2>1, <2>2
<1>18. Collected(i, system, st2, K2, h2)
  BY <1>13, <1>14, <1>15, <1>16, <1>17 DEF Collected
<1> QED  BY <1>4, <1>11, <1>18 DEF t

-----------------------------------------------------------------------------
(* Another file                                                            *)

LEMMA OpenCollected ==
  ASSUME Agreeing, NEW system \in FileSystems, NEW i \in Compiled, CppInFile(i) \in DOMAIN system,
         NEW st, StackIsRight(i, system, st), st # <<>>, NEW K, NEW h,
         Collected(i, system, st, K, h), NEW st2, NEW K2, NEW h2,
         OpenMove(i, system, st, K, h, st2, K2, h2)
  PROVE  Collected(i, system, st2, K2, h2) /\ Wanted(i, system, st) \notin RefPch(i, system)
<1> DEFINE m == Passed(i, system, Lowest(st))
           a == Ahead(i)
           root == Root(i, system)
           t == Wanted(i, system, st)
           all == CppTodo(i, system)
           before == RefBefore(i, system)
           after == RefAfter(i, system)
           pch == RefPch(i, system)
           adj == Adj(i, system, CppInFile(i))
<1>1. /\ st[1].todo # <<>> /\ t \notin K /\ t \in DOMAIN system
      /\ ~ (Head(st[1].todo).pch /\ t \in OwnPchs)
      /\ K2 = K \cup {t} /\ h2 = Append(h, t)
      /\ Inner(i, system, st, K) /\ Outer(i, system, st, K)
      /\ None \notin DOMAIN system
  BY PchFacts DEF OpenMove, Collected, Agreeing
<1>2. PICK frame : st2 = <<frame>> \o st /\ Opened(i, system, frame, t)
  BY DEF OpenMove
<1>3. Len(st) \in Nat /\ Len(st) >= 1 /\ FrameIsRight(i, system, st[1])
  <2>1. Len(st) \in Nat /\ Len(st) >= 1
    BY TailStack
  <2>2. 1 \in 1 .. Len(st)
    BY <2>1
  <2> QED  BY <2>1, <2>2 DEF StackIsRight
<1>4. /\ m \in Nat /\ a \in Nat /\ a >= 1
      /\ Early(i, system, st) <=> m < a \/ (m = a /\ Len(st) = 1)
      /\ Early(i, system, st) => K \subseteq before
      /\ ~ Early(i, system, st) => pch \subseteq K
      /\ K \subseteq DOMAIN system /\ K \subseteq before \cup after \cup pch
  BY <1>1, RootIs DEF Outer, Bottom, Lowest, Early, Collected, Phase, Reached
<1>5. /\ \A n \in 1 .. a : root[n] \in before \cup {None}
      /\ \A file \in before : RefNested(i, system, file) \subseteq before
  BY BeforeIs
<1>6. /\ RefNested(i, system, CppInFile(i)) \subseteq after \cup pch
      /\ \A file \in after : RefNested(i, system, file) \subseteq after \cup pch
  BY AfterIs
<1>7. \A f \in pch : /\ SearchesForPch(i) /\ Len(adj) >= 1 /\ f = root[a + 1]
                     /\ f \in OwnPchs /\ f \notin before
  BY PchIs
\* Where the new file stands.
<1>8. /\ t \notin pch /\ t \in before \cup after
      /\ m < a => t \in before
      /\ ~ (m < a) => pch \subseteq K
  <2>1. CASE Len(st) # 1
    <3>1. 1 \in 1 .. (Len(st) - 1)
      <4>1. \A L \in Nat : L >= 1 /\ L # 1 => 1 \in 1 .. (L - 1)
        OBVIOUS
      <4> QED  BY <1>3, <2>1, <4>1
    <3>2. Nested(i, system, st[1], K)
      BY <1>1, <3>1 DEF Inner
    <3>3. t \in RefNested(i, system, st[1].file)
      BY <1>1, <1>3, <3>2, NestedWants DEF Wanted
    <3>4. st[1].file \in K \ pch
      BY <3>2 DEF Nested
    <3> HIDE DEF m, a, t, before, after, pch
    <3>5. CASE m < a
      <4>1. K \subseteq before
        BY <1>4, <3>5
      <4>2. t \in before
        BY <1>5, <3>3, <3>4, <4>1
      <4> QED  BY <1>7, <3>5, <4>2
    <3>6. CASE ~ (m < a)
      <4>1. pch \subseteq K
        BY <1>4, <2>1, <3>6
      <4>2. t \in before \cup after \cup pch
        BY <1>4, <1>5, <1>6, <3>3, <3>4
      <4> QED  BY <1>1, <3>6, <4>1, <4>2
    <3> QED  BY <3>5, <3>6
  <2>2. CASE Len(st) = 1
    <3>1. Bottom(i, system, st[1], K) /\ Lowest(st) = st[1]
      BY <1>1, <2>2 DEF Outer, Lowest
    <3>2. /\ m + 1 \in 1 .. Len(root) /\ Head(st[1].todo) = all[m + 1]
          /\ t = root[m + 1]
      BY <1>1, <1>3, <3>1, BottomAt DEF Wanted
    <3>3. /\ Len(adj) \in Nat /\ Len(root) = a + Len(adj)
          /\ \A n \in 1 .. Len(adj) : root[a + n] = adj[n]
          /\ (all[a + 1].pch = SearchesForPch(i)) \/ Len(adj) = 0
          /\ adj \in Seq(Answers(system))
      BY RootIs
    <3>4. ToSet(adj) \ {None} \subseteq after \cup pch
      BY <1>6, AdjIsNested
    <3> HIDE DEF m, a, t, before, after, pch, all, root, adj
    <3>5. CASE m < a
      <4>1. m + 1 \in 1 .. a
        BY <1>4, <3>5
      <4>2. t \in before
        BY <1>1, <1>5, <3>2, <4>1
      <4> QED  BY <1>7, <3>5, <4>2
    <3>6. CASE ~ (m < a)
      <4>1. (m + 1) - a \in 1 .. Len(adj) /\ a + ((m + 1) - a) = m + 1
        BY <1>4, <3>2, <3>3, <3>6
      <4>2. t = adj[(m + 1) - a]
        BY <3>2, <3>3, <4>1
      <4>3. t \in ToSet(adj)
        BY <3>3, <4>1, <4>2, ToSetSeq
      <4>4. t \in after \cup pch
        BY <1>1, <3>4, <4>3
      <4>5. pch \subseteq K
        <5>1. CASE m = a
          <6>1. ASSUME NEW f \in pch PROVE FALSE
            <7>1. SearchesForPch(i) /\ f = t /\ f \in OwnPchs /\ Len(adj) # 0
              BY <1>7, <3>2, <3>3, <5>1
            <7>2. Head(st[1].todo).pch = SearchesForPch(i)
              BY <3>2, <3>3, <5>1, <7>1
            <7> QED  BY <1>1, <7>1, <7>2
          <6> QED  BY <6>1
        <5>2. CASE m # a
          BY <1>4, <3>6, <5>2
        <5> QED  BY <5>1, <5>2
      <4> QED  BY <1>1, <3>6, <4>4, <4>5
    <3> QED  BY <3>5, <3>6
  <2> QED  BY <2>1, <2>2
<1>9. /\ Inner(i, system, st2, K2) /\ Outer(i, system, st2, K2)
      /\ Lowest(st2) = Lowest(st) /\ Len(st2) = Len(st) + 1
      /\ st2[1] = frame /\ \A p \in 1 .. Len(st) : st2[p + 1] = st[p]
  <2>1. Nested(i, system, frame, K2)
    BY <1>1, <1>2, <1>8, OpenedNested
  <2>2. K \subseteq K2 /\ Pushes(frame, st, st2)
    BY <1>1, <1>2 DEF Pushes
  <2> QED  BY <1>1, <2>1, <2>2, ReadingPush
<1>10. AllRead(i, system, st2, K2)
  <2>1. ASSUME NEW f \in K2 \ pch
        PROVE  \/ \E p \in 1 .. (Len(st2) - 1) : st2[p].file = f
               \/ ToSet(Adj(i, system, f)) \subseteq K2 \cup {None}
    <3>1. CASE f = t
      <4>1. 1 \in 1 .. (Len(st2) - 1) /\ st2[1].file = t
        BY <1>2, <1>3, <1>9 DEF Opened
      <4> QED  BY <3>1, <4>1
    <3>2. CASE f \in K
      <4>1. \/ \E p \in 1 .. (Len(st) - 1) : st[p].file = f
            \/ ToSet(Adj(i, system, f)) \subseteq K \cup {None}
        BY <2>1, <3>2 DEF Collected, AllRead
      <4>2. ASSUME NEW p \in 1 .. (Len(st) - 1), st[p].file = f
            PROVE  \E q \in 1 .. (Len(st2) - 1) : st2[q].file = f
        <5>1. p + 1 \in 1 .. (Len(st2) - 1) /\ p \in 1 .. Len(st)
          BY <1>3, <1>9
        <5> QED  BY <1>9, <4>2, <5>1
      <4> QED  BY <1>1, <4>1, <4>2
    <3> QED  BY <1>1, <2>1, <3>1, <3>2
  <2> QED  BY <2>1 DEF AllRead
<1>11. Phase(i, system, st2, K2)
  <2>1. Early(i, system, st2) <=> m < a
    <3>1. Len(st2) # 1
      BY <1>3, <1>9
    <3> QED  BY <1>9, <3>1 DEF Early
  <2>2. m < a => K2 \subseteq before
    BY <1>1, <1>4, <1>8
  <2>3. ~ (m < a) => pch \subseteq K2
    BY <1>1, <1>8
  <2> QED  BY <2>1, <2>2, <2>3 DEF Phase
<1>12. Reached(i, system, K2)
  BY <1>1, <1>4, <1>8 DEF Reached
<1>13. Listed(i, system, K2, h2)
  <2>1. Dep(i, system, t) = t
    BY <1>8 DEF Dep
  <2>2. Listed(i, system, K \cup {t}, Append(h, Dep(i, system, t)))
    BY AppendListed DEF Collected
  <2> QED  BY <1>1, <2>1, <2>2
<1>14. Collected(i, system, st2, K2, h2)
  BY <1>9, <1>10, <1>11, <1>12, <1>13 DEF Collected
<1> QED  BY <1>8, <1>14

-----------------------------------------------------------------------------
(* The end of a file, the begin and the end of it all                      *)

LEMMA ReturnCollected ==
  ASSUME Agreeing, NEW system \in FileSystems, NEW i \in Compiled, CppInFile(i) \in DOMAIN system,
         NEW st, StackIsRight(i, system, st), st # <<>>, NEW K, NEW h,
         Collected(i, system, st, K, h), NEW st2, NEW K2, NEW h2,
         ReturnMove(i, system, st, K, h, st2, K2, h2)
  PROVE  Collected(i, system, st2, K2, h2) /\ SameFiles(Tail(st), st2)
<1> DEFINE rest == Tail(st)
           m == Passed(i, system, Lowest(st))
           m2 == Passed(i, system, Lowest(st2))
           a == Ahead(i)
<1>1. /\ st[1].todo = <<>> /\ Len(st) > 1 /\ K2 = K /\ h2 = h
      /\ Inner(i, system, st, K) /\ Outer(i, system, st, K)
  BY DEF ReturnMove, Collected
<1>2. PopsTop(rest, st2)
  BY DEF ReturnMove, PopsTop
<1>3. /\ StackIsRight(i, system, rest) /\ rest # <<>>
      /\ Len(rest) = Len(st) - 1 /\ Len(st) \in Nat
      /\ \A p \in 1 .. (Len(st) - 1) : rest[p] = st[p + 1]
      /\ Inner(i, system, rest, K) /\ Outer(i, system, rest, K)
      /\ Lowest(rest) = Lowest(st)
      /\ rest[1].todo # <<>> /\ Wanted(i, system, rest) = st[1].file
      /\ Nested(i, system, st[1], K) /\ FrameIsRight(i, system, st[1])
  BY <1>1, ReadingTail
<1> HIDE DEF rest
<1>4. Wanted(i, system, rest) \in K \cup {None}
  BY <1>3 DEF Nested
<1>5. /\ Inner(i, system, st2, K) /\ Outer(i, system, st2, K) /\ SameFiles(rest, st2)
      /\ Len(rest) = 1 => m2 = m + 1
      /\ Len(rest) # 1 => m2 = m
  <2>1. /\ Inner(i, system, st2, K) /\ Outer(i, system, st2, K) /\ SameFiles(rest, st2)
        /\ Len(rest) = 1 =>
             Passed(i, system, Lowest(st2)) = Passed(i, system, Lowest(rest)) + 1
        /\ Len(rest) # 1 => Passed(i, system, Lowest(st2)) = Passed(i, system, Lowest(rest))
    BY <1>2, <1>3, <1>4, ReadingPop
  <2> QED  BY <1>3, <2>1
<1>6. Len(st2) = Len(st) - 1 /\ \A p \in 1 .. (Len(st) - 1) : st2[p].file = st[p + 1].file
  BY <1>3, <1>5 DEF SameFiles
<1>7. AllRead(i, system, st2, K)
  <2>1. ASSUME NEW f \in K \ RefPch(i, system)
        PROVE  \/ \E p \in 1 .. (Len(st2) - 1) : st2[p].file = f
               \/ ToSet(Adj(i, system, f)) \subseteq K \cup {None}
    <3>1. \/ \E p \in 1 .. (Len(st) - 1) : st[p].file = f
          \/ ToSet(Adj(i, system, f)) \subseteq K \cup {None}
      BY DEF Collected, AllRead
    <3>2. ASSUME NEW p \in 1 .. (Len(st) - 1), st[p].file = f
          PROVE  \/ \E q \in 1 .. (Len(st2) - 1) : st2[q].file = f
                 \/ ToSet(Adj(i, system, f)) \subseteq K \cup {None}
      <4>1. CASE p = 1
        <5>1. ToSet(Adj(i, system, st[1].file)) \subseteq K \cup {None}
          BY <1>1, <1>3, NestedEnd
        <5> QED  BY <3>2, <4>1, <5>1
      <4>2. CASE p # 1
        <5>1. /\ p - 1 \in 1 .. (Len(st2) - 1) /\ p - 1 \in 1 .. (Len(st) - 1)
              /\ (p - 1) + 1 = p
          BY <1>3, <1>6, <4>2
        <5>2. st2[p - 1].file = st[(p - 1) + 1].file
          BY <1>6, <5>1
        <5> QED  BY <3>2, <5>1, <5>2
      <4> QED  BY <4>1, <4>2
    <3> QED  BY <3>1, <3>2
  <2> QED  BY <2>1 DEF AllRead
<1>8. Phase(i, system, st2, K)
  <2>1. m \in Nat /\ a \in Nat
    BY <1>1, RootIs DEF Outer, Bottom, Lowest
  <2>2. /\ Early(i, system, st) <=> m < a \/ (m = a /\ Len(st) = 1)
        /\ Early(i, system, st2) <=> m2 < a \/ (m2 = a /\ Len(st2) = 1)
    BY DEF Early
  <2>3. Early(i, system, st2) <=> Early(i, system, st)
    <3> HIDE DEF m, m2, a
    <3>1. CASE Len(rest) = 1
      <4>1. Len(st2) = 1 /\ Len(st) # 1 /\ m2 = m + 1
        BY <1>3, <1>5, <1>6, <3>1
      <4> QED  BY <2>1, <2>2, <4>1
    <3>2. CASE Len(rest) # 1
      <4>1. Len(st2) # 1 /\ Len(st) # 1 /\ m2 = m
        BY <1>1, <1>3, <1>5, <1>6, <3>2
      <4> QED  BY <2>1, <2>2, <4>1
    <3> QED  BY <3>1, <3>2
  <2> QED  BY <2>3 DEF Collected, Phase
<1>9. Collected(i, system, st2, K2, h2)
  BY <1>1, <1>5, <1>7, <1>8 DEF Collected
<1> QED  BY <1>5, <1>9 DEF rest

LEMMA BeginCollected ==
  ASSUME Agreeing, NEW system \in FileSystems, NEW i \in Compiled, CppInFile(i) \in DOMAIN system,
         NEW st, NEW frame, st = <<frame>>, frame.file = CppInFile(i),
         frame.todo = CppTodo(i, system), NEW h \in Seq(Nat), Len(h) = 0
  PROVE  Collected(i, system, st, {}, h)
<1> DEFINE L == Len(CppTodo(i, system))
<1>1. Len(st) = 1 /\ Lowest(st) = frame /\ st[Len(st)] = frame
  BY DEF Lowest
<1>2. Ahead(i) \in Nat /\ Ahead(i) >= 1 /\ L \in Nat
  <2>1. /\ Ahead(i) \in Nat /\ Ahead(i) >= 1 /\ Len(Adj(i, system, CppInFile(i))) \in Nat
        /\ L = Ahead(i) + Len(Adj(i, system, CppInFile(i)))
    BY RootIs
  <2> HIDE DEF L
  <2> QED  BY <2>1
<1>3. Passed(i, system, frame) = 0
  <2>1. Passed(i, system, frame) = L - L
    BY DEF Passed
  <2> HIDE DEF L
  <2> QED  BY <1>2, <2>1
<1>4. Inner(i, system, st, {})
  <2>1. Len(st) - 1 = 0
    BY <1>1
  <2>2. \A p \in 1 .. 0 : FALSE
    OBVIOUS
  <2> QED  BY <2>1, <2>2 DEF Inner
<1>5. Outer(i, system, st, {})
  <2>1. \A k \in 1 .. L : 0 + k = k
    OBVIOUS
  <2>2. \A k \in 1 .. 0 : FALSE
    OBVIOUS
  <2>3. Bottom(i, system, frame, {})
    BY <1>3, <2>1, <2>2 DEF Bottom
  <2> QED  BY <1>1, <2>3 DEF Outer
<1>6. Phase(i, system, st, {}) /\ AllRead(i, system, st, {}) /\ Reached(i, system, {})
  <2>1. Early(i, system, st)
    BY <1>1, <1>2, <1>3 DEF Early
  <2> QED  BY <2>1 DEF Phase, AllRead, Reached
<1>7. Listed(i, system, {}, h)
  <2>1. IsSeq(h) /\ \A e \in ToSet(h) : \E k \in 1 .. Len(h) : e = h[k]
    BY ToSetSeq
  <2>2. ToSet(h) = {}
    <3>1. \A k \in 1 .. 0 : FALSE
      OBVIOUS
    <3> QED  BY <2>1, <3>1
  <2>3. {Dep(i, system, file) : file \in {}} = {}
    OBVIOUS
  <2> QED  BY <2>1, <2>2, <2>3 DEF Listed
<1> QED  BY <1>4, <1>5, <1>6, <1>7 DEF Collected

\* At the end of the .cpp all has been found.
LEMMA EndCollected ==
  ASSUME Agreeing, NEW system \in FileSystems, NEW i \in Compiled, CppInFile(i) \in DOMAIN system,
         NEW st, StackIsRight(i, system, st), Len(st) = 1, st[1].todo = <<>>, NEW K, NEW h,
         Collected(i, system, st, K, h)
  PROVE  /\ K = RefBefore(i, system) \cup RefAfter(i, system) \cup RefPch(i, system)
         /\ RefAfter(i, system) \cap RefPch(i, system) = {}
         /\ \A f \in K \ RefPch(i, system) : ToSet(Adj(i, system, f)) \subseteq K \cup {None}
         /\ ToSet(Root(i, system)) \subseteq K \cup {None}
         /\ ToSet(h) = RefDependencies[system][i]
<1> DEFINE before == RefBefore(i, system)
           after == RefAfter(i, system)
           pch == RefPch(i, system)
           adj == Adj(i, system, CppInFile(i))
           root == Root(i, system)
           a == Ahead(i)
           m == Passed(i, system, Lowest(st))
<1>1. /\ root \in Seq(Answers(system)) /\ adj \in Seq(Answers(system)) /\ a \in Nat
      /\ Len(adj) \in Nat /\ Len(root) = a + Len(adj)
      /\ Len(CppTodo(i, system)) = a + Len(adj)
      /\ \A n \in 1 .. Len(adj) : root[a + n] = adj[n]
  BY RootIs
<1>2. Bottom(i, system, st[1], K) /\ Lowest(st) = st[1]
  BY DEF Collected, Outer, Lowest
<1>3. /\ m = a + Len(adj) /\ \A k \in 1 .. m : root[k] \in K \cup {None}
  <2>1. m = Len(CppTodo(i, system)) - Len(st[1].todo) /\ Len(st[1].todo) = 0
    BY <1>2 DEF Passed
  <2>2. \A k \in 1 .. m : root[k] \in K \cup {None}
    BY <1>2 DEF Bottom
  <2> QED  BY <1>1, <2>1, <2>2
<1>4. ToSet(root) \subseteq K \cup {None}
  <2> HIDE DEF root, adj, a, m
  <2>1. \A e \in ToSet(root) : \E k \in 1 .. Len(root) : e = root[k]
    BY <1>1, ToSetSeq
  <2> QED  BY <1>1, <1>3, <2>1
<1>5. K \subseteq DOMAIN system /\ K \subseteq before \cup after \cup pch
  BY DEF Collected, Reached
<1>6. \A f \in K \ pch : ToSet(Adj(i, system, f)) \subseteq K \cup {None}
  <2>1. Len(st) - 1 = 0
    OBVIOUS
  <2>2. \A p \in 1 .. 0 : FALSE
    OBVIOUS
  <2> QED  BY <2>1, <2>2 DEF Collected, AllRead
<1>7. \A f \in K \ pch : RefNested(i, system, f) \subseteq K
  <2>1. None \notin DOMAIN system
    BY PchFacts DEF Agreeing
  <2> QED  BY <1>5, <1>6, <2>1, AdjIsNested
<1>8. before \subseteq K
  <2> HIDE DEF before, adj
  <2>1. m >= a
    BY <1>1, <1>3
  <2> QED  BY <2>1, BeforeIsKnown DEF before
<1>9. pch \subseteq K
  <2>1. CASE Early(i, system, st)
    <3> HIDE DEF adj
    <3>1. ~ (m < a) /\ (m = a => Len(adj) = 0)
      BY <1>1, <1>3
    <3>2. ~ (Len(adj) >= 1)
      BY <2>1, <3>1 DEF Early
    <3> QED  BY <3>2, PchIs DEF adj
  <2>2. CASE ~ Early(i, system, st)
    BY <2>2 DEF Collected, Phase
  <2> QED  BY <2>1, <2>2
<1>10. after \subseteq K \ pch
  <2> DEFINE S == K \ pch
  <2>1. S \in SUBSET DOMAIN system
    BY <1>5
  <2>2. RefNested(i, system, CppInFile(i)) \subseteq S \cup pch
    <3>1. ToSet(adj) \ {None} = RefNested(i, system, CppInFile(i))
      BY AdjIsNested
    <3> HIDE DEF adj, root, a, m
    <3>2. ASSUME NEW e \in ToSet(adj) \ {None} PROVE e \in K
      <4>1. PICK k \in 1 .. Len(adj) : e = adj[k]
        BY <1>1, ToSetSeq
      <4>2. a + k \in 1 .. m
        BY <1>1, <1>3
      <4> QED  BY <1>1, <1>3, <4>1, <4>2
    <3> QED  BY <3>1, <3>2
  <2>3. \A file \in S : RefNested(i, system, file) \subseteq S \cup pch
    BY <1>7
  <2>4. \A S2 \in SUBSET DOMAIN system :
          /\ RefNested(i, system, CppInFile(i)) \subseteq S2 \cup pch
          /\ \A file \in S2 : RefNested(i, system, file) \subseteq S2 \cup pch
          => after \subseteq S2
    BY AfterIs
  <2> QED  BY <2>1, <2>2, <2>3, <2>4
<1>11. K = before \cup after \cup pch /\ after \cap pch = {} /\ before \cap pch = {}
  <2>1. before \cap pch = {}
    BY PchIs
  <2> QED  BY <1>5, <1>8, <1>9, <1>10, <2>1
<1>12. RefDependencies[system][i] = {PchOf(f) : f \in pch} \cup before \cup after
  BY DEF RefDependencies, RefAfter
<1>13. ToSet(h) = {Dep(i, system, f) : f \in K}
  BY DEF Collected, Listed
<1>14. ToSet(h) = {PchOf(f) : f \in pch} \cup before \cup after
  BY <1>11, <1>13 DEF Dep
<1> QED  BY <1>4, <1>6, <1>11, <1>12, <1>14

-----------------------------------------------------------------------------
(* All is found, and nothing else                                          *)

(***************************************************************************)
(* What each invocation has found, whatever the others do.                 *)
(***************************************************************************)
FoundTruth(i) ==
  LET K == Known(files, uniqSeen[i])
  IN /\ pc[i] = "collect" => Collected(i, files, stack[i], K, hFiles[i])
     /\ pc[i] = "done" => ToSet(hFiles[i]) = RefDependencies[files][i]

FoundInv == \A i \in Invocations : FoundTruth(i)

LEMMA FoundOthers ==
  ASSUME FoundInv, NEW i \in Invocations, OnlyOf(i), FoundTruth(i)'
  PROVE  FoundInv'
<1>1. ASSUME NEW j \in Invocations, j # i PROVE FoundTruth(j)'
  <2>1. /\ pc'[j] = pc[j] /\ stack'[j] = stack[j] /\ uniqSeen'[j] = uniqSeen[j]
        /\ hFiles'[j] = hFiles[j] /\ files' = files
    BY <1>1 DEF OnlyOf
  <2>2. FoundTruth(j)
    BY DEF FoundInv
  <2> QED  BY <2>1, <2>2 DEF FoundTruth
<1> QED  BY <1>1 DEF FoundInv

LEMMA MoveCollected ==
  ASSUME Agreeing, NEW system \in FileSystems, NEW i \in Compiled, CppInFile(i) \in DOMAIN system,
         NEW st, StackIsRight(i, system, st), st # <<>>, NEW K, NEW h,
         Collected(i, system, st, K, h), NEW st2, NEW K2, NEW h2,
         Move(i, system, st, K, h, st2, K2, h2)
  PROVE  Collected(i, system, st2, K2, h2)
<1>1. CASE SkipMove(i, system, st, K, h, st2, K2, h2)
  BY <1>1, SkipCollected
<1>2. CASE PchMove(i, system, st, K, h, st2, K2, h2)
  BY <1>2, PchCollected
<1>3. CASE OpenMove(i, system, st, K, h, st2, K2, h2)
  BY <1>3, OpenCollected
<1>4. CASE ReturnMove(i, system, st, K, h, st2, K2, h2)
  BY <1>4, ReturnCollected
<1> QED  BY <1>1, <1>2, <1>3, <1>4 DEF Move

LEMMA AtWork ==
  ASSUME TruthInv, NEW i \in Invocations, pc[i] = "collect"
  PROVE  /\ files \in FileSystems /\ i \in Compiled /\ CppInFile(i) \in DOMAIN files
         /\ StackIsRight(i, files, stack[i]) /\ stack[i] # <<>>
  BY DEF TruthInv, SharedIsTrue, OwnIsTrue

LEMMA CollectFound ==
  ASSUME Agreeing, TruthInv, FoundInv, NEW i \in Invocations, Collects(i)
  PROVE  FoundInv'
<1>1. /\ pc[i] = "collect" /\ pc'[i] = "collect" /\ OnlyOf(i) /\ files' = files
      /\ Move(i, files, stack[i], Known(files, uniqSeen[i]), hFiles[i],
              stack'[i], Known(files, uniqSeen'[i]), hFiles'[i])
  BY DEF Collects, OnlyOf
<1>2. Collected(i, files, stack[i], Known(files, uniqSeen[i]), hFiles[i])
  BY <1>1 DEF FoundInv, FoundTruth
<1>3. Collected(i, files, stack'[i], Known(files, uniqSeen'[i]), hFiles'[i])
  BY <1>1, <1>2, AtWork, MoveCollected
<1>4. FoundTruth(i)'
  BY <1>1, <1>3 DEF FoundTruth
<1> QED  BY <1>1, <1>4, FoundOthers

LEMMA BeginFound ==
  ASSUME Agreeing, TruthInv, FoundInv, NEW i \in Invocations, Begins(i)
  PROVE  FoundInv'
<1>1. /\ OnlyOf(i) /\ pc[i] = "idle" /\ pc'[i] = "collect" /\ i \in Compiled
      /\ files \in FileSystems /\ CppInFile(i) \in DOMAIN files
      /\ files' = files /\ uniqSeen'[i] = <<>> /\ hFiles'[i] = <<>>
  BY DEF Begins, OnlyOf, TruthInv, SharedIsTrue, OwnIsTrue
<1>2. PICK frame : /\ stack'[i] = <<frame>> /\ frame.file = CppInFile(i)
                   /\ frame.todo = CppTodo(i, files)
  BY DEF Begins
<1>3. Known(files, uniqSeen'[i]) = {}
  BY <1>1 DEF Known
<1>4. Collected(i, files, stack'[i], {}, hFiles'[i])
  <2>1. hFiles'[i] \in Seq(Nat) /\ Len(hFiles'[i]) = 0
    BY <1>1, EmptySeq
  <2> QED  BY <1>1, <1>2, <2>1, BeginCollected
<1>5. FoundTruth(i)'
  BY <1>1, <1>3, <1>4 DEF FoundTruth
<1> QED  BY <1>1, <1>5, FoundOthers

LEMMA EndFound ==
  ASSUME Agreeing, TruthInv, FoundInv, NEW i \in Invocations, Ends(i)
  PROVE  FoundInv'
<1>1. /\ OnlyOf(i) /\ pc[i] = "collect" /\ pc'[i] = "done"
      /\ Len(stack[i]) = 1 /\ stack[i][1].todo = <<>>
      /\ files' = files /\ hFiles'[i] = hFiles[i]
  BY DEF Ends, OnlyOf
<1>2. Collected(i, files, stack[i], Known(files, uniqSeen[i]), hFiles[i])
  BY <1>1 DEF FoundInv, FoundTruth
<1>3. ToSet(hFiles[i]) = RefDependencies[files][i]
  BY <1>1, <1>2, AtWork, EndCollected
<1>4. FoundTruth(i)'
  BY <1>1, <1>3 DEF FoundTruth
<1> QED  BY <1>1, <1>4, FoundOthers

LEMMA FoundStep ==
  ASSUME Agreeing, TruthInv, FoundInv, [Next]_vars
  PROVE  FoundInv'
<1>1. CASE Idles
  <2>1. ASSUME NEW i \in Invocations PROVE FoundTruth(i)'
    <3>1. FoundTruth(i)
      BY DEF FoundInv
    <3> QED  BY <1>1, <3>1 DEF Idles, FoundTruth
  <2> QED  BY <2>1 DEF FoundInv
<1>2. CASE \E i \in Invocations : Begins(i) \/ Collects(i) \/ Ends(i)
  BY <1>2, BeginFound, CollectFound, EndFound
<1> QED  BY <1>1, <1>2, EachStep

(***************************************************************************)
(* FindsWhatCxxFinds: an invocation that is done has found exactly what    *)
(* the reference finds with no cache, whatever was in the cache that it    *)
(* shared and whoever put it there in the meantime.                        *)
(***************************************************************************)
THEOREM FindsAll == ASSUME Agreeing PROVE Spec => []FindsWhatCxxFinds
<1>1. Init => FoundInv
  BY DEF Init, FoundInv, FoundTruth
<1>2. TruthInv /\ FoundInv /\ [Next]_vars => FoundInv'
  BY FoundStep
<1>3. FoundInv => FindsWhatCxxFinds
  BY DEF FoundInv, FoundTruth, FindsWhatCxxFinds
<1> QED  BY <1>1, <1>2, <1>3, TruthInvariance, PTL DEF Spec

-----------------------------------------------------------------------------
(* The order in which files are found                                      *)

\* What the v-th file found includes, the .cpp for 0; a precompiled header nothing.
AdjAt(i, system, g, v) ==
  IF v = 0 THEN Root(i, system)
  ELSE IF g[v] \in RefPch(i, system) THEN <<>> ELSE Adj(i, system, g[v])

\* The first n of them, which are known.
FirstOnes(g, n) == {g[k] : k \in 1 .. n} \cup {None}

\* After the first n, the last file that isn't finished leads to the next one.
NextIs(i, system, g, n, file) ==
  \E v \in 0 .. n :
    /\ First(AdjAt(i, system, g, v), FirstOnes(g, n)) = file /\ file # None
    /\ \A w \in (v + 1) .. n : First(AdjAt(i, system, g, w), FirstOnes(g, n)) = None

\* The files found, each once and in an order that only the files decide.
Ordered(i, system, g, h) ==
  /\ g \in Seq(DOMAIN system)
  /\ \A k, l \in 1 .. Len(g) : g[k] = g[l] => k = l
  /\ IsSeq(h) /\ Len(h) = Len(g)
  /\ \A n \in 1 .. Len(g) : h[n] = Dep(i, system, g[n])
  /\ \A n \in 1 .. Len(g) : NextIs(i, system, g, n - 1, g[n])

Covers(g, K) ==
  (\A n \in 1 .. Len(g) : g[n] \in K) /\ \A file \in K : \E n \in 1 .. Len(g) : g[n] = file

\* What is being read has been found in the order of the stack.
StackOrder(st, g) ==
  \A p, q \in 1 .. (Len(st) - 1) :
    p < q => \E k, l \in 1 .. Len(g) : g[k] = st[p].file /\ g[l] = st[q].file /\ l < k

InOrder(i, system, st, K, g, h) ==
  Ordered(i, system, g, h) /\ Covers(g, K) /\ StackOrder(st, g)

LEMMA FirstOnesAre ==
  ASSUME NEW S, NEW g \in Seq(S), NEW K, Covers(g, K)
  PROVE  FirstOnes(g, Len(g)) = K \cup {None}
  BY DEF FirstOnes, Covers

\* One more file at the end changes nothing for those before.
LEMMA NextIsAppended ==
  ASSUME NEW i, NEW system, NEW S, NEW g \in Seq(S), NEW t \in S, NEW g2 \in Seq(S),
         Len(g2) = Len(g) + 1, \A k \in 1 .. Len(g) : g2[k] = g[k],
         NEW n \in 0 .. Len(g), NEW file, NextIs(i, system, g, n, file)
  PROVE  NextIs(i, system, g2, n, file)
<1>1. Len(g) \in Nat /\ n \in Nat /\ n <= Len(g)
  BY LenProperties
<1>2. \A k \in 1 .. n : g2[k] = g[k]
  BY <1>1
<1>3. FirstOnes(g2, n) = FirstOnes(g, n)
  BY <1>2 DEF FirstOnes
<1>4. ASSUME NEW v \in 0 .. n PROVE AdjAt(i, system, g2, v) = AdjAt(i, system, g, v)
  <2>1. v # 0 => g2[v] = g[v]
    BY <1>1, <1>2
  <2> QED  BY <2>1 DEF AdjAt
<1>5. PICK v \in 0 .. n :
        /\ First(AdjAt(i, system, g, v), FirstOnes(g, n)) = file /\ file # None
        /\ \A w \in (v + 1) .. n : First(AdjAt(i, system, g, w), FirstOnes(g, n)) = None
  BY DEF NextIs
<1>6. \A w \in (v + 1) .. n : w \in 0 .. n
  BY <1>1
<1> QED  BY <1>3, <1>4, <1>5, <1>6 DEF NextIs

LEMMA OneMore ==
  ASSUME Agreeing, NEW system \in FileSystems, NEW i, NEW g, NEW h, Ordered(i, system, g, h),
         NEW K, Covers(g, K), NEW t \in DOMAIN system, t \notin K,
         NextIs(i, system, g, Len(g), t)
  PROVE  /\ Ordered(i, system, Append(g, t), Append(h, Dep(i, system, t)))
         /\ Covers(Append(g, t), K \cup {t})
         /\ Len(Append(g, t)) = Len(g) + 1 /\ Len(g) \in Nat
         /\ \A k \in 1 .. Len(g) : Append(g, t)[k] = g[k]
         /\ Append(g, t)[Len(g) + 1] = t
<1> DEFINE g2 == Append(g, t)
           e == Dep(i, system, t)
           h2 == Append(h, e)
           H == ToSet(h) \cup {e}
           N == Len(g)
<1>1. /\ g \in Seq(DOMAIN system) /\ N \in Nat /\ \A k, l \in 1 .. N : g[k] = g[l] => k = l
      /\ h \in Seq(ToSet(h)) /\ ToSet(h) \subseteq H /\ e \in H /\ Len(h) = N
      /\ \A n \in 1 .. N : h[n] = Dep(i, system, g[n])
      /\ \A n \in 1 .. N : NextIs(i, system, g, n - 1, g[n])
  BY LenProperties DEF Ordered, IsSeq
<1>2. /\ g2 \in Seq(DOMAIN system) /\ Len(g2) = N + 1
      /\ \A k \in 1 .. N : g2[k] = g[k]
      /\ g2[N + 1] = t
  BY <1>1, AppendProperties
<1> HIDE DEF e, H, g2, N
<1>3. h \in Seq(H)
  BY <1>1, SeqMonotonic
<1>4. /\ h2 \in Seq(H) /\ Len(h2) = N + 1
      /\ \A k \in 1 .. N : h2[k] = h[k]
      /\ h2[N + 1] = e
  BY <1>1, <1>3, AppendProperties
<1> HIDE DEF h2
<1>5. \A k \in 1 .. (N + 1) : k \in 1 .. N \/ k = N + 1
  BY <1>1
<1>6. \A k \in 1 .. N : g[k] \in K
  BY DEF Covers, N
<1>7. ASSUME NEW k \in 1 .. (N + 1), NEW l \in 1 .. (N + 1), g2[k] = g2[l] PROVE k = l
  <2>1. CASE k \in 1 .. N /\ l \in 1 .. N
    BY <1>1, <1>2, <1>7, <2>1
  <2>2. CASE k \in 1 .. N /\ l = N + 1
    BY <1>2, <1>6, <1>7, <2>2
  <2>3. CASE k = N + 1 /\ l \in 1 .. N
    BY <1>2, <1>6, <1>7, <2>3
  <2>4. CASE k = N + 1 /\ l = N + 1
    BY <2>4
  <2> QED  BY <1>5, <2>1, <2>2, <2>3, <2>4
<1>8. ASSUME NEW n \in 1 .. (N + 1) PROVE h2[n] = Dep(i, system, g2[n])
  BY <1>1, <1>2, <1>4, <1>5 DEF e
<1>9. ASSUME NEW n \in 1 .. (N + 1) PROVE NextIs(i, system, g2, n - 1, g2[n])
  <2>1. NextIs(i, system, g, n - 1, g2[n])
    <3>1. CASE n \in 1 .. N
      BY <1>1, <1>2, <3>1
    <3>2. CASE n = N + 1
      <4>1. n - 1 = N
        BY <1>1, <3>2
      <4> QED  BY <1>2, <3>2, <4>1 DEF N
    <3> QED  BY <1>5, <3>1, <3>2
  <2>2. n - 1 \in 0 .. Len(g)
    BY <1>1 DEF N
  <2>3. Len(g2) = Len(g) + 1 /\ \A k \in 1 .. Len(g) : g2[k] = g[k]
    BY <1>2 DEF N
  <2> QED  BY <1>1, <1>2, <2>1, <2>2, <2>3, NextIsAppended
<1>10. IsSeq(h2)
  BY <1>4, ToSetSeq
<1>11. Ordered(i, system, g2, h2)
  BY <1>2, <1>4, <1>7, <1>8, <1>9, <1>10 DEF Ordered
<1>12. Covers(g2, K \cup {t})
  <2>1. \A n \in 1 .. Len(g2) : g2[n] \in K \cup {t}
    BY <1>2, <1>5, <1>6
  <2>2. ASSUME NEW file \in K \cup {t} PROVE \E n \in 1 .. Len(g2) : g2[n] = file
    <3>1. CASE file = t
      <4>1. N + 1 \in 1 .. Len(g2)
        BY <1>1, <1>2
      <4> QED  BY <1>2, <3>1, <4>1
    <3>2. CASE file \in K
      <4>1. PICK n \in 1 .. N : g[n] = file
        BY <3>2 DEF Covers, N
      <4>2. n \in 1 .. Len(g2)
        BY <1>1, <1>2
      <4> QED  BY <1>2, <4>1, <4>2
    <3> QED  BY <2>2, <3>1, <3>2
  <2> QED  BY <2>1, <2>2 DEF Covers
<1> QED  BY <1>1, <1>2, <1>11, <1>12 DEF g2, h2, e, N

-----------------------------------------------------------------------------
(* Where the next file comes from                                          *)

\* A file that is read to its end leads to nothing new.
LEMMA FinishedLeadsNowhere ==
  ASSUME Agreeing, NEW system \in FileSystems, NEW i \in Compiled, CppInFile(i) \in DOMAIN system,
         NEW st, NEW K, NEW g, NEW h, Collected(i, system, st, K, h),
         InOrder(i, system, st, K, g, h),
         NEW w \in 1 .. Len(g), \A p \in 1 .. (Len(st) - 1) : st[p].file # g[w]
  PROVE  First(AdjAt(i, system, g, w), FirstOnes(g, Len(g))) = None
<1> DEFINE W == FirstOnes(g, Len(g))
           A == Adj(i, system, g[w])
<1>1. W = K \cup {None} /\ g[w] \in K /\ g[w] \in DOMAIN system /\ w # 0
  <2>1. g \in Seq(DOMAIN system) /\ Covers(g, K)
    BY DEF InOrder, Ordered
  <2>2. g[w] \in K /\ g[w] \in DOMAIN system
    BY <2>1, ElementOfSeq DEF Covers
  <2>3. Len(g) \in Nat
    BY <2>1, LenProperties
  <2>4. w # 0
    BY <2>3
  <2> QED  BY <2>1, <2>2, <2>4, FirstOnesAre
<1>2. CASE g[w] \in RefPch(i, system)
  <2> DEFINE nothing == AdjAt(i, system, g, w)
  <2>1. nothing \in Seq(Nat) /\ Len(nothing) = 0
    <3>1. nothing = <<>>
      BY <1>1, <1>2 DEF AdjAt
    <3> QED  BY <3>1, EmptySeq
  <2> HIDE DEF nothing
  <2>2. \A k \in 1 .. Len(nothing) : nothing[k] \in W
    BY <2>1
  <2> QED  BY <2>1, <2>2, FirstNone DEF nothing
<1>3. CASE g[w] \notin RefPch(i, system)
  <2>1. ToSet(A) \subseteq K \cup {None}
    BY <1>1, <1>3 DEF Collected, AllRead
  <2>2. A \in Seq(Answers(system))
    BY <1>1, AdjIsNested
  <2>3. AdjAt(i, system, g, w) = A
    BY <1>1, <1>3 DEF AdjAt
  <2> HIDE DEF A, W
  <2>4. \A k \in 1 .. Len(A) : A[k] \in W
    BY <1>1, <2>1, <2>2, ToSetSeq
  <2> QED  BY <2>2, <2>3, <2>4, FirstNone DEF W
<1> QED  BY <1>2, <1>3

\* The next file is found by the .cpp, when it is all that is being read.
LEMMA NextFromCpp ==
  ASSUME Agreeing, NEW system \in FileSystems, NEW i \in Compiled, CppInFile(i) \in DOMAIN system,
         NEW st, StackIsRight(i, system, st), Len(st) = 1, st[1].todo # <<>>, NEW K, NEW g, NEW h,
         Collected(i, system, st, K, h), InOrder(i, system, st, K, g, h),
         NEW t, t = Wanted(i, system, st), t \in DOMAIN system, t \notin K
  PROVE  NextIs(i, system, g, Len(g), t)
<1> DEFINE W == FirstOnes(g, Len(g))
           root == Root(i, system)
           m == Passed(i, system, st[1])
<1>1. W = K \cup {None} /\ Len(g) \in Nat
  BY FirstOnesAre, LenProperties DEF InOrder, Ordered
<1>2. FrameIsRight(i, system, st[1]) /\ Bottom(i, system, st[1], K)
  BY DEF StackIsRight, Collected, Outer
<1>3. m \in Nat /\ m + 1 \in 1 .. Len(root) /\ t = root[m + 1]
  BY <1>2, BottomAt DEF Wanted
<1>4. \A k \in 1 .. m : root[k] \in K \cup {None}
  BY <1>2 DEF Bottom
<1>5. root \in Seq(Answers(system)) /\ t # None
  BY RootIs, PchFacts DEF Agreeing
<1> HIDE DEF W, root, m
<1>6. IsFirst(root, W, m + 1)
  <2>1. (m + 1) - 1 = m
    BY <1>3
  <2> QED  BY <1>1, <1>3, <1>4, <1>5, <2>1 DEF IsFirst
<1>7. First(root, W) = t
  BY <1>3, <1>5, <1>6, FirstIs
<1>8. AdjAt(i, system, g, 0) = root
  BY DEF AdjAt, root
<1>9. ASSUME NEW w \in (0 + 1) .. Len(g) PROVE First(AdjAt(i, system, g, w), W) = None
  <2>1. \A p \in 1 .. (Len(st) - 1) : FALSE
    <3>1. Len(st) - 1 = 0
      OBVIOUS
    <3>2. \A p \in 1 .. 0 : FALSE
      OBVIOUS
    <3> QED  BY <3>1, <3>2
  <2>2. w \in 1 .. Len(g)
    BY <1>1
  <2> QED  BY <2>1, <2>2, FinishedLeadsNowhere DEF W
<1>10. 0 \in 0 .. Len(g)
  BY <1>1
<1> QED  BY <1>5, <1>7, <1>8, <1>9, <1>10 DEF NextIs, W

\* The next file is found by the innermost one.
LEMMA NextFromInnermost ==
  ASSUME Agreeing, NEW system \in FileSystems, NEW i \in Compiled, CppInFile(i) \in DOMAIN system,
         NEW st, StackIsRight(i, system, st), Len(st) \in Nat, Len(st) > 1, st[1].todo # <<>>,
         NEW K, NEW g, NEW h, Collected(i, system, st, K, h), InOrder(i, system, st, K, g, h),
         NEW t, t = Wanted(i, system, st), t \in DOMAIN system, t \notin K
  PROVE  NextIs(i, system, g, Len(g), t)
<1> DEFINE W == FirstOnes(g, Len(g))
           f == st[1].file
           N == Len(g)
<1>1. /\ W = K \cup {None} /\ N \in Nat /\ t # None /\ Covers(g, K) /\ StackOrder(st, g)
      /\ \A k, l \in 1 .. N : g[k] = g[l] => k = l
  BY FirstOnesAre, LenProperties, PchFacts DEF InOrder, Ordered, Agreeing
<1>2. FrameIsRight(i, system, st[1]) /\ Nested(i, system, st[1], K)
  <2>1. 1 \in 1 .. Len(st) /\ 1 \in 1 .. (Len(st) - 1)
    OBVIOUS
  <2> QED  BY <2>1 DEF StackIsRight, Collected, Inner
<1>3. First(Adj(i, system, f), W) = t /\ f \in K \ RefPch(i, system)
  <2>1. t = Target(i, system, f, Head(st[1].todo)) /\ t \notin K \cup {None}
    BY <1>1 DEF Wanted
  <2> DEFINE frame == st[1]
             u == Target(i, system, frame.file, Head(frame.todo))
  <2>2. FrameIsRight(i, system, frame) /\ Nested(i, system, frame, K) /\ frame.todo # <<>>
    BY <1>2
  <2> HIDE DEF W, f, frame
  <2>3. u \notin K \cup {None} => First(Adj(i, system, frame.file), K \cup {None}) = u
    BY <2>2, NestedWants
  <2>4. First(Adj(i, system, st[1].file), K \cup {None}) = t
    BY <2>1, <2>3 DEF f, frame
  <2> QED  BY <1>1, <1>2, <2>4 DEF Nested, f, W
<1>4. PICK v \in 1 .. N : g[v] = f
  BY <1>1, <1>3 DEF Covers
<1>5. First(AdjAt(i, system, g, v), W) = t
  <2>1. v # 0
    BY <1>1
  <2> QED  BY <1>3, <1>4, <2>1 DEF AdjAt
<1>6. ASSUME NEW w \in (v + 1) .. N PROVE First(AdjAt(i, system, g, w), W) = None
  <2> HIDE DEF W, f
  <2>1. w \in 1 .. N /\ v < w
    BY <1>1, <1>4
  <2>2. ASSUME NEW p \in 1 .. (Len(st) - 1), st[p].file = g[w] PROVE FALSE
    <3>1. CASE p = 1
      BY <1>1, <1>4, <2>1, <2>2, <3>1 DEF f
    <3>2. CASE p # 1
      <4>1. 1 \in 1 .. (Len(st) - 1) /\ 1 < p
        <5>1. \A L \in Nat : \A q \in 1 .. (L - 1) :
                q # 1 => 1 \in 1 .. (L - 1) /\ 1 < q
          OBVIOUS
        <5> QED  BY <3>2, <5>1
      <4>2. PICK k, l \in 1 .. N : g[k] = st[1].file /\ g[l] = st[p].file /\ l < k
        BY <1>1, <4>1 DEF StackOrder
      <4>3. k = v /\ l = w
        BY <1>1, <1>4, <2>1, <2>2, <4>2 DEF f
      <4> QED  BY <2>1, <4>2, <4>3
    <3> QED  BY <3>1, <3>2
  <2> QED  BY <2>1, <2>2, FinishedLeadsNowhere DEF W, N
<1>7. v \in 0 .. N
  BY <1>1, <1>4
<1> QED  BY <1>1, <1>5, <1>6, <1>7 DEF NextIs

-----------------------------------------------------------------------------
LEMMA StackOrderSame ==
  ASSUME NEW st, NEW g, StackOrder(st, g), NEW st2, SameFiles(st, st2), Len(st) \in Nat
  PROVE  StackOrder(st2, g)
<1>1. Len(st2) = Len(st) /\ \A p \in 1 .. (Len(st) - 1) : st2[p].file = st[p].file
  BY DEF SameFiles
<1> SUFFICES ASSUME NEW p \in 1 .. (Len(st2) - 1), NEW q \in 1 .. (Len(st2) - 1), p < q
             PROVE  \E k, l \in 1 .. Len(g) :
                      g[k] = st2[p].file /\ g[l] = st2[q].file /\ l < k
  BY DEF StackOrder
<1>2. p \in 1 .. (Len(st) - 1) /\ q \in 1 .. (Len(st) - 1)
  BY <1>1
<1>3. \E k, l \in 1 .. Len(g) : g[k] = st[p].file /\ g[l] = st[q].file /\ l < k
  BY <1>2 DEF StackOrder
<1> QED  BY <1>1, <1>2, <1>3

LEMMA StackOrderTail ==
  ASSUME NEW st, NEW g, StackOrder(st, g), Len(st) \in Nat, NEW rest, Len(rest) = Len(st) - 1,
         \A p \in 1 .. (Len(st) - 1) : rest[p] = st[p + 1]
  PROVE  StackOrder(rest, g)
<1> SUFFICES ASSUME NEW p \in 1 .. (Len(rest) - 1), NEW q \in 1 .. (Len(rest) - 1), p < q
             PROVE  \E k, l \in 1 .. Len(g) :
                      g[k] = rest[p].file /\ g[l] = rest[q].file /\ l < k
  BY DEF StackOrder
<1>1. /\ p + 1 \in 1 .. (Len(st) - 1) /\ q + 1 \in 1 .. (Len(st) - 1) /\ p + 1 < q + 1
      /\ p \in 1 .. (Len(st) - 1) /\ q \in 1 .. (Len(st) - 1)
  OBVIOUS
<1>2. rest[p] = st[p + 1] /\ rest[q] = st[q + 1]
  BY <1>1
<1>3. \E k, l \in 1 .. Len(g) : g[k] = st[p + 1].file /\ g[l] = st[q + 1].file /\ l < k
  BY <1>1 DEF StackOrder
<1> QED  BY <1>2, <1>3

\* The file that is begun has been found last.
LEMMA StackOrderPush ==
  ASSUME NEW S, NEW g \in Seq(S), NEW st, StackOrder(st, g), Len(st) \in Nat,
         \A p \in 1 .. (Len(st) - 1) : \E k \in 1 .. Len(g) : g[k] = st[p].file,
         NEW g2, Len(g2) = Len(g) + 1, \A k \in 1 .. Len(g) : g2[k] = g[k],
         NEW st2, Len(st2) = Len(st) + 1, \A p \in 1 .. Len(st) : st2[p + 1] = st[p],
         st2[1].file = g2[Len(g) + 1]
  PROVE  StackOrder(st2, g2)
<1>1. Len(g) \in Nat
  BY LenProperties
<1> SUFFICES ASSUME NEW p \in 1 .. (Len(st2) - 1), NEW q \in 1 .. (Len(st2) - 1), p < q
             PROVE  \E k, l \in 1 .. Len(g2) :
                      g2[k] = st2[p].file /\ g2[l] = st2[q].file /\ l < k
  BY DEF StackOrder
<1>2. \A k \in 1 .. Len(g) : k \in 1 .. Len(g2) /\ g2[k] = g[k] /\ k < Len(g) + 1
  BY <1>1
<1>3. /\ q - 1 \in 1 .. Len(st) /\ q - 1 \in 1 .. (Len(st) - 1) /\ (q - 1) + 1 = q
  OBVIOUS
<1>4. st2[q] = st[q - 1]
  BY <1>3
<1>5. CASE p = 1
  <2>1. PICK l \in 1 .. Len(g) : g[l] = st[q - 1].file
    BY <1>3
  <2>2. Len(g) + 1 \in 1 .. Len(g2)
    BY <1>1
  <2> QED  BY <1>2, <1>4, <1>5, <2>1, <2>2
<1>6. CASE p # 1
  <2>1. /\ p - 1 \in 1 .. Len(st) /\ p - 1 \in 1 .. (Len(st) - 1) /\ (p - 1) + 1 = p
        /\ p - 1 < q - 1
    BY <1>6
  <2>2. st2[p] = st[p - 1]
    BY <2>1
  <2>3. PICK k, l \in 1 .. Len(g) :
          g[k] = st[p - 1].file /\ g[l] = st[q - 1].file /\ l < k
    BY <1>3, <2>1 DEF StackOrder
  <2> QED  BY <1>2, <1>4, <2>2, <2>3
<1> QED  BY <1>5, <1>6

-----------------------------------------------------------------------------
(* What a move does to the order                                           *)

\* A file that is found goes to the end of the order.
LEMMA FileIsNext ==
  ASSUME Agreeing, NEW system \in FileSystems, NEW i \in Compiled, CppInFile(i) \in DOMAIN system,
         NEW st, StackIsRight(i, system, st), Len(st) \in Nat, Len(st) >= 1, st[1].todo # <<>>,
         NEW K, NEW g, NEW h, Collected(i, system, st, K, h), InOrder(i, system, st, K, g, h),
         NEW t, t = Wanted(i, system, st), t \in DOMAIN system, t \notin K
  PROVE  NextIs(i, system, g, Len(g), t)
<1>1. Len(st) = 1 \/ Len(st) > 1
  <2>1. \A L \in Nat : L >= 1 => L = 1 \/ L > 1
    OBVIOUS
  <2> QED  BY <2>1
<1>2. CASE Len(st) = 1
  BY <1>2, NextFromCpp
<1>3. CASE Len(st) > 1
  BY <1>3, NextFromInnermost
<1> QED  BY <1>1, <1>2, <1>3

LEMMA SkipOrder ==
  ASSUME Agreeing, NEW system \in FileSystems, NEW i \in Compiled, CppInFile(i) \in DOMAIN system,
         NEW st, StackIsRight(i, system, st), st # <<>>, NEW K, NEW h,
         Collected(i, system, st, K, h), NEW st2, NEW K2, NEW h2,
         SkipMove(i, system, st, K, h, st2, K2, h2), NEW g, InOrder(i, system, st, K, g, h)
  PROVE  InOrder(i, system, st2, K2, g, h2)
<1>1. /\ st[1].todo # <<>> /\ Wanted(i, system, st) \in K \cup {None} /\ K2 = K /\ h2 = h
      /\ Inner(i, system, st, K) /\ Outer(i, system, st, K) /\ PopsTop(st, st2)
  BY DEF SkipMove, Collected, PopsTop
<1>2. SameFiles(st, st2)
  BY <1>1, ReadingPop
<1>3. Len(st) \in Nat
  BY TailStack
<1>4. StackOrder(st2, g)
  BY <1>2, <1>3, StackOrderSame DEF InOrder
<1> QED  BY <1>1, <1>4 DEF InOrder

LEMMA ReturnOrder ==
  ASSUME Agreeing, NEW system \in FileSystems, NEW i \in Compiled, CppInFile(i) \in DOMAIN system,
         NEW st, StackIsRight(i, system, st), st # <<>>, NEW K, NEW h,
         Collected(i, system, st, K, h), NEW st2, NEW K2, NEW h2,
         ReturnMove(i, system, st, K, h, st2, K2, h2), NEW g, InOrder(i, system, st, K, g, h)
  PROVE  InOrder(i, system, st2, K2, g, h2)
<1> DEFINE rest == Tail(st)
<1>1. /\ Len(st) > 1 /\ K2 = K /\ h2 = h
      /\ Inner(i, system, st, K) /\ Outer(i, system, st, K)
  BY DEF ReturnMove, Collected
<1>2. SameFiles(rest, st2)
  BY ReturnCollected
<1>3. /\ Len(rest) = Len(st) - 1 /\ Len(st) \in Nat
      /\ \A p \in 1 .. (Len(st) - 1) : rest[p] = st[p + 1]
  BY <1>1, ReadingTail
<1> HIDE DEF rest
<1>4. StackOrder(rest, g)
  BY <1>3, StackOrderTail DEF InOrder
<1>5. Len(rest) \in Nat
  BY <1>1, <1>3
<1>6. StackOrder(st2, g)
  BY <1>2, <1>4, <1>5, StackOrderSame
<1> QED  BY <1>1, <1>6 DEF InOrder

LEMMA PchOrder ==
  ASSUME Agreeing, NEW system \in FileSystems, NEW i \in Compiled, CppInFile(i) \in DOMAIN system,
         NEW st, StackIsRight(i, system, st), st # <<>>, NEW K, NEW h,
         Collected(i, system, st, K, h), NEW st2, NEW K2, NEW h2,
         PchMove(i, system, st, K, h, st2, K2, h2), NEW g, InOrder(i, system, st, K, g, h)
  PROVE  \E g2 : InOrder(i, system, st2, K2, g2, h2)
<1> DEFINE t == Wanted(i, system, st)
           g2 == Append(g, t)
<1>1. /\ st[1].todo # <<>> /\ t \notin K /\ t \in OwnPchs
      /\ K2 = K \cup {t} /\ h2 = Append(h, PchOf(t))
  BY DEF PchMove
<1>2. Len(st) = 1 /\ t \in RefPch(i, system)
  BY PchCollected
<1>3. t \in DOMAIN system
  BY <1>1, PchFacts DEF Agreeing
<1>4. NextIs(i, system, g, Len(g), t)
  BY <1>1, <1>2, <1>3, FileIsNext
<1>5. Dep(i, system, t) = PchOf(t)
  BY <1>2 DEF Dep
<1> HIDE DEF t
<1>6. Ordered(i, system, g2, Append(h, Dep(i, system, t))) /\ Covers(g2, K \cup {t})
  BY <1>1, <1>3, <1>4, OneMore DEF InOrder
<1>7. StackOrder(st2, g2)
  <2>1. Len(st2) = Len(st)
    <3>1. PICK d : st2 = <<Popped(st[1], d)>> \o Tail(st)
      BY DEF PchMove
    <3> QED  BY <3>1, PopStackIs
  <2>2. Len(st2) - 1 = 0
    BY <1>2, <2>1
  <2>3. \A p \in 1 .. 0 : FALSE
    OBVIOUS
  <2> QED  BY <2>2, <2>3 DEF StackOrder
<1>8. InOrder(i, system, st2, K2, g2, h2)
  BY <1>1, <1>5, <1>6, <1>7 DEF InOrder
<1> QED  BY <1>8

LEMMA OpenOrder ==
  ASSUME Agreeing, NEW system \in FileSystems, NEW i \in Compiled, CppInFile(i) \in DOMAIN system,
         NEW st, StackIsRight(i, system, st), st # <<>>, NEW K, NEW h,
         Collected(i, system, st, K, h), NEW st2, NEW K2, NEW h2,
         OpenMove(i, system, st, K, h, st2, K2, h2), NEW g, InOrder(i, system, st, K, g, h)
  PROVE  \E g2 : InOrder(i, system, st2, K2, g2, h2)
<1> DEFINE t == Wanted(i, system, st)
           g2 == Append(g, t)
<1>1. /\ st[1].todo # <<>> /\ t \notin K /\ t \in DOMAIN system
      /\ K2 = K \cup {t} /\ h2 = Append(h, t)
  BY DEF OpenMove
<1>2. PICK frame : st2 = <<frame>> \o st /\ Opened(i, system, frame, t)
  BY DEF OpenMove
<1>3. t \notin RefPch(i, system)
  BY OpenCollected
<1>4. Len(st) \in Nat /\ Len(st) >= 1
  BY TailStack
<1>5. NextIs(i, system, g, Len(g), t)
  BY <1>1, <1>4, FileIsNext
<1>6. Dep(i, system, t) = t
  BY <1>3 DEF Dep
<1>7. /\ Len(st2) = Len(st) + 1 /\ st2[1] = frame /\ \A p \in 1 .. Len(st) : st2[p + 1] = st[p]
  BY <1>2, ConsStack
<1>8. st2[1].file = t
  BY <1>2, <1>7 DEF Opened
<1> HIDE DEF t
<1>9. /\ Ordered(i, system, g2, Append(h, Dep(i, system, t))) /\ Covers(g2, K \cup {t})
      /\ Len(g2) = Len(g) + 1 /\ \A k \in 1 .. Len(g) : g2[k] = g[k]
      /\ g2[Len(g) + 1] = t
  BY <1>1, <1>5, OneMore DEF InOrder
<1>10. \A p \in 1 .. (Len(st) - 1) : \E k \in 1 .. Len(g) : g[k] = st[p].file
  BY DEF Collected, Inner, Nested, InOrder, Covers
<1>11. g \in Seq(DOMAIN system) /\ StackOrder(st, g)
  BY DEF InOrder, Ordered
<1> HIDE DEF g2
<1>12. StackOrder(st2, g2)
  BY <1>4, <1>7, <1>8, <1>9, <1>10, <1>11, StackOrderPush
<1>13. InOrder(i, system, st2, K2, g2, h2)
  BY <1>1, <1>6, <1>9, <1>12 DEF InOrder
<1> QED  BY <1>13

LEMMA MoveOrder ==
  ASSUME Agreeing, NEW system \in FileSystems, NEW i \in Compiled, CppInFile(i) \in DOMAIN system,
         NEW st, StackIsRight(i, system, st), st # <<>>, NEW K, NEW h,
         Collected(i, system, st, K, h), NEW st2, NEW K2, NEW h2,
         Move(i, system, st, K, h, st2, K2, h2), NEW g, InOrder(i, system, st, K, g, h)
  PROVE  \E g2 : InOrder(i, system, st2, K2, g2, h2)
<1>1. CASE SkipMove(i, system, st, K, h, st2, K2, h2)
  BY <1>1, SkipOrder
<1>2. CASE PchMove(i, system, st, K, h, st2, K2, h2)
  BY <1>2, PchOrder
<1>3. CASE OpenMove(i, system, st, K, h, st2, K2, h2)
  BY <1>3, OpenOrder
<1>4. CASE ReturnMove(i, system, st, K, h, st2, K2, h2)
  BY <1>4, ReturnOrder
<1> QED  BY <1>1, <1>2, <1>3, <1>4 DEF Move

-----------------------------------------------------------------------------
LEMMA BeginOrder ==
  ASSUME NEW system, NEW i, NEW st, NEW frame, st = <<frame>>,
         NEW g \in Seq(DOMAIN system), Len(g) = 0, NEW h \in Seq(Nat), Len(h) = 0
  PROVE  InOrder(i, system, st, {}, g, h)
<1>1. \A k \in 1 .. 0 : FALSE
  OBVIOUS
<1>2. IsSeq(h)
  BY ToSetSeq
<1>3. Ordered(i, system, g, h)
  BY <1>1, <1>2 DEF Ordered
<1>4. Covers(g, {})
  BY <1>1 DEF Covers
<1>5. StackOrder(st, g)
  <2>1. Len(st) - 1 = 0
    OBVIOUS
  <2> QED  BY <1>1, <2>1 DEF StackOrder
<1> QED  BY <1>3, <1>4, <1>5 DEF InOrder

\* Nothing leads anywhere new.
Complete(i, system, g) ==
  \A v \in 0 .. Len(g) : First(AdjAt(i, system, g, v), FirstOnes(g, Len(g))) = None

LEMMA EndOrder ==
  ASSUME Agreeing, NEW system \in FileSystems, NEW i \in Compiled, CppInFile(i) \in DOMAIN system,
         NEW st, StackIsRight(i, system, st), Len(st) = 1, st[1].todo = <<>>, NEW K, NEW h,
         Collected(i, system, st, K, h), NEW g, InOrder(i, system, st, K, g, h)
  PROVE  Complete(i, system, g)
<1> DEFINE W == FirstOnes(g, Len(g))
           root == Root(i, system)
<1>1. W = K \cup {None} /\ Len(g) \in Nat
  BY FirstOnesAre, LenProperties DEF InOrder, Ordered
<1>2. ToSet(root) \subseteq K \cup {None} /\ root \in Seq(Answers(system))
  BY EndCollected, RootIs
<1> HIDE DEF W
<1>3. ASSUME NEW v \in 0 .. Len(g) PROVE First(AdjAt(i, system, g, v), W) = None
  <2>1. CASE v = 0
    <3>1. AdjAt(i, system, g, v) = root
      BY <2>1 DEF AdjAt
    <3> HIDE DEF root
    <3>2. \A k \in 1 .. Len(root) : root[k] \in W
      BY <1>1, <1>2, ToSetSeq
    <3> QED  BY <1>2, <3>1, <3>2, FirstNone
  <2>2. CASE v # 0
    <3>1. v \in 1 .. Len(g)
      BY <1>1, <2>2
    <3>2. \A p \in 1 .. (Len(st) - 1) : FALSE
      <4>1. Len(st) - 1 = 0
        OBVIOUS
      <4>2. \A p \in 1 .. 0 : FALSE
        OBVIOUS
      <4> QED  BY <4>1, <4>2
    <3> QED  BY <3>1, <3>2, FinishedLeadsNowhere DEF W
  <2> QED  BY <2>1, <2>2
<1> QED  BY <1>3 DEF Complete, W

-----------------------------------------------------------------------------
(* The order, whatever the others do                                       *)

(***************************************************************************)
(* The order of what each invocation has found.                            *)
(***************************************************************************)
OrderTruth(i) ==
  LET K == Known(files, uniqSeen[i])
  IN /\ pc[i] = "collect" => \E g : InOrder(i, files, stack[i], K, g, hFiles[i])
     /\ pc[i] = "done" => \E g : Ordered(i, files, g, hFiles[i]) /\ Complete(i, files, g)

OrderInv == \A i \in Invocations : OrderTruth(i)

LEMMA OrderOthers ==
  ASSUME OrderInv, NEW i \in Invocations, OnlyOf(i), OrderTruth(i)'
  PROVE  OrderInv'
<1>1. ASSUME NEW j \in Invocations, j # i PROVE OrderTruth(j)'
  <2>1. /\ pc'[j] = pc[j] /\ stack'[j] = stack[j] /\ uniqSeen'[j] = uniqSeen[j]
        /\ hFiles'[j] = hFiles[j] /\ files' = files
    BY <1>1 DEF OnlyOf
  <2>2. OrderTruth(j)
    BY DEF OrderInv
  <2> QED  BY <2>1, <2>2 DEF OrderTruth
<1> QED  BY <1>1 DEF OrderInv

LEMMA CollectOrder ==
  ASSUME Agreeing, TruthInv, FoundInv, OrderInv, NEW i \in Invocations, Collects(i)
  PROVE  OrderInv'
<1>1. /\ pc[i] = "collect" /\ pc'[i] = "collect" /\ OnlyOf(i) /\ files' = files
      /\ Move(i, files, stack[i], Known(files, uniqSeen[i]), hFiles[i],
              stack'[i], Known(files, uniqSeen'[i]), hFiles'[i])
  BY DEF Collects, OnlyOf
<1>2. Collected(i, files, stack[i], Known(files, uniqSeen[i]), hFiles[i])
  BY <1>1 DEF FoundInv, FoundTruth
<1>3. PICK g : InOrder(i, files, stack[i], Known(files, uniqSeen[i]), g, hFiles[i])
  BY <1>1 DEF OrderInv, OrderTruth
<1>4. \E g2 : InOrder(i, files, stack'[i], Known(files, uniqSeen'[i]), g2, hFiles'[i])
  BY <1>1, <1>2, <1>3, AtWork, MoveOrder
<1>5. OrderTruth(i)'
  BY <1>1, <1>4 DEF OrderTruth
<1> QED  BY <1>1, <1>5, OrderOthers

LEMMA BeginOrdered ==
  ASSUME Agreeing, TruthInv, OrderInv, NEW i \in Invocations, Begins(i)
  PROVE  OrderInv'
<1>1. /\ OnlyOf(i) /\ pc'[i] = "collect" /\ files' = files
      /\ uniqSeen'[i] = <<>> /\ hFiles'[i] = <<>>
  BY DEF Begins, OnlyOf, TruthInv, OwnIsTrue
<1>2. PICK frame : stack'[i] = <<frame>>
  BY DEF Begins
<1>3. Known(files, uniqSeen'[i]) = {}
  BY <1>1 DEF Known
<1>4. \E g : InOrder(i, files, stack'[i], {}, g, hFiles'[i])
  <2>1. hFiles'[i] \in Seq(Nat) /\ Len(hFiles'[i]) = 0
    BY <1>1, EmptySeq
  <2>2. \E g : g \in Seq(DOMAIN files) /\ Len(g) = 0
    BY EmptySeq
  <2>3. PICK g : g \in Seq(DOMAIN files) /\ Len(g) = 0
    BY <2>2
  <2>4. InOrder(i, files, stack'[i], {}, g, hFiles'[i])
    BY <1>2, <2>1, <2>3, BeginOrder
  <2> QED  BY <2>4
<1>5. OrderTruth(i)'
  BY <1>1, <1>3, <1>4 DEF OrderTruth
<1> QED  BY <1>1, <1>5, OrderOthers

LEMMA EndOrdered ==
  ASSUME Agreeing, TruthInv, FoundInv, OrderInv, NEW i \in Invocations, Ends(i)
  PROVE  OrderInv'
<1>1. /\ OnlyOf(i) /\ pc[i] = "collect" /\ pc'[i] = "done"
      /\ Len(stack[i]) = 1 /\ stack[i][1].todo = <<>>
      /\ files' = files /\ hFiles'[i] = hFiles[i]
  BY DEF Ends, OnlyOf
<1>2. Collected(i, files, stack[i], Known(files, uniqSeen[i]), hFiles[i])
  BY <1>1 DEF FoundInv, FoundTruth
<1>3. PICK g : InOrder(i, files, stack[i], Known(files, uniqSeen[i]), g, hFiles[i])
  BY <1>1 DEF OrderInv, OrderTruth
<1>4. Complete(i, files, g)
  BY <1>1, <1>2, <1>3, AtWork, EndOrder
<1>5. OrderTruth(i)'
  BY <1>1, <1>3, <1>4 DEF OrderTruth, InOrder
<1> QED  BY <1>1, <1>5, OrderOthers

LEMMA OrderStep ==
  ASSUME Agreeing, TruthInv, FoundInv, OrderInv, [Next]_vars
  PROVE  OrderInv'
<1>1. CASE Idles
  <2>1. ASSUME NEW i \in Invocations PROVE OrderTruth(i)'
    <3>1. OrderTruth(i)
      BY DEF OrderInv
    <3> QED  BY <1>1, <3>1 DEF Idles, OrderTruth
  <2> QED  BY <2>1 DEF OrderInv
<1>2. CASE \E i \in Invocations : Begins(i) \/ Collects(i) \/ Ends(i)
  BY <1>2, BeginOrdered, CollectOrder, EndOrdered
<1> QED  BY <1>1, <1>2, EachStep

-----------------------------------------------------------------------------
(* There is only one order                                                 *)

\* Two orders that begin alike go on alike.
LEMMA NextIsSame ==
  ASSUME NEW i, NEW system, NEW g, NEW g2, NEW n \in Nat, \A k \in 1 .. n : g2[k] = g[k],
         NEW file, NextIs(i, system, g, n, file)
  PROVE  NextIs(i, system, g2, n, file)
<1>1. FirstOnes(g2, n) = FirstOnes(g, n)
  BY DEF FirstOnes
<1>2. ASSUME NEW v \in 0 .. n PROVE AdjAt(i, system, g2, v) = AdjAt(i, system, g, v)
  <2>1. v # 0 => g2[v] = g[v]
    OBVIOUS
  <2> QED  BY <2>1 DEF AdjAt
<1>3. PICK v \in 0 .. n :
        /\ First(AdjAt(i, system, g, v), FirstOnes(g, n)) = file /\ file # None
        /\ \A w \in (v + 1) .. n : First(AdjAt(i, system, g, w), FirstOnes(g, n)) = None
  BY DEF NextIs
<1>4. \A w \in (v + 1) .. n : w \in 0 .. n
  OBVIOUS
<1> QED  BY <1>1, <1>2, <1>3, <1>4 DEF NextIs

LEMMA NextIsOne ==
  ASSUME NEW i, NEW system, NEW g, NEW n \in Nat, NEW file, NextIs(i, system, g, n, file),
         NEW file2, NextIs(i, system, g, n, file2)
  PROVE  file = file2
<1> DEFINE F(v) == First(AdjAt(i, system, g, v), FirstOnes(g, n))
<1>1. PICK v \in 0 .. n : F(v) = file /\ file # None /\ \A w \in (v + 1) .. n : F(w) = None
  BY DEF NextIs
<1>2. PICK v2 \in 0 .. n : F(v2) = file2 /\ file2 # None /\ \A w \in (v2 + 1) .. n : F(w) = None
  BY DEF NextIs
<1> HIDE DEF F
<1>3. CASE v < v2
  <2>1. v2 \in (v + 1) .. n
    BY <1>3
  <2> QED  BY <1>1, <1>2, <2>1
<1>4. CASE v2 < v
  <2>1. v \in (v2 + 1) .. n
    BY <1>4
  <2> QED  BY <1>1, <1>2, <2>1
<1>5. CASE v = v2
  BY <1>1, <1>2, <1>5
<1> QED  BY <1>3, <1>4, <1>5

\* Nothing comes after all of them.
LEMMA NothingNext ==
  ASSUME NEW i, NEW system, NEW g, Complete(i, system, g), NEW file
  PROVE  ~ NextIs(i, system, g, Len(g), file)
  BY DEF Complete, NextIs

\* Whoever begins with the same and reads all finds all in the same order.
LEMMA OneOrder ==
  ASSUME NEW i, NEW system, NEW g, NEW h, Ordered(i, system, g, h), Complete(i, system, g),
         NEW g2, NEW h2, Ordered(i, system, g2, h2), Complete(i, system, g2)
  PROVE  h = h2
<1> DEFINE N == Len(g)
           N2 == Len(g2)
           T == {n \in 1 .. N : n > N2 \/ g2[n] # g[n]}
<1>1. /\ N \in Nat /\ N2 \in Nat
      /\ \A n \in 1 .. N : NextIs(i, system, g, n - 1, g[n])
      /\ \A n \in 1 .. N2 : NextIs(i, system, g2, n - 1, g2[n])
  BY LenProperties DEF Ordered
<1>2. \A file : ~ NextIs(i, system, g, N, file) /\ ~ NextIs(i, system, g2, N2, file)
  BY NothingNext
<1> HIDE DEF N, N2
<1>3. T = {}
  <2> SUFFICES ASSUME T # {} PROVE FALSE
    OBVIOUS
  <2>1. PICK m \in T : \A k \in T : m <= k
    <3>1. T \in SUBSET Nat
      OBVIOUS
    <3> HIDE DEF T
    <3> QED  BY <3>1, LeastOf
  <2>2. m \in 1 .. N /\ m - 1 \in Nat /\ m \in Nat
    OBVIOUS
  <2>3. ASSUME NEW k \in 1 .. (m - 1) PROVE k <= N2 /\ g2[k] = g[k]
    <3>1. k \notin T
      BY <2>1, <2>2
    <3>2. k \in 1 .. N
      BY <1>1, <2>2
    <3> QED  BY <1>1, <3>1, <3>2
  <2>4. NextIs(i, system, g2, m - 1, g[m])
    BY <1>1, <2>2, <2>3, NextIsSame
  <2>5. CASE m <= N2
    <3>1. m \in 1 .. N2 /\ g2[m] # g[m]
      BY <1>1, <2>2, <2>5
    <3>2. NextIs(i, system, g2, m - 1, g2[m])
      BY <1>1, <3>1
    <3> QED  BY <2>2, <2>4, <3>1, <3>2, NextIsOne
  <2>6. CASE m > N2
    <3>1. m - 1 = N2
      <4>1. m - 1 >= N2
        BY <1>1, <2>2, <2>6
      <4>2. m - 1 = 0 \/ m - 1 \in 1 .. (m - 1)
        BY <2>2
      <4>3. m - 1 <= N2
        BY <1>1, <2>3, <4>2
      <4> QED  BY <1>1, <2>2, <4>1, <4>3
    <3> QED  BY <1>2, <2>4, <3>1
  <2> QED  BY <1>1, <2>2, <2>5, <2>6
<1>4. \A n \in 1 .. N : n <= N2 /\ g2[n] = g[n]
  BY <1>1, <1>3
<1> HIDE DEF T
<1>5. N = N2
  <2>1. N <= N2
    <3>1. N = 0 \/ N \in 1 .. N
      BY <1>1
    <3> QED  BY <1>1, <1>4, <3>1
  <2>2. ASSUME N < N2 PROVE FALSE
    <3>1. N + 1 \in 1 .. N2 /\ (N + 1) - 1 = N
      BY <1>1, <2>2
    <3>2. NextIs(i, system, g2, N, g2[N + 1])
      BY <1>1, <3>1
    <3>3. \A n \in 1 .. N : g[n] = g2[n]
      BY <1>4
    <3>4. NextIs(i, system, g, N, g2[N + 1])
      BY <1>1, <3>2, <3>3, NextIsSame
    <3> QED  BY <1>2, <3>4
  <2> QED  BY <1>1, <2>1, <2>2
<1>6. /\ h \in Seq(ToSet(h)) /\ h2 \in Seq(ToSet(h2)) /\ Len(h) = N /\ Len(h2) = N2
      /\ \A n \in 1 .. N : h[n] = Dep(i, system, g[n])
      /\ \A n \in 1 .. N2 : h2[n] = Dep(i, system, g2[n])
  BY DEF Ordered, IsSeq, N, N2
<1>7. \A n \in 1 .. N : h[n] = h2[n]
  BY <1>4, <1>5, <1>6
<1>8. h \in Seq(ToSet(h) \cup ToSet(h2)) /\ h2 \in Seq(ToSet(h) \cup ToSet(h2))
  BY <1>6, SeqMonotonic
<1> QED  BY <1>5, <1>6, <1>7, <1>8, SeqEqual

-----------------------------------------------------------------------------
\* What the .cpp is decides on the order, not who compiles it.
LEMMA SameRoots ==
  ASSUME Agreeing, SourcesAgree, NEW system \in FileSystems, NEW i \in Compiled, NEW j \in Compiled,
         CppInFile(i) \in DOMAIN system, CppInFile(j) \in DOMAIN system,
         system[CppInFile(i)] = system[CppInFile(j)]
  PROVE  /\ Root(i, system) = Root(j, system)
         /\ RefPch(i, system) = RefPch(j, system)
         /\ \A file : Adj(i, system, file) = Adj(j, system, file)
<1> DEFINE ci == CppInFile(i)
           cj == CppInFile(j)
<1>1. /\ Cwd[i] = Cwd[j] /\ invocation[i].filesI = invocation[j].filesI
      /\ SearchesForPch(i) = SearchesForPch(j)
  BY DEF SourcesAgree
<1>2. OptionsAgree /\ RefExplicit[i] = RefExplicit[j]
  BY <1>1 DEF Agreeing, OptionsAgree
<1>3. ci[1] = cj[1] /\ system[ci] = system[cj]
  BY <1>1 DEF CppInFile
<1> HIDE DEF ci, cj
<1>4. \A inc, existing : RefFile(i, ci, inc, existing) = RefFile(j, cj, inc, existing)
  <2>1. \A inc : RefDirs(i, ci, inc) = RefDirs(i, cj, inc)
    BY <1>3 DEF RefDirs
  <2>2. \A inc, existing : RefFile(i, ci, inc, existing) = RefFile(i, cj, inc, existing)
    BY <2>1 DEF RefFile
  <2>3. \A inc, existing : RefFile(i, cj, inc, existing) = RefFile(j, cj, inc, existing)
    BY <1>2, TargetsAgree
  <2> QED  BY <2>2, <2>3
<1>5. CppTodo(i, system) = CppTodo(j, system)
  <2>1. Explicit(i) = Explicit(j)
    BY <1>1 DEF Explicit
  <2>2. Marked(i, system) = Marked(j, system)
    BY <1>1 DEF Marked
  <2> QED  BY <2>1, <2>2 DEF CppTodo
<1>6. Root(i, system) = Root(j, system)
  <2>1. \A inc : Target(i, system, ci, inc) = Target(j, system, cj, inc)
    BY <1>4 DEF Target
  <2>2. \A todo : Targets(i, system, ci, todo) = Targets(j, system, cj, todo)
    BY <2>1 DEF Targets
  <2> QED  BY <1>5, <2>2 DEF Root, ci, cj
<1>7. RefBefore(i, system) = RefBefore(j, system)
  <2>1. \A file : RefNested(i, system, file) = RefNested(j, system, file)
    BY <1>2, TargetsAgree
  <2>2. \A roots, without :
          RefClosure(i, system, roots, without) = RefClosure(j, system, roots, without)
    BY <2>1 DEF RefClosure
  <2> QED  BY <1>2, <1>4, <2>2 DEF RefBefore, ci, cj
<1>8. RefPch(i, system) = RefPch(j, system)
  <2>1. RefIncludes[system[ci]] = RefIncludes[system[cj]]
    BY <1>3
  <2> QED  BY <1>1, <1>4, <1>7, <2>1 DEF RefPch, ci, cj
<1>9. \A file : Adj(i, system, file) = Adj(j, system, file)
  BY <1>2, TargetsAgree
<1> QED  BY <1>6, <1>8, <1>9

LEMMA SameOrder ==
  ASSUME Agreeing, SourcesAgree, NEW system \in FileSystems, NEW i \in Compiled, NEW j \in Compiled,
         CppInFile(i) \in DOMAIN system, CppInFile(j) \in DOMAIN system,
         system[CppInFile(i)] = system[CppInFile(j)],
         NEW g, NEW h, Ordered(i, system, g, h), Complete(i, system, g)
  PROVE  Ordered(j, system, g, h) /\ Complete(j, system, g)
<1>1. /\ Root(i, system) = Root(j, system)
      /\ RefPch(i, system) = RefPch(j, system)
      /\ \A file : Adj(i, system, file) = Adj(j, system, file)
  BY SameRoots
<1>2. \A v : AdjAt(i, system, g, v) = AdjAt(j, system, g, v)
  BY <1>1 DEF AdjAt
<1>3. \A n, file : NextIs(i, system, g, n, file) => NextIs(j, system, g, n, file)
  BY <1>2 DEF NextIs
<1>4. \A file : Dep(i, system, file) = Dep(j, system, file)
  BY <1>1 DEF Dep
<1>5. Complete(j, system, g)
  BY <1>2 DEF Complete
<1>6. Ordered(j, system, g, h)
  BY <1>3, <1>4 DEF Ordered
<1> QED  BY <1>5, <1>6

-----------------------------------------------------------------------------
(* The order is stable                                                     *)

LEMMA CountOnce ==
  ASSUME NEW S, NEW h \in Seq(S), \A k, l \in 1 .. Len(h) : h[k] = h[l] => k = l
  PROVE  Cardinality(ToSet(h)) = Len(h)
<1> DEFINE n == Len(h)
           T == ToSet(h)
<1>1. n \in Nat /\ h \in Seq(T) /\ \A e \in T : \E k \in 1 .. n : e = h[k]
  BY ToSetSeq, LenProperties
<1> HIDE DEF n, T
<1>2. h \in [1 .. n -> T] /\ DOMAIN h = 1 .. n
  BY <1>1, LenProperties DEF n
<1>3. h \in Surjection(1 .. n, T)
  <2>1. \A e \in T : \E k \in 1 .. n : h[k] = e
    BY <1>1
  <2> QED  BY <1>2, <2>1 DEF Surjection
<1>4. h \in Injection(1 .. n, T)
  BY <1>2 DEF Injection, IsInjective, n
<1>5. IsFiniteSet(1 .. n) /\ Cardinality(1 .. n) = n
  <2>1. /\ IsFiniteSet(1 .. n)
        /\ Cardinality(1 .. n) = IF 1 > n THEN 0 ELSE n - 1 + 1
    BY <1>1, FS_Interval
  <2>2. (IF 1 > n THEN 0 ELSE n - 1 + 1) = n
    BY <1>1
  <2> QED  BY <2>1, <2>2
<1>6. Cardinality(T) = Cardinality(1 .. n)
  BY <1>3, <1>4, <1>5, FS_Surjection
<1> QED  BY <1>5, <1>6 DEF n, T

\* A precompiled header isn't on the disk under its own name.
LEMMA OrderedOnce ==
  ASSUME Agreeing, NEW system \in FileSystems, NEW i \in Compiled, CppInFile(i) \in DOMAIN system,
         NEW g, NEW h, Ordered(i, system, g, h)
  PROVE  Cardinality(ToSet(h)) = Len(h)
<1> DEFINE pch == RefPch(i, system)
<1>1. /\ g \in Seq(DOMAIN system) /\ \A k, l \in 1 .. Len(g) : g[k] = g[l] => k = l
      /\ h \in Seq(ToSet(h)) /\ Len(h) = Len(g)
      /\ \A n \in 1 .. Len(g) : h[n] = Dep(i, system, g[n])
  BY DEF Ordered, IsSeq
<1>2. \A f \in pch : PchOf(f) \notin DOMAIN system
  BY PchIs, PchFacts DEF Agreeing
<1>3. \A f, f2 : PchOf(f) = PchOf(f2) => f = f2
  BY DEF PchOf
<1>4. ASSUME NEW f \in DOMAIN system, NEW f2 \in DOMAIN system,
             Dep(i, system, f) = Dep(i, system, f2)
      PROVE  f = f2
  <2>1. /\ Dep(i, system, f) = IF f \in pch THEN PchOf(f) ELSE f
        /\ Dep(i, system, f2) = IF f2 \in pch THEN PchOf(f2) ELSE f2
    BY DEF Dep
  <2> HIDE DEF pch
  <2> QED  BY <1>2, <1>3, <1>4, <2>1
<1>5. \A n \in 1 .. Len(g) : g[n] \in DOMAIN system
  BY <1>1, ElementOfSeq
<1>6. ASSUME NEW k \in 1 .. Len(h), NEW l \in 1 .. Len(h), h[k] = h[l] PROVE k = l
  <2>1. k \in 1 .. Len(g) /\ l \in 1 .. Len(g)
    BY <1>1
  <2>2. Dep(i, system, g[k]) = Dep(i, system, g[l])
    BY <1>1, <1>6, <2>1
  <2>3. g[k] = g[l]
    BY <1>4, <1>5, <2>1, <2>2
  <2> QED  BY <1>1, <2>1, <2>3
<1> QED  BY <1>1, <1>6, CountOnce

LEMMA OrderImplies ==
  ASSUME Agreeing, SourcesAgree, TruthInv, OrderInv
  PROVE  OrderIsStable
<1>1. files \in FileSystems
  BY DEF TruthInv, SharedIsTrue
<1>2. ASSUME NEW i \in Invocations PROVE Cardinality(ToSet(hFiles[i])) = Len(hFiles[i])
  <2>1. /\ pc[i] = "idle" => hFiles[i] = <<>>
        /\ pc[i] # "idle" => i \in Compiled /\ CppInFile(i) \in DOMAIN files
        /\ pc[i] \in {"idle", "collect", "done"}
    BY DEF TruthInv, OwnIsTrue
  <2>2. CASE pc[i] = "idle"
    <3>1. hFiles[i] \in Seq(Nat) /\ Len(hFiles[i]) = 0
      BY <2>1, <2>2, EmptySeq
    <3>2. \A k, l \in 1 .. 0 : FALSE
      OBVIOUS
    <3>3. \A k, l \in 1 .. Len(hFiles[i]) : hFiles[i][k] = hFiles[i][l] => k = l
      BY <3>1, <3>2
    <3> QED  BY <3>1, <3>3, CountOnce
  <2>3. CASE pc[i] # "idle"
    <3>1. \E g : Ordered(i, files, g, hFiles[i])
      BY <2>1, <2>3 DEF OrderInv, OrderTruth, InOrder
    <3> QED  BY <1>1, <2>1, <2>3, <3>1, OrderedOnce
  <2> QED  BY <2>2, <2>3
<1>3. ASSUME NEW i \in Invocations, NEW j \in Invocations, pc[i] = "done", pc[j] = "done",
             files[CppInFile(i)] = files[CppInFile(j)]
      PROVE  hFiles[i] = hFiles[j]
  <2>1. /\ i \in Compiled /\ CppInFile(i) \in DOMAIN files
        /\ j \in Compiled /\ CppInFile(j) \in DOMAIN files
    BY <1>3 DEF TruthInv, OwnIsTrue
  <2>2. PICK g : Ordered(i, files, g, hFiles[i]) /\ Complete(i, files, g)
    BY <1>3 DEF OrderInv, OrderTruth
  <2>3. PICK g2 : Ordered(j, files, g2, hFiles[j]) /\ Complete(j, files, g2)
    BY <1>3 DEF OrderInv, OrderTruth
  <2>4. Ordered(j, files, g, hFiles[i]) /\ Complete(j, files, g)
    BY <1>1, <1>3, <2>1, <2>2, SameOrder
  <2> QED  BY <2>3, <2>4, OneOrder
<1> QED  BY <1>2, <1>3 DEF OrderIsStable

(***************************************************************************)
(* OrderIsStable: each dependency is listed once, and invocations of the   *)
(* same source list the same ones in the same order, whether they were     *)
(* read or came from the cache, and however the invocations interleave.    *)
(***************************************************************************)
THEOREM OrderHolds == ASSUME Agreeing, SourcesAgree PROVE Spec => []OrderIsStable
<1>1. Init => FoundInv /\ OrderInv
  BY DEF Init, FoundInv, FoundTruth, OrderInv, OrderTruth
<1>2. TruthInv /\ FoundInv /\ [Next]_vars => FoundInv'
  BY FoundStep
<1>3. TruthInv /\ FoundInv /\ OrderInv /\ [Next]_vars => OrderInv'
  BY OrderStep
<1>4. TruthInv /\ OrderInv => OrderIsStable
  BY OrderImplies
<1> QED  BY <1>1, <1>2, <1>3, <1>4, TruthInvariance, PTL DEF Spec

-----------------------------------------------------------------------------
(* The headers that -MMD keeps                                             *)

\* The headers kept of the first k, from those of the first k - 1.
KeptOf(cxx, h, kept, k) ==
  IF k = 0 THEN <<>>
  ELSE IF IsSystemHFile(cxx, h[k]) THEN kept[k - 1] ELSE Append(kept[k - 1], h[k])

LEMMA KeptExists ==
  ASSUME NEW cxx, NEW h, NEW n \in Nat
  PROVE  \E kept : kept = [k \in 0 .. n |-> KeptOf(cxx, h, kept, k)]
<1> DEFINE Has(m) == \E kept : kept = [k \in 0 .. m |-> KeptOf(cxx, h, kept, k)]
           T == {m \in Nat : ~ Has(m)}
<1>1. Has(0)
  <2>1. [k \in 0 .. 0 |-> <<>>]
          = [k \in 0 .. 0 |-> KeptOf(cxx, h, [l \in 0 .. 0 |-> <<>>], k)]
    BY DEF KeptOf
  <2> QED  BY <2>1
<1>2. ASSUME NEW m \in Nat, Has(m) PROVE Has(m + 1)
  <2>1. PICK kept : kept = [k \in 0 .. m |-> KeptOf(cxx, h, kept, k)]
    BY <1>2
  <2> DEFINE more == [k \in 0 .. (m + 1) |->
                        IF k = m + 1 THEN KeptOf(cxx, h, kept, m + 1) ELSE kept[k]]
  <2>2. ASSUME NEW k \in 0 .. (m + 1) PROVE KeptOf(cxx, h, more, k) = more[k]
    <3>1. CASE k = 0
      <4>1. 0 \in 0 .. m /\ 0 # m + 1
        OBVIOUS
      <4>2. more[0] = kept[0] /\ kept[0] = <<>>
        BY <2>1, <4>1 DEF KeptOf
      <4> QED  BY <3>1, <4>2 DEF KeptOf
    <3>2. CASE k # 0
      <4>1. k - 1 \in 0 .. m /\ k - 1 # m + 1 /\ k - 1 \in 0 .. (m + 1)
        BY <3>2
      <4>2. more[k - 1] = kept[k - 1]
        BY <4>1
      <4>3. KeptOf(cxx, h, more, k) = KeptOf(cxx, h, kept, k)
        BY <4>2 DEF KeptOf
      <4>4. k = m + 1 \/ (k \in 0 .. m /\ k # m + 1)
        OBVIOUS
      <4>5. k \in 0 .. m => kept[k] = KeptOf(cxx, h, kept, k)
        BY <2>1
      <4> QED  BY <4>3, <4>4, <4>5
    <3> QED  BY <3>1, <3>2
  <2>3. more = [k \in 0 .. (m + 1) |-> KeptOf(cxx, h, more, k)]
    BY <2>2
  <2> HIDE DEF more
  <2> QED  BY <2>3
<1> HIDE DEF Has
<1>3. T = {}
  <2> SUFFICES ASSUME T # {} PROVE FALSE
    OBVIOUS
  <2>1. PICK m \in T : \A k \in T : m <= k
    BY LeastOf
  <2>2. m # 0
    BY <1>1
  <2>3. m - 1 \in Nat /\ m - 1 \notin T /\ (m - 1) + 1 = m
    BY <2>1, <2>2
  <2>4. Has(m - 1)
    BY <2>3
  <2> QED  BY <1>2, <2>1, <2>3, <2>4
<1>4. Has(n)
  BY <1>3
<1> QED  BY <1>4 DEF Has

LEMMA AppendToSet ==
  ASSUME NEW S, NEW s \in Seq(S), NEW e \in S
  PROVE  ToSet(Append(s, e)) = ToSet(s) \cup {e}
<1> DEFINE s2 == Append(s, e)
           N == Len(s)
<1>1. /\ N \in Nat /\ s2 \in Seq(S) /\ Len(s2) = N + 1
      /\ \A k \in 1 .. N : s2[k] = s[k]
      /\ s2[N + 1] = e
  BY AppendProperties, LenProperties
<1>2. /\ \A k \in 1 .. Len(s2) : s2[k] \in ToSet(s2)
      /\ \A x \in ToSet(s2) : \E k \in 1 .. Len(s2) : x = s2[k]
      /\ \A k \in 1 .. N : s[k] \in ToSet(s)
      /\ \A x \in ToSet(s) : \E k \in 1 .. N : x = s[k]
  <2> HIDE DEF s2
  <2> QED  BY <1>1, ToSetSeq
<1> HIDE DEF s2, N
<1>3. ASSUME NEW x \in ToSet(s2) PROVE x \in ToSet(s) \cup {e}
  <2>1. PICK k \in 1 .. Len(s2) : x = s2[k]
    BY <1>2
  <2>2. k \in 1 .. N \/ k = N + 1
    BY <1>1
  <2> QED  BY <1>1, <1>2, <2>1, <2>2
<1>4. ASSUME NEW x \in ToSet(s) PROVE x \in ToSet(s2)
  <2>1. \A k \in 1 .. N : k \in 1 .. Len(s2)
    BY <1>1
  <2> QED  BY <1>1, <1>2, <2>1
<1>5. e \in ToSet(s2)
  <2>1. N + 1 \in 1 .. Len(s2)
    BY <1>1
  <2> QED  BY <1>1, <1>2, <2>1
<1> QED  BY <1>3, <1>4, <1>5 DEF s2

\* All headers that are none of the system are kept.
LEMMA FilterIs ==
  ASSUME NEW cxx, NEW S, NEW h \in Seq(S)
  PROVE  /\ filterOutSystemHFiles(cxx, h) \in Seq(S)
         /\ ToSet(filterOutSystemHFiles(cxx, h))
              = {file \in ToSet(h) : ~ IsSystemHFile(cxx, file)}
<1> DEFINE kept[k \in 0 .. Len(h)] ==
             IF k = 0 THEN <<>>
             ELSE IF IsSystemHFile(cxx, h[k]) THEN kept[k - 1] ELSE Append(kept[k - 1], h[k])
<1>1. filterOutSystemHFiles(cxx, h) = kept[Len(h)] /\ Len(h) \in Nat
  BY LenProperties DEF filterOutSystemHFiles
<1>2. kept = [k \in 0 .. Len(h) |-> KeptOf(cxx, h, kept, k)]
  <2>1. \E f : f = [k \in 0 .. Len(h) |-> KeptOf(cxx, h, f, k)]
    BY <1>1, KeptExists
  <2> QED  BY <2>1 DEF KeptOf
<1> HIDE DEF kept
<1> DEFINE first(k) == {file \in {h[l] : l \in 1 .. k} : ~ IsSystemHFile(cxx, file)}
           Right(k) == kept[k] \in Seq(S) /\ ToSet(kept[k]) = first(k)
           T == {k \in 0 .. Len(h) : ~ Right(k)}
           N == Len(h)
<1>3. Right(0)
  <2>1. 0 \in 0 .. N
    BY <1>1
  <2>2. kept[0] = <<>>
    BY <1>2, <2>1 DEF KeptOf
  <2>3. kept[0] \in Seq(S) /\ Len(kept[0]) = 0
    BY <2>2, EmptySeq
  <2>4. \A x \in ToSet(kept[0]) : \E k \in 1 .. Len(kept[0]) : x = kept[0][k]
    BY <2>3, ToSetSeq
  <2>5. \A k \in 1 .. 0 : FALSE
    OBVIOUS
  <2> QED  BY <2>3, <2>4, <2>5
<1>4. ASSUME NEW k \in 1 .. N, Right(k - 1) PROVE Right(k)
  <2>1. k \in 0 .. N /\ k # 0 /\ k - 1 \in Int
    BY <1>1
  <2>2. kept[k] = IF IsSystemHFile(cxx, h[k]) THEN kept[k - 1] ELSE Append(kept[k - 1], h[k])
    BY <1>2, <2>1 DEF KeptOf
  <2>3. h[k] \in S
    BY ElementOfSeq
  <2>4. \A l : l \in 1 .. k <=> l \in 1 .. (k - 1) \/ l = k
    BY <1>1
  <2>5. {h[l] : l \in 1 .. k} = {h[l] : l \in 1 .. (k - 1)} \cup {h[k]}
    BY <2>4
  <2>6. first(k) = IF IsSystemHFile(cxx, h[k]) THEN first(k - 1) ELSE first(k - 1) \cup {h[k]}
    <3> DEFINE A == {h[l] : l \in 1 .. (k - 1)}
               B == {h[l] : l \in 1 .. k}
    <3>1. B = A \cup {h[k]}
      BY <2>5
    <3> HIDE DEF A, B
    <3>2. {file \in B : ~ IsSystemHFile(cxx, file)}
            = IF IsSystemHFile(cxx, h[k]) THEN {file \in A : ~ IsSystemHFile(cxx, file)}
              ELSE {file \in A : ~ IsSystemHFile(cxx, file)} \cup {h[k]}
      BY <3>1
    <3> QED  BY <3>2 DEF A, B
  <2>7. CASE IsSystemHFile(cxx, h[k])
    BY <1>4, <2>2, <2>6, <2>7
  <2>8. CASE ~ IsSystemHFile(cxx, h[k])
    <3> HIDE DEF first
    <3>1. kept[k - 1] \in Seq(S) /\ ToSet(kept[k - 1]) = first(k - 1)
      BY <1>4
    <3>2. kept[k] = Append(kept[k - 1], h[k]) /\ first(k) = first(k - 1) \cup {h[k]}
      BY <2>2, <2>6, <2>8
    <3>3. kept[k] \in Seq(S)
      BY <2>3, <3>1, <3>2, AppendProperties
    <3>4. ToSet(kept[k]) = first(k)
      BY <2>3, <3>1, <3>2, AppendToSet
    <3> QED  BY <3>3, <3>4
  <2> QED  BY <2>7, <2>8
<1> HIDE DEF Right
<1>5. T = {}
  <2> SUFFICES ASSUME T # {} PROVE FALSE
    OBVIOUS
  <2>1. PICK m \in T : \A k \in T : m <= k
    <3>1. T \in SUBSET Nat
      BY <1>1
    <3> HIDE DEF T
    <3> QED  BY <3>1, LeastOf
  <2>2. m \in 0 .. N /\ m # 0 /\ ~ Right(m)
    BY <1>3
  <2>3. m \in 1 .. N /\ m - 1 \in 0 .. N /\ m - 1 < m
    BY <1>1, <2>2
  <2>4. Right(m - 1)
    <3>1. m - 1 \notin T
      BY <1>1, <2>1, <2>3
    <3> QED  BY <2>3, <3>1
  <2> QED  BY <1>4, <2>2, <2>3, <2>4
<1>6. Right(N)
  <2>1. N \in 0 .. N
    BY <1>1
  <2> QED  BY <1>5, <2>1
<1>7. kept[N] \in Seq(S) /\ ToSet(kept[N]) = first(N)
  BY <1>6 DEF Right
<1>8. {h[l] : l \in 1 .. N} = ToSet(h)
  <2>1. /\ \A l \in 1 .. N : h[l] \in ToSet(h)
        /\ \A e \in ToSet(h) : \E l \in 1 .. N : e = h[l]
    BY ToSetSeq
  <2> QED  BY <2>1
<1>9. first(N) = {file \in ToSet(h) : ~ IsSystemHFile(cxx, file)}
  BY <1>8
<1> HIDE DEF first
<1> QED  BY <1>1, <1>7, <1>9

-----------------------------------------------------------------------------
(* What a .d file consists of                                              *)

\* A .d file tells of what was found, and that doesn't change any more.
DepTruth(i) ==
  depFile[i] # None =>
    /\ pc[i] = "done"
    /\ depFile[i]
         = GeneratedDepFile(invocation[i], Cwd[i], CppInFile(i), DefaultDirs, hFiles[i])

DepInv == DOMAIN depFile = Invocations /\ \A i \in Invocations : DepTruth(i)

LEMMA SavesOrNot ==
  ASSUME [Next]_vars
  PROVE  depFile' = depFile \/ \E i \in Invocations : GenerateAndSaveDepFile(i)
<1>1. CASE UNCHANGED vars
  BY <1>1 DEF vars
<1>2. CASE AllDone
  BY <1>2 DEF AllDone, vars
<1>3. ASSUME NEW i \in Invocations, Step(i)
      PROVE  depFile' = depFile \/ GenerateAndSaveDepFile(i)
  <2>1. CASE CollectDependentIncludes(i)
    BY <2>1 DEF CollectDependentIncludes
  <2>2. CASE onHashInclude(i)
    BY <2>2 DEF onHashInclude, FindNothing, FindSeen, FindPch, FindCached, ReadFile, FindNew
  <2>3. CASE Return(i)
    BY <2>3 DEF Return
  <2>4. CASE EndCollecting(i)
    BY <2>4 DEF EndCollecting
  <2> QED  BY <1>3, <2>1, <2>2, <2>3, <2>4 DEF Step
<1> QED  BY <1>1, <1>2, <1>3 DEF Next

LEMMA DoneStays ==
  ASSUME Agreeing, TruthInv, [Next]_vars, NEW j \in Invocations, pc[j] = "done"
  PROVE  pc'[j] = "done" /\ hFiles'[j] = hFiles[j]
<1>1. CASE Idles
  BY <1>1 DEF Idles
<1>2. ASSUME NEW i \in Invocations, Begins(i) \/ Collects(i) \/ Ends(i)
      PROVE  pc'[j] = "done" /\ hFiles'[j] = hFiles[j]
  <2>1. OnlyOf(i) /\ pc[i] # "done"
    BY <1>2 DEF Begins, Collects, Ends
  <2> QED  BY <2>1 DEF OnlyOf
<1> QED  BY <1>1, <1>2, EachStep

LEMMA DepStep ==
  ASSUME Agreeing, TruthInv, DepInv, [Next]_vars
  PROVE  DepInv'
<1>1. CASE depFile' = depFile
  <2>1. ASSUME NEW j \in Invocations PROVE DepTruth(j)'
    <3>1. DepTruth(j)
      BY DEF DepInv
    <3>2. pc[j] = "done" => pc'[j] = "done" /\ hFiles'[j] = hFiles[j]
      BY DoneStays
    <3> QED  BY <1>1, <3>1, <3>2 DEF DepTruth
  <2> QED  BY <1>1, <2>1 DEF DepInv
<1>2. ASSUME NEW i \in Invocations, GenerateAndSaveDepFile(i) PROVE DepInv'
  <2> DEFINE d == GeneratedDepFile(invocation[i], Cwd[i], CppInFile(i), DefaultDirs, hFiles[i])
  <2>1. pc[i] = "done" /\ pc' = pc /\ hFiles' = hFiles /\ depFile' = [depFile EXCEPT ![i] = d]
    BY <1>2 DEF GenerateAndSaveDepFile
  <2>2. DOMAIN depFile = Invocations
    BY DEF DepInv
  <2> HIDE DEF d
  <2>3. /\ DOMAIN depFile' = Invocations /\ depFile'[i] = d
        /\ \A j \in Invocations \ {i} : depFile'[j] = depFile[j]
    BY <2>1, <2>2
  <2>4. ASSUME NEW j \in Invocations PROVE DepTruth(j)'
    <3>1. CASE j = i
      BY <2>1, <2>3, <3>1 DEF DepTruth, d
    <3>2. CASE j # i
      BY <2>1, <2>3, <3>2 DEF DepTruth, DepInv
    <3> QED  BY <3>1, <3>2
  <2> QED  BY <2>3, <2>4 DEF DepInv
<1> QED  BY <1>1, <1>2, SavesOrNot

-----------------------------------------------------------------------------
LEMMA ConsIs ==
  ASSUME NEW S, NEW e \in S, NEW seq \in Seq(S), NEW s2, s2 = <<e>> \o seq
  PROVE  s2[1] = e /\ Tail(s2) = seq /\ ToSet(s2) = {e} \cup ToSet(seq)
<1> DEFINE N == Len(seq)
<1>1. /\ s2 \in Seq(S) /\ Len(s2) = N + 1 /\ N \in Nat /\ s2[1] = e
      /\ \A k \in 1 .. N : s2[k + 1] = seq[k]
  BY ConsSeq
<1>2. Tail(s2) = seq
  <2>1. s2 # <<>>
    <3>1. Len(s2) # 0
      BY <1>1
    <3> QED  BY <1>1, <3>1, EmptySeq
  <2>2. /\ Tail(s2) \in Seq(S) /\ Len(Tail(s2)) = Len(s2) - 1
        /\ \A k \in 1 .. Len(Tail(s2)) : Tail(s2)[k] = s2[k + 1]
    BY <1>1, <2>1, HeadTailProperties
  <2> DEFINE rest == Tail(s2)
  <2> HIDE DEF rest, N
  <2>3. rest \in Seq(S) /\ Len(rest) = N /\ \A k \in 1 .. Len(rest) : rest[k] = seq[k]
    BY <1>1, <2>2 DEF rest
  <2>4. rest = seq
    BY <2>3, SeqEqual DEF N
  <2> QED  BY <2>4 DEF rest
<1>3. /\ \A k \in 1 .. Len(s2) : s2[k] \in ToSet(s2)
      /\ \A x \in ToSet(s2) : \E k \in 1 .. Len(s2) : x = s2[k]
      /\ \A k \in 1 .. N : seq[k] \in ToSet(seq)
      /\ \A x \in ToSet(seq) : \E k \in 1 .. N : x = seq[k]
  BY <1>1, ToSetSeq
<1> HIDE DEF N
<1>4. ASSUME NEW x \in ToSet(s2) PROVE x \in {e} \cup ToSet(seq)
  <2>1. PICK k \in 1 .. Len(s2) : x = s2[k]
    BY <1>3
  <2>2. k = 1 \/ (k - 1 \in 1 .. N /\ (k - 1) + 1 = k)
    BY <1>1
  <2>3. CASE k = 1
    BY <1>1, <2>1, <2>3
  <2>4. CASE k - 1 \in 1 .. N /\ (k - 1) + 1 = k
    <3>1. s2[(k - 1) + 1] = seq[k - 1]
      BY <1>1, <2>4
    <3> QED  BY <1>3, <2>1, <2>4, <3>1
  <2> QED  BY <2>2, <2>3, <2>4
<1>5. ASSUME NEW x \in {e} \cup ToSet(seq) PROVE x \in ToSet(s2)
  <2>1. CASE x = e
    <3>1. 1 \in 1 .. Len(s2)
      BY <1>1
    <3> QED  BY <1>1, <1>3, <2>1, <3>1
  <2>2. CASE x \in ToSet(seq)
    <3>1. PICK k \in 1 .. N : x = seq[k]
      BY <1>3, <2>2
    <3>2. k + 1 \in 1 .. Len(s2)
      BY <1>1
    <3> QED  BY <1>1, <1>3, <3>1, <3>2
  <2> QED  BY <1>5, <2>1, <2>2
<1> QED  BY <1>1, <1>2, <1>4, <1>5

\* With -MP a rule for each dependency but the .cpp.
Phony(kept) == [k \in DOMAIN kept |-> Rule(<<kept[k]>>, <<>>)]

\* What a .d file consists of.
LEMMA DepFileIs ==
  ASSUME NEW inv, NEW cwd, NEW cpp, NEW cxx, NEW h, IsSeq(h)
  PROVE  \E kept :
           LET d == GeneratedDepFile(inv, cwd, cpp, cxx, h)
           IN /\ ToSet(kept) = IF "-MMD" \in inv.depsFlags.flags
                               THEN {file \in ToSet(h) : ~ IsSystemHFile(cxx, file)} ELSE ToSet(h)
              /\ ToSet(d.rules[1].depList) = {cpp} \cup ToSet(kept)
              /\ Tail(d.rules) = IF "-MP" \in inv.depsFlags.flags THEN Phony(kept) ELSE <<>>
<1> DEFINE d == GeneratedDepFile(inv, cwd, cpp, cxx, h)
           kept == IF "-MMD" \in inv.depsFlags.flags THEN filterOutSystemHFiles(cxx, h) ELSE h
           S == ToSet(h) \cup {cpp}
           depList == <<cpp>> \o kept
           first == Rule(TargetName(inv), depList)
           more == IF "-MP" \in inv.depsFlags.flags THEN Phony(kept) ELSE <<>>
           rules == <<first>> \o more
<1>1. h \in Seq(ToSet(h)) /\ ToSet(h) \subseteq S /\ cpp \in S
  BY DEF IsSeq
<1>2. h \in Seq(S)
  <2> HIDE DEF S
  <2> QED  BY <1>1, SeqMonotonic
<1>3. /\ kept \in Seq(S)
      /\ ToSet(kept) = IF "-MMD" \in inv.depsFlags.flags
                       THEN {file \in ToSet(h) : ~ IsSystemHFile(cxx, file)} ELSE ToSet(h)
  <2> HIDE DEF S
  <2> QED  BY <1>2, FilterIs
<1> HIDE DEF kept, S
<1>4. ToSet(depList) = {cpp} \cup ToSet(kept) /\ Tail(depList) = kept
  <2>1. depList = <<cpp>> \o kept
    OBVIOUS
  <2>2. kept \in Seq(S) /\ cpp \in S
    BY <1>1, <1>3
  <2> HIDE DEF depList
  <2> QED  BY <2>1, <2>2, ConsIs
<1>5. more \in Seq({Rule(<<x>>, <<>>) : x \in S})
  <2> DEFINE R == {Rule(<<x>>, <<>>) : x \in S}
  <2>1. CASE "-MP" \in inv.depsFlags.flags
    <3>1. /\ DOMAIN kept = 1 .. Len(kept) /\ Len(kept) \in Nat
          /\ \A k \in 1 .. Len(kept) : kept[k] \in S
      BY <1>3, LenProperties, ElementOfSeq
    <3>2. Phony(kept) \in [1 .. Len(kept) -> R]
      BY <3>1 DEF Phony
    <3>3. Phony(kept) \in Seq(R)
      <4> HIDE DEF R
      <4> QED  BY <3>1, <3>2, SeqDef
    <3> QED  BY <2>1, <3>3
  <2>2. CASE "-MP" \notin inv.depsFlags.flags
    <3> HIDE DEF R
    <3>1. more = <<>>
      BY <2>2
    <3> QED  BY <3>1, EmptySeq
  <2> QED  BY <2>1, <2>2
<1>6. d.rules = rules
  <2>1. depList = DepListFromHFiles(inv, cpp, cxx, h)
    BY DEF DepListFromHFiles, kept
  <2> HIDE DEF depList
  <2>2. d.rules = <<first>> \o (IF "-MP" \in inv.depsFlags.flags
                                THEN [k \in DOMAIN Tail(depList) |->
                                        Rule(<<Tail(depList)[k]>>, <<>>)]
                                ELSE <<>>)
    BY <2>1 DEF GeneratedDepFile
  <2>3. Phony(kept) = [k \in DOMAIN Tail(depList) |-> Rule(<<Tail(depList)[k]>>, <<>>)]
    BY <1>4 DEF Phony, depList
  <2> QED  BY <2>2, <2>3
<1> HIDE DEF d, depList, more
<1>7. rules[1] = first /\ Tail(rules) = more
  <2> DEFINE R == {Rule(<<x>>, <<>>) : x \in S} \cup {first}
  <2>1. first \in R /\ {Rule(<<x>>, <<>>) : x \in S} \subseteq R
    OBVIOUS
  <2>2. more \in Seq(R)
    <3> DEFINE Q == {Rule(<<x>>, <<>>) : x \in S}
    <3> HIDE DEF Q, R
    <3> QED  BY <1>5, <2>1, SeqMonotonic DEF Q
  <2> HIDE DEF R, first
  <2> QED  BY <2>1, <2>2, ConsIs
<1>8. d.rules[1].depList = depList
  <2>1. d.rules[1] = first
    BY <1>6, <1>7
  <2> QED  BY <2>1 DEF Rule
<1>9. /\ ToSet(d.rules[1].depList) = {cpp} \cup ToSet(kept)
      /\ Tail(d.rules) = IF "-MP" \in inv.depsFlags.flags THEN Phony(kept) ELSE <<>>
  BY <1>4, <1>6, <1>7, <1>8 DEF depList, more
<1> QED  BY <1>3, <1>9 DEF d

LEMMA PhonyTargets ==
  ASSUME NEW kept
  PROVE  ToSet([k \in DOMAIN Phony(kept) |-> Phony(kept)[k].targets])
           = {<<file>> : file \in ToSet(kept)}
<1>1. DOMAIN Phony(kept) = DOMAIN kept
      /\ \A k \in DOMAIN kept : Phony(kept)[k].targets = <<kept[k]>>
  BY DEF Phony, Rule
<1>2. [k \in DOMAIN Phony(kept) |-> Phony(kept)[k].targets] = [k \in DOMAIN kept |-> <<kept[k]>>]
  BY <1>1
<1>3. ToSet([k \in DOMAIN kept |-> <<kept[k]>>]) = {<<kept[k]>> : k \in DOMAIN kept}
  BY DEF ToSet
<1> QED  BY <1>2, <1>3 DEF ToSet

-----------------------------------------------------------------------------
(* A .d file is complete                                                   *)

\* Where a dependency is decides whether it is of the system.
LEMMA SystemHFilesAre ==
  ASSUME Agreeing, DepsAgree, NEW system \in FileSystems, NEW i \in Compiled,
         CppInFile(i) \in DOMAIN system, NEW file \in RefDependencies[system][i]
  PROVE  IsSystemHFile(DefaultDirs, file) <=> file[1] \in ToSet(DefaultDirs.dirsIsystem)
<1>1. RefDependencies[system][i]
        = {PchOf(f) : f \in RefPch(i, system)} \cup RefBefore(i, system) \cup RefAfter(i, system)
  BY DEF RefDependencies, RefAfter
<1>2. RefBefore(i, system) \subseteq DOMAIN system /\ RefAfter(i, system) \subseteq DOMAIN system
  BY BeforeIs, AfterIs
<1>3. RefPch(i, system) \subseteq OwnPchs
  BY PchIs
<1>4. file \in DOMAIN system \cup {PchOf(header) : header \in OwnPchs}
  BY <1>1, <1>2, <1>3
<1>5. IsSystemHFile(DefaultDirs, file) => file[1] \in ToSet(DefaultDirs.dirsIsystem)
  BY <1>4 DEF DepsAgree
<1>6. file[1] \in ToSet(DefaultDirs.dirsIsystem) => IsSystemHFile(DefaultDirs, file)
  BY DEF IsSystemHFile, Within
<1> QED  BY <1>5, <1>6

LEMMA DepImplies ==
  ASSUME Agreeing, DepsAgree, TruthInv, FoundInv, OrderInv, DepInv
  PROVE  DepFilesAreComplete
<1> DEFINE targets(rules) == [k \in DOMAIN rules |-> rules[k].targets]
           System(depends) == {file \in depends : file[1] \in ToSet(DefaultDirs.dirsIsystem)}
           Expected(i, depends) == depends \ (IF RefGiven(i, "-MMD") THEN System(depends) ELSE {})
<1>1. ASSUME NEW i \in Invocations, depFile[i] # None
      PROVE  LET expected == Expected(i, RefDependencies[files][i])
             IN /\ ToSet(depFile[i].rules[1].depList) = expected \cup {CppInFile(i)}
                /\ ToSet(targets(Tail(depFile[i].rules))) =
                     IF RefGiven(i, "-MP") THEN {<<file>> : file \in expected} ELSE {}
  <2> DEFINE h == hFiles[i]
             depends == RefDependencies[files][i]
             flags == invocation[i].depsFlags.flags
             cpp == CppInFile(i)
             d == depFile[i]
             expected == Expected(i, depends)
  <2>1. pc[i] = "done" /\ d = GeneratedDepFile(invocation[i], Cwd[i], cpp, DefaultDirs, h)
    BY <1>1 DEF DepInv, DepTruth
  <2>2. /\ i \in Compiled /\ cpp \in DOMAIN files /\ files \in FileSystems
        /\ ToSet(h) = depends /\ IsSeq(h)
    BY <2>1 DEF TruthInv, SharedIsTrue, OwnIsTrue, FoundInv, FoundTruth, OrderInv, OrderTruth,
                Ordered
  <2>3. PICK kept :
          /\ ToSet(kept) = IF "-MMD" \in flags
                           THEN {file \in ToSet(h) : ~ IsSystemHFile(DefaultDirs, file)}
                           ELSE ToSet(h)
          /\ ToSet(d.rules[1].depList) = {cpp} \cup ToSet(kept)
          /\ Tail(d.rules) = IF "-MP" \in flags THEN Phony(kept) ELSE <<>>
    <3> HIDE DEF h, d, cpp
    <3> QED  BY <2>1, <2>2, DepFileIs
  <2>4. /\ "-MMD" \in flags <=> RefGiven(i, "-MMD")
        /\ "-MP" \in flags <=> RefGiven(i, "-MP")
    BY <2>2 DEF DepsAgree
  <2>5. \A file \in depends : IsSystemHFile(DefaultDirs, file)
                                <=> file[1] \in ToSet(DefaultDirs.dirsIsystem)
    BY <2>2, SystemHFilesAre
  <2>6. ToSet(kept) = expected
    <3> HIDE DEF h, depends, flags
    <3> QED  BY <2>2, <2>3, <2>4, <2>5
  <2> HIDE DEF h, depends, flags, d, cpp, expected
  <2>7. ToSet(targets(Tail(d.rules))) =
          IF RefGiven(i, "-MP") THEN {<<file>> : file \in expected} ELSE {}
    <3>1. CASE RefGiven(i, "-MP")
      <4>1. Tail(d.rules) = Phony(kept)
        BY <2>3, <2>4, <3>1
      <4>2. ToSet(targets(Phony(kept))) = {<<file>> : file \in ToSet(kept)}
        BY PhonyTargets
      <4> QED  BY <2>6, <3>1, <4>1, <4>2
    <3>2. CASE ~ RefGiven(i, "-MP")
      <4>1. Tail(d.rules) = <<>>
        BY <2>3, <2>4, <3>2
      <4>2. ToSet(targets(<<>>)) = {}
        BY DEF ToSet
      <4> QED  BY <3>2, <4>1, <4>2
    <3> QED  BY <3>1, <3>2
  <2> QED  BY <2>3, <2>6, <2>7 DEF d, cpp, expected, depends
<1>2. ASSUME NEW i \in Invocations, Finished(i), pc[i] = "done",
             \E key \in {"-MD", "-MMD", "-MF"} : RefGiven(i, key)
      PROVE  depFile[i] # None
  <2>1. i \in Compiled
    BY <1>2 DEF TruthInv, OwnIsTrue
  <2>2. ShouldGenerateDepFile(invocation[i].depsFlags)
    BY <1>2, <2>1 DEF DepsAgree, ShouldGenerateDepFile
  <2> QED  BY <1>2, <2>2 DEF Finished
<1> QED  BY <1>1, <1>2 DEF DepFilesAreComplete

(***************************************************************************)
(* DepFilesAreComplete: a .d file names all that the compilation depends   *)
(* on, without the headers of the compiler for -MMD, has a rule for each   *)
(* of them with -MP, and is there in the end for whoever asks for one.     *)
(***************************************************************************)
THEOREM DepFilesHold == ASSUME Agreeing, DepsAgree PROVE Spec => []DepFilesAreComplete
<1>1. Init => FoundInv /\ OrderInv /\ DepInv
  BY DEF Init, FoundInv, FoundTruth, OrderInv, OrderTruth, DepInv, DepTruth
<1>2. TruthInv /\ FoundInv /\ [Next]_vars => FoundInv'
  BY FoundStep
<1>3. TruthInv /\ FoundInv /\ OrderInv /\ [Next]_vars => OrderInv'
  BY OrderStep
<1>4. TruthInv /\ DepInv /\ [Next]_vars => DepInv'
  BY DepStep
<1>5. TruthInv /\ FoundInv /\ OrderInv /\ DepInv => DepFilesAreComplete
  BY DepImplies
<1> QED  BY <1>1, <1>2, <1>3, <1>4, <1>5, TruthInvariance, PTL DEF Spec

=============================================================================
