---------------------------- MODULE PutsProofs ----------------------------
(***************************************************************************)
(* What a fold over a sequence computes, for any operator: the puts of a   *)
(* saga, one after the other.  An operator cannot be passed to a theorem,  *)
(* so it is a constant of this module, which is instantiated with each     *)
(* reducer and each watcher; Fold is FoldLeft of SequencesExt written out, *)
(* so that an instance brings no more definitions than it needs.           *)
(***************************************************************************)
EXTENDS Integers, Sequences
LOCAL INSTANCE SequenceTheorems
LOCAL INSTANCE WellFoundedInduction
LOCAL INSTANCE TLAPS
CONSTANT Op(_, _, _)    \* what an action (the last) makes of a state, given a parameter

LEMMA NaturalsInductive == ASSUME NEW T, 0 \in T, \A n \in T \cap Nat : n + 1 \in T PROVE Nat \subseteq T
<1> SUFFICES ASSUME Nat \ T # {} PROVE FALSE
  OBVIOUS
<1>1. PICK n \in Nat \ T : \A m \in Nat \ T : <<m, n>> \notin OpToRel(<, Nat)
  BY NatLessThanWellFounded, WFMin
<1>2. n # 0 /\ n - 1 \in Nat
  OBVIOUS
<1>3. <<n - 1, n>> \in OpToRel(<, Nat)
  BY <1>2 DEF OpToRel
<1>4. n - 1 \in T
  BY <1>1, <1>2, <1>3
<1>5. (n - 1) + 1 \in T
  BY <1>2, <1>4
<1> QED BY <1>5, <1>2

\* What a fold over the subsets of 1 .. n computes step by step.
Greatest(S) == CHOOSE m \in S : \A n \in S : m >= n
Step(x, s, puts, f, S) == IF S = {} THEN s ELSE Op(x, f[S \ {Greatest(S)}], puts[Greatest(S)])
Folds(x, s, puts, f, D) == f = [S \in SUBSET D |-> Step(x, s, puts, f, S)]
Fold(x, s, puts) == (CHOOSE f : Folds(x, s, puts, f, DOMAIN puts))[DOMAIN puts]

LEMMA MaxOf == ASSUME NEW n \in Nat, NEW S \in SUBSET (1 .. n + 1), n + 1 \in S PROVE Greatest(S) = n + 1
<1>1. \A y \in S : y \in Int /\ n + 1 >= y
  OBVIOUS
<1>2. \A z \in S : (\A y \in S : z >= y) => z = n + 1
  <2> SUFFICES ASSUME NEW z \in S, z >= n + 1 PROVE z = n + 1
    OBVIOUS
  <2>1. z \in Int /\ n + 1 >= z
    BY <1>1
  <2> QED BY <2>1
<1> QED BY <1>1, <1>2 DEF Greatest

LEMMA FoldExists == ASSUME NEW x, NEW s, NEW puts, NEW n \in Nat PROVE \E f : Folds(x, s, puts, f, 1 .. n)
<1> DEFINE T == {m \in Nat : \E f : Folds(x, s, puts, f, 1 .. m)}
<1>1. 0 \in T
  <2> DEFINE g == [S \in SUBSET (1 .. 0) |-> s]
  <2>1. Folds(x, s, puts, g, 1 .. 0)
    BY DEF Folds, Step
  <2> QED BY <2>1
<1>2. ASSUME NEW m \in T PROVE m + 1 \in T
  <2>1. PICK f : Folds(x, s, puts, f, 1 .. m)
    OBVIOUS
  <2> DEFINE g == [S \in SUBSET (1 .. m + 1) |-> IF m + 1 \in S THEN Op(x, f[S \ {m + 1}], puts[m + 1]) ELSE f[S]]
  <2>2. ASSUME NEW S \in SUBSET (1 .. m + 1) PROVE g[S] = Step(x, s, puts, g, S)
    <3>1. CASE m + 1 \in S
      <4>1. Greatest(S) = m + 1 /\ S # {}
        BY <3>1, MaxOf
      <4>2. S \ {m + 1} \in SUBSET (1 .. m + 1) /\ m + 1 \notin S \ {m + 1}
        OBVIOUS
      <4>3. g[S \ {m + 1}] = f[S \ {m + 1}]
        BY <4>2
      <4>4. g[S] = Op(x, f[S \ {m + 1}], puts[m + 1])
        BY <3>1
      <4> HIDE DEF g
      <4> QED BY <4>1, <4>3, <4>4 DEF Step
    <3>2. CASE m + 1 \notin S
      <4>0. \A y \in S : y \in 1 .. m
        <5> TAKE y \in S
        <5>1. y \in 1 .. m + 1 /\ y # m + 1
          BY <3>2
        <5> QED BY <5>1
      <4>1. S \in SUBSET (1 .. m) /\ S \ {Greatest(S)} \in SUBSET (1 .. m + 1) /\ m + 1 \notin S \ {Greatest(S)}
        BY <3>2, <4>0
      <4>2. g[S] = f[S] /\ g[S \ {Greatest(S)}] = f[S \ {Greatest(S)}]
        BY <3>2, <4>1
      <4>3. f[S] = Step(x, s, puts, f, S)
        BY <2>1, <4>1 DEF Folds
      <4> HIDE DEF g
      <4> QED BY <4>2, <4>3 DEF Step
    <3> QED BY <3>1, <3>2
  <2>3. g = [S \in SUBSET (1 .. m + 1) |-> g[S]]
    OBVIOUS
  <2> HIDE DEF g
  <2>4. Folds(x, s, puts, g, 1 .. m + 1)
    BY <2>2, <2>3 DEF Folds
  <2> QED BY <2>4
<1> HIDE DEF T
<1>3. Nat \subseteq T
  BY <1>1, <1>2, NaturalsInductive
<1> QED BY <1>3 DEF T

LEMMA FoldIs ==
  ASSUME NEW x, NEW s, NEW puts, NEW n \in Nat, DOMAIN puts = 1 .. n
  PROVE  \E f : Folds(x, s, puts, f, 1 .. n) /\ Fold(x, s, puts) = f[1 .. n]
<1>1. Fold(x, s, puts) = (CHOOSE f : Folds(x, s, puts, f, 1 .. n))[1 .. n]
  BY DEF Fold
<1>2. Folds(x, s, puts, CHOOSE f : Folds(x, s, puts, f, 1 .. n), 1 .. n)
  BY FoldExists
<1> QED BY <1>1, <1>2

LEMMA FoldPrefix ==
  ASSUME NEW x, NEW s, NEW puts, NEW n \in Nat, NEW f, Folds(x, s, puts, f, 1 .. n), NEW m \in 1 .. n
  PROVE  f[1 .. m] = Op(x, f[1 .. m - 1], puts[m])
<1>1. Greatest(1 .. m) = m
  BY DEF Greatest
<1>2. (1 .. m) \ {m} = 1 .. m - 1 /\ 1 .. m # {} /\ 1 .. m \in SUBSET (1 .. n)
  OBVIOUS
<1>3. f[1 .. m] = Step(x, s, puts, f, 1 .. m)
  BY <1>2 DEF Folds
<1> QED BY <1>1, <1>2, <1>3 DEF Step

LEMMA FoldNone == ASSUME NEW x, NEW s PROVE Fold(x, s, << >>) = s
<1>1. DOMAIN << >> = 1 .. 0
  OBVIOUS
<1>2. PICK f : Folds(x, s, << >>, f, 1 .. 0) /\ Fold(x, s, << >>) = f[1 .. 0]
  BY <1>1, FoldIs
<1> QED BY <1>2 DEF Folds, Step

LEMMA FoldAppend ==
  ASSUME NEW x, NEW s, NEW S, NEW puts \in Seq(S), NEW a
  PROVE  Fold(x, s, Append(puts, a)) = Op(x, Fold(x, s, puts), a)
<1> DEFINE n == Len(puts)
           more == Append(puts, a)
<1>1. /\ n \in Nat /\ DOMAIN puts = 1 .. n /\ DOMAIN more = 1 .. n + 1
      /\ more[n + 1] = a /\ \A k \in 1 .. n : more[k] = puts[k]
  OBVIOUS
<1> HIDE DEF n, more
<1>2. PICK f : Folds(x, s, puts, f, 1 .. n) /\ Fold(x, s, puts) = f[1 .. n]
  BY <1>1, FoldIs
<1>3. PICK h : Folds(x, s, more, h, 1 .. n + 1) /\ Fold(x, s, more) = h[1 .. n + 1]
  BY <1>1, FoldIs
<1> DEFINE T == {m \in Nat : m <= n => h[1 .. m] = f[1 .. m]}
<1>4. 0 \in T
  <2>1. f[{}] = s /\ h[{}] = s
    BY <1>2, <1>3 DEF Folds, Step
  <2> QED BY <2>1
<1>5. ASSUME NEW m \in T PROVE m + 1 \in T
  <2> SUFFICES ASSUME m + 1 <= n PROVE h[1 .. m + 1] = f[1 .. m + 1]
    OBVIOUS
  <2>1. m + 1 \in 1 .. n /\ m + 1 \in 1 .. n + 1 /\ (m + 1) - 1 = m
    BY <1>1
  <2>2. f[1 .. m + 1] = Op(x, f[1 .. m], puts[m + 1])
    BY <1>1, <1>2, <2>1, FoldPrefix
  <2>3. h[1 .. m + 1] = Op(x, h[1 .. m], more[m + 1])
    BY <1>1, <1>3, <2>1, FoldPrefix
  <2> QED BY <1>1, <2>1, <2>2, <2>3
<1> HIDE DEF T
<1>6. n \in T
  BY <1>1, <1>4, <1>5, NaturalsInductive
<1>7. h[1 .. n] = f[1 .. n]
  BY <1>1, <1>6 DEF T
<1>8. h[1 .. n + 1] = Op(x, h[1 .. (n + 1) - 1], more[n + 1])
  BY <1>1, <1>3, FoldPrefix
<1>9. (n + 1) - 1 = n
  BY <1>1
<1> QED BY <1>1, <1>2, <1>3, <1>7, <1>8, <1>9 DEF more

LEMMA AppendedOne == ASSUME NEW a, NEW b PROVE Append(<<a>>, b) = <<a, b>>
<1>1. <<a>> \in Seq({a, b}) /\ <<a, b>> \in Seq({a, b}) /\ Append(<<a>>, b) \in Seq({a, b})
  OBVIOUS
<1>2. Len(<<a>>) = 1 /\ Len(Append(<<a>>, b)) = 2 /\ Len(<<a, b>>) = 2
  BY <1>1
<1>3. \A i \in 1 .. 2 : Append(<<a>>, b)[i] = <<a, b>>[i]
  BY <1>1
<1> QED BY <1>1, <1>2, <1>3, SeqEqual

LEMMA AppendedTwo == ASSUME NEW a, NEW b, NEW c PROVE Append(<<a, b>>, c) = <<a, b, c>>
<1>1. <<a, b>> \in Seq({a, b, c}) /\ <<a, b, c>> \in Seq({a, b, c}) /\ Append(<<a, b>>, c) \in Seq({a, b, c})
  OBVIOUS
<1>2. Len(<<a, b>>) = 2 /\ Len(Append(<<a, b>>, c)) = 3 /\ Len(<<a, b, c>>) = 3
  BY <1>1
<1>3. \A i \in 1 .. 3 : Append(<<a, b>>, c)[i] = <<a, b, c>>[i]
  BY <1>1
<1> QED BY <1>1, <1>2, <1>3, SeqEqual

LEMMA FoldOne == ASSUME NEW x, NEW s, NEW a PROVE Fold(x, s, <<a>>) = Op(x, s, a)
<1>1. \A puts \in Seq({a}) : Fold(x, s, Append(puts, a)) = Op(x, Fold(x, s, puts), a)
  BY FoldAppend
<1>2. << >> \in Seq({a}) /\ Append(<< >>, a) = <<a>>
  OBVIOUS
<1>3. Fold(x, s, <<a>>) = Op(x, Fold(x, s, << >>), a)
  BY <1>1, <1>2, Zenon
<1> QED BY <1>3, FoldNone

LEMMA FoldTwo == ASSUME NEW x, NEW s, NEW a, NEW b PROVE Fold(x, s, <<a, b>>) = Op(x, Op(x, s, a), b)
<1>1. \A puts \in Seq({a}) : Fold(x, s, Append(puts, b)) = Op(x, Fold(x, s, puts), b)
  BY FoldAppend
<1>2. <<a>> \in Seq({a}) /\ Append(<<a>>, b) = <<a, b>>
  BY AppendedOne
<1>3. Fold(x, s, <<a, b>>) = Op(x, Fold(x, s, <<a>>), b)
  BY <1>1, <1>2, Zenon
<1> QED BY <1>3, FoldOne

LEMMA FoldThree ==
  ASSUME NEW x, NEW s, NEW a, NEW b, NEW c PROVE Fold(x, s, <<a, b, c>>) = Op(x, Op(x, Op(x, s, a), b), c)
<1>1. \A puts \in Seq({a, b}) : Fold(x, s, Append(puts, c)) = Op(x, Fold(x, s, puts), c)
  BY FoldAppend
<1>2. <<a, b>> \in Seq({a, b}) /\ Append(<<a, b>>, c) = <<a, b, c>>
  BY AppendedTwo
<1>3. Fold(x, s, <<a, b, c>>) = Op(x, Fold(x, s, <<a, b>>), c)
  BY <1>1, <1>2, Zenon
<1> QED BY <1>3, FoldTwo
==============================================================================
