------------------------------ MODULE FoldLemmas ------------------------------
(***************************************************************************)
(* Induction over data.  The induction theorems of the library take a      *)
(* predicate as a parameter, which the provers cannot instantiate; that    *)
(* the naturals are well founded is a fact about sets, and from it follow  *)
(* an induction for sets of numbers, one for the subsets of an interval,   *)
(* and what FoldLeft computes, element by element.                         *)
(***************************************************************************)
EXTENDS Integers, SequencesExt, SequenceTheorems, FiniteSetTheorems, WellFoundedInduction, TLAPS

(* A set with 0, and with n + 1 whenever with n, has all the naturals.     *)
LEMMA SetInduction ==
  ASSUME NEW X, 0 \in X, \A n \in Nat : n \in X => n + 1 \in X
  PROVE  Nat \subseteq X
  <1> DEFINE B == Nat \ X
  <1>1. SUFFICES ASSUME B # {} PROVE FALSE OBVIOUS
  <1>2. IsWellFoundedOn(OpToRel(<, Nat), Nat) BY NatLessThanWellFounded
  <1>3. B \subseteq Nat OBVIOUS
  <1> HIDE DEF B
  <1>4. PICK x \in B : \A y \in B : ~(<<y, x>> \in OpToRel(<, Nat))
    BY <1>1, <1>2, <1>3, WFMin
  <1>5. x \in Nat /\ x # 0 /\ x - 1 \in Nat BY DEF B
  <1>6. x - 1 \in B BY <1>5 DEF B
  <1>7. <<x - 1, x>> \in OpToRel(<, Nat) BY <1>5 DEF OpToRel
  <1> QED BY <1>4, <1>6, <1>7

(* The same up to a bound.                                                 *)
LEMMA BoundedInduction ==
  ASSUME NEW k \in Nat, NEW X, 0 \in X, \A n \in 0..k - 1 : n \in X => n + 1 \in X
  PROVE  0..k \subseteq X
  <1> DEFINE Y == {n \in Nat : n <= k => n \in X}
  <1>1. 0 \in Y OBVIOUS
  <1>2. \A n \in Nat : n \in Y => n + 1 \in Y OBVIOUS
  <1> HIDE DEF Y
  <1>3. Nat \subseteq Y BY <1>1, <1>2, SetInduction
  <1> QED BY <1>3 DEF Y

(* Numbers below a bound have a greatest one.                              *)
LEMMA MaxOfSome ==
  ASSUME NEW k \in Nat, NEW T \in SUBSET (1..k), T # {}
  PROVE  Max(T) \in T /\ \A y \in T : Max(T) >= y
  <1> DEFINE X == {n \in Nat : \A S \in SUBSET (1..n) : S # {} => \E x \in S : \A y \in S : x >= y}
  <1>1. 0 \in X
    <2>1. \A S \in SUBSET (1..0) : S = {} OBVIOUS
    <2> QED BY <2>1
  <1>2. ASSUME NEW n \in Nat, n \in X PROVE n + 1 \in X
    <2> SUFFICES ASSUME NEW S \in SUBSET (1..n + 1), S # {}
                 PROVE  \E x \in S : \A y \in S : x >= y
      OBVIOUS
    <2>1. CASE n + 1 \in S BY <2>1
    <2>2. CASE n + 1 \notin S
      <3>1. S \in SUBSET (1..n) BY <2>2
      <3> QED BY <1>2, <3>1
    <2> QED BY <2>1, <2>2
  <1> HIDE DEF X
  <1>3. k \in X BY <1>1, <1>2, SetInduction
  <1>4. \E x \in T : \A y \in T : x >= y BY <1>3 DEF X
  <1> QED BY <1>4 DEF Max

(* A set of sets with the empty one, and with every subset of an interval  *)
(* whenever with what is left of it below its maximum, has them all.       *)
LEMMA SubsetInduction ==
  ASSUME NEW k \in Nat, NEW X, {} \in X,
         \A T \in SUBSET (1..k) : T # {} /\ T \ {Max(T)} \in X => T \in X
  PROVE  SUBSET (1..k) \subseteq X
  <1> DEFINE Y == {n \in Nat : n <= k => SUBSET (1..n) \subseteq X}
  <1>1. 0 \in Y
    <2>1. \A T \in SUBSET (1..0) : T = {} OBVIOUS
    <2> QED BY <2>1
  <1>2. ASSUME NEW n \in Nat, n \in Y PROVE n + 1 \in Y
    <2> SUFFICES ASSUME n + 1 <= k, NEW T \in SUBSET (1..n + 1) PROVE T \in X
      OBVIOUS
    <2>1. SUBSET (1..n) \subseteq X BY <1>2
    <2>2. CASE n + 1 \notin T
      <3>1. T \in SUBSET (1..n) BY <2>2
      <3> QED BY <2>1, <3>1
    <2>3. CASE n + 1 \in T
      <3>1. Max(T) = n + 1
        <4>1. n + 1 \in Nat /\ T # {} BY <2>3
        <4>2. Max(T) \in T /\ \A y \in T : Max(T) >= y BY <4>1, MaxOfSome
        <4>3. Max(T) \in 1..n + 1 /\ Max(T) >= n + 1 BY <2>3, <4>2
        <4> QED BY <4>3
      <3>2. T \ {Max(T)} \in SUBSET (1..n) BY <3>1
      <3>3. T \in SUBSET (1..k) /\ T # {} BY <2>3
      <3> QED BY <2>1, <3>2, <3>3
    <2> QED BY <2>2, <2>3
  <1> HIDE DEF Y
  <1>3. k \in Y BY <1>1, <1>2, SetInduction
  <1> QED BY <1>3 DEF Y
-----------------------------------------------------------------------------
(* Folding with a step that is a function F on A \X R.                     *)
StepOn(F, A, R) == F \in [A \X R -> A]
FoldF(F, b, s) == FoldLeft(LAMBDA a, e : F[<<a, e>>], b, s)

(* g holds what the fold of the elements of s at T makes, for each T.      *)
RunStep(g, F, b, s, T) == IF T = {} THEN b ELSE F[<<g[T \ {Max(T)}], s[Max(T)]>>]
Runs(g, F, b, s, n) == g = [T \in SUBSET (1..n) |-> RunStep(g, F, b, s, T)]

LEMMA RunAt ==
  ASSUME NEW F, NEW b, NEW s, NEW n, NEW g, Runs(g, F, b, s, n), NEW T \in SUBSET (1..n)
  PROVE  g[T] = RunStep(g, F, b, s, T)
  BY DEF Runs

LEMMA RunOf ==
  ASSUME NEW F, NEW b, NEW s, NEW n, NEW A, NEW g \in [SUBSET (1..n) -> A],
         \A T \in SUBSET (1..n) : g[T] = RunStep(g, F, b, s, T)
  PROVE  Runs(g, F, b, s, n)
  BY DEF Runs

LEMMA MaxIn ==
  ASSUME NEW k \in Nat, NEW T \in SUBSET (1..k), T # {}
  PROVE  Max(T) \in 1..k /\ T \ {Max(T)} \in SUBSET (1..k)
  <1>1. Max(T) \in T BY MaxOfSome
  <1> HIDE DEF Max
  <1> QED BY <1>1

LEMMA RunExists ==
  ASSUME NEW A, NEW R, NEW F \in [A \X R -> A], NEW b \in A, NEW s \in Seq(R)
  PROVE  \A n \in 0..Len(s) : \E g \in [SUBSET (1..n) -> A] : Runs(g, F, b, s, n)
  <1> DEFINE X == {n \in 0..Len(s) : \E g \in [SUBSET (1..n) -> A] : Runs(g, F, b, s, n)}
  <1>l. Len(s) \in Nat OBVIOUS
  <1>1. 0 \in X
    <2> DEFINE g == [T \in SUBSET (1..0) |-> b]
    <2>1. \A T \in SUBSET (1..0) : T = {} OBVIOUS
    <2>2. g \in [SUBSET (1..0) -> A] OBVIOUS
    <2>3. \A T \in SUBSET (1..0) : g[T] = RunStep(g, F, b, s, T) BY <2>1 DEF RunStep
    <2> HIDE DEF g
    <2>4. Runs(g, F, b, s, 0) BY <2>2, <2>3, RunOf
    <2>5. 0 \in 0..Len(s) BY <1>l
    <2> QED BY <2>2, <2>4, <2>5
  <1>2. ASSUME NEW n \in 0..Len(s) - 1, n \in X PROVE n + 1 \in X
    <2>1. PICK g \in [SUBSET (1..n) -> A] : Runs(g, F, b, s, n) BY <1>2
    <2> DEFINE h == [T \in SUBSET (1..n + 1) |->
                       IF n + 1 \in T THEN F[<<g[T \ {n + 1}], s[n + 1]>>] ELSE g[T]]
    <2>n. n \in Nat /\ n + 1 \in 0..Len(s) /\ n + 1 \in 1..Len(s) /\ n + 1 \in Nat BY <1>l
    <2>2. s[n + 1] \in R BY <2>n
    <2>3. \A T \in SUBSET (1..n + 1) : T \ {n + 1} \in SUBSET (1..n) BY <2>n
    <2>4. \A T \in SUBSET (1..n + 1) : n + 1 \notin T => T \in SUBSET (1..n) BY <2>n
    <2>5. h \in [SUBSET (1..n + 1) -> A] BY <2>2, <2>3, <2>4
    <2>6. ASSUME NEW T \in SUBSET (1..n + 1) PROVE h[T] = RunStep(h, F, b, s, T)
      <3>1. CASE n + 1 \in T
        <4>1. Max(T) \in T /\ \A y \in T : Max(T) >= y BY <2>n, <3>1, MaxOfSome
        <4> HIDE DEF Max
        <4>2. Max(T) \in 1..n + 1 /\ Max(T) >= n + 1 BY <3>1, <4>1
        <4>3. Max(T) = n + 1 BY <2>n, <4>2
        <4>4. T \ {n + 1} \in SUBSET (1..n + 1) /\ n + 1 \notin T \ {n + 1} OBVIOUS
        <4>5. h[T \ {n + 1}] = g[T \ {n + 1}] BY <4>4
        <4> QED BY <3>1, <4>3, <4>5 DEF RunStep
      <3>2. CASE n + 1 \notin T
        <4>1. T \in SUBSET (1..n) BY <2>4, <3>2
        <4>2. g[T] = RunStep(g, F, b, s, T) BY <2>1, <4>1 DEF Runs
        <4>3. h[T] = g[T] BY <3>2
        <4>4. \A x : T \ {x} \in SUBSET (1..n + 1) /\ n + 1 \notin T \ {x} BY <3>2
        <4>5. h[T \ {Max(T)}] = g[T \ {Max(T)}] BY <4>4
        <4> HIDE DEF h
        <4> QED BY <4>2, <4>3, <4>5 DEF RunStep
      <3> QED BY <3>1, <3>2
    <2> HIDE DEF h
    <2>7. Runs(h, F, b, s, n + 1) BY <2>5, <2>6, RunOf
    <2> QED BY <2>n, <2>5, <2>7
  <1> HIDE DEF X
  <1>3. 0..Len(s) \subseteq X BY <1>l, <1>1, <1>2, BoundedInduction
  <1> QED BY <1>3 DEF X

(* Whatever runs like g is g; so the fold is the value of any run.         *)
LEMMA RunUnique ==
  ASSUME NEW F, NEW b, NEW s, NEW n \in Nat, NEW g, NEW h, Runs(g, F, b, s, n), Runs(h, F, b, s, n)
  PROVE  g = h
  <1> DEFINE X == {T \in SUBSET (1..n) : g[T] = h[T]}
  <1>a. \A T \in SUBSET (1..n) : g[T] = RunStep(g, F, b, s, T) /\ h[T] = RunStep(h, F, b, s, T) BY RunAt
  <1>1. {} \in X BY <1>a DEF RunStep
  <1>2. ASSUME NEW T \in SUBSET (1..n), T # {}, T \ {Max(T)} \in X PROVE T \in X
    BY <1>2, <1>a DEF RunStep
  <1> HIDE DEF X
  <1>3. SUBSET (1..n) \subseteq X BY <1>1, <1>2, SubsetInduction
  <1>4. \A T \in SUBSET (1..n) : g[T] = h[T] BY <1>3 DEF X
  <1> QED BY <1>4 DEF Runs

LEMMA FoldIsRun ==
  ASSUME NEW F, NEW b, NEW R, NEW s \in Seq(R), NEW g, Runs(g, F, b, s, Len(s))
  PROVE  FoldF(F, b, s) = g[1..Len(s)]
  <1> DEFINE h == CHOOSE h : Runs(h, F, b, s, Len(s))
  <1>1. DOMAIN s = 1..Len(s) /\ Len(s) \in Nat OBVIOUS
  <1>2. FoldF(F, b, s) = h[1..Len(s)] BY <1>1 DEF FoldF, FoldLeft, MapThenFoldSet, Runs, RunStep
  <1>3. Runs(h, F, b, s, Len(s)) OBVIOUS
  <1> HIDE DEF h
  <1>4. h = g BY <1>1, <1>3, RunUnique
  <1> QED BY <1>2, <1>4

LEMMA FoldType ==
  ASSUME NEW A, NEW R, NEW F, StepOn(F, A, R), NEW b \in A, NEW s \in Seq(R)
  PROVE  FoldF(F, b, s) \in A
  <1>f. F \in [A \X R -> A] BY DEF StepOn
  <1>1. Len(s) \in 0..Len(s) OBVIOUS
  <1>2. PICK g \in [SUBSET (1..Len(s)) -> A] : Runs(g, F, b, s, Len(s)) BY <1>1, <1>f, RunExists
  <1>3. FoldF(F, b, s) = g[1..Len(s)] BY <1>2, FoldIsRun
  <1> QED BY <1>3

LEMMA FoldEmpty ==
  ASSUME NEW A, NEW R, NEW F, StepOn(F, A, R), NEW b \in A
  PROVE  FoldF(F, b, <<>>) = b
  <1>f. F \in [A \X R -> A] BY DEF StepOn
  <1>0. <<>> \in Seq(R) OBVIOUS
  <1>1. PICK s : s = <<>> /\ s \in Seq(R) BY <1>0
  <1>2. s \in Seq(R) /\ Len(s) = 0 /\ 0 \in 0..Len(s) BY <1>1
  <1>3. PICK g \in [SUBSET (1..0) -> A] : Runs(g, F, b, s, 0) BY <1>2, <1>f, RunExists
  <1>4. FoldF(F, b, s) = g[1..0] BY <1>2, <1>3, FoldIsRun
  <1>5. g[1..0] = RunStep(g, F, b, s, 1..0)
    <2>1. 1..0 \in SUBSET (1..0) OBVIOUS
    <2> QED BY <2>1, <1>3, RunAt
  <1>6. 1..0 = {} OBVIOUS
  <1> QED BY <1>1, <1>4, <1>5, <1>6 DEF RunStep

LEMMA FoldAppend ==
  ASSUME NEW A, NEW R, NEW F, StepOn(F, A, R), NEW b \in A, NEW s \in Seq(R), NEW e \in R
  PROVE  FoldF(F, b, Append(s, e)) = F[<<FoldF(F, b, s), e>>]
  <1>f. F \in [A \X R -> A] BY DEF StepOn
  <1>t. PICK t : t = Append(s, e) OBVIOUS
  <1>n. PICK n \in Nat : n = Len(s) OBVIOUS
  <1>1. t \in Seq(R) /\ Len(t) = n + 1 /\ t[n + 1] = e /\ \A i \in 1..n : t[i] = s[i]
    BY <1>t, <1>n
  <1>2. n + 1 \in 0..Len(t) /\ 1..n + 1 \in SUBSET (1..n + 1) /\ 1..n \in SUBSET (1..n + 1)
    BY <1>1
  <1>3. PICK g \in [SUBSET (1..n + 1) -> A] : Runs(g, F, b, t, n + 1) BY <1>1, <1>2, <1>f, RunExists
  <1>h. PICK h \in [SUBSET (1..n) -> A] : \A T \in SUBSET (1..n) : h[T] = g[T]
    <2> DEFINE h == [T \in SUBSET (1..n) |-> g[T]]
    <2>1. h \in [SUBSET (1..n) -> A] OBVIOUS
    <2> QED BY <2>1
  <1>4. Runs(h, F, b, s, n)
    <2>1. ASSUME NEW T \in SUBSET (1..n) PROVE h[T] = RunStep(h, F, b, s, T)
      <3>1. T \in SUBSET (1..n + 1) OBVIOUS
      <3>2. g[T] = RunStep(g, F, b, t, T) BY <1>3, <3>1 DEF Runs
      <3>3. T # {} => Max(T) \in 1..n /\ T \ {Max(T)} \in SUBSET (1..n) BY MaxIn
      <3>4. T # {} => t[Max(T)] = s[Max(T)] /\ h[T \ {Max(T)}] = g[T \ {Max(T)}]
        BY <1>1, <1>h, <3>3
      <3>5. h[T] = g[T] BY <1>h
      <3> QED BY <3>2, <3>4, <3>5 DEF RunStep
    <2> QED BY <2>1, RunOf
  <1>5. FoldF(F, b, s) = g[1..n]
    <2>1. FoldF(F, b, s) = h[1..n] BY <1>4, <1>n, FoldIsRun
    <2>2. 1..n \in SUBSET (1..n) OBVIOUS
    <2> QED BY <1>h, <2>1, <2>2
  <1>6. FoldF(F, b, t) = g[1..n + 1] BY <1>1, <1>3, FoldIsRun
  <1>7. Max(1..n + 1) = n + 1 /\ (1..n + 1) \ {n + 1} = 1..n /\ 1..n + 1 # {}
    <2>1. n + 1 \in Nat /\ n + 1 \in 1..n + 1 /\ 1..n + 1 \in SUBSET (1..n + 1)
          /\ (1..n + 1) \ {n + 1} = 1..n
      OBVIOUS
    <2>2. 1..n + 1 # {} BY <2>1
    <2>3. Max(1..n + 1) \in 1..n + 1 /\ \A y \in 1..n + 1 : Max(1..n + 1) >= y
      BY <2>1, <2>2, MaxOfSome
    <2> HIDE DEF Max
    <2>4. Max(1..n + 1) >= n + 1 BY <2>1, <2>3
    <2> QED BY <2>1, <2>2, <2>3, <2>4
  <1>8. g[1..n + 1] = RunStep(g, F, b, t, 1..n + 1) BY <1>2, <1>3, RunAt
  <1> QED BY <1>1, <1>5, <1>6, <1>7, <1>8, <1>t DEF RunStep
(* A fold whose step is F on what the fold can reach is the fold by F.     *)
Follows(h, A, F, b, s) ==
    /\ h[{}] = b
    /\ \A T \in SUBSET (1..Len(s)) :
         T # {} /\ h[T \ {Max(T)}] \in A => h[T] = F[<<h[T \ {Max(T)}], s[Max(T)]>>]
End(h, s) == h[1..Len(s)]

LEMMA FoldAgrees ==
  ASSUME NEW A, NEW R, NEW F, StepOn(F, A, R), NEW b \in A, NEW s \in Seq(R),
         NEW h, Follows(h, A, F, b, s)
  PROVE  End(h, s) = FoldF(F, b, s)
  <1>f. F \in [A \X R -> A] BY DEF StepOn
  <1>1. Len(s) \in 0..Len(s) /\ Len(s) \in Nat /\ 1..Len(s) \in SUBSET (1..Len(s)) OBVIOUS
  <1>2. PICK g \in [SUBSET (1..Len(s)) -> A] : Runs(g, F, b, s, Len(s)) BY <1>1, <1>f, RunExists
  <1>3. \A T \in SUBSET (1..Len(s)) : g[T] = RunStep(g, F, b, s, T) BY <1>2 DEF Runs
  <1> DEFINE X == {T \in SUBSET (1..Len(s)) : h[T] = g[T]}
  <1>4. {} \in X BY <1>3 DEF RunStep, Follows
  <1>5. ASSUME NEW T \in SUBSET (1..Len(s)), T # {}, T \ {Max(T)} \in X PROVE T \in X
    <2>1. T \ {Max(T)} \in SUBSET (1..Len(s)) /\ h[T \ {Max(T)}] = g[T \ {Max(T)}] BY <1>5
    <2>2. h[T \ {Max(T)}] \in A BY <2>1
    <2>3. h[T] = F[<<h[T \ {Max(T)}], s[Max(T)]>>] BY <1>5, <2>2 DEF Follows
    <2> QED BY <1>3, <1>5, <2>1, <2>3 DEF RunStep
  <1> HIDE DEF X
  <1>6. SUBSET (1..Len(s)) \subseteq X BY <1>1, <1>4, <1>5, SubsetInduction
  <1>7. h[1..Len(s)] = g[1..Len(s)] BY <1>1, <1>6 DEF X
  <1> QED BY <1>2, <1>7, FoldIsRun DEF End
-----------------------------------------------------------------------------
(* Folds that build a sequence over Q from one over R.                     *)
Builder(F, Q, R) == F \in [Seq(Q) \X R -> Seq(Q)]
Build(F, s) == FoldF(F, <<>>, s)
BuiltBy(h, Q, F, s) ==
    /\ h[{}] = <<>>
    /\ \A T \in SUBSET (1..Len(s)) :
         T # {} /\ h[T \ {Max(T)}] \in Seq(Q) => h[T] = F[<<h[T \ {Max(T)}], s[Max(T)]>>]

LEMMA BuildFacts ==
  ASSUME NEW Q, NEW R, NEW F, Builder(F, Q, R)
  PROVE  /\ Build(F, <<>>) = <<>>
         /\ \A s \in Seq(R) : Build(F, s) \in Seq(Q)
         /\ \A s \in Seq(R), e \in R : Build(F, Append(s, e)) = F[<<Build(F, s), e>>]
         /\ \A s \in Seq(R) : \A h : BuiltBy(h, Q, F, s) => End(h, s) = Build(F, s)
  <1>1. PICK A, b : A = Seq(Q) /\ b = <<>> OBVIOUS
  <1>2. StepOn(F, A, R) /\ b \in A BY <1>1 DEF StepOn, Builder
  <1>3. \A s : Build(F, s) = FoldF(F, b, s) BY <1>1 DEF Build
  <1>4. \A s, h : BuiltBy(h, Q, F, s) => Follows(h, A, F, b, s) BY <1>1 DEF BuiltBy, Follows
  <1>5. FoldF(F, b, <<>>) = b BY <1>2, FoldEmpty
  <1>6. \A s \in Seq(R) : FoldF(F, b, s) \in A BY <1>2, FoldType
  <1>7. \A s \in Seq(R), e \in R : FoldF(F, b, Append(s, e)) = F[<<FoldF(F, b, s), e>>]
    BY <1>2, FoldAppend
  <1>8. \A s \in Seq(R) : \A h : Follows(h, A, F, b, s) => End(h, s) = FoldF(F, b, s) BY <1>2, FoldAgrees
  <1>9. Build(F, <<>>) = <<>> BY <1>1, <1>3, <1>5
  <1>10. \A s \in Seq(R) : Build(F, s) \in Seq(Q) BY <1>1, <1>3, <1>6
  <1>11. \A s \in Seq(R), e \in R : Build(F, Append(s, e)) = F[<<Build(F, s), e>>] BY <1>3, <1>7
  <1>12. \A s \in Seq(R) : \A h : BuiltBy(h, Q, F, s) => End(h, s) = Build(F, s) BY <1>3, <1>4, <1>8
  <1> QED BY <1>9, <1>10, <1>11, <1>12

(* What a builder makes of one element more.                               *)
LEMMA BuildAppend ==
  ASSUME NEW Q, NEW R, NEW F, Builder(F, Q, R), NEW s \in Seq(R), NEW e \in R
  PROVE  Build(F, Append(s, e)) = F[<<Build(F, s), e>>]
  BY BuildFacts

(* A set with the empty sequence, and with every Append to a sequence      *)
(* whenever with the sequence, has them all.                               *)
LEMMA AppendInduction ==
  ASSUME NEW R, NEW X, <<>> \in X, \A s \in Seq(R), e \in R : s \in X => Append(s, e) \in X
  PROVE  Seq(R) \subseteq X
  <1> DEFINE Y == {n \in Nat : \A s \in Seq(R) : Len(s) = n => s \in X}
  <1>1. 0 \in Y
    <2>1. \A s \in Seq(R) : Len(s) = 0 => s = <<>> OBVIOUS
    <2> QED BY <2>1
  <1>2. ASSUME NEW n \in Nat, n \in Y PROVE n + 1 \in Y
    <2> SUFFICES ASSUME NEW s \in Seq(R), Len(s) = n + 1 PROVE s \in X OBVIOUS
    <2> DEFINE t == SubSeq(s, 1, n)
    <2>1. t \in Seq(R) /\ Len(t) = n /\ s[n + 1] \in R BY <1>2
    <2>2. s = Append(t, s[n + 1]) BY <1>2
    <2>3. t \in X BY <1>2, <2>1
    <2> HIDE DEF t
    <2>4. Append(t, s[n + 1]) \in X BY <2>1, <2>3
    <2> QED BY <2>2, <2>4
  <1> HIDE DEF Y
  <1>3. Nat \subseteq Y BY <1>1, <1>2, SetInduction
  <1> QED BY <1>3 DEF Y

(* A function on a finite set that is not empty has a greatest value.      *)
LEMMA FiniteMax ==
  ASSUME NEW S, IsFiniteSet(S), S # {}, NEW f \in [S -> Nat]
  PROVE  \E s \in S : \A t \in S : f[t] <= f[s]
  <1> DEFINE X == {n \in Nat : \A h \in [1..n -> Nat] : n > 0 => \E i \in 1..n : \A j \in 1..n : h[j] <= h[i]}
  <1>1. 0 \in X OBVIOUS
  <1>2. ASSUME NEW n \in Nat, n \in X PROVE n + 1 \in X
    <2>0. n + 1 \in Nat OBVIOUS
    <2> SUFFICES \A h \in [1..n + 1 -> Nat] : \E i \in 1..n + 1 : \A j \in 1..n + 1 : h[j] <= h[i]
      BY <2>0
    <2> TAKE h \in [1..n + 1 -> Nat]
    <2>1. CASE n = 0 BY <2>1
    <2>2. CASE n > 0
      <3> DEFINE g == [i \in 1..n |-> h[i]]
      <3>1. g \in [1..n -> Nat] OBVIOUS
      <3>2. PICK i \in 1..n : \A j \in 1..n : g[j] <= g[i] BY <1>2, <2>2, <3>1
      <3>3. \A j \in 1..n : h[j] <= h[i] BY <3>2
      <3>4. h[i] \in Nat /\ h[n + 1] \in Nat OBVIOUS
      <3>5. CASE h[n + 1] <= h[i]
        <4>1. \A j \in 1..n + 1 : h[j] <= h[i] BY <3>3, <3>5
        <4> QED BY <4>1
      <3>6. CASE h[i] <= h[n + 1]
        <4>1. \A j \in 1..n + 1 : h[j] <= h[n + 1] BY <3>3, <3>4, <3>6
        <4> QED BY <4>1
      <3> QED BY <3>4, <3>5, <3>6
    <2> QED BY <2>1, <2>2
  <1> HIDE DEF X
  <1>3. Nat \subseteq X BY <1>1, <1>2, SetInduction
  <1>4. PICK n \in Nat : ExistsSurjection(1..n, S) BY FS_NatSurjection
  <1>5. PICK g \in Surjection(1..n, S) : TRUE BY <1>4 DEF ExistsSurjection
  <1>6. g \in [1..n -> S] /\ \A s \in S : \E i \in 1..n : g[i] = s BY <1>5 DEF Surjection
  <1>7. n > 0 BY <1>6
  <1> DEFINE h == [i \in 1..n |-> f[g[i]]]
  <1>8. h \in [1..n -> Nat] BY <1>6
  <1> HIDE DEF h
  <1>9. PICK i \in 1..n : \A j \in 1..n : h[j] <= h[i] BY <1>3, <1>7, <1>8 DEF X
  <1>10. \A t \in S : f[t] <= f[g[i]] BY <1>6, <1>9 DEF h
  <1> QED BY <1>6, <1>10
===============================================================================
