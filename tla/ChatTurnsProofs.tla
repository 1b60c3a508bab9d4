--------------------------- MODULE ChatTurnsProofs ---------------------------
(* Proofs about the chat of Serving, for every scene.                      *)
EXTENDS ServingProofs, ModelActivityProofs, FoldLemmas

(* What the folds of the model compute, for a sequence with elements in R: *)
(* each takes its steps by a function, whose induction is FoldLemmas'.     *)
KeepIn(R, S) == [p \in Seq(R) \X R |-> p[1] \o (IF p[2] \in S THEN <<p[2]>> ELSE <<>>)]
KeepNew(R) == [p \in Seq(R) \X R |->
                 IF \E i \in 1..Len(p[1]) : p[1][i].role = p[2].role /\ p[1][i].text = p[2].text
                 THEN p[1] ELSE Append(p[1], p[2])]
KeepLast(R) == [p \in Seq(R) \X R |->
                  IF p[2].role = "user" /\ p[1] # <<>> /\ Last(p[1]).role = "user"
                  THEN Append(Front(p[1]), p[2]) ELSE Append(p[1], p[2])]

LEMMA KeepInBuilds == ASSUME NEW R, NEW S PROVE Builder(KeepIn(R, S), R, R)
  BY DEF KeepIn, Builder

LEMMA KeepNewBuilds == ASSUME NEW R PROVE Builder(KeepNew(R), R, R)
  BY DEF KeepNew, Builder

LEMMA KeepLastBuilds == ASSUME NEW R PROVE Builder(KeepLast(R), R, R)
  <1>1. \A a \in Seq(R) : a # <<>> => Front(a) \in Seq(R) BY DEF Front
  <1> QED BY <1>1 DEF KeepLast, Builder

LEMMA OnlyIsBuilt ==
  ASSUME NEW R, NEW S, NEW s \in Seq(R)
  PROVE  Only(s, S) = Build(KeepIn(R, S), s)
  <1> DEFINE F == KeepIn(R, S)
             f(a, e) == a \o (IF e \in S THEN <<e>> ELSE <<>>)
             Eq(h) == h = [T \in SUBSET (1..Len(s)) |-> IF T = {} THEN <<>> ELSE f(h[T \ {Max(T)}], s[Max(T)])]
             h == CHOOSE h : Eq(h)
  <1>1. DOMAIN s = 1..Len(s) /\ Len(s) \in Nat /\ <<>> \in Seq(R) OBVIOUS
  <1>2. Only(s, S) = End(h, s) BY <1>1 DEF Only, FoldLeft, MapThenFoldSet, End
  <1>3. Builder(F, R, R) BY KeepInBuilds
  <1>4. \A T \in SUBSET (1..Len(s)) : T # {} => s[Max(T)] \in R /\ T \ {Max(T)} \in SUBSET (1..Len(s))
    BY <1>1, MaxIn
  <1>5. \A a \in Seq(R), e \in R : F[<<a, e>>] = f(a, e) BY DEF KeepIn
  <1> HIDE DEF F, f
  <1>6. \E g : Eq(g)
    <2>1. Len(s) \in 0..Len(s) /\ F \in [Seq(R) \X R -> Seq(R)] BY <1>1, <1>3 DEF Builder
    <2>2. PICK g \in [SUBSET (1..Len(s)) -> Seq(R)] : Runs(g, F, <<>>, s, Len(s))
      BY <1>1, <2>1, RunExists
    <2>3. \A T \in SUBSET (1..Len(s)) : g[T] = RunStep(g, F, <<>>, s, T) BY <2>2 DEF Runs
    <2>4. \A T \in SUBSET (1..Len(s)) : g[T] = IF T = {} THEN <<>> ELSE f(g[T \ {Max(T)}], s[Max(T)])
      BY <1>4, <1>5, <2>3 DEF RunStep
    <2> QED BY <2>4
  <1>7. Eq(h) BY <1>6
  <1> HIDE DEF h
  <1>8. h[{}] = <<>> BY <1>7
  <1>9. \A T \in SUBSET (1..Len(s)) : T # {} => h[T] = f(h[T \ {Max(T)}], s[Max(T)]) BY <1>7
  <1>10. BuiltBy(h, R, F, s) BY <1>4, <1>5, <1>8, <1>9 DEF BuiltBy
  <1>11. End(h, s) = Build(F, s) BY <1>3, <1>10, BuildFacts
  <1> QED BY <1>2, <1>11 DEF F

LEMMA DeduplicatedIsBuilt ==
  ASSUME NEW R, NEW s \in Seq(R)
  PROVE  Deduplicated(s) = Build(KeepNew(R), s)
  <1> DEFINE F == KeepNew(R)
             f(a, e) == IF \E i \in 1..Len(a) : a[i].role = e.role /\ a[i].text = e.text
                        THEN a ELSE Append(a, e)
             Eq(h) == h = [T \in SUBSET (1..Len(s)) |-> IF T = {} THEN <<>> ELSE f(h[T \ {Max(T)}], s[Max(T)])]
             h == CHOOSE h : Eq(h)
  <1>1. DOMAIN s = 1..Len(s) /\ Len(s) \in Nat /\ <<>> \in Seq(R) OBVIOUS
  <1>2. Deduplicated(s) = End(h, s) BY <1>1 DEF Deduplicated, FoldLeft, MapThenFoldSet, End
  <1>3. Builder(F, R, R) BY KeepNewBuilds
  <1>4. \A T \in SUBSET (1..Len(s)) : T # {} => s[Max(T)] \in R /\ T \ {Max(T)} \in SUBSET (1..Len(s))
    BY <1>1, MaxIn
  <1>5. \A a \in Seq(R), e \in R : F[<<a, e>>] = f(a, e) BY DEF KeepNew
  <1> HIDE DEF F, f
  <1>6. \E g : Eq(g)
    <2>1. Len(s) \in 0..Len(s) /\ F \in [Seq(R) \X R -> Seq(R)] BY <1>1, <1>3 DEF Builder
    <2>2. PICK g \in [SUBSET (1..Len(s)) -> Seq(R)] : Runs(g, F, <<>>, s, Len(s))
      BY <1>1, <2>1, RunExists
    <2>3. \A T \in SUBSET (1..Len(s)) : g[T] = RunStep(g, F, <<>>, s, T) BY <2>2 DEF Runs
    <2>4. \A T \in SUBSET (1..Len(s)) : g[T] = IF T = {} THEN <<>> ELSE f(g[T \ {Max(T)}], s[Max(T)])
      BY <1>4, <1>5, <2>3 DEF RunStep
    <2> QED BY <2>4
  <1>7. Eq(h) BY <1>6
  <1> HIDE DEF h
  <1>8. h[{}] = <<>> BY <1>7
  <1>9. \A T \in SUBSET (1..Len(s)) : T # {} => h[T] = f(h[T \ {Max(T)}], s[Max(T)]) BY <1>7
  <1>10. BuiltBy(h, R, F, s) BY <1>4, <1>5, <1>8, <1>9 DEF BuiltBy
  <1>11. End(h, s) = Build(F, s) BY <1>3, <1>10, BuildFacts
  <1> QED BY <1>2, <1>11 DEF F

LastOfUsers(ms) ==
    FoldLeft(LAMBDA acc, m : IF m.role = "user" /\ acc # <<>> /\ Last(acc).role = "user"
                             THEN Append(Front(acc), m) ELSE Append(acc, m),
             <<>>, ms)

LEMMA LastOfUsersIsBuilt ==
  ASSUME NEW R, NEW s \in Seq(R)
  PROVE  LastOfUsers(s) = Build(KeepLast(R), s)
  <1> DEFINE F == KeepLast(R)
             f(a, e) == IF e.role = "user" /\ a # <<>> /\ Last(a).role = "user"
                        THEN Append(Front(a), e) ELSE Append(a, e)
             Eq(h) == h = [T \in SUBSET (1..Len(s)) |-> IF T = {} THEN <<>> ELSE f(h[T \ {Max(T)}], s[Max(T)])]
             h == CHOOSE h : Eq(h)
  <1>1. DOMAIN s = 1..Len(s) /\ Len(s) \in Nat /\ <<>> \in Seq(R) OBVIOUS
  <1>2. LastOfUsers(s) = End(h, s) BY <1>1 DEF LastOfUsers, FoldLeft, MapThenFoldSet, End
  <1>3. Builder(F, R, R) BY KeepLastBuilds
  <1>4. \A T \in SUBSET (1..Len(s)) : T # {} => s[Max(T)] \in R /\ T \ {Max(T)} \in SUBSET (1..Len(s))
    BY <1>1, MaxIn
  <1>5. \A a \in Seq(R), e \in R : F[<<a, e>>] = f(a, e) BY DEF KeepLast
  <1> HIDE DEF F, f
  <1>6. \E g : Eq(g)
    <2>1. Len(s) \in 0..Len(s) /\ F \in [Seq(R) \X R -> Seq(R)] BY <1>1, <1>3 DEF Builder
    <2>2. PICK g \in [SUBSET (1..Len(s)) -> Seq(R)] : Runs(g, F, <<>>, s, Len(s))
      BY <1>1, <2>1, RunExists
    <2>3. \A T \in SUBSET (1..Len(s)) : g[T] = RunStep(g, F, <<>>, s, T) BY <2>2 DEF Runs
    <2>4. \A T \in SUBSET (1..Len(s)) : g[T] = IF T = {} THEN <<>> ELSE f(g[T \ {Max(T)}], s[Max(T)])
      BY <1>4, <1>5, <2>3 DEF RunStep
    <2> QED BY <2>4
  <1>7. Eq(h) BY <1>6
  <1> HIDE DEF h
  <1>8. h[{}] = <<>> BY <1>7
  <1>9. \A T \in SUBSET (1..Len(s)) : T # {} => h[T] = f(h[T \ {Max(T)}], s[Max(T)]) BY <1>7
  <1>10. BuiltBy(h, R, F, s) BY <1>4, <1>5, <1>8, <1>9 DEF BuiltBy
  <1>11. End(h, s) = Build(F, s) BY <1>3, <1>10, BuildFacts
  <1> QED BY <1>2, <1>11 DEF F

IfIn(e, S) == IF e \in S THEN <<e>> ELSE <<>>

LEMMA OnlyFacts ==
  ASSUME NEW R, NEW S
  PROVE  /\ Only(<<>>, S) = <<>>
         /\ \A s \in Seq(R) : Only(s, S) \in Seq(R)
         /\ \A s \in Seq(R), e \in R : Only(Append(s, e), S) = Only(s, S) \o IfIn(e, S)
  <1>1. Builder(KeepIn(R, S), R, R) BY KeepInBuilds
  <1>2. <<>> \in Seq(R) OBVIOUS
  <1>3. \A s \in Seq(R) : Only(s, S) = Build(KeepIn(R, S), s) BY OnlyIsBuilt
  <1>4. Only(<<>>, S) = <<>> BY <1>1, <1>2, <1>3, BuildFacts
  <1>5. \A s \in Seq(R) : Only(s, S) \in Seq(R) BY <1>1, <1>3, BuildFacts
  <1>6. ASSUME NEW s \in Seq(R), NEW e \in R
        PROVE  Only(Append(s, e), S) = Only(s, S) \o IfIn(e, S)
    <2>1. Append(s, e) \in Seq(R) OBVIOUS
    <2>2. Only(Append(s, e), S) = KeepIn(R, S)[<<Only(s, S), e>>]
      <3>1. Build(KeepIn(R, S), Append(s, e)) = KeepIn(R, S)[<<Build(KeepIn(R, S), s), e>>]
        BY <1>1, BuildAppend
      <3> QED BY <1>3, <2>1, <3>1
    <2>3. Only(s, S) \in Seq(R) BY <1>5
    <2> QED BY <2>2, <2>3 DEF KeepIn, IfIn
  <1> QED BY <1>4, <1>5, <1>6

(* What is kept is in the set; what is in the set is kept; nothing is kept *)
(* of what is outside it; and it does not matter where a sequence is cut.  *)
LEMMA OnlyKeeps ==
  ASSUME NEW R, NEW S, NEW s \in Seq(R)
  PROVE  Only(s, S) \in Seq(R \cap S)
  <1>z. PICK Z : Z = R \cap S OBVIOUS
  <1> DEFINE X == {q \in Seq(R) : Only(q, S) \in Seq(Z)}
  <1>1. <<>> \in X
    <2>1. <<>> \in Seq(R) /\ <<>> \in Seq(Z) OBVIOUS
    <2> QED BY <2>1, OnlyFacts
  <1>2. ASSUME NEW q \in Seq(R), NEW e \in R, q \in X PROVE Append(q, e) \in X
    <2>1. Append(q, e) \in Seq(R) /\ Only(q, S) \in Seq(Z) BY <1>2
    <2>2. Only(Append(q, e), S) = Only(q, S) \o IfIn(e, S) BY OnlyFacts
    <2>3. IfIn(e, S) \in Seq(Z)
      <3>1. e \in S => e \in Z BY <1>z
      <3> QED BY <3>1 DEF IfIn
    <2>4. Only(q, S) \o IfIn(e, S) \in Seq(Z) BY <2>1, <2>3
    <2> QED BY <2>1, <2>2, <2>4
  <1> HIDE DEF X
  <1>3. Seq(R) \subseteq X BY <1>1, <1>2, AppendInduction
  <1> QED BY <1>3, <1>z DEF X

LEMMA OnlyAll ==
  ASSUME NEW S, NEW s \in Seq(S)
  PROVE  Only(s, S) = s
  <1> DEFINE X == {q \in Seq(S) : Only(q, S) = q}
  <1>1. <<>> \in X
    <2>1. <<>> \in Seq(S) OBVIOUS
    <2> QED BY <2>1, OnlyFacts
  <1>2. ASSUME NEW q \in Seq(S), NEW e \in S, q \in X PROVE Append(q, e) \in X
    <2>1. Append(q, e) \in Seq(S) /\ Append(q, e) = q \o <<e>> OBVIOUS
    <2>2. Only(Append(q, e), S) = Only(q, S) \o IfIn(e, S) BY OnlyFacts
    <2> QED BY <1>2, <2>1, <2>2 DEF IfIn
  <1> HIDE DEF X
  <1>3. Seq(S) \subseteq X BY <1>1, <1>2, AppendInduction
  <1> QED BY <1>3 DEF X

LEMMA OnlyNone ==
  ASSUME NEW R, NEW S, R \cap S = {}, NEW s \in Seq(R)
  PROVE  Only(s, S) = <<>>
  <1>1. Only(s, S) \in Seq({}) BY OnlyKeeps
  <1> QED BY <1>1

LEMMA OnlyConcat ==
  ASSUME NEW R, NEW S, NEW s \in Seq(R), NEW t \in Seq(R)
  PROVE  Only(s \o t, S) = Only(s, S) \o Only(t, S)
  <1> DEFINE X == {q \in Seq(R) : Only(s \o q, S) = Only(s, S) \o Only(q, S)}
  <1>a. Only(s, S) \in Seq(R) BY OnlyFacts
  <1>1. <<>> \in X
    <2>1. <<>> \in Seq(R) /\ s \o <<>> = s /\ Only(s, S) \o <<>> = Only(s, S) BY <1>a
    <2>2. Only(<<>>, S) = <<>> BY OnlyFacts
    <2> QED BY <2>1, <2>2
  <1>2. ASSUME NEW q \in Seq(R), NEW e \in R, q \in X PROVE Append(q, e) \in X
    <2>1. Append(q, e) \in Seq(R) /\ s \o q \in Seq(R) /\ s \o Append(q, e) = Append(s \o q, e) OBVIOUS
    <2>2. Only(Append(q, e), S) = Only(q, S) \o IfIn(e, S) BY OnlyFacts
    <2>3. Only(Append(s \o q, e), S) = Only(s \o q, S) \o IfIn(e, S) BY <2>1, OnlyFacts
    <2>4. Only(q, S) \in Seq(R) BY OnlyFacts
    <2>7. IfIn(e, S) \in Seq(R) BY DEF IfIn
    <2>5. (Only(s, S) \o Only(q, S)) \o IfIn(e, S) = Only(s, S) \o (Only(q, S) \o IfIn(e, S))
      BY <1>a, <2>4, <2>7
    <2>6. Only(s \o q, S) = Only(s, S) \o Only(q, S) BY <1>2
    <2> QED BY <2>1, <2>2, <2>3, <2>5, <2>6
  <1> HIDE DEF X
  <1>3. Seq(R) \subseteq X BY <1>1, <1>2, AppendInduction
  <1> QED BY <1>3 DEF X

-----------------------------------------------------------------------------
Same(m, k) == m.role = k.role /\ m.text = k.text

(* get_history_by_chat_id (chat_history.py) keeps each text of a role      *)
(* once, and loses none of them, for histories of any length.              *)
THEOREM DeduplicatedKeepsOne ==
  ASSUME NEW R, NEW ms \in Seq(R)
  PROVE  /\ Deduplicated(ms) \in Seq(R)
         /\ \A i, j \in 1..Len(Deduplicated(ms)) :
               Same(Deduplicated(ms)[i], Deduplicated(ms)[j]) => i = j
         /\ \A i \in 1..Len(ms) : \E j \in 1..Len(Deduplicated(ms)) : Same(Deduplicated(ms)[j], ms[i])
  <1> DEFINE Once(d) == \A i, j \in 1..Len(d) : Same(d[i], d[j]) => i = j
             Covers(d, q) == \A i \in 1..Len(q) : \E j \in 1..Len(d) : Same(d[j], q[i])
             X == {q \in Seq(R) : Once(Deduplicated(q)) /\ Covers(Deduplicated(q), q)}
  <1>1. Builder(KeepNew(R), R, R) BY KeepNewBuilds
  <1>2. \A q \in Seq(R) : Deduplicated(q) = Build(KeepNew(R), q) BY DeduplicatedIsBuilt
  <1>3. \A q \in Seq(R) : Deduplicated(q) \in Seq(R) BY <1>1, <1>2, BuildFacts
  <1>4. <<>> \in X
    <2>1. <<>> \in Seq(R) OBVIOUS
    <2>2. Deduplicated(<<>>) = <<>> BY <1>1, <1>2, <2>1, BuildFacts
    <2> QED BY <2>1, <2>2
  <1>5. ASSUME NEW q \in Seq(R), NEW e \in R, q \in X PROVE Append(q, e) \in X
    <2>1. Append(q, e) \in Seq(R) /\ Len(Append(q, e)) = Len(q) + 1 /\ Append(q, e)[Len(q) + 1] = e
          /\ \A i \in 1..Len(q) : Append(q, e)[i] = q[i]
      <3> HIDE DEF Once, Covers, X
      <3>1. q \in Seq(R) /\ e \in R OBVIOUS
      <3>2. Append(q, e) \in Seq(R) BY <3>1
      <3>3. Len(Append(q, e)) = Len(q) + 1 BY <3>1
      <3>4. Append(q, e)[Len(q) + 1] = e BY <3>1
      <3>5. \A i \in 1..Len(q) : Append(q, e)[i] = q[i] BY <3>1
      <3> QED BY ONLY <3>2, <3>3, <3>4, <3>5, Zenon
    <2>2. PICK d \in Seq(R) : d = Deduplicated(q) BY <1>3
    <2>3. Build(KeepNew(R), Append(q, e)) = KeepNew(R)[<<Build(KeepNew(R), q), e>>]
      <3> HIDE DEF Once, Covers, X
      <3>1. q \in Seq(R) /\ e \in R OBVIOUS
      <3> QED BY ONLY <1>1, <3>1, BuildAppend, SMTT(20)
    <2>4. Deduplicated(Append(q, e)) = KeepNew(R)[<<d, e>>] BY <1>2, <2>1, <2>2, <2>3
    <2>5. Deduplicated(Append(q, e)) = IF \E i \in 1..Len(d) : Same(d[i], e) THEN d ELSE Append(d, e)
      BY <2>4 DEF KeepNew, Same
    <2>6. Once(d) /\ Covers(d, q) BY <1>5, <2>2
    <2>7. CASE \E i \in 1..Len(d) : Same(d[i], e)
      <3>1. Covers(d, Append(q, e)) BY <2>1, <2>6, <2>7
      <3> QED BY <2>1, <2>5, <2>6, <2>7, <3>1
    <2>8. CASE ~\E i \in 1..Len(d) : Same(d[i], e)
      <3> DEFINE c == Append(d, e)
      <3>1. /\ Len(c) = Len(d) + 1 /\ c[Len(d) + 1] = e /\ Len(d) \in Nat /\ Len(q) \in Nat
            /\ \A i \in 1..Len(d) : c[i] = d[i]
        OBVIOUS
      <3> HIDE DEF c
      <3>2. \A i \in 1..Len(d) : ~Same(c[i], e) /\ ~Same(e, c[i]) BY <2>8, <3>1 DEF Same
      <3>3. Once(c) BY <2>6, <3>1, <3>2
      <3>4. Covers(c, Append(q, e))
        <4> SUFFICES ASSUME NEW i \in 1..Len(Append(q, e))
                     PROVE  \E j \in 1..Len(c) : Same(c[j], Append(q, e)[i])
          OBVIOUS
        <4>1. CASE i \in 1..Len(q)
          <5>1. PICK j \in 1..Len(d) : Same(d[j], q[i]) BY <2>6, <4>1
          <5>2. j \in 1..Len(c) /\ c[j] = d[j] BY <3>1
          <5> QED BY <2>1, <4>1, <5>1, <5>2
        <4>2. CASE i = Len(q) + 1
          <5>1. Len(d) + 1 \in 1..Len(c) BY <3>1
          <5> QED BY <2>1, <3>1, <4>2, <5>1 DEF Same
        <4> QED BY <2>1, <3>1, <4>1, <4>2
      <3>5. Deduplicated(Append(q, e)) = c BY <2>5, <2>8 DEF c
      <3> QED BY <2>1, <3>3, <3>4, <3>5
    <2> QED BY <2>7, <2>8
  <1> HIDE DEF X
  <1>6. ms \in X BY <1>4, <1>5, AppendInduction
  <1> QED BY <1>3, <1>6 DEF X

NoErrorIn(m) == m.role = "user" \/ m.text # ErrorText

(* _sanitise (memory.py): of a history of any length, no error answer is   *)
(* left, and no user turn follows another.                                 *)
THEOREM SanitisedIsClean ==
  ASSUME NEW R \in SUBSET Message, NEW ms \in Seq(R)
  PROVE  /\ Sanitised(ms) \in Seq(R)
         /\ \A i \in 1..Len(Sanitised(ms)) : NoErrorIn(Sanitised(ms)[i])
         /\ \A i \in 1..Len(Sanitised(ms)) - 1 :
               ~(Sanitised(ms)[i].role = "user" /\ Sanitised(ms)[i + 1].role = "user")
  <1> DEFINE K == {m \in Message : NoErrorIn(m)}
             Apart(d) == \A i \in 1..Len(d) - 1 : ~(d[i].role = "user" /\ d[i + 1].role = "user")
  <1>z. PICK Z : Z = R \cap K OBVIOUS
  <1> DEFINE X == {q \in Seq(Z) : Apart(LastOfUsers(q))}
  <1>1. Sanitised(ms) = LastOfUsers(Only(ms, K)) BY DEF Sanitised, LastOfUsers, NoErrorIn
  <1>2. Only(ms, K) \in Seq(Z) BY <1>z, OnlyKeeps
  <1>3. Builder(KeepLast(Z), Z, Z) BY KeepLastBuilds
  <1>4. \A q \in Seq(Z) : LastOfUsers(q) = Build(KeepLast(Z), q) BY LastOfUsersIsBuilt
  <1>5. \A q \in Seq(Z) : LastOfUsers(q) \in Seq(Z) BY <1>3, <1>4, BuildFacts
  <1>6. <<>> \in X
    <2>1. <<>> \in Seq(Z) OBVIOUS
    <2>2. LastOfUsers(<<>>) = <<>> BY <1>3, <1>4, <2>1, BuildFacts
    <2> QED BY <2>1, <2>2
  <1>7. ASSUME NEW q \in Seq(Z), NEW e \in Z, q \in X PROVE Append(q, e) \in X
    <2>1. Append(q, e) \in Seq(Z) OBVIOUS
    <2>2. PICK d \in Seq(Z) : d = LastOfUsers(q) BY <1>5
    <2>3. Build(KeepLast(Z), Append(q, e)) = KeepLast(Z)[<<Build(KeepLast(Z), q), e>>]
      BY <1>3, BuildAppend
    <2>4. LastOfUsers(Append(q, e)) = KeepLast(Z)[<<d, e>>] BY <1>4, <2>1, <2>2, <2>3
    <2>5. Apart(d) BY <1>7, <2>2
    <2>6. CASE e.role = "user" /\ d # <<>> /\ Last(d).role = "user"
      <3>1. LastOfUsers(Append(q, e)) = Append(Front(d), e) BY <2>4, <2>6 DEF KeepLast
      <3> DEFINE c == Append(Front(d), e)
      <3>2. /\ Len(c) = Len(d) /\ Len(d) \in Nat \ {0} /\ \A i \in 1..Len(d) - 1 : c[i] = d[i]
            /\ Last(d) = d[Len(d)]
        <4>1. Len(d) \in Nat \ {0} /\ Last(d) = d[Len(d)] BY <2>6 DEF Last
        <4>2. PICK f : f = Front(d) OBVIOUS
        <4>3. f \in Seq(Z) /\ Len(f) = Len(d) - 1 /\ \A i \in 1..Len(d) - 1 : f[i] = d[i]
          <5>1. PICK n \in Nat : n = Len(d) - 1 BY <4>1
          <5>2. f = SubSeq(d, 1, n) BY <4>2, <5>1 DEF Front
          <5>3. \A i \in 1..n : d[i] \in Z BY <4>1, <5>1
          <5>4. /\ f \in Seq(Z) /\ Len(f) = IF 1 <= n THEN n - 1 + 1 ELSE 0
                /\ \A i \in 1..n - 1 + 1 : f[i] = d[1 + i - 1]
            BY <5>2, <5>3, SubSeqProperties
          <5>5. n - 1 + 1 = n /\ \A i \in 1..n : 1 + i - 1 = i BY <5>1
          <5>6. Len(f) = n BY <5>1, <5>4
          <5>7. \A i \in 1..n : f[i] = d[i] BY <5>4, <5>5
          <5> QED BY <5>1, <5>4, <5>6, <5>7
        <4> QED BY <4>1, <4>2, <4>3
      <3> HIDE DEF c
      <3>3. ASSUME NEW i \in 1..Len(c) - 1 PROVE ~(c[i].role = "user" /\ c[i + 1].role = "user")
        <4>1. CASE i + 1 \in 1..Len(d) - 1 BY <2>5, <3>2, <4>1
        <4>2. CASE i + 1 = Len(d)
          <5>1. i \in 1..Len(d) - 1 /\ ~(d[i].role = "user" /\ d[i + 1].role = "user") BY <2>5, <3>2
          <5> QED BY <2>6, <3>2, <4>2, <5>1
        <4> QED BY <3>2, <4>1, <4>2
      <3> QED BY <2>1, <3>1, <3>3 DEF c
    <2>7. CASE ~(e.role = "user" /\ d # <<>> /\ Last(d).role = "user")
      <3>1. LastOfUsers(Append(q, e)) = Append(d, e) BY <2>4, <2>7 DEF KeepLast
      <3> DEFINE c == Append(d, e)
      <3>2. /\ Len(c) = Len(d) + 1 /\ Len(d) \in Nat /\ \A i \in 1..Len(d) : c[i] = d[i]
            /\ c[Len(d) + 1] = e
        OBVIOUS
      <3>3. d # <<>> => Last(d) = d[Len(d)] BY DEF Last
      <3>4. Len(d) > 0 => d # <<>> OBVIOUS
      <3> HIDE DEF c
      <3>5. ASSUME NEW i \in 1..Len(c) - 1 PROVE ~(c[i].role = "user" /\ c[i + 1].role = "user")
        <4>1. CASE i + 1 \in 1..Len(d) BY <2>5, <3>2, <4>1
        <4>2. CASE i = Len(d) BY <2>7, <3>2, <3>3, <3>4, <4>2
        <4> QED BY <3>2, <4>1, <4>2
      <3> QED BY <2>1, <3>1, <3>5 DEF c
    <2> QED BY <2>6, <2>7
  <1> HIDE DEF X
  <1>8. Only(ms, K) \in X BY <1>2, <1>6, <1>7, AppendInduction
  <1>9. PICK d \in Seq(Z) : d = Sanitised(ms) /\ Apart(d) BY <1>1, <1>2, <1>5, <1>8 DEF X
  <1>10. \A i \in 1..Len(d) : d[i] \in R /\ NoErrorIn(d[i]) BY <1>z
  <1>11. d \in Seq(R) BY <1>z
  <1> QED BY <1>9, <1>10, <1>11

-----------------------------------------------------------------------------
(* What a load returns is made of what is stored.                          *)
Row(R) == [sess : Nat, msg : R]

LEMMA MessagesOf ==
  ASSUME NEW R, NEW rs \in Seq(Row(R))
  PROVE  /\ Messages(rs) \in Seq(R) /\ Len(Messages(rs)) = Len(rs)
         /\ \A i \in 1..Len(rs) : Messages(rs)[i] = rs[i].msg
  <1>0. Len(rs) \in Nat /\ \A i \in 1..Len(rs) : rs[i] \in Row(R) OBVIOUS
  <1>1. Len(rs) \in Nat /\ \A i \in 1..Len(rs) : rs[i].msg \in R BY <1>0 DEF Row
  <1>2. Messages(rs) = [i \in 1..Len(rs) |-> rs[i].msg] BY DEF Messages
  <1>3. Messages(rs) \in [1..Len(rs) -> R] BY <1>1, <1>2
  <1> QED BY <1>1, <1>2, <1>3

LEMMA LoadsAre ==
  ASSUME NEW R \in SUBSET Message, rows \in Seq(Row(R))
  PROVE  Loads \subseteq Seq(R)
  <1>1. \A id : RowsOf(id) \in Seq(Row(R)) BY OnlyFacts DEF RowsOf
  <1>2. AllRows \in Seq(Row(R)) BY OnlyFacts DEF AllRows
  <1>3. \A s : Stored(s) \in Seq(R)
    <2>1. \A id : Messages(RowsOf(id)) \in Seq(R) BY <1>1, MessagesOf
    <2>2. Messages(AllRows) \in Seq(R) BY <1>2, MessagesOf
    <2>3. Deduplicated(Messages(AllRows)) \in Seq(R) BY <2>2, DeduplicatedKeepsOne
    <2> QED BY <2>1, <2>3 DEF Stored
  <1>4. \A s : Sanitised(Stored(s)) \in Seq(R) BY <1>3, SanitisedIsClean
  <1>5. <<>> \in Seq(R) OBVIOUS
  <1> QED BY <1>4, <1>5 DEF Loads

LEMMA TrimmedIs ==
  ASSUME NEW R, NEW ms \in Seq(R), scene.keeps \in Nat
  PROVE  Trimmed(ms) \in Seq(R)
  <1>1. CASE Len(ms) <= scene.keeps BY <1>1 DEF Trimmed
  <1>2. CASE ~(Len(ms) <= scene.keeps)
    <2>1. PICK m \in Nat : m = Len(ms) - scene.keeps + 1 BY <1>2
    <2>2. PICK n \in Nat : n = Len(ms) OBVIOUS
    <2>3. \A i \in m..n : ms[i] \in R BY <1>2, <2>1, <2>2
    <2>4. SubSeq(ms, m, n) \in Seq(R) BY <2>3, SubSeqProperties
    <2> QED BY <1>2, <2>1, <2>2, <2>4 DEF Trimmed
  <1> QED BY <1>1, <1>2

(* The chat's part of a step.                                              *)
Thinks(u) ==
    \/ turn[u].at \in {"infer", "calling"} /\ \E o : Inferred(u, o)
    \/ /\ turn[u].at = "infer" /\ turn' = [turn EXCEPT ![u].at = "calling"]
       /\ UNCHANGED <<scene, pollVars, storeVars, chatHistory>>

Acts(u) == Load(u) \/ Thinks(u) \/ Save(u) \/ Rotate(u) \/ Open(u) \/ Count(u) \/ Insert(u) \/ Command(u)

LEMMA ChatMoves ==
  ASSUME [Next]_vars
  PROVE  UNCHANGED chatVars \/ (\E u \in Turns : Acts(u)) \/ PollStep \/ Send \/ ChatCrash
  <1>1. CASE Proceeds
    <2>1. CASE Polls BY <2>1 DEF Polls
    <2>2. ASSUME NEW u \in Turns, Chat(u) PROVE Acts(u)
      BY <2>2 DEF Chat, TurnStep, Acts, InferCloud, Thinks
    <2>3. ASSUME NEW u \in Turns, CallServer(u) PROVE Acts(u) BY <2>3 DEF CallServer, Acts, Thinks
    <2>4. ASSUME NEW u \in Turns, Returned(u) PROVE Acts(u) BY <2>4 DEF Returned, Acts, Thinks
    <2>5. ASSUME NEW p \in Peers, Marking(p) PROVE UNCHANGED chatVars BY <2>5 DEF Marking
    <2>6. ASSUME NEW c \in Callers, Serves(c) PROVE UNCHANGED chatVars BY <2>6 DEF Serves
    <2>7. CASE Engine \/ TimePasses BY <2>7 DEF Engine, TimePasses
    <2> QED BY <1>1, <2>1, <2>2, <2>3, <2>4, <2>5, <2>6, <2>7 DEF Proceeds
  <1>2. CASE Sends BY <1>2 DEF Sends
  <1>3. CASE Crash BY <1>3 DEF Crash
  <1>4. ASSUME NEW c \in Callers, TimesOut(c) PROVE UNCHANGED chatVars BY <1>4 DEF TimesOut
  <1>5. CASE UNCHANGED vars BY <1>5 DEF vars
  <1> QED BY <1>1, <1>2, <1>3, <1>4, <1>5 DEF Next

-----------------------------------------------------------------------------
(* Types.  What a turn holds at each place, and what is stored.            *)
TurnRecord == [at : Places, hist : Seq(Message), sess : Nat \cup {NoSession}, base : Nat, reply : Nat]
Session == [id : Nat, num : Nat \ {0}, open : BOOLEAN, count : Nat]

PollTypes ==
    /\ scene \in Scenes
    /\ sent \in 0..Len(scene.chat) /\ confirmed \in 0..sent
    /\ poll \in [at : {"down", "fetch", "persist", "write", "spawn"}, offset : 0..sent + 1, last : 0..sent]
    /\ poll.at \in {"persist", "write", "spawn"} => poll.offset >= 2
    /\ offsetFile \in 0..sent + 1

TurnOK(u) ==
    /\ turn[u] \in TurnRecord
    /\ turn[u].at # "none" => u \in 1..sent
    /\ turn[u].at \in {"count", "insert"} => turn[u].sess \in Nat

TurnTypes == DOMAIN turn = Turns /\ \A u \in Turns : TurnOK(u)

StoreTypes ==
    /\ rows \in Seq(Row(Message)) /\ window \in Seq(Message)
    /\ sessions \in SUBSET Session /\ IsFiniteSet(sessions)

ChatTypes == PollTypes /\ TurnTypes /\ StoreTypes

LEMMA SceneFacts ==
  ASSUME PollTypes
  PROVE  /\ Len(scene.chat) \in Nat /\ sent \in Nat
         /\ \A u \in 1..sent :
              /\ u \in Turns /\ Sent(u) \in Message
              /\ Kind(u) \in {"text", "photo", "session", "new", "fresh"}
              /\ scene.chat[u].text \in Nat /\ scene.chat[u].reply \in Nat
         /\ {scene.keeps, scene.crashes, scene.faults, scene.slips} \subseteq Nat
         /\ {ErrorText, Split} \subseteq Nat
  <1> DEFINE C == [kind : {"text", "photo", "session", "new", "fresh"}, text : Nat, reply : Nat]
  <1>1. scene \in Scenes /\ sent \in 0..Len(scene.chat) BY DEF PollTypes
  <1>2. scene.chat \in Seq(C) /\ 1..Len(scene.chat) \subseteq Turns BY <1>1, ChatAssumption
  <1> HIDE DEF C
  <1>3. {scene.keeps, scene.crashes, scene.faults, scene.slips} \subseteq Nat /\ {ErrorText, Split} \subseteq Nat
    BY <1>1, ChatAssumption
  <1>4. Len(scene.chat) \in Nat /\ sent \in Nat BY <1>1, <1>2
  <1>5. ASSUME NEW u \in 1..sent
        PROVE  /\ u \in Turns /\ Sent(u) \in Message
               /\ Kind(u) \in {"text", "photo", "session", "new", "fresh"}
               /\ scene.chat[u].text \in Nat /\ scene.chat[u].reply \in Nat
    <2>1. u \in 1..Len(scene.chat) BY <1>1, <1>4
    <2>2. u \in Turns /\ scene.chat[u] \in C BY <1>2, <2>1
    <2> DEFINE c == scene.chat[u]
    <2>3. /\ c.kind \in {"text", "photo", "session", "new", "fresh"}
          /\ c.text \in Nat /\ c.reply \in Nat
      BY <2>2 DEF C
    <2> HIDE DEF c
    <2>4. [role |-> "user", turn |-> u, text |-> c.text] \in Message BY <2>2, <2>3 DEF Message
    <2> QED BY <2>2, <2>3, <2>4 DEF Sent, Kind, c
  <1> QED BY <1>3, <1>4, <1>5

(* A step that leaves the poll loop and the other turns alone.             *)
LEMMA OneTurnMoves ==
  ASSUME PollTypes, TurnTypes, NEW u \in 1..sent, UNCHANGED <<scene, pollVars>>,
         DOMAIN turn' = Turns, \A v \in Turns \ {u} : turn'[v] = turn[v],
         turn'[u] \in TurnRecord, turn'[u].at \in {"count", "insert"} => turn'[u].sess \in Nat
  PROVE  PollTypes' /\ TurnTypes'
  <1>1. PollTypes' BY DEF PollTypes, pollVars
  <1>2. sent' = sent BY DEF pollVars
  <1>3. \A v \in Turns : TurnOK(v)' BY <1>2 DEF TurnOK, TurnTypes
  <1> QED BY <1>1, <1>3 DEF TurnTypes

LEMMA ImageIsFinite ==
  ASSUME NEW S, IsFiniteSet(S), NEW f
  PROVE  IsFiniteSet({f[x] : x \in S})
  <1> DEFINE T == {f[x] : x \in S}
             g == [x \in S |-> f[x]]
  <1>1. g \in Surjection(S, T) BY DEF Surjection
  <1> HIDE DEF g, T
  <1>2. IsFiniteSet(T) BY <1>1, FS_Surjection
  <1> QED BY <1>2 DEF T

LEMMA NewIdIsNew ==
  ASSUME ChatTypes
  PROVE  NewId \in Nat \ {0} /\ NewId \notin UsedIds
  <1>1. IsFiniteSet(UsedIds)
    <2>1. IsFiniteSet({s.id : s \in sessions})
      <3> DEFINE f == [s \in sessions |-> s.id]
      <3>1. {f[s] : s \in sessions} = {s.id : s \in sessions} OBVIOUS
      <3> HIDE DEF f
      <3> QED BY <3>1, ImageIsFinite DEF ChatTypes, StoreTypes
    <2>2. IsFiniteSet({rows[i].sess : i \in 1..Len(rows)})
      <3>1. Len(rows) \in Nat BY DEF ChatTypes, StoreTypes
      <3>2. IsFiniteSet(1..Len(rows)) BY <3>1, FS_Interval
      <3> DEFINE f == [i \in 1..Len(rows) |-> rows[i].sess]
      <3>3. {f[i] : i \in 1..Len(rows)} = {rows[i].sess : i \in 1..Len(rows)} OBVIOUS
      <3> HIDE DEF f
      <3> QED BY <3>2, <3>3, ImageIsFinite
    <2>3. IsFiniteSet({turn[u].sess : u \in Turns})
      <3> DEFINE f == [u \in Turns |-> turn[u].sess]
      <3>1. {f[u] : u \in Turns} = {turn[u].sess : u \in Turns} OBVIOUS
      <3> HIDE DEF f
      <3>2. IsFiniteSet(Turns) BY ChatAssumption
      <3> QED BY <3>1, <3>2, ImageIsFinite
    <2> QED BY <2>1, <2>2, <2>3, FS_Union DEF UsedIds
  <1> DEFINE k == Cardinality(UsedIds) + 1
  <1>2. Cardinality(UsedIds) \in Nat /\ k \in Nat BY <1>1, FS_CardinalityType
  <1>3. ~(1..k \subseteq UsedIds)
    <2> SUFFICES ASSUME 1..k \subseteq UsedIds PROVE FALSE OBVIOUS
    <2>1. Cardinality(1..k) <= Cardinality(UsedIds) BY <1>1, FS_Subset
    <2>2. Cardinality(1..k) = k BY <1>2, FS_Interval
    <2> QED BY <1>2, <2>1, <2>2
  <1>4. \E n \in 1..k : n \notin UsedIds BY <1>3
  <1>5. NewId \in 1..k /\ NewId \notin UsedIds BY <1>4 DEF NewId
  <1> QED BY <1>2, <1>5

-----------------------------------------------------------------------------
(* What is stored and in flight is made of R; what a turn adds is its own. *)
Data(R) ==
    /\ rows \in Seq(Row(R)) /\ window \in Seq(R)
    /\ \A u \in Running : turn[u].hist \in Seq(R)

Others(u) == DOMAIN turn' = Turns /\ \A v \in Turns \ {u} : turn'[v] = turn[v]

LEMMA NoTurnIs ==
  ASSUME NEW at \in Places
  PROVE  /\ NoTurn \in TurnRecord /\ [NoTurn EXCEPT !.at = at] \in TurnRecord
         /\ [NoTurn EXCEPT !.at = at].at = at /\ [NoTurn EXCEPT !.at = at].hist = <<>>
  <1>1. NoTurn \in TurnRecord /\ NoTurn.hist = <<>> BY DEF NoTurn, TurnRecord, Places, NoSession
  <1> QED BY <1>1 DEF TurnRecord

LEMMA SeqWithin == ASSUME NEW A, NEW B, A \subseteq B PROVE Seq(A) \subseteq Seq(B)
  OBVIOUS

LEMMA DataIsTyped ==
  ASSUME NEW R \in SUBSET Message
  PROVE  /\ \A s \in Seq(R) : s \in Seq(Message)
         /\ \A s \in Seq(Row(R)) : s \in Seq(Row(Message))
  <1>1. Row(R) \subseteq Row(Message) BY DEF Row
  <1> QED BY <1>1, SeqWithin

(* The turn of a step: who it is, and that it is in flight.                *)
LEMMA Acting ==
  ASSUME ChatTypes, NEW u \in Turns, Acts(u)
  PROVE  u \in Running /\ u \in 1..sent /\ turn[u] \in TurnRecord
  <1>1. turn[u].at \notin {"none", "done", "cut"}
    BY DEF Acts, Load, Thinks, Save, Rotate, Open, Count, Insert, Command
  <1> QED BY <1>1 DEF Running, ChatTypes, TurnTypes, TurnOK

LEMMA DataMoves ==
  ASSUME NEW R, Data(R), TurnTypes, NEW u \in Running, Others(u),
         rows' \in Seq(Row(R)), window' \in Seq(R),
         turn'[u].at \notin {"none", "done", "cut"} => turn'[u].hist \in Seq(R)
  PROVE  Data(R)'
  <1>1. Running' \subseteq Running BY DEF Running, Others
  <1>2. \A v \in Running' : turn'[v].hist \in Seq(R) BY <1>1 DEF Data, Others, Running
  <1> QED BY <1>2 DEF Data

LEMMA LoadKeeps ==
  ASSUME ChatTypes, NEW u \in Turns, Load(u), NEW R \in SUBSET Message, Data(R),
         \A m \in Message : m.turn = u => m \in R
  PROVE  ChatTypes' /\ Data(R)'
  <1>0. Acts(u) BY DEF Acts
  <1>1. u \in Running /\ u \in 1..sent /\ turn[u] \in TurnRecord BY <1>0, Acting
  <1>2. PICK loaded \in IF May("faults") THEN Loads \cup {Sanitised(window)} ELSE Loads :
          LET text == Kind(u) = "text"
              hist == IF text THEN Trimmed(loaded) ELSE loaded IN
          /\ turn' = [turn EXCEPT ![u].at = IF text THEN "infer" ELSE "save", ![u].hist = hist]
          /\ window' = IF text THEN Append(hist, Sent(u)) ELSE IF loaded = <<>> THEN window ELSE loaded
    BY DEF Load
  <1>3. loaded \in Seq(R)
    <2>1. Loads \subseteq Seq(R) BY LoadsAre DEF Data
    <2>2. Sanitised(window) \in Seq(R) BY SanitisedIsClean DEF Data
    <2> QED BY <1>2, <2>1, <2>2
  <1>4. PICK hist : hist = IF Kind(u) = "text" THEN Trimmed(loaded) ELSE loaded OBVIOUS
  <1>5. hist \in Seq(R) /\ hist \in Seq(Message)
    <2>1. scene.keeps \in Nat BY SceneFacts DEF ChatTypes
    <2>2. hist \in Seq(R) BY <1>3, <1>4, <2>1, TrimmedIs
    <2> QED BY <2>2
  <1>6. PICK at \in {"infer", "save"} : turn' = [turn EXCEPT ![u].at = at, ![u].hist = hist]
    BY <1>2, <1>4
  <1>7. /\ Others(u)
        /\ turn'[u] = [at |-> at, hist |-> hist, sess |-> turn[u].sess, base |-> turn[u].base,
                       reply |-> turn[u].reply]
    BY <1>1, <1>6 DEF Others, TurnRecord, ChatTypes, TurnTypes
  <1>8. turn'[u] \in TurnRecord BY <1>1, <1>5, <1>7 DEF TurnRecord, Places
  <1>9. window' \in Seq(R)
    <2>1. Sent(u) \in R BY <1>1, SceneFacts DEF ChatTypes, Sent
    <2>2. Append(hist, Sent(u)) \in Seq(R) BY <1>5, <2>1
    <2>3. window \in Seq(R) BY DEF Data
    <2> QED BY <1>2, <1>3, <1>4, <2>2, <2>3
  <1>10. UNCHANGED <<scene, pollVars, rows, sessions>> BY DEF Load
  <1>11. PollTypes' /\ TurnTypes' BY <1>1, <1>7, <1>8, <1>10, OneTurnMoves DEF Others, ChatTypes
  <1>12. StoreTypes'
    <2>1. window' \in Seq(Message) BY <1>9, DataIsTyped
    <2> QED BY <1>10, <2>1 DEF ChatTypes, StoreTypes
  <1>13. Data(R)'
    <2>1. rows' \in Seq(Row(R)) BY <1>10 DEF Data
    <2>2. turn'[u].hist \in Seq(R) BY <1>5, <1>7
    <2>3. TurnTypes BY DEF ChatTypes
    <2> QED BY <1>1, <1>7, <1>9, <2>1, <2>2, <2>3, DataMoves
  <1> QED BY <1>11, <1>12, <1>13 DEF ChatTypes

LEMMA ThinkKeeps ==
  ASSUME ChatTypes, NEW u \in Turns, Thinks(u), NEW R \in SUBSET Message, Data(R)
  PROVE  ChatTypes' /\ Data(R)'
  <1>0. Acts(u) BY DEF Acts
  <1>1. u \in Running /\ u \in 1..sent /\ turn[u] \in TurnRecord BY <1>0, Acting
  <1>2. UNCHANGED <<scene, pollVars, storeVars>> BY DEF Thinks, Inferred
  <1>3. PICK at \in {"load", "save", "done", "calling"}, reply \in Nat :
          turn' = [turn EXCEPT ![u].at = at, ![u].reply = reply]
    <2>1. scene.chat[u].reply \in Nat /\ ErrorText \in Nat BY <1>1, SceneFacts DEF ChatTypes
    <2>2. ASSUME NEW o, Inferred(u, o)
          PROVE  \E at \in {"load", "save", "done", "calling"}, reply \in Nat :
                    turn' = [turn EXCEPT ![u].at = at, ![u].reply = reply]
      BY <2>1, <2>2 DEF Inferred
    <2>3. ASSUME turn' = [turn EXCEPT ![u].at = "calling"]
          PROVE  \E at \in {"load", "save", "done", "calling"}, reply \in Nat :
                    turn' = [turn EXCEPT ![u].at = at, ![u].reply = reply]
      <3>1. turn[u].reply \in Nat BY <1>1 DEF TurnRecord
      <3>2. turn' = [turn EXCEPT ![u].at = "calling", ![u].reply = turn[u].reply]
        BY <1>1, <2>3 DEF TurnRecord, ChatTypes, TurnTypes
      <3> QED BY <3>1, <3>2
    <2> QED BY <2>2, <2>3 DEF Thinks
  <1>4. /\ Others(u)
        /\ turn'[u] = [at |-> at, hist |-> turn[u].hist, sess |-> turn[u].sess, base |-> turn[u].base,
                       reply |-> reply]
    BY <1>1, <1>3 DEF Others, TurnRecord, ChatTypes, TurnTypes
  <1>5. turn'[u] \in TurnRecord BY <1>1, <1>3, <1>4 DEF TurnRecord, Places
  <1>6. PollTypes' /\ TurnTypes' BY <1>1, <1>2, <1>4, <1>5, OneTurnMoves DEF Others, ChatTypes
  <1>7. StoreTypes' BY <1>2 DEF ChatTypes, StoreTypes, storeVars
  <1>8. turn[u].hist \in Seq(R) BY <1>1 DEF Data
  <1>9. Data(R)' BY <1>1, <1>2, <1>4, <1>8, DataMoves, SMTT(20) DEF ChatTypes, Data, storeVars
  <1> QED BY <1>6, <1>7, <1>9 DEF ChatTypes

LEMMA ActiveIs ==
  ASSUME ChatTypes
  PROVE  Active \subseteq sessions /\ \A s \in Active : s.id \in Nat /\ s.num \in Nat
  <1>1. Active \subseteq sessions BY DEF Active
  <1> QED BY <1>1 DEF ChatTypes, StoreTypes, Session

LEMMA SaveKeeps ==
  ASSUME ChatTypes, NEW u \in Turns, Save(u), NEW R \in SUBSET Message, Data(R),
         \A m \in Message : m.turn = u => m \in R
  PROVE  ChatTypes' /\ Data(R)'
  <1>0. Acts(u) BY DEF Acts
  <1>1. u \in Running /\ u \in 1..sent /\ turn[u] \in TurnRecord BY <1>0, Acting
  <1>2. PICK messages : messages = turn[u].hist \o Pair(u) OBVIOUS
  <1>3. messages \in Seq(R) /\ messages \in Seq(Message)
    <2>1. Sent(u) \in Message /\ Sent(u).turn = u BY <1>1, SceneFacts DEF ChatTypes, Sent
    <2> DEFINE m == [role |-> "assistant", turn |-> u, text |-> turn[u].reply]
    <2>2. m \in Message /\ m.turn = u BY <1>1 DEF Message, TurnRecord
    <2> HIDE DEF m
    <2>3. Sent(u) \in R /\ m \in R BY <2>1, <2>2
    <2>4. Pair(u) \in Seq(R) BY <2>3 DEF Pair, m
    <2>5. turn[u].hist \in Seq(R) BY <1>1 DEF Data
    <2>6. messages \in Seq(R) BY <1>2, <2>4, <2>5
    <2> QED BY <2>6, DataIsTyped
  <1>4. window' = messages /\ UNCHANGED <<scene, pollVars, rows>> BY <1>2 DEF Save
  <1>5. sessions' \in SUBSET Session /\ IsFiniteSet(sessions')
    <2>1. \/ sessions' = sessions
          \/ sessions' = sessions \cup {[id |-> Chats, num |-> 1, open |-> TRUE, count |-> 0]}
      BY DEF Save
    <2> DEFINE s == [id |-> Chats, num |-> 1, open |-> TRUE, count |-> 0]
    <2>2. s \in Session BY DEF Session, Chats
    <2> HIDE DEF s
    <2>3. IsFiniteSet(sessions \cup {s}) BY FS_AddElement DEF ChatTypes, StoreTypes
    <2> QED BY <2>1, <2>2, <2>3 DEF ChatTypes, StoreTypes, s
  <1> DEFINE Saved == /\ Others(u) /\ turn'[u] \in TurnRecord
                      /\ turn'[u].at \in {"done", "rotate", "count"}
                      /\ turn'[u].at # "done" => turn'[u].hist = messages /\ turn'[u].sess \in Nat
             To(at, sess) == turn' = [turn EXCEPT ![u].at = at, ![u].hist = messages, ![u].sess = sess]
  <1>6. Saved
    <2>1. CASE turn' = [turn EXCEPT ![u] = [NoTurn EXCEPT !.at = "done"]]
      <3>1. Others(u) /\ turn'[u] = [NoTurn EXCEPT !.at = "done"]
        BY <1>1, <2>1 DEF Others, ChatTypes, TurnTypes
      <3>2. "done" \in Places BY DEF Places
      <3> QED BY <3>1, <3>2, NoTurnIs
    <2>2. ASSUME NEW at \in {"rotate", "count"}, NEW sess \in Nat, To(at, sess) PROVE Saved
      <3>1. /\ Others(u)
            /\ turn'[u] = [at |-> at, hist |-> messages, sess |-> sess, base |-> turn[u].base,
                           reply |-> turn[u].reply]
        BY <1>1, <2>2 DEF Others, TurnRecord, ChatTypes, TurnTypes
      <3> QED BY <1>1, <1>3, <3>1 DEF TurnRecord, Places
    <2>3. \/ turn' = [turn EXCEPT ![u] = [NoTurn EXCEPT !.at = "done"]]
          \/ To("count", Chats)
          \/ \E s \in Active : To(IF s.count >= Split THEN "rotate" ELSE "count", s.id)
      BY <1>2 DEF Save
    <2> HIDE DEF To, Saved
    <2>4. CASE \E s \in Active : To(IF s.count >= Split THEN "rotate" ELSE "count", s.id)
      <3>1. PICK s \in Active : To(IF s.count >= Split THEN "rotate" ELSE "count", s.id) BY <2>4
      <3>2. s.id \in Nat BY ActiveIs
      <3> QED BY <2>2, <3>1, <3>2
    <2>5. CASE To("count", Chats)
      <3>1. Chats \in Nat BY DEF Chats
      <3> QED BY <2>2, <2>5, <3>1
    <2> QED BY <2>1, <2>3, <2>4, <2>5
  <1>7. PollTypes' /\ TurnTypes' BY <1>1, <1>4, <1>6, OneTurnMoves DEF Others, ChatTypes
  <1>8. StoreTypes' BY <1>3, <1>4, <1>5 DEF ChatTypes, StoreTypes
  <1>9. Data(R)' BY <1>1, <1>3, <1>4, <1>6, DataMoves DEF ChatTypes, Data
  <1> QED BY <1>7, <1>8, <1>9 DEF ChatTypes

LEMMA RotateKeeps ==
  ASSUME ChatTypes, NEW u \in Turns, Rotate(u), NEW R \in SUBSET Message, Data(R)
  PROVE  ChatTypes' /\ Data(R)'
  <1>0. Acts(u) BY DEF Acts
  <1>1. u \in Running /\ u \in 1..sent /\ turn[u] \in TurnRecord BY <1>0, Acting
  <1>2. PICK sess \in Nat \cup {NoSession}, num \in Nat :
          turn' = [turn EXCEPT ![u].at = "open", ![u].sess = sess, ![u].base = num]
    <2>1. PICK p \in IF Active = {} THEN {[id |-> NoSession, num |-> 0]} ELSE Active :
            turn' = [turn EXCEPT ![u].at = "open", ![u].sess = p.id, ![u].base = p.num]
      BY DEF Rotate
    <2>2. p.id \in Nat \cup {NoSession} /\ p.num \in Nat BY ActiveIs
    <2> QED BY <2>1, <2>2
  <1>3. UNCHANGED <<scene, pollVars, storeVars>> BY DEF Rotate
  <1>4. /\ Others(u)
        /\ turn'[u] = [at |-> "open", hist |-> turn[u].hist, sess |-> sess, base |-> num,
                       reply |-> turn[u].reply]
    BY <1>1, <1>2 DEF Others, TurnRecord, ChatTypes, TurnTypes
  <1>5. turn'[u] \in TurnRecord BY <1>1, <1>4 DEF TurnRecord, Places
  <1>6. PollTypes' /\ TurnTypes' BY <1>1, <1>3, <1>4, <1>5, OneTurnMoves DEF Others, ChatTypes
  <1>7. StoreTypes' BY <1>3 DEF ChatTypes, StoreTypes, storeVars
  <1>8. turn[u].hist \in Seq(R) BY <1>1 DEF Data
  <1>9. Data(R)' BY <1>1, <1>3, <1>4, <1>8, DataMoves, SMTT(20) DEF ChatTypes, Data, storeVars
  <1> QED BY <1>6, <1>7, <1>9 DEF ChatTypes

LEMMA OpenKeeps ==
  ASSUME ChatTypes, NEW u \in Turns, Open(u), NEW R \in SUBSET Message, Data(R)
  PROVE  ChatTypes' /\ Data(R)'
  <1>0. Acts(u) BY DEF Acts
  <1>1. u \in Running /\ u \in 1..sent /\ turn[u] \in TurnRecord BY <1>0, Acting
  <1>2. NewId \in Nat BY NewIdIsNew
  <1>3. window' = <<>> /\ UNCHANGED <<scene, pollVars, rows>> BY DEF Open
  <1>4. /\ Others(u) /\ turn'[u] \in TurnRecord
        /\ \/ turn'[u].at = "done"
           \/ turn'[u].at = "count" /\ turn'[u].sess = NewId /\ turn'[u].hist = turn[u].hist
    <2>1. CASE turn' = [turn EXCEPT ![u] = [NoTurn EXCEPT !.at = "done"]]
      <3>1. Others(u) /\ turn'[u] = [NoTurn EXCEPT !.at = "done"]
        BY <1>1, <2>1 DEF Others, ChatTypes, TurnTypes
      <3>2. "done" \in Places BY DEF Places
      <3> QED BY <3>1, <3>2, NoTurnIs
    <2>2. CASE turn' = [turn EXCEPT ![u].at = "count", ![u].sess = NewId]
      <3>1. PICK id \in Nat : id = NewId BY <1>2
      <3>2. /\ Others(u)
            /\ turn'[u] = [at |-> "count", hist |-> turn[u].hist, sess |-> id, base |-> turn[u].base,
                           reply |-> turn[u].reply]
        BY <1>1, <2>2, <3>1 DEF Others, TurnRecord, ChatTypes, TurnTypes
      <3> QED BY <1>1, <3>1, <3>2 DEF TurnRecord, Places
    <2> QED BY <2>1, <2>2 DEF Open
  <1>5. sessions' \in SUBSET Session /\ IsFiniteSet(sessions')
    <2>1. PICK id \in Nat : id = NewId BY <1>2
    <2> DEFINE f == [s \in sessions |-> IF s.id = turn[u].sess THEN [s EXCEPT !.open = FALSE] ELSE s]
               n == [id |-> id, num |-> turn[u].base + 1, open |-> TRUE, count |-> 0]
    <2>2. sessions' = {f[s] : s \in sessions} \cup {n} BY <2>1 DEF Open
    <2>3. sessions \in SUBSET Session /\ IsFiniteSet(sessions) BY DEF ChatTypes, StoreTypes
    <2>4. \A s \in sessions : f[s] \in Session BY <2>3 DEF Session
    <2>5. n \in Session BY <1>1, <2>1 DEF Session, TurnRecord
    <2> HIDE DEF f, n
    <2>6. IsFiniteSet({f[s] : s \in sessions}) BY <2>3, ImageIsFinite
    <2>7. IsFiniteSet({f[s] : s \in sessions} \cup {n}) BY <2>6, FS_AddElement
    <2> QED BY <2>2, <2>4, <2>5, <2>7
  <1>6. PollTypes' /\ TurnTypes' BY <1>1, <1>2, <1>3, <1>4, OneTurnMoves DEF Others, ChatTypes
  <1>7. StoreTypes'
    <2>1. <<>> \in Seq(Message) OBVIOUS
    <2> QED BY <1>3, <1>5, <2>1 DEF ChatTypes, StoreTypes
  <1>8. turn[u].hist \in Seq(R) /\ <<>> \in Seq(R) BY <1>1 DEF Data
  <1>9. Data(R)' BY <1>1, <1>3, <1>4, <1>8, DataMoves DEF ChatTypes, Data
  <1> QED BY <1>6, <1>7, <1>9 DEF ChatTypes

LEMMA RowsOfIs ==
  ASSUME NEW R, rows \in Seq(Row(R)), NEW id
  PROVE  RowsOf(id) \in Seq(Row(R)) /\ Len(RowsOf(id)) \in Nat
  <1>1. RowsOf(id) \in Seq(Row(R)) BY OnlyFacts DEF RowsOf
  <1> QED BY <1>1

LEMMA CountKeeps ==
  ASSUME ChatTypes, NEW u \in Turns, Count(u), NEW R \in SUBSET Message, Data(R)
  PROVE  ChatTypes' /\ Data(R)'
  <1>0. Acts(u) BY DEF Acts
  <1>1. u \in Running /\ u \in 1..sent /\ turn[u] \in TurnRecord BY <1>0, Acting
  <1>2. PICK n \in Nat : n = Len(RowsOf(turn[u].sess)) BY RowsOfIs DEF Data
  <1>3. turn' = [turn EXCEPT ![u].at = "insert", ![u].base = n] BY <1>2 DEF Count
  <1>4. turn[u].at = "count" /\ UNCHANGED <<scene, pollVars, storeVars>> BY DEF Count
  <1>5. /\ Others(u)
        /\ turn'[u] = [at |-> "insert", hist |-> turn[u].hist, sess |-> turn[u].sess, base |-> n,
                       reply |-> turn[u].reply]
    BY <1>1, <1>3 DEF Others, TurnRecord, ChatTypes, TurnTypes
  <1>6. turn'[u] \in TurnRecord BY <1>1, <1>5 DEF TurnRecord, Places
  <1>7. turn'[u].sess \in Nat BY <1>1, <1>4, <1>5 DEF ChatTypes, TurnTypes, TurnOK
  <1>8. PollTypes' /\ TurnTypes' BY <1>1, <1>4, <1>5, <1>6, <1>7, OneTurnMoves DEF Others, ChatTypes
  <1>9. StoreTypes' BY <1>4 DEF ChatTypes, StoreTypes, storeVars
  <1>10. turn[u].hist \in Seq(R) BY <1>1 DEF Data
  <1>11. Data(R)'
    <2>1. rows' \in Seq(Row(R)) /\ window' \in Seq(R) BY <1>4 DEF Data, storeVars
    <2>2. turn'[u].hist \in Seq(R) BY <1>5, <1>10
    <2>3. TurnTypes BY DEF ChatTypes
    <2> QED BY <1>1, <1>5, <2>1, <2>2, <2>3, DataMoves
  <1> QED BY <1>8, <1>9, <1>11 DEF ChatTypes

(* What an insert adds: the rest of the history, under the turn's session. *)
Added(u) == [i \in 1..Len(New(u)) |-> [sess |-> turn[u].sess, msg |-> New(u)[i]]]

LEMMA AddedIs ==
  ASSUME NEW R, NEW u, turn[u].hist \in Seq(R), turn[u].base \in Nat, turn[u].sess \in Nat
  PROVE  /\ New(u) \in Seq(R) /\ Len(New(u)) \in Nat
         /\ Added(u) \in Seq([sess : {turn[u].sess}, msg : R])
         /\ Added(u) \in Seq(Row(R)) /\ Messages(Added(u)) = New(u)
  <1>1. PICK h \in Seq(R), m \in Nat, n \in Nat : h = turn[u].hist /\ m = turn[u].base + 1 /\ n = Len(h)
    <2>1. PICK h \in Seq(R) : h = turn[u].hist OBVIOUS
    <2>2. PICK m \in Nat : m = turn[u].base + 1 OBVIOUS
    <2>3. PICK n \in Nat : n = Len(h) OBVIOUS
    <2> QED BY <2>1, <2>2, <2>3
  <1>2. \A i \in m..n : h[i] \in R BY <1>1
  <1>3. SubSeq(h, m, n) \in Seq(R) BY <1>2, SubSeqProperties
  <1>4. PICK w \in Seq(R) : w = New(u) BY <1>1, <1>3 DEF New
  <1>5. PICK id \in Nat : id = turn[u].sess OBVIOUS
  <1>6. PICK a : a = [i \in 1..Len(w) |-> [sess |-> id, msg |-> w[i]]] OBVIOUS
  <1>7. \A i \in 1..Len(w) : [sess |-> id, msg |-> w[i]] \in [sess : {id}, msg : R] OBVIOUS
  <1> DEFINE Q == [sess : {id}, msg : R]
  <1> HIDE DEF Q
  <1>8. a \in [1..Len(w) -> Q] BY <1>6, <1>7 DEF Q
  <1>9. a \in Seq(Q) /\ Len(a) = Len(w)
    <2>1. PICK k \in Nat : k = Len(w) OBVIOUS
    <2>2. a \in [1..k -> Q] BY <1>8, <2>1
    <2> QED BY <2>1, <2>2
  <1>10. Q \subseteq Row(R) BY DEF Q, Row
  <1>11. a \in Seq(Row(R)) BY <1>9, <1>10, SeqWithin
  <1>12. Messages(a) = w
    <2>1. \A i \in 1..Len(w) : a[i].msg = w[i] BY <1>6
    <2>2. Messages(a) = [i \in 1..Len(w) |-> w[i]] BY <1>9, <2>1 DEF Messages
    <2> QED BY <2>2
  <1>13. a = Added(u) BY <1>4, <1>5, <1>6 DEF Added
  <1> QED BY <1>4, <1>5, <1>9, <1>11, <1>12, <1>13 DEF Q

LEMMA InsertKeeps ==
  ASSUME ChatTypes, NEW u \in Turns, Insert(u), NEW R \in SUBSET Message, Data(R)
  PROVE  ChatTypes' /\ Data(R)'
  <1>0. Acts(u) BY DEF Acts
  <1>1. u \in Running /\ u \in 1..sent /\ turn[u] \in TurnRecord BY <1>0, Acting
  <1>2. turn[u].sess \in Nat BY <1>1 DEF Insert, ChatTypes, TurnTypes, TurnOK
  <1>3. turn[u].hist \in Seq(R) /\ turn[u].base \in Nat BY <1>1 DEF Data, TurnRecord
  <1>4. rows' = rows \o Added(u) /\ UNCHANGED <<scene, pollVars, window>> BY DEF Insert, Added
  <1>5. Added(u) \in Seq(Row(R)) /\ Len(New(u)) \in Nat BY <1>2, <1>3, AddedIs
  <1>6. rows' \in Seq(Row(R)) BY <1>4, <1>5 DEF Data
  <1>7. sessions' \in SUBSET Session /\ IsFiniteSet(sessions')
    <2> DEFINE f == [s \in sessions |->
                       IF s.id = turn[u].sess THEN [s EXCEPT !.count = Len(RowsOf(s.id)) + Len(New(u))] ELSE s]
    <2>1. sessions' = {f[s] : s \in sessions} BY DEF Insert
    <2>2. sessions \in SUBSET Session /\ IsFiniteSet(sessions) BY DEF ChatTypes, StoreTypes
    <2>3. ASSUME NEW s \in sessions PROVE f[s] \in Session
      <3>1. PICK n \in Nat : n = Len(RowsOf(s.id)) + Len(New(u)) BY <1>5, RowsOfIs DEF Data
      <3>2. [s EXCEPT !.count = n] \in Session BY <2>2, <3>1 DEF Session
      <3> QED BY <2>2, <3>1, <3>2
    <2> HIDE DEF f
    <2>4. IsFiniteSet({f[s] : s \in sessions}) BY <2>2, ImageIsFinite
    <2> QED BY <2>1, <2>3, <2>4
  <1>8. /\ Others(u) /\ turn'[u] \in TurnRecord /\ turn'[u].at = "done"
    <2>1. turn' = [turn EXCEPT ![u] = [NoTurn EXCEPT !.at = "done"]] BY DEF Insert
    <2>2. Others(u) /\ turn'[u] = [NoTurn EXCEPT !.at = "done"]
      BY <1>1, <2>1 DEF Others, ChatTypes, TurnTypes
    <2>3. "done" \in Places BY DEF Places
    <2> QED BY <2>2, <2>3, NoTurnIs
  <1>9. PollTypes' /\ TurnTypes' BY <1>1, <1>4, <1>8, OneTurnMoves DEF Others, ChatTypes
  <1>10. StoreTypes'
    <2>1. rows' \in Seq(Row(Message)) BY <1>6, DataIsTyped
    <2> QED BY <1>4, <1>7, <2>1 DEF ChatTypes, StoreTypes
  <1>11. Data(R)' BY <1>1, <1>4, <1>6, <1>8, DataMoves DEF ChatTypes, Data
  <1> QED BY <1>9, <1>10, <1>11 DEF ChatTypes

LEMMA CommandKeeps ==
  ASSUME ChatTypes, NEW u \in Turns, Command(u), NEW R \in SUBSET Message, Data(R)
  PROVE  ChatTypes' /\ Data(R)'
  <1>0. Acts(u) BY DEF Acts
  <1>1. u \in Running /\ u \in 1..sent /\ turn[u] \in TurnRecord BY <1>0, Acting
  <1>2. rows' = Only(rows, [sess : Nat \ Erased(Kind(u)), msg : Message]) BY DEF Command
  <1>3. rows' \in Seq(Row(R)) BY <1>2, OnlyFacts DEF Data
  <1>4. window' = <<>> /\ UNCHANGED <<scene, pollVars>> /\ sessions' \subseteq sessions BY DEF Command
  <1>5. /\ Others(u) /\ turn'[u] \in TurnRecord /\ turn'[u].at = "done"
    <2>1. turn' = [turn EXCEPT ![u] = [NoTurn EXCEPT !.at = "done"]] BY DEF Command
    <2>2. Others(u) /\ turn'[u] = [NoTurn EXCEPT !.at = "done"]
      BY <1>1, <2>1 DEF Others, ChatTypes, TurnTypes
    <2>3. "done" \in Places BY DEF Places
    <2> QED BY <2>2, <2>3, NoTurnIs
  <1>6. PollTypes' /\ TurnTypes' BY <1>1, <1>4, <1>5, OneTurnMoves DEF Others, ChatTypes
  <1>7. StoreTypes'
    <2>1. rows' \in Seq(Row(Message)) BY <1>3, DataIsTyped
    <2>2. IsFiniteSet(sessions') BY <1>4, FS_Subset DEF ChatTypes, StoreTypes
    <2>3. <<>> \in Seq(Message) OBVIOUS
    <2> QED BY <1>4, <2>1, <2>2, <2>3 DEF ChatTypes, StoreTypes
  <1>8. <<>> \in Seq(R) OBVIOUS
  <1>9. Data(R)' BY <1>1, <1>3, <1>4, <1>5, <1>8, DataMoves DEF ChatTypes
  <1> QED BY <1>6, <1>7, <1>9 DEF ChatTypes

LEMMA ActsKeep ==
  ASSUME ChatTypes, NEW u \in Turns, Acts(u), NEW R \in SUBSET Message, Data(R),
         \A m \in Message : m.turn = u => m \in R
  PROVE  ChatTypes' /\ Data(R)'
  BY LoadKeeps, ThinkKeeps, SaveKeeps, RotateKeeps, OpenKeeps, CountKeeps, InsertKeeps, CommandKeeps
     DEF Acts

-----------------------------------------------------------------------------
(* The poll loop, the user and a crash.                                    *)
LEMMA RestMoves ==
  ASSUME NEW R, Data(R), UNCHANGED storeVars,
         \A u \in Running' : turn'[u].hist = <<>> \/ (turn'[u] = turn[u] /\ u \in Running)
  PROVE  Data(R)'
  <1>1. <<>> \in Seq(R) OBVIOUS
  <1>2. \A u \in Running' : turn'[u].hist \in Seq(R) BY <1>1 DEF Data
  <1> QED BY <1>2 DEF Data, storeVars

LEMMA PollMoves ==
  ASSUME ChatTypes, Fetch \/ Persist \/ PersistFails \/ WriteOffset \/ Restart
  PROVE  PollTypes' /\ UNCHANGED <<sent, turn, storeVars>>
  <1>1. PollTypes BY DEF ChatTypes
  <1>2. PICK n \in Nat : n = sent BY <1>1, SceneFacts
  <1>3. poll = [at |-> poll.at, offset |-> poll.offset, last |-> poll.last] /\ poll.offset \in 0..sent + 1
        /\ poll.last \in 0..sent
    BY <1>1 DEF PollTypes
  <1>4. CASE Fetch
    <2>1. Confirms \in 0..n /\ Confirms < n BY <1>1, <1>2, <1>3, <1>4 DEF Fetch, Confirms, PollTypes
    <2>2. PICK c \in 0..n : c = Confirms /\ c < n BY <2>1
    <2>3. /\ confirmed' = c /\ poll' = [at |-> "persist", offset |-> c + 2, last |-> n]
          /\ UNCHANGED <<scene, sent, offsetFile, turn, storeVars>>
      BY <1>2, <1>4, <2>2 DEF Fetch
    <2> QED BY <1>1, <1>2, <2>2, <2>3 DEF PollTypes
  <1>5. CASE Persist
    <2>1. poll' = [at |-> "write", offset |-> poll.offset, last |-> poll.last] /\ poll.at = "persist"
      BY <1>3, <1>5 DEF Persist
    <2> QED BY <1>1, <1>3, <1>5, <2>1 DEF Persist, PollTypes
  <1>6. CASE PersistFails
    <2>1. poll' = [at |-> "spawn", offset |-> poll.offset, last |-> poll.last] /\ poll.at \in {"persist", "write"}
      BY <1>3, <1>6 DEF PersistFails
    <2> QED BY <1>1, <1>3, <1>6, <2>1 DEF PersistFails, PollTypes
  <1>7. CASE WriteOffset
    <2>1. poll' = [at |-> "spawn", offset |-> poll.offset, last |-> poll.last] /\ poll.at = "write"
      BY <1>3, <1>7 DEF WriteOffset
    <2> QED BY <1>1, <1>3, <1>7, <2>1 DEF WriteOffset, PollTypes
  <1>8. CASE Restart
    <2>1. poll' = [at |-> "fetch", offset |-> offsetFile, last |-> 0] BY <1>8 DEF Restart
    <2> QED BY <1>1, <1>2, <1>8, <2>1 DEF Restart, PollTypes
  <1> QED BY <1>4, <1>5, <1>6, <1>7, <1>8

\* Which turn a spawn starts, and where.
LEMMA SpawnIs ==
  ASSUME ChatTypes, Spawn
  PROVE  /\ Update \in 1..sent /\ Update \in Turns
         /\ DOMAIN turn' = Turns /\ \A v \in Turns \ {Update} : turn'[v] = turn[v]
         /\ turn'[Update] \in TurnRecord /\ turn'[Update].hist = <<>>
         /\ turn'[Update].at \in {"load", "infer", "rotate", "command"}
         /\ turn'[Update].at = "infer" => Kind(Update) = "photo"
         /\ turn'[Update].at = "rotate" => Kind(Update) = "session"
         /\ PollTypes' /\ UNCHANGED <<sent, scene, storeVars>>
  <1>1. PollTypes BY DEF ChatTypes
  <1>2. PICK n \in Nat : n = sent BY <1>1, SceneFacts
  <1>3. /\ poll = [at |-> poll.at, offset |-> poll.offset, last |-> poll.last]
        /\ poll.offset \in 2..n + 1 /\ poll.last \in 0..n
    BY <1>1, <1>2 DEF PollTypes, Spawn
  <1>4. Update \in 1..sent BY <1>2, <1>3 DEF Update
  <1>5. PICK u : u = Update OBVIOUS
  <1>6. u \in 1..sent /\ u \in Turns /\ Kind(u) \in {"text", "photo", "session", "new", "fresh"}
    BY <1>1, <1>4, <1>5, SceneFacts
  <1>7. PICK at : at = FirstPlace(Kind(u)) OBVIOUS
  <1>8. /\ at \in {"load", "infer", "rotate", "command"} /\ at \in Places
        /\ at = "infer" => Kind(u) = "photo"
        /\ at = "rotate" => Kind(u) = "session"
    BY <1>6, <1>7 DEF FirstPlace, Places
  <1>9. turn' = [turn EXCEPT ![u] = [NoTurn EXCEPT !.at = at]] BY <1>5, <1>7 DEF Spawn
  <1>10. /\ DOMAIN turn' = Turns /\ \A v \in Turns \ {u} : turn'[v] = turn[v]
         /\ turn'[u] = [NoTurn EXCEPT !.at = at]
    BY <1>6, <1>9 DEF ChatTypes, TurnTypes
  <1>11. turn'[u] \in TurnRecord /\ turn'[u].hist = <<>> /\ turn'[u].at = at BY <1>8, <1>10, NoTurnIs
  <1>12. UNCHANGED <<scene, sent, confirmed, offsetFile, storeVars>> BY DEF Spawn
  <1>13. PollTypes'
    <2>1. poll' \in [at : {"down", "fetch", "persist", "write", "spawn"}, offset : 2..n + 1, last : 0..n]
      <3>1. CASE Update < poll.last
        <4>1. poll' = [at |-> "persist", offset |-> poll.offset + 1, last |-> poll.last]
          BY <1>3, <3>1 DEF Spawn
        <4> QED BY <1>3, <3>1, <4>1 DEF Update
      <3>2. CASE ~(Update < poll.last)
        <4>1. poll' = [at |-> "fetch", offset |-> poll.offset, last |-> poll.last]
          BY <1>3, <3>2 DEF Spawn
        <4> QED BY <1>3, <4>1
      <3> QED BY <3>1, <3>2
    <2> QED BY <1>1, <1>2, <1>12, <2>1 DEF PollTypes
  <1> QED BY <1>5, <1>6, <1>8, <1>10, <1>11, <1>12, <1>13

LEMMA PollKeepsChat ==
  ASSUME ChatTypes, PollStep, NEW R, Data(R)
  PROVE  ChatTypes' /\ Data(R)'
  <1>1. CASE Spawn
    <2>1. TurnTypes'
      <3>1. ASSUME NEW v \in Turns PROVE TurnOK(v)'
        <4>1. CASE v = Update BY <1>1, <4>1, SpawnIs DEF TurnOK
        <4>2. CASE v # Update BY <1>1, <4>2, SpawnIs DEF TurnOK, ChatTypes, TurnTypes
        <4> QED BY <4>1, <4>2
      <3> QED BY <1>1, <3>1, SpawnIs DEF TurnTypes
    <2>2. StoreTypes' BY <1>1, SpawnIs DEF ChatTypes, StoreTypes, storeVars
    <2>3. \A v \in Running' : turn'[v].hist = <<>> \/ (turn'[v] = turn[v] /\ v \in Running)
      <3>1. \A v \in Running' : v \in Turns /\ turn'[v].at \notin {"none", "done", "cut"} BY DEF Running
      <3>2. turn'[Update].hist = <<>> BY <1>1, SpawnIs
      <3>3. \A v \in Turns \ {Update} : turn'[v] = turn[v] BY <1>1, SpawnIs
      <3>4. ASSUME NEW v \in Running', v # Update PROVE turn'[v] = turn[v] /\ v \in Running
        <4>1. v \in Turns /\ turn'[v] = turn[v] BY <3>1, <3>3, <3>4
        <4> QED BY <3>1, <4>1 DEF Running
      <3>5. ASSUME NEW v \in Running', v = Update PROVE turn'[v].hist = <<>>
        BY <3>2, <3>5
      <3> QED BY <3>4, <3>5
    <2>4. Data(R)' BY <1>1, <2>3, SpawnIs, RestMoves
    <2> QED BY <1>1, <2>1, <2>2, <2>4, SpawnIs DEF ChatTypes
  <1>2. CASE ~Spawn
    <2>1. PollTypes' /\ UNCHANGED <<sent, turn, storeVars>> BY <1>2, PollMoves DEF PollStep
    <2>2. TurnTypes' /\ StoreTypes' BY <2>1 DEF ChatTypes, TurnTypes, TurnOK, StoreTypes, storeVars
    <2>3. Data(R)' BY <2>1, RestMoves DEF Running
    <2> QED BY <2>1, <2>2, <2>3 DEF ChatTypes
  <1> QED BY <1>1, <1>2

LEMMA SendKeepsChat ==
  ASSUME ChatTypes, Send, NEW R, Data(R)
  PROVE  ChatTypes' /\ Data(R)'
  <1>1. PollTypes BY DEF ChatTypes
  <1>2. /\ sent' = sent + 1 /\ sent < Len(scene.chat)
        /\ UNCHANGED <<scene, confirmed, poll, offsetFile, turn, storeVars>>
    BY DEF Send
  <1>3. Len(scene.chat) \in Nat /\ sent \in Nat BY <1>1, SceneFacts
  <1>4. 0..sent \subseteq 0..sent' /\ 0..sent + 1 \subseteq 0..sent' + 1 /\ 1..sent \subseteq 1..sent'
        /\ sent' \in 0..Len(scene.chat)
    BY <1>2, <1>3
  <1>5. PollTypes' BY <1>1, <1>2, <1>4 DEF PollTypes
  <1>6. TurnTypes' /\ StoreTypes'
    <2>1. \A u \in Turns : TurnOK(u)' BY <1>2, <1>4 DEF ChatTypes, TurnTypes, TurnOK
    <2> QED BY <1>2, <2>1 DEF ChatTypes, TurnTypes, StoreTypes, storeVars
  <1>7. Data(R)' BY <1>2, RestMoves DEF Running
  <1> QED BY <1>5, <1>6, <1>7 DEF ChatTypes

\* A crash cuts the turns in flight and at most one that is not.
LEMMA CrashIs ==
  ASSUME ChatTypes, ChatCrash
  PROVE  /\ DOMAIN turn' = Turns /\ Running' = {}
         /\ \A u \in Turns : \/ turn'[u] = turn[u]
                             \/ turn'[u] = [NoTurn EXCEPT !.at = "cut"] /\ u \in 1..sent
         /\ PollTypes' /\ UNCHANGED <<scene, sent, storeVars>>
  <1>1. PollTypes BY DEF ChatTypes
  <1>2. PICK n \in Nat : n = sent BY <1>1, SceneFacts
  <1>3. /\ poll' = [at |-> "down", offset |-> 0, last |-> 0]
        /\ UNCHANGED <<scene, sent, confirmed, offsetFile, storeVars>>
    BY DEF ChatCrash
  <1>4. PollTypes' BY <1>1, <1>2, <1>3 DEF PollTypes
  <1>5. turn' = [u \in Turns |->
                  IF u \in Running \/ (poll.at = "spawn" /\ u = Update /\ offsetFile = poll.offset)
                  THEN [NoTurn EXCEPT !.at = "cut"] ELSE turn[u]]
    BY DEF ChatCrash
  <1>6. poll.at = "spawn" => Update \in 1..sent BY <1>1, <1>2 DEF PollTypes, Update
  <1>7. \A u \in Running : u \in 1..sent BY DEF Running, ChatTypes, TurnTypes, TurnOK
  <1>8. \A u \in Turns : \/ turn'[u] = turn[u] /\ u \notin Running
                         \/ turn'[u] = [NoTurn EXCEPT !.at = "cut"] /\ u \in 1..sent
    BY <1>5, <1>6, <1>7
  <1>9. [NoTurn EXCEPT !.at = "cut"].at = "cut" BY DEF NoTurn
  <1>10. Running' = {} BY <1>8, <1>9 DEF Running
  <1> QED BY <1>3, <1>4, <1>5, <1>8, <1>10

LEMMA CrashKeepsChat ==
  ASSUME ChatTypes, ChatCrash, NEW R, Data(R)
  PROVE  ChatTypes' /\ Data(R)'
  <1>1. [NoTurn EXCEPT !.at = "cut"] \in TurnRecord /\ [NoTurn EXCEPT !.at = "cut"].at = "cut"
    <2>1. "cut" \in Places BY DEF Places
    <2> QED BY <2>1, NoTurnIs
  <1>2. \A u \in Turns : TurnOK(u)' BY <1>1, CrashIs DEF ChatTypes, TurnTypes, TurnOK
  <1>3. TurnTypes' BY <1>2, CrashIs DEF TurnTypes
  <1>4. StoreTypes' BY CrashIs DEF ChatTypes, StoreTypes, storeVars
  <1>5. Data(R)' BY CrashIs, RestMoves
  <1> QED BY <1>3, <1>4, <1>5, CrashIs DEF ChatTypes

LEMMA ChatTypesStep == ASSUME ChatTypes, [Next]_vars PROVE ChatTypes'
  <1>1. Data(Message) BY DEF Data, ChatTypes, StoreTypes, TurnTypes, TurnOK, TurnRecord, Running
  <1>2. Message \in SUBSET Message OBVIOUS
  <1>3. CASE UNCHANGED chatVars
    BY <1>3 DEF chatVars, pollVars, storeVars, ChatTypes, PollTypes, TurnTypes, TurnOK, StoreTypes
  <1>4. ASSUME NEW u \in Turns, Acts(u) PROVE ChatTypes' BY <1>1, <1>2, <1>4, ActsKeep
  <1> QED BY <1>1, <1>3, <1>4, ChatMoves, PollKeepsChat, SendKeepsChat, CrashKeepsChat

LEMMA ChatTypesInit == Init => ChatTypes
  <1> SUFFICES ASSUME Init PROVE ChatTypes OBVIOUS
  <1>1. /\ scene \in Scenes /\ sent = 0 /\ confirmed = 0 /\ offsetFile = 0
        /\ poll = [at |-> "fetch", offset |-> 0, last |-> 0]
        /\ turn = [u \in Turns |-> NoTurn] /\ rows = <<>> /\ sessions = {} /\ window = <<>>
    BY DEF Init, ChatInit
  <1>2. Len(scene.chat) \in Nat BY <1>1, ChatAssumption
  <1>3. PollTypes BY <1>1, <1>2 DEF PollTypes
  <1>4. TurnTypes
    <2>1. NoTurn \in TurnRecord /\ NoTurn.at = "none" BY DEF NoTurn, TurnRecord, Places, NoSession
    <2> QED BY <1>1, <2>1 DEF TurnTypes, TurnOK
  <1>5. StoreTypes
    <2>1. rows \in Seq(Row(Message)) BY <1>1
    <2>2. window \in Seq(Message) BY <1>1
    <2>3. IsFiniteSet(sessions) BY <1>1, FS_EmptySet
    <2> QED BY <1>1, <2>1, <2>2, <2>3 DEF StoreTypes
  <1> QED BY <1>3, <1>4, <1>5 DEF ChatTypes

-----------------------------------------------------------------------------
(* What /fresh erased stays erased.  Everything stored and in flight is of *)
(* turns that are not forgotten, and every row has its session, also those *)
(* on their way, so that a /fresh leaves none.                             *)
Ids == {s.id : s \in sessions}
Saving(u) == turn[u].at \in {"count", "insert"}
Housed ==
    /\ rows \in Seq([sess : Ids, msg : Message])
    /\ \A u \in Turns : Saving(u) => turn[u].sess \in Ids

Remembered(R) == R \subseteq Message /\ \A m \in Message : m \in R <=> m.turn \notin forgotten

ErasedInv ==
    /\ ChatTypes
    /\ ~strayed => /\ Housed
                   /\ Running \cap forgotten = {}
                   /\ \E R \in SUBSET Message : Remembered(R) /\ Data(R)

Lodges(u) ==
    /\ Ids \subseteq Ids' /\ Others(u)
    /\ Saving(u)' => turn'[u].sess \in Ids'

LEMMA TurnLodges ==
  ASSUME ChatTypes, NEW u \in Turns, Housed, Acts(u), ~Command(u)
  PROVE  Lodges(u) /\ (rows' = rows \/ (Insert(u) /\ rows' = rows \o Added(u)))
  <1>1. u \in Running /\ turn[u] \in TurnRecord BY Acting
  <1>2. sessions \in SUBSET Session BY DEF ChatTypes, StoreTypes
  <1>3. DOMAIN turn = Turns BY DEF ChatTypes, TurnTypes
  <1>4. \A at : [NoTurn EXCEPT !.at = at].at = at BY DEF NoTurn
  <1>5. CASE Load(u)
    <2>1. PICK at \in {"infer", "save"} : \E hist : turn' = [turn EXCEPT ![u].at = at, ![u].hist = hist]
      BY <1>5 DEF Load
    <2>2. Others(u) /\ turn'[u].at = at BY <1>1, <1>3, <2>1 DEF Others, TurnRecord
    <2> QED BY <1>5, <2>2 DEF Load, Lodges, Ids, Saving
  <1>6. CASE Thinks(u)
    <2>1. UNCHANGED <<rows, sessions>> BY <1>6 DEF Thinks, Inferred, storeVars
    <2>2. Others(u) /\ turn'[u].at \notin {"count", "insert"}
      <3>1. ASSUME NEW o, Inferred(u, o) PROVE Others(u) /\ turn'[u].at \notin {"count", "insert"}
        <4>1. PICK at \in {"load", "save", "done"} :
                \E reply : turn' = [turn EXCEPT ![u].at = at, ![u].reply = reply]
          BY <3>1 DEF Inferred
        <4> QED BY <1>1, <1>3, <4>1 DEF Others, TurnRecord
      <3>2. ASSUME turn' = [turn EXCEPT ![u].at = "calling"]
            PROVE  Others(u) /\ turn'[u].at \notin {"count", "insert"}
        BY <1>1, <1>3, <3>2 DEF Others, TurnRecord
      <3> QED BY <1>6, <3>1, <3>2 DEF Thinks
    <2> QED BY <2>1, <2>2 DEF Lodges, Ids, Saving
  <1>7. CASE Save(u)
    <2>1. rows' = rows BY <1>7 DEF Save
    <2>2. CASE turn' = [turn EXCEPT ![u] = [NoTurn EXCEPT !.at = "done"]] /\ sessions' = sessions
      <3>1. Others(u) /\ turn'[u].at = "done" BY <1>1, <1>3, <1>4, <2>2 DEF Others
      <3> QED BY <2>1, <2>2, <3>1 DEF Lodges, Ids, Saving
    <2> DEFINE To(at, id) ==
          turn' = [turn EXCEPT ![u].at = at, ![u].hist = turn[u].hist \o Pair(u), ![u].sess = id]
    <2>3. ASSUME NEW at, NEW id, id \in Ids', Ids \subseteq Ids', To(at, id)
          PROVE  Lodges(u)
      <3>1. Others(u) /\ turn'[u].sess = id BY <1>1, <1>3, <2>3 DEF Others, TurnRecord
      <3> QED BY <2>3, <3>1 DEF Lodges
    <2>6. \/ turn' = [turn EXCEPT ![u] = [NoTurn EXCEPT !.at = "done"]] /\ sessions' = sessions
          \/ /\ sessions' = sessions \cup {[id |-> Chats, num |-> 1, open |-> TRUE, count |-> 0]}
             /\ To("count", Chats)
          \/ /\ sessions' = sessions
             /\ \E s \in Active : To(IF s.count >= Split THEN "rotate" ELSE "count", s.id)
      BY <1>7 DEF Save
    <2> HIDE DEF To
    <2>4. CASE /\ sessions' = sessions \cup {[id |-> Chats, num |-> 1, open |-> TRUE, count |-> 0]}
               /\ To("count", Chats)
      <3>1. Chats \in Ids' /\ Ids \subseteq Ids'
        <4>1. PICK n : n.id = Chats /\ sessions' = sessions \cup {n} BY <2>4
        <4> QED BY <4>1 DEF Ids
      <3> QED BY <2>1, <2>3, <2>4, <3>1
    <2>5. CASE /\ sessions' = sessions
               /\ \E s \in Active : To(IF s.count >= Split THEN "rotate" ELSE "count", s.id)
      <3>1. PICK s \in Active : To(IF s.count >= Split THEN "rotate" ELSE "count", s.id) BY <2>5
      <3>2. s.id \in Ids' /\ Ids \subseteq Ids' BY <2>5, ActiveIs DEF Ids
      <3> QED BY <2>1, <2>3, <3>1, <3>2
    <2> QED BY <2>2, <2>4, <2>5, <2>6
  <1>8. CASE Rotate(u)
    <2>1. PICK id, num : turn' = [turn EXCEPT ![u].at = "open", ![u].sess = id, ![u].base = num]
      BY <1>8 DEF Rotate
    <2>2. Others(u) /\ turn'[u].at = "open" BY <1>1, <1>3, <2>1 DEF Others, TurnRecord
    <2> QED BY <1>8, <2>2 DEF Rotate, storeVars, Lodges, Ids, Saving
  <1>9. CASE Open(u)
    <2>1. Ids \subseteq Ids' /\ NewId \in Ids'
      <3>1. \A s \in sessions : (IF s.id = turn[u].sess THEN [s EXCEPT !.open = FALSE] ELSE s).id = s.id
        BY <1>2 DEF Session
      <3>2. PICK f : f = [s \in sessions |-> IF s.id = turn[u].sess THEN [s EXCEPT !.open = FALSE] ELSE s]
        OBVIOUS
      <3>3. PICK n : n.id = NewId /\ sessions' = {f[s] : s \in sessions} \cup {n}
        <4>1. sessions' = {f[s] : s \in sessions}
                          \cup {[id |-> NewId, num |-> turn[u].base + 1, open |-> TRUE, count |-> 0]}
          BY <1>9, <3>2 DEF Open
        <4> QED BY <4>1
      <3>4. \A s \in sessions : f[s].id = s.id /\ f[s] \in sessions' BY <3>1, <3>2, <3>3
      <3> QED BY <3>3, <3>4 DEF Ids
    <2>2. CASE turn' = [turn EXCEPT ![u] = [NoTurn EXCEPT !.at = "done"]]
      <3>1. Others(u) /\ turn'[u].at = "done" BY <1>1, <1>3, <1>4, <2>2 DEF Others
      <3> QED BY <1>9, <2>1, <3>1 DEF Open, Lodges, Saving
    <2>3. CASE turn' = [turn EXCEPT ![u].at = "count", ![u].sess = NewId]
      <3>1. Others(u) /\ turn'[u].sess = NewId BY <1>1, <1>3, <2>3 DEF Others, TurnRecord
      <3> QED BY <1>9, <2>1, <3>1 DEF Open, Lodges
    <2> QED BY <1>9, <2>2, <2>3 DEF Open
  <1>10. CASE Count(u)
    <2>1. Others(u) /\ turn'[u].sess = turn[u].sess
      BY <1>1, <1>3, <1>10 DEF Count, Others, TurnRecord
    <2>2. turn[u].sess \in Ids BY <1>10 DEF Count, Housed, Saving
    <2>3. Ids' = Ids /\ rows' = rows BY <1>10 DEF Count, storeVars, Ids
    <2> QED BY <2>1, <2>2, <2>3 DEF Lodges
  <1>11. CASE Insert(u)
    <2>1. rows' = rows \o Added(u) BY <1>11 DEF Insert, Added
    <2>2. Others(u) /\ turn'[u].at = "done" BY <1>1, <1>3, <1>4, <1>11 DEF Insert, Others
    <2>3. Ids \subseteq Ids'
      <3>1. \A s \in sessions :
              (IF s.id = turn[u].sess THEN [s EXCEPT !.count = Len(RowsOf(s.id)) + Len(New(u))] ELSE s).id = s.id
        BY <1>2 DEF Session
      <3> QED BY <1>11, <3>1 DEF Insert, Ids
    <2> QED BY <1>11, <2>1, <2>2, <2>3 DEF Lodges, Saving
  <1> QED BY <1>5, <1>6, <1>7, <1>8, <1>9, <1>10, <1>11 DEF Acts

LEMMA TurnHouses ==
  ASSUME ChatTypes, NEW u \in Turns, Housed, Acts(u), ~Command(u)
  PROVE  Housed'
  <1>1. Lodges(u) /\ (rows' = rows \/ (Insert(u) /\ rows' = rows \o Added(u))) BY TurnLodges
  <1>2. PICK J : J = Ids' OBVIOUS
  <1>3. PICK Q : Q = [sess : J, msg : Message] OBVIOUS
  <1>4. rows \in Seq(Q)
    <2>1. [sess : Ids, msg : Message] \subseteq Q BY <1>1, <1>2, <1>3 DEF Lodges
    <2> QED BY <2>1, SeqWithin DEF Housed
  <1>5. rows' \in Seq(Q)
    <2>1. CASE rows' = rows BY <1>4, <2>1
    <2>2. CASE Insert(u) /\ rows' = rows \o Added(u)
      <3>1. turn[u].sess \in Ids /\ turn[u].sess \in Nat /\ turn[u].hist \in Seq(Message) /\ turn[u].base \in Nat
        BY <2>2 DEF Insert, Housed, Saving, ChatTypes, TurnTypes, TurnOK, TurnRecord
      <3>2. Added(u) \in Seq([sess : {turn[u].sess}, msg : Message]) BY <3>1, AddedIs
      <3>3. [sess : {turn[u].sess}, msg : Message] \subseteq Q BY <1>1, <1>2, <1>3, <3>1 DEF Lodges
      <3>4. Added(u) \in Seq(Q) BY <3>2, <3>3, SeqWithin
      <3> QED BY <1>4, <2>2, <3>4
    <2> QED BY <1>1, <2>1, <2>2
  <1>6. \A v \in Turns : Saving(v)' => turn'[v].sess \in Ids' BY <1>1 DEF Lodges, Others, Housed, Saving
  <1> QED BY <1>2, <1>3, <1>5, <1>6 DEF Housed

LEMMA CommandHouses ==
  ASSUME ChatTypes, NEW u \in Turns, Housed, Command(u), Running = {u}
  PROVE  Housed' /\ Running' = {} /\ (Kind(u) = "fresh" => rows' = <<>>)
  <1>0. Acts(u) BY DEF Acts
  <1>1. u \in Running /\ turn[u] \in TurnRecord BY <1>0, Acting
  <1>2. DOMAIN turn' = Turns /\ turn'[u].at = "done" /\ \A v \in Turns \ {u} : turn'[v] = turn[v]
    <2>1. [NoTurn EXCEPT !.at = "done"].at = "done" BY DEF NoTurn
    <2> QED BY <2>1 DEF Command, ChatTypes, TurnTypes
  <1>3. Running' = {} BY <1>2 DEF Running
  <1>4. PICK I, E : I = Ids /\ E = Erased(Kind(u)) OBVIOUS
  <1>5. PICK Q, S : Q = [sess : I, msg : Message] /\ S = [sess : Nat \ E, msg : Message] OBVIOUS
  <1>6. rows \in Seq(Q) /\ rows' = Only(rows, S) BY <1>4, <1>5 DEF Housed, Command
  <1>7. Ids' = I \ E BY <1>4 DEF Command, Ids
  <1>8. rows' \in Seq([sess : Ids', msg : Message])
    <2>1. rows' \in Seq(Q \cap S) BY <1>6, OnlyKeeps
    <2>2. Q \cap S \subseteq [sess : I \ E, msg : Message] BY <1>5
    <2>3. rows' \in Seq([sess : I \ E, msg : Message]) BY <2>1, <2>2, SeqWithin
    <2> QED BY <1>7, <2>3
  <1>9. ASSUME Kind(u) = "fresh" PROVE rows' = <<>>
    <2>1. E = I BY <1>4, <1>9 DEF Erased, Ids
    <2>2. Q \cap S = {} BY <1>5, <2>1
    <2> QED BY <1>6, <2>2, OnlyNone
  <1>10. \A v \in Turns : ~Saving(v)'
    <2>1. \A v \in Turns : v \notin Running' BY <1>3
    <2> QED BY <2>1 DEF Running, Saving
  <1> QED BY <1>3, <1>8, <1>9, <1>10 DEF Housed

LEMMA ErasedStep == ASSUME ErasedInv, [Next]_vars PROVE ErasedInv'
  <1>1. ChatTypes /\ ChatTypes' BY ChatTypesStep DEF ErasedInv
  <1>2. SUFFICES ASSUME ~strayed'
                 PROVE  /\ Housed' /\ Running' \cap forgotten' = {}
                        /\ \E R \in SUBSET Message : Remembered(R)' /\ Data(R)'
    BY <1>1 DEF ErasedInv
  <1> DEFINE Goal == /\ Housed' /\ Running' \cap forgotten' = {}
                     /\ \E R \in SUBSET Message : Remembered(R)' /\ Data(R)'
             Before == /\ Housed /\ Running \cap forgotten = {}
                       /\ \E R \in SUBSET Message : Remembered(R) /\ Data(R)
  <1>3. CASE UNCHANGED chatVars
    <2>1. UNCHANGED <<turn, rows, sessions, window, forgotten, strayed>>
      BY <1>3 DEF chatVars, storeVars, chatHistory
    <2>2. Before BY <1>2, <2>1 DEF ErasedInv
    <2>3. PICK R \in SUBSET Message : Remembered(R) /\ Data(R) BY <2>2
    <2>4. Remembered(R)' /\ Data(R)' BY <2>1, <2>3 DEF Remembered, Data, Running
    <2>5. Housed' BY <2>1, <2>2 DEF Housed, Saving, Ids
    <2>6. Running' \cap forgotten' = {} BY <2>1, <2>2 DEF Running
    <2> QED BY <2>4, <2>5, <2>6
  <1>4. ASSUME NEW u \in Turns, Acts(u) PROVE Goal
    <2>1. ~strayed BY <1>2, <1>4 DEF Acts, Load, Thinks, Inferred, Save, Rotate, Open, Count, Insert,
                                     Command, chatHistory
    <2>2. Before BY <2>1 DEF ErasedInv
    <2>3. PICK R \in SUBSET Message : Remembered(R) /\ Data(R) BY <2>2
    <2>4. u \in Running /\ u \notin forgotten BY <1>1, <1>4, <2>2, Acting
    <2>5. \A m \in Message : m.turn = u => m \in R BY <2>3, <2>4 DEF Remembered
    <2>6. Data(R)' BY <1>1, <1>4, <2>3, <2>5, ActsKeep
    <2>7. CASE ~Command(u)
      <3>1. forgotten' = forgotten
        BY <1>4, <2>7 DEF Acts, Load, Thinks, Inferred, Save, Rotate, Open, Count, Insert, chatHistory
      <3>2. Housed' BY <1>1, <1>4, <2>2, <2>7, TurnHouses
      <3>3. Lodges(u) BY <1>1, <1>4, <2>2, <2>7, TurnLodges
      <3>4. Running' \subseteq Running BY <2>4, <3>3 DEF Lodges, Others, Running
      <3>5. Remembered(R)' BY <2>3, <3>1 DEF Remembered
      <3> QED BY <2>2, <2>6, <3>1, <3>2, <3>4, <3>5
    <2>8. CASE Command(u)
      <3>1. Running = {u} BY <1>2, <2>8 DEF Command
      <3>2. Housed' /\ Running' = {} /\ (Kind(u) = "fresh" => rows' = <<>>)
        BY <1>1, <2>2, <2>8, <3>1, CommandHouses
      <3>3. CASE Kind(u) # "fresh"
        <4>1. forgotten' = forgotten BY <2>8, <3>3 DEF Command
        <4>2. Remembered(R)' BY <2>3, <4>1 DEF Remembered
        <4> QED BY <2>6, <3>2, <4>2
      <3>4. CASE Kind(u) = "fresh"
        <4>1. PICK Z : Z = {m \in Message : m.turn \notin forgotten'} OBVIOUS
        <4>2. Z \in SUBSET Message /\ Remembered(Z)' BY <4>1 DEF Remembered
        <4>3. rows' = <<>> /\ window' = <<>> BY <2>8, <3>2, <3>4 DEF Command
        <4>4. rows' \in Seq(Row(Z)) BY <4>3
        <4>5. window' \in Seq(Z) BY <4>3
        <4>6. Data(Z)' BY <3>2, <4>4, <4>5 DEF Data
        <4> QED BY <3>2, <4>2, <4>6
      <3> QED BY <3>3, <3>4
    <2> QED BY <2>7, <2>8
  <1>5. CASE PollStep
    <2>1. ~strayed /\ UNCHANGED <<rows, sessions>>
      BY <1>2, <1>5 DEF PollStep, Fetch, Persist, PersistFails, WriteOffset, Spawn, Restart, chatHistory, storeVars
    <2>2. Before BY <2>1 DEF ErasedInv
    <2>3. PICK R \in SUBSET Message : Remembered(R) /\ Data(R) BY <2>2
    <2>4. Data(R)' BY <1>1, <1>5, <2>3, PollKeepsChat
    <2>5. CASE ~Spawn
      <3>1. UNCHANGED <<turn, forgotten>>
        BY <1>5, <2>5 DEF PollStep, Fetch, Persist, PersistFails, WriteOffset, Restart, chatHistory
      <3>2. Remembered(R)' BY <2>3, <3>1 DEF Remembered
      <3>3. Housed' BY <2>1, <2>2, <3>1 DEF Housed, Saving, Ids
      <3>4. Running' \cap forgotten' = {} BY <2>2, <3>1 DEF Running
      <3> QED BY <2>4, <3>2, <3>3, <3>4
    <2>6. CASE Spawn
      <3>1. PICK u : u = Update OBVIOUS
      <3>2. /\ u \in Turns /\ \A v \in Turns \ {u} : turn'[v] = turn[v]
            /\ turn'[u].at \in {"load", "infer", "rotate", "command"}
        BY <1>1, <2>6, <3>1, SpawnIs
      <3>3. forgotten' = forgotten \ {u} BY <2>6, <3>1 DEF Spawn
      <3>4. Housed'
        <4>1. \A v \in Turns : Saving(v)' => turn'[v].sess \in Ids BY <2>2, <3>2 DEF Housed, Saving
        <4> QED BY <2>1, <2>2, <4>1 DEF Housed, Ids
      <3>5. Running' \subseteq Running \cup {u} BY <3>2 DEF Running
      <3>6. PICK Z : Z = {m \in Message : m.turn \notin forgotten'} OBVIOUS
      <3>7. Z \in SUBSET Message /\ Remembered(Z)' BY <3>6 DEF Remembered
      <3>8. R \subseteq Z BY <2>3, <3>3, <3>6 DEF Remembered
      <3>9. Data(Z)'
        <4>1. Row(R) \subseteq Row(Z) BY <3>8 DEF Row
        <4>2. rows' \in Seq(Row(R)) /\ window' \in Seq(R) /\ \A v \in Running' : turn'[v].hist \in Seq(R)
          BY <2>4 DEF Data
        <4>3. rows' \in Seq(Row(Z)) BY <4>1, <4>2, SeqWithin
        <4>4. window' \in Seq(Z) /\ \A v \in Running' : turn'[v].hist \in Seq(Z)
          BY <3>8, <4>2, SeqWithin
        <4> QED BY <4>3, <4>4 DEF Data
      <3> QED BY <2>2, <3>3, <3>4, <3>5, <3>7, <3>9
    <2> QED BY <2>5, <2>6
  <1>6. CASE Send
    <2>1. UNCHANGED <<turn, rows, sessions, window, forgotten, strayed>>
      BY <1>6 DEF Send, storeVars, chatHistory
    <2>2. Before BY <1>2, <2>1 DEF ErasedInv
    <2>3. PICK R \in SUBSET Message : Remembered(R) /\ Data(R) BY <2>2
    <2>4. Remembered(R)' /\ Data(R)' BY <2>1, <2>3 DEF Remembered, Data, Running
    <2>5. Housed' BY <2>1, <2>2 DEF Housed, Saving, Ids
    <2>6. Running' \cap forgotten' = {} BY <2>1, <2>2 DEF Running
    <2> QED BY <2>4, <2>5, <2>6
  <1>7. CASE ChatCrash
    <2>1. UNCHANGED <<rows, sessions, forgotten, strayed>> BY <1>7 DEF ChatCrash, storeVars
    <2>2. Before BY <1>2, <2>1 DEF ErasedInv
    <2>3. PICK R \in SUBSET Message : Remembered(R) /\ Data(R) BY <2>2
    <2>4. Remembered(R)' BY <2>1, <2>3 DEF Remembered
    <2>5. Data(R)' BY <1>1, <1>7, <2>3, CrashKeepsChat
    <2>6. Running' = {} BY <1>1, <1>7, CrashIs
    <2>7. Housed'
      <3>1. \A v \in Turns : v \notin Running' BY <2>6
      <3>2. \A v \in Turns : ~Saving(v)' BY <3>1 DEF Running, Saving
      <3> QED BY <2>1, <2>2, <3>2 DEF Housed, Ids
    <2> QED BY <2>4, <2>5, <2>6, <2>7
  <1> QED BY <1>1, <1>3, <1>4, <1>5, <1>6, <1>7, ChatMoves

LEMMA ErasedInit == Init => ErasedInv
  <1> SUFFICES ASSUME Init PROVE ErasedInv OBVIOUS
  <1>1. rows = <<>> /\ window = <<>> /\ forgotten = {} /\ turn = [u \in Turns |-> NoTurn]
    BY DEF Init, ChatInit
  <1>2. NoTurn.at = "none" BY DEF NoTurn
  <1>3. Running = {} /\ \A u \in Turns : ~Saving(u) BY <1>1, <1>2 DEF Running, Saving
  <1>4. Housed
    <2>1. rows \in Seq([sess : Ids, msg : Message]) BY <1>1
    <2> QED BY <1>3, <2>1 DEF Housed
  <1>5. Remembered(Message) BY <1>1 DEF Remembered
  <1>6. Data(Message)
    <2>1. rows \in Seq(Row(Message)) BY <1>1
    <2>2. window \in Seq(Message) BY <1>1
    <2> QED BY <1>3, <2>1, <2>2 DEF Data
  <1>7. Message \in SUBSET Message OBVIOUS
  <1> QED BY <1>3, <1>4, <1>5, <1>6, <1>7, ChatTypesInit DEF ErasedInv

(* What /fresh (telegram_commands.py, chat_history.py) erased is in no     *)
(* session afterwards, in every behaviour of the chat, for every number of *)
(* turns: not through a turn that was in flight, the window a failed load  *)
(* falls back on, or a session that is rotated later; unless an erasing    *)
(* command ran beside a turn.                                              *)
THEOREM ErasedStaysErasedHolds == FairSpec => []ErasedStaysErased
  <1>1. ErasedInv => ErasedStaysErased
    <2> SUFFICES ASSUME ErasedInv, ~strayed, NEW i \in 1..Len(rows)
                 PROVE  rows[i].msg.turn \notin forgotten
      BY DEF ErasedStaysErased
    <2>1. PICK R \in SUBSET Message : Remembered(R) /\ Data(R) BY DEF ErasedInv
    <2>2. rows \in Seq(Row(R)) BY <2>1 DEF Data
    <2>3. rows[i] \in Row(R) BY <2>2
    <2>4. rows[i].msg \in R BY <2>3 DEF Row
    <2> QED BY <2>1, <2>4 DEF Remembered
  <1> QED BY <1>1, ErasedInit, ErasedStep, PTL DEF FairSpec

-----------------------------------------------------------------------------
(* The types of the server and of the marker.                              *)
SvPlaces == {"out", "begin", "ensure", "slot", "slotLoads", "see", "main", "route",
             "generate", "marked", "configure", "reply"} \cup Loading
Served == [at : SvPlaces, use : Models \cup {NoModel}, answer : Answers]
Called == [at : {"out", "todo", "wait", "done"}, req : Requests, answer : Answers]

LEMMA SvMoves ==
  ASSUME sv \in [Callers -> Served], NEW c \in Callers
  PROVE  /\ \A at \in SvPlaces : Goto(c, at) => sv' \in [Callers -> Served]
         /\ \A answer \in Answers, m \in Models \cup {NoModel} :
              Reply(c, answer, m) => sv' \in [Callers -> Served]
         /\ \A at \in SvPlaces, m \in Models \cup {NoModel} :
              sv' = [sv EXCEPT ![c].at = at, ![c].use = m] => sv' \in [Callers -> Served]
         /\ sv' = [sv EXCEPT ![c] = AtRest] => sv' \in [Callers -> Served]
  <1>1. "reply" \in SvPlaces /\ AtRest \in Served BY DEF SvPlaces, AtRest, Served, Answers
  <1>2. ASSUME NEW answer \in Answers, NEW m \in Models \cup {NoModel}, Reply(c, answer, m)
        PROVE  sv' \in [Callers -> Served]
    <2>1. [at |-> "reply", use |-> m, answer |-> answer] \in Served BY <1>1 DEF Served
    <2> QED BY <1>2, <2>1 DEF Reply
  <1>3. ASSUME NEW at \in SvPlaces, Goto(c, at) PROVE sv' \in [Callers -> Served]
    <2>1. sv' = [sv EXCEPT ![c] = [sv[c] EXCEPT !.at = at]] BY <1>3 DEF Goto
    <2>2. [sv[c] EXCEPT !.at = at] \in Served BY DEF Served
    <2> QED BY <2>1, <2>2
  <1>4. ASSUME NEW at \in SvPlaces, NEW m \in Models \cup {NoModel},
               sv' = [sv EXCEPT ![c].at = at, ![c].use = m]
        PROVE  sv' \in [Callers -> Served]
    <2>1. sv' = [sv EXCEPT ![c] = [sv[c] EXCEPT !.at = at, !.use = m]] BY <1>4
    <2>2. [sv[c] EXCEPT !.at = at, !.use = m] \in Served BY DEF Served
    <2> QED BY <2>1, <2>2
  <1> QED BY <1>1, <1>2, <1>3, <1>4

ModelTypes == {engine, main, mm} \subseteq Models \cup {NoModel} /\ path \in Models
FlagTypes == {nemo, hears, mmProc, vllm} \subseteq BOOLEAN
ResidentTypes == ModelTypes /\ FlagTypes

LEMMA LoadDoneTypes ==
  ASSUME sv \in [Callers -> Served], NEW c \in Callers, LoadDone(c), lock \in Callers \cup {NoCaller},
         {engine', main'} \subseteq Models \cup {NoModel}, path \in Models
  PROVE  sv' \in [Callers -> Served] /\ lock' \in Callers \cup {NoCaller}
  <1>1. lock' \in Callers \cup {NoCaller} BY DEF LoadDone, Unlocked
  <1>2. PICK m : m = ResolvedName(engine', main') OBVIOUS
  <1>3. m \in Models \cup {NoModel} BY <1>2 DEF ResolvedName
  <1>4. Reply(c, "ok", m) \/ Goto(c, "main") \/ Goto(c, "route") BY <1>2 DEF LoadDone, AfterLoad
  <1>5. "ok" \in Answers /\ "main" \in SvPlaces /\ "route" \in SvPlaces BY DEF Answers, SvPlaces
  <1> QED BY <1>1, <1>3, <1>4, <1>5, SvMoves

\* Each thread of the server.
LEMMA ServerStepTypes ==
  ASSUME ServerTypeOK, NEW c \in Callers, ServerStep(c)
  PROVE  ServerTypeOK'
  <1>1. sv \in [Callers -> Served] /\ call \in [Callers -> Called] BY DEF ServerTypeOK, Served, Called, SvPlaces
  <1>2. /\ ResidentTypes /\ lock \in Callers \cup {NoCaller} /\ faults \in 0..FaultBound
        /\ kept \in BOOLEAN /\ crossed \subseteq Callers
    BY DEF ServerTypeOK, ResidentTypes, ModelTypes, FlagTypes
  <1>3. sv[c].use \in Models \cup {NoModel} /\ call[c].req.model \in Models /\ call[c].req \in Requests
    BY <1>1 DEF Served, Called, Requests
  <1>4. Disk \in Models /\ FaultBound \in Nat BY ServerAssumption
  <1>5. Wanted(c) \in Models BY <1>3, <1>4 DEF Wanted
  <1>6. \A at \in {"out", "begin", "ensure", "slot", "slotLoads", "see", "main", "route", "generate", "marked",
                   "configure", "reply", "engine", "hf", "hfLoads"} : at \in SvPlaces
    BY DEF SvPlaces, Loading
  <1>7. "ok" \in Answers /\ "error" \in Answers BY DEF Answers
  <1>8. SUFFICES /\ sv' \in [Callers -> Served] /\ call' = call /\ crossed' = crossed
                 /\ ResidentTypes' /\ lock' \in Callers \cup {NoCaller}
                 /\ faults' \in 0..FaultBound /\ kept' \in BOOLEAN
    BY <1>1, <1>2 DEF ServerTypeOK, Served, SvPlaces, ResidentTypes, ModelTypes, FlagTypes
  <1> DEFINE Goal == /\ sv' \in [Callers -> Served] /\ call' = call /\ crossed' = crossed
                     /\ ResidentTypes' /\ lock' \in Callers \cup {NoCaller}
                     /\ faults' \in 0..FaultBound /\ kept' \in BOOLEAN
             SvOK == sv' \in [Callers -> Served]
  <1>9. CASE Dispatch(c)
    <2>1. SvOK
      <3>1. \/ Goto(c, "route") \/ Goto(c, "ensure") \/ Goto(c, "see") \/ Goto(c, "slot")
            \/ Goto(c, "configure") \/ Reply(c, "ok", NoModel)
        BY <1>9 DEF Dispatch
      <3> QED BY <1>1, <1>6, <1>7, <3>1, SvMoves
    <2>2. ResidentTypes'
      <3>1. ModelTypes' BY <1>2, <1>9 DEF Dispatch, residentVars, ResidentTypes, ModelTypes
      <3>2. FlagTypes' BY <1>2, <1>9 DEF Dispatch, residentVars, ResidentTypes, FlagTypes
      <3> QED BY <3>1, <3>2 DEF ResidentTypes
    <2> QED BY <1>2, <1>9, <2>1, <2>2 DEF Dispatch
  <1>10. CASE TakeLock(c)
    <2>1. SvOK
      <3>1. \/ Goto(c, "main") \/ Goto(c, "route") \/ Goto(c, "engine") \/ Goto(c, "hf")
        BY <1>10 DEF TakeLock, AfterLoad
      <3> QED BY <1>1, <1>6, <3>1, SvMoves
    <2>2. ResidentTypes'
      <3>1. ModelTypes' BY <1>2, <1>4, <1>10 DEF TakeLock, residentVars, ResidentTypes, ModelTypes
      <3>2. FlagTypes' BY <1>2, <1>4, <1>10 DEF TakeLock, residentVars, ResidentTypes, FlagTypes
      <3> QED BY <3>1, <3>2 DEF ResidentTypes
    <2> QED BY <1>2, <1>10, <2>1, <2>2 DEF TakeLock
  <1>11. CASE SwapConfigures(c)
    <2>1. SvOK
      <3>1. Goto(c, "engine") \/ Goto(c, "hf") BY <1>11 DEF SwapConfigures
      <3> QED BY <1>1, <1>6, <3>1, SvMoves
    <2>2. ResidentTypes'
      <3>1. ModelTypes' BY <1>2, <1>3, <1>11 DEF SwapConfigures, residentVars, ResidentTypes, ModelTypes
      <3>2. FlagTypes' BY <1>2, <1>3, <1>11 DEF SwapConfigures, residentVars, ResidentTypes, FlagTypes
      <3> QED BY <3>1, <3>2 DEF ResidentTypes
    <2> QED BY <1>2, <1>11, <2>1, <2>2 DEF SwapConfigures
  <1>12. CASE LoadEngine(c)
    <2>1. ResidentTypes'
      <3>1. ModelTypes' BY <1>2, <1>5, <1>12 DEF LoadEngine, ResidentTypes, ModelTypes
      <3>2. FlagTypes'
        <4>1. nemo' = nemo /\ mmProc' = mmProc /\ vllm' = vllm BY <1>12 DEF LoadEngine
        <4>2. hears' = hears \/ hears' = (Wanted(c) \in Hears) BY <1>12 DEF LoadEngine
        <4>3. {nemo, hears, mmProc, vllm} \subseteq BOOLEAN BY <1>2 DEF ResidentTypes, FlagTypes
        <4>4. hears' \in BOOLEAN
          <5>1. hears \in BOOLEAN BY <4>3
          <5>2. CASE hears' = hears BY <5>1, <5>2
          <5>3. CASE hears' = (Wanted(c) \in Hears)
            <6>1. (Wanted(c) \in Hears) = (FALSE \/ Wanted(c) \in Hears) OBVIOUS
            <6>2. (FALSE \/ Wanted(c) \in Hears) \in BOOLEAN BY Zenon
            <6> QED BY <5>3, <6>1, <6>2, Zenon
          <5> QED BY <4>2, <5>2, <5>3
        <4> QED BY <4>1, <4>3, <4>4 DEF FlagTypes
      <3> QED BY <3>1, <3>2 DEF ResidentTypes
    <2>2. SvOK /\ lock' \in Callers \cup {NoCaller}
      <3>1. CASE LoadDone(c) BY <1>1, <1>2, <2>1, <3>1, LoadDoneTypes DEF ResidentTypes, ModelTypes
      <3>2. CASE Goto(c, "hf") /\ lock' = lock BY <1>1, <1>2, <1>6, <3>2, SvMoves
      <3> QED BY <1>12, <3>1, <3>2 DEF LoadEngine
    <2>3. faults' \in 0..FaultBound BY <1>2, <1>4, <1>12 DEF LoadEngine, MayFail
    <2> QED BY <1>2, <1>12, <2>1, <2>2, <2>3 DEF LoadEngine
  <1>13. CASE HfBegins(c)
    <2>1. ResidentTypes'
      <3>1. ModelTypes' BY <1>2, <1>13 DEF HfBegins, residentVars, ResidentTypes, ModelTypes
      <3>2. FlagTypes' BY <1>2, <1>13 DEF HfBegins, residentVars, ResidentTypes, FlagTypes
      <3> QED BY <3>1, <3>2 DEF ResidentTypes
    <2>2. SvOK /\ lock' \in Callers \cup {NoCaller}
      <3>1. CASE LoadDone(c) BY <1>1, <1>2, <2>1, <3>1, LoadDoneTypes DEF ResidentTypes, ModelTypes
      <3>2. CASE /\ sv' = [sv EXCEPT ![c].at = "hfLoads",
                                     ![c].use = IF Op(c) = "swap" THEN call[c].req.model ELSE path]
                 /\ lock' = lock
        <4>1. PICK m \in Models : m = IF Op(c) = "swap" THEN call[c].req.model ELSE path
          BY <1>2, <1>3 DEF ResidentTypes, ModelTypes
        <4> QED BY <1>1, <1>2, <1>6, <3>2, <4>1, SvMoves
      <3> QED BY <1>13, <3>1, <3>2 DEF HfBegins
    <2> QED BY <1>2, <1>13, <2>1, <2>2 DEF HfBegins
  <1>14. CASE HfLoads(c)
    <2>1. ResidentTypes'
      <3>1. ModelTypes' BY <1>2, <1>3, <1>14 DEF HfLoads, residentVars, ResidentTypes, ModelTypes
      <3>2. FlagTypes'
        <4>1. mmProc' = mmProc /\ vllm' = vllm BY <1>14 DEF HfLoads, residentVars
        <4>2. hears' = hears \/ hears' = (sv[c].use \in Hears) BY <1>14 DEF HfLoads, residentVars
        <4>3. nemo' = nemo \/ nemo' = (nemo \/ Wanted(c) \in Nemotron) BY <1>14 DEF HfLoads, residentVars
        <4>4. {nemo, hears, mmProc, vllm} \subseteq BOOLEAN BY <1>2 DEF ResidentTypes, FlagTypes
        <4>5. hears' \in BOOLEAN
          <5>1. hears \in BOOLEAN BY <4>4
          <5>2. CASE hears' = hears BY <5>1, <5>2
          <5>3. CASE hears' = (sv[c].use \in Hears)
            <6>1. (sv[c].use \in Hears) = (FALSE \/ sv[c].use \in Hears) OBVIOUS
            <6>2. (FALSE \/ sv[c].use \in Hears) \in BOOLEAN BY Zenon
            <6> QED BY <5>3, <6>1, <6>2, Zenon
          <5> QED BY <4>2, <5>2, <5>3
        <4>6. nemo' \in BOOLEAN
          <5>1. nemo \in BOOLEAN BY <4>4
          <5>2. CASE nemo' = nemo BY <5>1, <5>2
          <5>3. CASE nemo' = (nemo \/ Wanted(c) \in Nemotron) BY <5>3, Zenon
          <5> QED BY <4>3, <5>2, <5>3
        <4> QED BY <4>1, <4>4, <4>5, <4>6 DEF FlagTypes
      <3> QED BY <3>1, <3>2 DEF ResidentTypes
    <2>2. SvOK /\ lock' \in Callers \cup {NoCaller}
      <3>1. CASE LoadDone(c) BY <1>1, <1>2, <2>1, <3>1, LoadDoneTypes DEF ResidentTypes, ModelTypes
      <3>2. CASE LoadRefused(c) BY <1>1, <1>2, <1>7, <3>2, SvMoves DEF LoadRefused, Unlocked
      <3> QED BY <1>14, <3>1, <3>2 DEF HfLoads
    <2>3. faults' \in 0..FaultBound BY <1>2, <1>4, <1>14 DEF HfLoads, MayFail
    <2> QED BY <1>2, <1>14, <2>1, <2>2, <2>3 DEF HfLoads
  <1>15. CASE Route(c)
    <2>1. SvOK
      <3>1. CASE Reply(c, "error", NoModel) BY <1>1, <1>7, <3>1, SvMoves
      <3>2. CASE sv' = [sv EXCEPT ![c].at = "generate",
                                  ![c].use = IF RouteOf(main, nemo) = "engine" THEN engine ELSE main]
        <4>1. PICK m \in Models \cup {NoModel} : m = IF RouteOf(main, nemo) = "engine" THEN engine ELSE main
          BY <1>2 DEF ResidentTypes, ModelTypes
        <4> QED BY <1>1, <1>6, <3>2, <4>1, SvMoves
      <3> QED BY <1>15, <3>1, <3>2 DEF Route
    <2>2. ResidentTypes'
      <3>1. ModelTypes' BY <1>2, <1>15 DEF Route, residentVars, ResidentTypes, ModelTypes
      <3>2. FlagTypes' BY <1>2, <1>15 DEF Route, residentVars, ResidentTypes, FlagTypes
      <3> QED BY <3>1, <3>2 DEF ResidentTypes
    <2> QED BY <1>2, <1>15, <2>1, <2>2 DEF Route
  <1>16. CASE Generate(c)
    <2>1. SvOK
      <3>1. Reply(c, "ok", sv[c].use) \/ Reply(c, "ok", main) \/ Reply(c, "error", NoModel)
        BY <1>16 DEF Generate
      <3> QED BY <1>1, <1>2, <1>3, <1>7, <3>1, SvMoves DEF ResidentTypes, ModelTypes
    <2>2. ResidentTypes'
      <3>1. ModelTypes' BY <1>2, <1>16 DEF Generate, residentVars, ResidentTypes, ModelTypes
      <3>2. FlagTypes' BY <1>2, <1>16 DEF Generate, residentVars, ResidentTypes, FlagTypes
      <3> QED BY <3>1, <3>2 DEF ResidentTypes
    <2> QED BY <1>2, <1>16, <2>1, <2>2 DEF Generate
  <1>17. CASE Slot(c)
    <2>1. SvOK
      <3>1. Goto(c, "see") \/ Goto(c, "slotLoads") BY <1>17 DEF Slot
      <3> QED BY <1>1, <1>6, <3>1, SvMoves
    <2>2. ResidentTypes'
      <3>1. ModelTypes' BY <1>2, <1>17 DEF Slot, residentVars, ResidentTypes, ModelTypes
      <3>2. FlagTypes' BY <1>2, <1>17 DEF Slot, residentVars, ResidentTypes, FlagTypes
      <3> QED BY <3>1, <3>2 DEF ResidentTypes
    <2> QED BY <1>2, <1>17, <2>1, <2>2 DEF Slot
  <1>18. CASE SlotLoads(c)
    <2>1. SvOK BY <1>1, <1>6, <1>18, SvMoves DEF SlotLoads
    <2>2. ResidentTypes'
      <3>1. ModelTypes' BY <1>2, <1>18, ServerAssumption DEF SlotLoads, ResidentTypes, ModelTypes
      <3>2. FlagTypes' BY <1>2, <1>18, ServerAssumption DEF SlotLoads, ResidentTypes, FlagTypes
      <3> QED BY <3>1, <3>2 DEF ResidentTypes
    <2>3. faults' \in 0..FaultBound BY <1>2, <1>4, <1>18 DEF SlotLoads, MayFail
    <2> QED BY <1>2, <1>18, <2>1, <2>2, <2>3 DEF SlotLoads
  <1>19. CASE See(c)
    <2>1. SvOK
      <3>1. sv' = [sv EXCEPT ![c].at = "marked", ![c].use = mm] \/ Goto(c, "main") \/ Goto(c, "ensure")
        BY <1>19 DEF See
      <3> QED BY <1>1, <1>2, <1>6, <3>1, SvMoves DEF ResidentTypes, ModelTypes
    <2>2. ResidentTypes'
      <3>1. ModelTypes' BY <1>2, <1>19 DEF See, residentVars, ResidentTypes, ModelTypes
      <3>2. FlagTypes' BY <1>2, <1>19 DEF See, residentVars, ResidentTypes, FlagTypes
      <3> QED BY <3>1, <3>2 DEF ResidentTypes
    <2> QED BY <1>2, <1>19, <2>1, <2>2 DEF See
  <1>20. CASE UseMain(c)
    <2>1. SvOK
      <3>1. sv' = [sv EXCEPT ![c].at = "generate", ![c].use = main] \/ Reply(c, "error", NoModel)
        BY <1>20 DEF UseMain
      <3> QED BY <1>1, <1>2, <1>6, <1>7, <3>1, SvMoves DEF ResidentTypes, ModelTypes
    <2>2. ResidentTypes'
      <3>1. ModelTypes' BY <1>2, <1>20 DEF UseMain, residentVars, ResidentTypes, ModelTypes
      <3>2. FlagTypes' BY <1>2, <1>20 DEF UseMain, residentVars, ResidentTypes, FlagTypes
      <3> QED BY <3>1, <3>2 DEF ResidentTypes
    <2> QED BY <1>2, <1>20, <2>1, <2>2 DEF UseMain
  <1>21. CASE Unread(c)
    <2>1. SvOK BY <1>1, <1>21, SvMoves DEF Unread
    <2>2. ResidentTypes'
      <3>1. ModelTypes' BY <1>2, <1>21 DEF Unread, residentVars, ResidentTypes, ModelTypes
      <3>2. FlagTypes' BY <1>2, <1>21 DEF Unread, residentVars, ResidentTypes, FlagTypes
      <3> QED BY <3>1, <3>2 DEF ResidentTypes
    <2> QED BY <1>2, <1>21, <2>1, <2>2 DEF Unread
  <1> QED BY <1>9, <1>10, <1>11, <1>12, <1>13, <1>14, <1>15, <1>16, <1>17, <1>18, <1>19, <1>20, <1>21
          DEF ServerStep

\* The clients of the server.
LEMMA ServerTypesStep ==
  ASSUME ServerTypeOK, [Next]_vars
  PROVE  ServerTypeOK'
  <1>1. sv \in [Callers -> Served] /\ call \in [Callers -> Called] BY DEF ServerTypeOK, Served, Called, SvPlaces
  <1> DEFINE Rest == /\ UNCHANGED <<residentVars, path, vllm, lock>> /\ kept' = kept
                     /\ sv' \in [Callers -> Served] /\ call' \in [Callers -> Called]
                     /\ faults' \in 0..FaultBound /\ crossed' \subseteq Callers
  <1>2. ASSUME Rest PROVE ServerTypeOK'
    BY <1>2 DEF ServerTypeOK, Served, Called, SvPlaces, residentVars
  <1>3. \A at \in {"out", "todo", "wait", "done"}, answer \in Answers, c \in Callers :
          [call[c] EXCEPT !.at = at, !.answer = answer] \in Called /\ [call[c] EXCEPT !.at = at] \in Called
    BY <1>1 DEF Called
  <1>4. "begin" \in SvPlaces /\ "error" \in Answers BY DEF SvPlaces, Answers
  <1>5. faults \in 0..FaultBound /\ crossed \subseteq Callers BY DEF ServerTypeOK
  <1>6. ASSUME UNCHANGED serverVars PROVE ServerTypeOK'
    BY <1>1, <1>2, <1>5, <1>6 DEF serverVars
  <1>7. ASSUME NEW c \in Callers, Connect(c) PROVE ServerTypeOK'
    <2>1. sv' \in [Callers -> Served]
      <3>1. Goto(c, "begin") BY <1>7 DEF Connect, Goto
      <3> QED BY <1>1, <1>4, <3>1, SvMoves
    <2>2. call' \in [Callers -> Called]
      <3>1. call' = [call EXCEPT ![c] = [call[c] EXCEPT !.at = "wait"]] BY <1>7 DEF Connect
      <3>2. PICK a : a \in Answers BY <1>4
      <3>3. [call[c] EXCEPT !.at = "wait"] \in Called BY <1>3, <3>2
      <3> QED BY <1>1, <3>1, <3>3
    <2>3. crossed' \subseteq Callers
      <3>1. InServer \subseteq Callers BY DEF InServer
      <3> QED BY <1>5, <1>7, <3>1 DEF Connect
    <2> QED BY <1>2, <1>5, <1>7, <2>1, <2>2, <2>3 DEF Connect
  <1>8. ASSUME NEW c \in Callers, Answered(c) PROVE ServerTypeOK'
    <2>1. sv' \in [Callers -> Served] BY <1>1, <1>8, SvMoves DEF Answered
    <2>2. call' \in [Callers -> Called]
      <3>1. sv[c].answer \in Answers BY <1>1 DEF Served
      <3>2. call' = [call EXCEPT ![c] = [call[c] EXCEPT !.at = "done", !.answer = sv[c].answer]]
        BY <1>8 DEF Answered
      <3> QED BY <1>1, <1>3, <3>1, <3>2
    <2> QED BY <1>2, <1>5, <1>8, <2>1, <2>2 DEF Answered
  <1>9. ASSUME NEW c \in Callers, GiveUp(c) PROVE ServerTypeOK'
    <2>1. call' \in [Callers -> Called]
      <3>1. call' = [call EXCEPT ![c] = [call[c] EXCEPT !.at = "done", !.answer = "error"]]
        BY <1>9 DEF GiveUp
      <3> QED BY <1>1, <1>3, <1>4, <3>1
    <2>2. faults' \in 0..FaultBound BY <1>5, <1>9, ServerAssumption DEF GiveUp, MayFail
    <2> QED BY <1>1, <1>2, <1>5, <1>9, <2>1, <2>2 DEF GiveUp
  <1>10. ASSUME NEW u \in Turns, CallServer(u) PROVE ServerTypeOK'
    <2>1. Asks(u) \in Requests BY <1>10, ServerAssumption DEF Asks, Requests
    <2>2. [at |-> "todo", req |-> Asks(u), answer |-> "none"] \in Called BY <2>1 DEF Called, Answers
    <2>3. call' \in [Callers -> Called] BY <1>1, <1>10, <2>2 DEF CallServer
    <2> QED BY <1>1, <1>2, <1>5, <1>10, <2>3 DEF CallServer
  <1>11. CASE Crash
    <2>1. call' \in [Callers -> Called]
      <3>1. \A c \in Callers : [call[c] EXCEPT !.at = "done", !.answer = "error"] \in Called
        BY <1>3, <1>4
      <3>2. \A c \in Callers : call[c] \in Called BY <1>1
      <3> HIDE DEF Called
      <3> QED BY <1>11, <3>1, <3>2 DEF Crash
    <2> QED BY <1>1, <1>2, <1>5, <1>11, <2>1 DEF Crash
  <1>12. ASSUME NEW c \in Callers, Serves(c) \/ TimesOut(c) PROVE ServerTypeOK'
    BY <1>7, <1>8, <1>9, <1>12, ServerStepTypes DEF Serves, TimesOut
  <1>13. CASE Polls \/ Sends \/ Engine \/ TimePasses \/ UNCHANGED vars
    BY <1>6, <1>13 DEF Polls, Sends, Engine, TimePasses, vars
  <1>14. ASSUME NEW u \in Turns, Chat(u) \/ Returned(u) PROVE ServerTypeOK'
    BY <1>6, <1>14 DEF Chat, Returned
  <1>15. ASSUME NEW p \in Peers, Marking(p) PROVE ServerTypeOK' BY <1>6, <1>15 DEF Marking
  <1> QED BY <1>10, <1>11, <1>12, <1>13, <1>14, <1>15 DEF Next, Proceeds

LEMMA ServerTypesInit == Init => ServerTypeOK
  <1> SUFFICES ASSUME Init PROVE ServerTypeOK OBVIOUS
  <1>1. scene \in Scenes /\ {scene.lazy, scene.vllm} \subseteq BOOLEAN
    BY ServingAssumption DEF Init, ChatInit
  <1>2. {Disk} \subseteq Models /\ FaultBound \in Nat BY ServerAssumption
  <1>3. AtRest \in Served BY DEF AtRest, Served, SvPlaces, Answers
  <1>4. sv \in [Callers -> Served] BY <1>3 DEF Init, ServerInit
  <1>5. call \in [Callers -> Called]
    <2>1. \A c \in DOMAIN scene.calls : Asks(c) \in Requests
      BY <1>1, <1>2, ServingAssumption DEF Asks, Requests
    <2>2. [op |-> "infer", model |-> Disk] \in Requests BY <1>2 DEF Requests
    <2>3. \A r \in Requests : /\ [at |-> "todo", req |-> r, answer |-> "none"] \in Called
                              /\ [at |-> "out", req |-> r, answer |-> "none"] \in Called
      BY DEF Called, Answers
    <2> QED BY <2>1, <2>2, <2>3 DEF Init
  <1>6. {engine, main, mm} \subseteq Models \cup {NoModel} /\ path \in Models
    BY <1>2 DEF Init, ServerInit
  <1>7. {nemo, hears, mmProc, vllm, kept} \subseteq BOOLEAN
    <2>1. nemo \in BOOLEAN BY DEF Init, ServerInit
    <2>2. hears \in BOOLEAN BY DEF Init, ServerInit
    <2>3. mmProc = FALSE /\ vllm = scene.vllm /\ kept = FALSE BY DEF Init, ServerInit
    <2> QED BY <1>1, <2>1, <2>2, <2>3
  <1>8. lock = NoCaller /\ faults = 0 /\ crossed = {} BY DEF Init, ServerInit
  <1> QED BY <1>2, <1>4, <1>5, <1>6, <1>7, <1>8 DEF ServerTypeOK, Served, Called, SvPlaces

LEMMA WatchedStep == ASSUME [Next]_vars PROVE watched' = watched
  <1>1. ASSUME NEW p \in Peers, Marking(p) PROVE watched' = watched
    BY <1>1 DEF Marking, MarkStart, MarkEnd, Read, Truncate, WriteStart, WriteEnd
  <1>2. CASE Engine \/ TimePasses
    BY <1>2 DEF Engine, TimePasses, HealRead, HealOpen, HealWrite, QuietPause, LongPause, Age
  <1>3. CASE Crash BY <1>3 DEF Crash, Cut
  <1>4. CASE Polls \/ Sends \/ UNCHANGED vars BY <1>4 DEF Polls, Sends, vars, activityVars
  <1>5. ASSUME NEW u \in Turns, Chat(u) \/ CallServer(u) \/ Returned(u) PROVE watched' = watched
    BY <1>5 DEF Chat, CallServer, Returned, activityVars
  <1>6. ASSUME NEW c \in Callers, Serves(c) \/ TimesOut(c) PROVE watched' = watched
    BY <1>6 DEF Serves, TimesOut, activityVars
  <1> QED BY <1>1, <1>2, <1>3, <1>4, <1>5, <1>6 DEF Next, Proceeds

(* The types of the chat, of the server and of the marker (ServingTypeOK), *)
(* for every scene, any number of turns and callers and every model: the   *)
(* offsets stay within what was sent, every row is typed and of a session  *)
(* with an id, and the marker never goes below zero.                       *)
THEOREM ServingTypesHold == FairSpec => []ServingTypeOK
  <1> DEFINE Types == ChatTypes /\ ServerTypeOK /\ MarkInv /\ watched \in BOOLEAN
  <1>1. Init => Types
    <2>1. Init => watched \in BOOLEAN BY ServingAssumption DEF Init, ActivityInit, ChatInit
    <2> QED BY <2>1, ChatTypesInit, ServerTypesInit, MarkInit
  <1>2. Types /\ [Next]_vars => Types' BY ChatTypesStep, ServerTypesStep, MarkStep, WatchedStep
  <1>3. Types => ServingTypeOK
    <2> SUFFICES ASSUME Types PROVE ServingTypeOK OBVIOUS
    <2>1. ActivityTypeOK BY DEF MarkInv, MarkType, ActivityTypeOK
    <2>2. ChatTypeOK
      <3>1. PollTypes /\ TurnTypes /\ StoreTypes BY DEF ChatTypes
      <3>2. \A u \in Turns : /\ turn[u].at \in Places
                             /\ turn[u].hist \in Seq(Message)
                             /\ turn[u].sess \in Nat \cup {NoSession}
                             /\ {turn[u].base, turn[u].reply} \subseteq Nat
        BY <3>1 DEF TurnTypes, TurnOK, TurnRecord
      <3> QED BY <3>1, <3>2 DEF PollTypes, StoreTypes, Session, Row, ChatTypeOK
    <2> QED BY <2>1, <2>2 DEF ServingTypeOK
  <1> HIDE DEF Types
  <1> QED BY <1>1, <1>2, <1>3, PTL DEF FairSpec

-----------------------------------------------------------------------------
(* What a chat holds, told as roles and turns.                             *)
Roles == {"user", "assistant"} \X Turns
BothOf(u) == <<<<"user", u>>, <<"assistant", u>>>>
SayOn(R) == [p \in Seq(Roles) \X R |-> p[1] \o <<<<"user", p[2]>>, <<"assistant", p[2]>>>>]

LEMMA SayOnBuilds == ASSUME NEW R, R \subseteq Turns PROVE Builder(SayOn(R), Roles, R)
  BY DEF SayOn, Builder, Roles

LEMMA SaidIsBuilt ==
  ASSUME NEW R, R \subseteq Turns, NEW s \in Seq(R)
  PROVE  Said(s) = Build(SayOn(R), s)
  <1> DEFINE F == SayOn(R)
             f(a, e) == a \o <<<<"user", e>>, <<"assistant", e>>>>
             Eq(h) == h = [T \in SUBSET (1..Len(s)) |-> IF T = {} THEN <<>> ELSE f(h[T \ {Max(T)}], s[Max(T)])]
             h == CHOOSE h : Eq(h)
  <1>1. DOMAIN s = 1..Len(s) /\ Len(s) \in Nat /\ <<>> \in Seq(Roles) OBVIOUS
  <1>2. Said(s) = End(h, s) BY <1>1 DEF Said, FoldLeft, MapThenFoldSet, End
  <1>3. Builder(F, Roles, R) BY SayOnBuilds
  <1>4. \A T \in SUBSET (1..Len(s)) : T # {} => s[Max(T)] \in R /\ T \ {Max(T)} \in SUBSET (1..Len(s))
    BY <1>1, MaxIn
  <1>5. \A a \in Seq(Roles), e \in R : F[<<a, e>>] = f(a, e) BY DEF SayOn
  <1> HIDE DEF F, f
  <1>6. \E g : Eq(g)
    <2>1. Len(s) \in 0..Len(s) /\ F \in [Seq(Roles) \X R -> Seq(Roles)] BY <1>1, <1>3 DEF Builder
    <2>2. PICK g \in [SUBSET (1..Len(s)) -> Seq(Roles)] : Runs(g, F, <<>>, s, Len(s))
      BY <1>1, <2>1, RunExists
    <2>3. \A T \in SUBSET (1..Len(s)) : g[T] = RunStep(g, F, <<>>, s, T) BY <2>2 DEF Runs
    <2>4. \A T \in SUBSET (1..Len(s)) : g[T] = IF T = {} THEN <<>> ELSE f(g[T \ {Max(T)}], s[Max(T)])
      BY <1>4, <1>5, <2>3 DEF RunStep
    <2> QED BY <2>4
  <1>7. Eq(h) BY <1>6
  <1> HIDE DEF h
  <1>8. h[{}] = <<>> BY <1>7
  <1>9. \A T \in SUBSET (1..Len(s)) : T # {} => h[T] = f(h[T \ {Max(T)}], s[Max(T)]) BY <1>7
  <1>10. BuiltBy(h, Roles, F, s) BY <1>4, <1>5, <1>8, <1>9 DEF BuiltBy
  <1>11. End(h, s) = Build(F, s) BY <1>3, <1>10, BuildFacts
  <1> QED BY <1>2, <1>11 DEF F

LEMMA SaidFacts ==
  /\ Said(<<>>) = <<>>
  /\ \A us \in Seq(Turns) : Said(us) \in Seq(Roles)
  /\ \A us \in Seq(Turns), u \in Turns : Said(Append(us, u)) = Said(us) \o BothOf(u)
  <1>1. Builder(SayOn(Turns), Roles, Turns) BY SayOnBuilds
  <1>2. <<>> \in Seq(Turns) OBVIOUS
  <1>3. \A us \in Seq(Turns) : Said(us) = Build(SayOn(Turns), us) BY SaidIsBuilt
  <1>4. \A us \in Seq(Turns) : Said(us) \in Seq(Roles) BY <1>1, <1>3, BuildFacts
  <1>5. Said(<<>>) = <<>> BY <1>1, <1>2, <1>3, BuildFacts
  <1>6. ASSUME NEW us \in Seq(Turns), NEW u \in Turns PROVE Said(Append(us, u)) = Said(us) \o BothOf(u)
    <2>1. Append(us, u) \in Seq(Turns) OBVIOUS
    <2>2. Build(SayOn(Turns), Append(us, u)) = SayOn(Turns)[<<Build(SayOn(Turns), us), u>>]
      BY <1>1, BuildAppend
    <2>3. Said(Append(us, u)) = SayOn(Turns)[<<Said(us), u>>] BY <1>3, <2>1, <2>2
    <2>4. Said(us) \in Seq(Roles) BY <1>4
    <2> QED BY <2>3, <2>4 DEF SayOn, BothOf
  <1> QED BY <1>4, <1>5, <1>6

\* Element by element, a concatenation goes along.
LEMMA MappedConcat ==
  ASSUME NEW A, NEW B, NEW f \in [A -> B], NEW s \in Seq(A), NEW t \in Seq(A)
  PROVE  /\ [i \in 1..Len(s) |-> f[s[i]]] \in Seq(B)
         /\ [i \in 1..Len(s \o t) |-> f[(s \o t)[i]]]
              = [i \in 1..Len(s) |-> f[s[i]]] \o [i \in 1..Len(t) |-> f[t[i]]]
  <1> DEFINE Map(q) == [i \in 1..Len(q) |-> f[q[i]]]
  <1>1. ASSUME NEW q \in Seq(A)
        PROVE  Map(q) \in Seq(B) /\ Len(Map(q)) = Len(q) /\ \A i \in 1..Len(q) : Map(q)[i] = f[q[i]]
    <2>1. Len(q) \in Nat /\ \A i \in 1..Len(q) : q[i] \in A OBVIOUS
    <2>2. \A i \in 1..Len(q) : f[q[i]] \in B BY <2>1
    <2>3. Map(q) \in [1..Len(q) -> B] BY <2>2
    <2> QED BY <2>1, <2>3
  <1>2. PICK w : w = s \o t OBVIOUS
  <1>3. /\ w \in Seq(A) /\ Len(w) = Len(s) + Len(t)
        /\ \A i \in 1..Len(s) + Len(t) : w[i] = IF i <= Len(s) THEN s[i] ELSE t[i - Len(s)]
    BY <1>2, ConcatProperties
  <1>4. Len(s) \in Nat /\ Len(t) \in Nat OBVIOUS
  <1> HIDE DEF Map
  <1>5. PICK x, y : x = Map(s) /\ y = Map(t) OBVIOUS
  <1>6. x \in Seq(B) /\ y \in Seq(B) /\ Len(x) = Len(s) /\ Len(y) = Len(t) BY <1>1, <1>5
  <1>7. PICK v : v = x \o y OBVIOUS
  <1>8. /\ v \in Seq(B) /\ Len(v) = Len(s) + Len(t)
        /\ \A i \in 1..Len(s) + Len(t) : v[i] = IF i <= Len(s) THEN x[i] ELSE y[i - Len(s)]
    BY <1>6, <1>7, ConcatProperties
  <1>9. \A i \in 1..Len(v) : Map(w)[i] = v[i]
    <2> SUFFICES ASSUME NEW i \in 1..Len(s) + Len(t) PROVE Map(w)[i] = v[i] BY <1>8
    <2>1. Map(w)[i] = f[w[i]] BY <1>1, <1>3
    <2>2. CASE i <= Len(s)
      <3>1. i \in 1..Len(s) BY <1>4, <2>2
      <3>2. x[i] = f[s[i]] BY <1>1, <1>5, <3>1
      <3> QED BY <1>3, <1>8, <2>1, <2>2, <3>2
    <2>3. CASE ~(i <= Len(s))
      <3>1. i - Len(s) \in 1..Len(t) BY <1>4, <2>3
      <3>2. y[i - Len(s)] = f[t[i - Len(s)]] BY <1>1, <1>5, <3>1
      <3> QED BY <1>3, <1>8, <2>1, <2>3, <3>2
    <2> QED BY <2>2, <2>3
  <1>10. Map(w) \in Seq(B) /\ Len(Map(w)) = Len(v) BY <1>1, <1>3, <1>8
  <1>11. Map(w) = v BY <1>8, <1>9, <1>10, SeqEqual
  <1> QED BY <1>1, <1>2, <1>5, <1>7, <1>11 DEF Map

LEMMA ToldFacts ==
  ASSUME NEW ms \in Seq(Message), NEW ns \in Seq(Message)
  PROVE  Told(ms) \in Seq(Roles) /\ Told(ms \o ns) = Told(ms) \o Told(ns)
  <1> DEFINE f == [m \in Message |-> <<m.role, m.turn>>]
  <1>1. f \in [Message -> Roles] BY DEF Message, Roles
  <1>2. \A q \in Seq(Message) : Told(q) = [i \in 1..Len(q) |-> f[q[i]]] BY DEF Told
  <1>3. ms \o ns \in Seq(Message) BY ConcatProperties
  <1> HIDE DEF f
  <1>4. /\ [i \in 1..Len(ms) |-> f[ms[i]]] \in Seq(Roles)
        /\ [i \in 1..Len(ms \o ns) |-> f[(ms \o ns)[i]]]
             = [i \in 1..Len(ms) |-> f[ms[i]]] \o [i \in 1..Len(ns) |-> f[ns[i]]]
    BY <1>1, MappedConcat
  <1> QED BY <1>2, <1>3, <1>4

LEMMA MessagesConcat ==
  ASSUME NEW rs \in Seq(Row(Message)), NEW qs \in Seq(Row(Message))
  PROVE  Messages(rs \o qs) = Messages(rs) \o Messages(qs)
  <1> DEFINE f == [r \in Row(Message) |-> r.msg]
  <1>1. f \in [Row(Message) -> Message] BY DEF Row
  <1>2. \A q \in Seq(Row(Message)) : Messages(q) = [i \in 1..Len(q) |-> f[q[i]]] BY DEF Messages
  <1>3. rs \o qs \in Seq(Row(Message)) BY ConcatProperties
  <1> HIDE DEF f
  <1>4. [i \in 1..Len(rs \o qs) |-> f[(rs \o qs)[i]]]
          = [i \in 1..Len(rs) |-> f[rs[i]]] \o [i \in 1..Len(qs) |-> f[qs[i]]]
    BY <1>1, MappedConcat
  <1> QED BY <1>2, <1>3, <1>4

-----------------------------------------------------------------------------
(* A plain chat is kept.  As long as turns come one at a time, the ids of  *)
(* the active session are one, what it holds is what was told, and a turn  *)
(* in flight carries that history through its places; a turn that rotates  *)
(* the session takes the history along in its hands until it inserts it.   *)
OpenIds == {s.id : s \in {t \in sessions : t.open}}
CurrentIds == IF OpenIds = {} THEN Ids \cap {Chats} ELSE OpenIds
RowsWith(rs, id) == Only(rs, [sess : {id}, msg : Message])
HoldsTold == \A id \in CurrentIds : Told(Messages(RowsWith(rows, id))) = Said(told)
StartsOver(u) == Saving(u) /\ turn[u].sess # Chats /\ RowsWith(rows, turn[u].sess) = <<>>
Rest(hist, rs) == SubSeq(hist, Len(rs) + 1, Len(hist))

Carries(u) == turn[u].at = "save" \/ (turn[u].at \in {"infer", "calling"} /\ Kind(u) # "photo")

InStep(u) ==
    /\ Carries(u) => /\ CurrentIds = {} => turn[u].hist = <<>>
                     /\ \A id \in CurrentIds : turn[u].hist = Messages(RowsWith(rows, id))
    /\ turn[u].at \in {"rotate", "open"} /\ Kind(u) # "session" =>
         Told(turn[u].hist) = Said(Append(told, u))
    /\ turn[u].at = "open" => OpenIds \subseteq {turn[u].sess}
    /\ Saving(u) => /\ Told(turn[u].hist) = Said(Append(told, u))
                    /\ CurrentIds = {turn[u].sess}
                    /\ turn[u].hist = Messages(RowsWith(rows, turn[u].sess))
                                      \o Rest(turn[u].hist, RowsWith(rows, turn[u].sess))
    /\ turn[u].at = "insert" => turn[u].base = Len(RowsWith(rows, turn[u].sess))

Orderly ==
    /\ ~strayed
    /\ \A u, v \in Running : u = v
    /\ \A i, j \in CurrentIds : i = j
    /\ CurrentIds = {} => told = <<>>
    /\ HoldsTold \/ \E u \in Running : StartsOver(u)
    /\ \A u \in Running : InStep(u)

LEMMA RowsAre ==
  /\ \A id : RowsOf(id) = RowsWith(rows, id)
  /\ \A id : Holds(id) = Told(Messages(RowsWith(rows, id)))
  BY DEF RowsOf, RowsWith, Holds

LEMMA ActiveAre ==
  ASSUME ChatTypes
  PROVE  /\ \A s \in Active : s.id \in CurrentIds
         /\ Active = {} <=> CurrentIds = {}
         /\ (\A i, j \in CurrentIds : i = j) => \A id \in CurrentIds : \E s \in Active : s.id = id
  <1> DEFINE open == {s \in sessions : s.open}
  <1>1. OpenIds = {s.id : s \in open} BY DEF OpenIds
  <1>2. CASE open = {}
    <2>1. Active = {s \in sessions : s.id = Chats} BY <1>2 DEF Active
    <2>2. CurrentIds = Ids \cap {Chats} BY <1>1, <1>2 DEF CurrentIds
    <2> QED BY <2>1, <2>2 DEF Ids
  <1>3. CASE open # {}
    <2>1. Active = {s \in open : \A t \in open : t.num <= s.num} BY <1>3 DEF Active
    <2>2. CurrentIds = {s.id : s \in open} BY <1>1, <1>3 DEF CurrentIds
    <2>3. Active # {}
      <3>1. IsFiniteSet(open)
        <4>1. IsFiniteSet(sessions) /\ open \subseteq sessions BY DEF ChatTypes, StoreTypes
        <4> HIDE DEF open
        <4> QED BY <4>1, FS_Subset
      <3>2. \A s \in open : s.num \in Nat BY DEF ChatTypes, StoreTypes, Session
      <3> HIDE DEF open
      <3> DEFINE f == [s \in open |-> s.num]
      <3>3. f \in [open -> Nat] BY <3>2
      <3> HIDE DEF f
      <3>4. PICK s \in open : \A t \in open : f[t] <= f[s] BY <1>3, <3>1, <3>3, FiniteMax
      <3>5. \A t \in open : t.num <= s.num BY <3>4 DEF f
      <3> QED BY <2>1, <3>5
    <2>4. CurrentIds # {} BY <1>3, <2>2
    <2> HIDE DEF open
    <2>5. \A s \in Active : s \in open /\ s.id \in CurrentIds BY <2>1, <2>2
    <2> QED BY <2>3, <2>4, <2>5
  <1> QED BY <1>2, <1>3

LEMMA AloneIs ==
  ASSUME Orderly, NEW u \in Running
  PROVE  /\ Running = {u} /\ u \in Turns /\ InStep(u)
         /\ ~Saving(u) => HoldsTold
  <1>1. Running = {u} /\ InStep(u) BY DEF Orderly
  <1>2. ~Saving(u) => HoldsTold BY <1>1 DEF Orderly, StartsOver
  <1> QED BY <1>1, <1>2 DEF Running

\* A step of the one turn in flight that writes neither table.
LEMMA StillOrderly ==
  ASSUME Orderly, NEW u \in Running, Others(u), UNCHANGED <<rows, sessions, told, strayed>>,
         HoldsTold \/ (u \in Running' /\ StartsOver(u)'), u \in Running' => InStep(u)'
  PROVE  Orderly'
  <1>1. Running = {u} BY AloneIs
  <1>2. Running' \subseteq {u} BY <1>1 DEF Running, Others
  <1>3. UNCHANGED <<CurrentIds, HoldsTold>> BY DEF CurrentIds, OpenIds, Ids, HoldsTold
  <1>4. ~strayed' BY DEF Orderly
  <1>5. \A i, j \in CurrentIds' : i = j BY <1>3 DEF Orderly
  <1>6. CurrentIds' = {} => told' = <<>> BY <1>3 DEF Orderly
  <1>7. HoldsTold' \/ \E v \in Running' : StartsOver(v)' BY <1>3
  <1>8. \A v \in Running' : InStep(v)' BY <1>2
  <1>9. \A v, w \in Running' : v = w BY <1>2
  <1> QED BY <1>4, <1>5, <1>6, <1>7, <1>8, <1>9 DEF Orderly

LEMMA LoadPlain ==
  ASSUME ChatTypes, Orderly, NEW u \in Running, Load(u), plain'
  PROVE  Orderly'
  <1>1. Running = {u} /\ u \in Turns /\ ~Saving(u) /\ HoldsTold BY AloneIs DEF Load, Saving
  <1>2. PICK loaded \in IF May("faults") THEN Loads \cup {Sanitised(window)} ELSE Loads :
          LET text == Kind(u) = "text"
              hist == IF text THEN Trimmed(loaded) ELSE loaded IN
          /\ turn' = [turn EXCEPT ![u].at = IF text THEN "infer" ELSE "save", ![u].hist = hist]
          /\ plain' = (plain /\ loaded \in Loads /\ \A s \in Active : hist = Messages(RowsOf(s.id)))
    BY DEF Load
  <1>3. PICK hist : hist = IF Kind(u) = "text" THEN Trimmed(loaded) ELSE loaded OBVIOUS
  <1>4. loaded \in Loads /\ \A s \in Active : hist = Messages(RowsWith(rows, s.id))
    BY <1>2, <1>3, RowsAre
  <1>5. CurrentIds = {} => hist = <<>>
    <2> SUFFICES ASSUME CurrentIds = {} PROVE hist = <<>> OBVIOUS
    <2>1. loaded = <<>> BY <1>4, ActiveAre DEF Loads
    <2>2. scene.keeps \in Nat BY SceneFacts DEF ChatTypes
    <2>3. Trimmed(loaded) = <<>> BY <2>1, <2>2 DEF Trimmed
    <2> QED BY <1>3, <2>1, <2>3
  <1>6. \A id \in CurrentIds : hist = Messages(RowsWith(rows, id)) BY <1>4, ActiveAre DEF Orderly
  <1>7. PICK at \in {"infer", "save"} : turn' = [turn EXCEPT ![u].at = at, ![u].hist = hist]
    BY <1>2, <1>3
  <1>8. Others(u) /\ turn'[u].at = at /\ turn'[u].hist = hist
    BY <1>1, <1>7 DEF Others, ChatTypes, TurnTypes, TurnOK, TurnRecord
  <1>9. UNCHANGED <<rows, sessions, told, strayed>> BY DEF Load
  <1>10. CurrentIds' = CurrentIds BY <1>9 DEF CurrentIds, OpenIds, Ids
  <1>11. InStep(u)' BY <1>5, <1>6, <1>8, <1>9, <1>10 DEF InStep, Saving
  <1> QED BY <1>1, <1>8, <1>9, <1>11, StillOrderly

LEMMA ThinkPlain ==
  ASSUME ChatTypes, Orderly, NEW u \in Running, Thinks(u)
  PROVE  Orderly'
  <1>1. Running = {u} /\ u \in Turns /\ ~Saving(u) /\ HoldsTold /\ InStep(u)
    BY AloneIs DEF Thinks, Inferred, Saving
  <1>2. UNCHANGED <<scene, rows, sessions, told, strayed>> BY DEF Thinks, Inferred, storeVars, chatHistory
  <1>3. turn[u].at \in {"infer", "calling"} BY DEF Thinks
  <1>4. /\ Others(u) /\ turn'[u].hist = turn[u].hist
        /\ turn'[u].at \in {"load", "done", "save", "calling"}
        /\ turn'[u].at = "save" => Kind(u) # "photo"
    <2>1. ASSUME NEW o, Inferred(u, o)
          PROVE  /\ Others(u) /\ turn'[u].hist = turn[u].hist
                 /\ turn'[u].at \in {"load", "done", "save"}
                 /\ turn'[u].at = "save" => Kind(u) # "photo"
      <3>1. PICK at : at = IF o = "refusal" \/ (o = "error" /\ Kind(u) = "photo") THEN "done"
                           ELSE IF Kind(u) = "photo" THEN "load" ELSE "save"
        OBVIOUS
      <3>2. \E reply : turn' = [turn EXCEPT ![u].at = at, ![u].reply = reply]
        BY <2>1, <3>1 DEF Inferred
      <3>3. Others(u) /\ turn'[u].at = at /\ turn'[u].hist = turn[u].hist
        BY <1>1, <3>2 DEF Others, ChatTypes, TurnTypes, TurnOK, TurnRecord
      <3> QED BY <3>1, <3>3
    <2>2. CASE turn' = [turn EXCEPT ![u].at = "calling"]
      BY <1>1, <2>2 DEF Others, ChatTypes, TurnTypes, TurnOK, TurnRecord
    <2> QED BY <2>1, <2>2 DEF Thinks
  <1>5. Kind(u)' = Kind(u) BY <1>2 DEF Kind
  <1>6. UNCHANGED <<CurrentIds>> BY <1>2 DEF CurrentIds, OpenIds, Ids
  <1>7. Carries(u)' => Carries(u) BY <1>3, <1>4, <1>5 DEF Carries
  <1>8. InStep(u)' BY <1>1, <1>2, <1>4, <1>6, <1>7 DEF InStep, Saving
  <1> QED BY <1>1, <1>2, <1>4, <1>8, StillOrderly

LEMMA RotatePlain ==
  ASSUME ChatTypes, Orderly, NEW u \in Running, Rotate(u)
  PROVE  Orderly'
  <1>1. Running = {u} /\ u \in Turns /\ ~Saving(u) /\ HoldsTold /\ InStep(u)
    BY AloneIs DEF Rotate, Saving
  <1>2. UNCHANGED <<scene, rows, sessions, told, strayed>> BY DEF Rotate, storeVars, chatHistory
  <1>3. PICK p \in IF Active = {} THEN {[id |-> NoSession, num |-> 0]} ELSE Active :
          turn' = [turn EXCEPT ![u].at = "open", ![u].sess = p.id, ![u].base = p.num]
    BY DEF Rotate
  <1>4. Others(u) /\ turn'[u].at = "open" /\ turn'[u].hist = turn[u].hist /\ turn'[u].sess = p.id
    BY <1>1, <1>3 DEF Others, ChatTypes, TurnTypes, TurnOK, TurnRecord
  <1>5. OpenIds \subseteq {p.id}
    <2>1. OpenIds # {} => OpenIds = CurrentIds BY DEF CurrentIds
    <2>2. CASE Active = {} BY <2>1, <2>2, ActiveAre
    <2>3. CASE Active # {}
      <3>1. p.id \in CurrentIds BY <1>3, <2>3, ActiveAre
      <3> QED BY <2>1, <3>1 DEF Orderly
    <2> QED BY <2>2, <2>3
  <1>6. Kind(u)' = Kind(u) /\ OpenIds' = OpenIds BY <1>2 DEF Kind, OpenIds
  <1>7. turn[u].at = "rotate" BY DEF Rotate
  <1>8. InStep(u)' BY <1>1, <1>2, <1>4, <1>5, <1>6, <1>7 DEF InStep, Saving, Carries
  <1> QED BY <1>1, <1>2, <1>4, <1>8, StillOrderly

LEMMA CountPlain ==
  ASSUME ChatTypes, Orderly, NEW u \in Running, Count(u)
  PROVE  Orderly'
  <1>1. Running = {u} /\ u \in Turns /\ InStep(u) BY AloneIs
  <1>2. UNCHANGED <<scene, rows, sessions, told, strayed>> BY DEF Count, storeVars, chatHistory
  <1>3. turn' = [turn EXCEPT ![u].at = "insert", ![u].base = Len(RowsWith(rows, turn[u].sess))]
    BY RowsAre DEF Count
  <1>4. /\ Others(u) /\ turn'[u].at = "insert" /\ turn'[u].hist = turn[u].hist /\ turn'[u].sess = turn[u].sess
        /\ turn'[u].base = Len(RowsWith(rows, turn[u].sess))
    BY <1>1, <1>3 DEF Others, ChatTypes, TurnTypes, TurnOK, TurnRecord
  <1>5. Saving(u) /\ Saving(u)' /\ u \in Running' BY <1>1, <1>4 DEF Count, Saving, Running
  <1>6. CurrentIds' = CurrentIds BY <1>2 DEF CurrentIds, OpenIds, Ids
  <1>7. InStep(u)' BY <1>1, <1>2, <1>4, <1>5, <1>6 DEF InStep, Carries
  <1>8. HoldsTold \/ StartsOver(u)'
    <2>1. HoldsTold \/ StartsOver(u) BY <1>1 DEF Orderly
    <2> QED BY <1>2, <1>4, <1>5, <2>1 DEF StartsOver
  <1> QED BY <1>1, <1>2, <1>4, <1>5, <1>7, <1>8, StillOrderly


LEMMA OrderlyAgain ==
  ASSUME NEW u, Running' \subseteq {u}, ~strayed',
         \A i, j \in CurrentIds' : i = j, CurrentIds' = {} => told' = <<>>,
         HoldsTold' \/ (u \in Running' /\ StartsOver(u)'), u \in Running' => InStep(u)'
  PROVE  Orderly'
  <1>1. \A v, w \in Running' : v = w OBVIOUS
  <1>2. \A v \in Running' : InStep(v)' OBVIOUS
  <1>3. HoldsTold' \/ \E v \in Running' : StartsOver(v)' OBVIOUS
  <1> QED BY <1>1, <1>2, <1>3 DEF Orderly

\* A session without rows, and what comes after those it has.
LEMMA NoRows ==
  ASSUME NEW rs \in Seq(Row(Message)), NEW id, \A i \in 1..Len(rs) : rs[i].sess # id
  PROVE  RowsWith(rs, id) = <<>>
  <1>1. PICK Q, S : Q = [sess : Nat \ {id}, msg : Message] /\ S = [sess : {id}, msg : Message] OBVIOUS
  <1>2. \A i \in 1..Len(rs) : rs[i] \in Row(Message) OBVIOUS
  <1>3. \A i \in 1..Len(rs) : rs[i] \in Q BY <1>1, <1>2 DEF Row
  <1>4. rs \in Seq(Q) BY <1>3
  <1>5. Q \cap S = {} BY <1>1
  <1> QED BY <1>1, <1>4, <1>5, OnlyNone DEF RowsWith

LEMMA RestFacts ==
  ASSUME NEW rs \in Seq(Row(Message)), NEW ms \in Seq(Message)
  PROVE  /\ Rest(Messages(rs) \o ms, rs) = ms
         /\ Messages(<<>>) = <<>> /\ Messages(<<>>) \o Rest(ms, <<>>) = ms
         /\ Rest(ms, rs) \in Seq(Message)
  <1>2. PICK q : q = Messages(rs) OBVIOUS
  <1>1. PICK h : h = q \o ms OBVIOUS
  <1>3. q \in Seq(Message) /\ Len(q) = Len(rs) BY <1>2, MessagesOf
  <1>4. PICK m \in Nat, n \in Nat : m = Len(rs) /\ n = Len(ms) OBVIOUS
  <1>5. h \in Seq(Message) /\ Len(h) = m + n /\ \A i \in 1..m + n : h[i] = IF i <= m THEN q[i] ELSE ms[i - m]
    BY <1>1, <1>3, <1>4, ConcatProperties
  <1>6. PICK w : w = SubSeq(h, m + 1, m + n) OBVIOUS
  <1>7. w \in Seq(Message) /\ Len(w) = n /\ \A i \in 1..n : w[i] = h[m + i]
    <2>1. \A i \in m + 1..m + n : h[i] \in Message BY <1>4, <1>5
    <2> QED BY <1>4, <1>6, <2>1, SubSeqProperties
  <1>8. \A i \in 1..n : w[i] = ms[i] BY <1>4, <1>5, <1>7
  <1>9. w = ms BY <1>4, <1>7, <1>8, SeqEqual
  <1>10. Rest(Messages(rs) \o ms, rs) = ms BY <1>1, <1>2, <1>4, <1>5, <1>6, <1>9 DEF Rest
  <1>11. Messages(<<>>) = <<>> BY DEF Messages
  <1>12. Rest(ms, <<>>) = ms BY DEF Rest
  <1>13. Rest(ms, rs) \in Seq(Message)
    <2>1. \A i \in m + 1..n : ms[i] \in Message BY <1>4
    <2>2. SubSeq(ms, m + 1, n) \in Seq(Message) BY <1>4, <2>1, SubSeqProperties
    <2> QED BY <1>4, <2>2 DEF Rest
  <1> QED BY <1>10, <1>11, <1>12, <1>13

LEMMA SavedSays ==
  ASSUME ChatTypes, NEW u \in 1..sent, u \in Turns, turn[u] \in TurnRecord, told \in Seq(Turns),
         Told(turn[u].hist) = Said(told)
  PROVE  Pair(u) \in Seq(Message) /\ Told(turn[u].hist \o Pair(u)) = Said(Append(told, u))
  <1>1. PICK m : m = [role |-> "assistant", turn |-> u, text |-> turn[u].reply] OBVIOUS
  <1>2. m \in Message /\ m.role = "assistant" /\ m.turn = u BY <1>1 DEF Message, TurnRecord
  <1>3. PICK k : k = Sent(u) OBVIOUS
  <1>4. k \in Message /\ k.role = "user" /\ k.turn = u BY <1>3, SceneFacts DEF ChatTypes, Sent
  <1>5. PICK p : p = <<k, m>> OBVIOUS
  <1>6. p \in Seq(Message) /\ Len(p) = 2 /\ p[1] = k /\ p[2] = m BY <1>2, <1>4, <1>5
  <1>7. Pair(u) = p BY <1>1, <1>3, <1>5 DEF Pair
  <1>8. Told(p) = BothOf(u)
    <2>1. Told(p) = [i \in 1..2 |-> <<p[i].role, p[i].turn>>] BY <1>6 DEF Told
    <2> QED BY <1>2, <1>4, <1>6, <2>1 DEF BothOf
  <1>9. turn[u].hist \in Seq(Message) BY DEF TurnRecord
  <1>10. Told(turn[u].hist \o p) = Told(turn[u].hist) \o Told(p) BY <1>6, <1>9, ToldFacts
  <1>11. Said(Append(told, u)) = Said(told) \o BothOf(u) BY SaidFacts
  <1> QED BY <1>6, <1>7, <1>8, <1>10, <1>11

LEMMA SavePlain ==
  ASSUME ChatTypes, Orderly, Housed, told \in Seq(Turns), NEW u \in Running, Save(u), plain'
  PROVE  Orderly'
  <1>1. Running = {u} /\ u \in Turns /\ ~Saving(u) /\ HoldsTold /\ InStep(u)
    BY AloneIs DEF Save, Saving
  <1>2. u \in 1..sent /\ turn[u] \in TurnRecord /\ turn[u].hist \in Seq(Message) /\ DOMAIN turn = Turns
    BY <1>1 DEF ChatTypes, TurnTypes, TurnOK, TurnRecord, Running
  <1>3. UNCHANGED <<scene, rows, told, strayed>> /\ turn[u].at = "save" BY DEF Save
  <1>4. rows \in Seq(Row(Message)) BY DEF ChatTypes, StoreTypes
  <1>5. /\ CurrentIds = {} => turn[u].hist = <<>>
        /\ \A id \in CurrentIds : turn[u].hist = Messages(RowsWith(rows, id))
    BY <1>1, <1>3 DEF InStep, Carries
  <1>6. PICK messages : messages = turn[u].hist \o Pair(u) OBVIOUS
  <1> DEFINE To(at, id) == turn' = [turn EXCEPT ![u].at = at, ![u].hist = messages, ![u].sess = id]
             fresh == [id |-> Chats, num |-> 1, open |-> TRUE, count |-> 0]
  <1>7. ASSUME NEW at \in {"rotate", "count"}, NEW id \in Nat, To(at, id),
               turn[u].hist = Messages(RowsWith(rows, id)), Told(turn[u].hist) = Said(told),
               CurrentIds' = {id}
        PROVE  Orderly'
    <2>1. Others(u) /\ turn'[u].at = at /\ turn'[u].hist = messages /\ turn'[u].sess = id
      BY <1>1, <1>2, <1>7 DEF Others, TurnRecord
    <2>2. Pair(u) \in Seq(Message) /\ Told(messages) = Said(Append(told, u))
      BY <1>1, <1>2, <1>6, <1>7, SavedSays
    <2>3. RowsWith(rows, id) \in Seq(Row(Message)) BY <1>4, OnlyFacts DEF RowsWith
    <2>4. messages = Messages(RowsWith(rows, id)) \o Rest(messages, RowsWith(rows, id))
      BY <1>6, <1>7, <2>2, <2>3, RestFacts
    <2>5. InStep(u)' BY <1>3, <1>7, <2>1, <2>2, <2>4 DEF InStep, Carries, Saving
    <2>6. HoldsTold' BY <1>3, <1>7 DEF HoldsTold
    <2>7. Running' \subseteq {u} BY <1>1, <2>1 DEF Running, Others
    <2>8. ~strayed' BY <1>3 DEF Orderly
    <2> QED BY <1>7, <2>5, <2>6, <2>7, <2>8, OrderlyAgain
  <1>8. \/ Active = {} /\ sessions' = sessions \cup {fresh} /\ To("count", Chats)
        \/ sessions' = sessions /\ \E s \in Active : To(IF s.count >= Split THEN "rotate" ELSE "count", s.id)
    BY <1>6 DEF Save
  <1> HIDE DEF To
  <1>9. CASE Active = {} /\ sessions' = sessions \cup {fresh} /\ To("count", Chats)
    <2>1. CurrentIds = {} /\ turn[u].hist = <<>> /\ told = <<>>
      <3>1. CurrentIds = {} BY <1>9, ActiveAre
      <3> QED BY <1>5, <3>1 DEF Orderly
    <2>2. OpenIds = {} /\ Chats \notin Ids BY <2>1 DEF CurrentIds
    <2>3. RowsWith(rows, Chats) = <<>>
      <3>1. PICK J : J = Ids OBVIOUS
      <3>2. PICK Q : Q = [sess : J, msg : Message] OBVIOUS
      <3>3. rows \in Seq(Q) BY <3>1, <3>2 DEF Housed
      <3>4. \A i \in 1..Len(rows) : rows[i].sess # Chats
        <4>1. \A i \in 1..Len(rows) : rows[i] \in Q BY <3>3
        <4> QED BY <2>2, <3>1, <3>2, <4>1
      <3> QED BY <1>4, <3>4, NoRows
    <2>4. CurrentIds' = {Chats}
      <3>1. PICK n : n = fresh OBVIOUS
      <3>2. n.id = Chats /\ n.open /\ sessions' = sessions \cup {n} BY <1>9, <3>1
      <3>3. \A s \in sessions : ~s.open BY <2>2 DEF OpenIds
      <3>4. {t \in sessions' : t.open} = {n} BY <3>2, <3>3
      <3>5. OpenIds' = {Chats} BY <3>2, <3>4 DEF OpenIds
      <3> QED BY <3>5 DEF CurrentIds
    <2>5. Messages(RowsWith(rows, Chats)) = <<>> BY <2>3 DEF Messages
    <2>6. Told(turn[u].hist) = Said(told) BY <2>1, SaidFacts DEF Told
    <2>7. Chats \in Nat BY DEF Chats
    <2> QED BY <1>7, <1>9, <2>1, <2>4, <2>5, <2>6, <2>7
  <1>10. CASE /\ sessions' = sessions
              /\ \E s \in Active : To(IF s.count >= Split THEN "rotate" ELSE "count", s.id)
    <2>1. PICK s \in Active : To(IF s.count >= Split THEN "rotate" ELSE "count", s.id) BY <1>10
    <2>2. s.id \in Nat /\ s.id \in CurrentIds BY ActiveIs, ActiveAre
    <2>3. CurrentIds = {s.id} BY <2>2 DEF Orderly
    <2>4. CurrentIds' = CurrentIds BY <1>10 DEF CurrentIds, OpenIds, Ids
    <2>5. turn[u].hist = Messages(RowsWith(rows, s.id)) BY <1>5, <2>2
    <2>6. Told(turn[u].hist) = Said(told) BY <1>1, <2>2, <2>5 DEF HoldsTold
    <2>7. PICK at \in {"rotate", "count"} : To(at, s.id) BY <2>1
    <2> QED BY <1>7, <2>2, <2>3, <2>4, <2>5, <2>6, <2>7
  <1> QED BY <1>8, <1>9, <1>10

LEMMA OpenPlain ==
  ASSUME ChatTypes, Orderly, told \in Seq(Turns), NEW u \in Running, Open(u)
  PROVE  Orderly' /\ told' \in Seq(Turns)
  <1>1. Running = {u} /\ u \in Turns /\ ~Saving(u) /\ HoldsTold /\ InStep(u)
    BY AloneIs DEF Open, Saving
  <1>2. turn[u] \in TurnRecord /\ turn[u].hist \in Seq(Message) /\ DOMAIN turn = Turns
    BY <1>1 DEF ChatTypes, TurnTypes, TurnOK, TurnRecord
  <1>3. UNCHANGED <<scene, rows, strayed>> /\ turn[u].at = "open" BY DEF Open
  <1>4. rows \in Seq(Row(Message)) /\ sessions \in SUBSET Session BY DEF ChatTypes, StoreTypes
  <1>5. PICK id \in Nat : id = NewId /\ id # Chats /\ id \notin UsedIds BY NewIdIsNew DEF Chats
  <1>6. RowsWith(rows, id) = <<>>
    <2>1. \A i \in 1..Len(rows) : rows[i].sess # id BY <1>5 DEF UsedIds
    <2> QED BY <1>4, <2>1, NoRows
  <1>7. CurrentIds' = {id}
    <2>1. PICK f : f = [s \in sessions |-> IF s.id = turn[u].sess THEN [s EXCEPT !.open = FALSE] ELSE s]
      OBVIOUS
    <2>2. PICK n : n = [id |-> id, num |-> turn[u].base + 1, open |-> TRUE, count |-> 0] OBVIOUS
    <2>3. sessions' = {f[s] : s \in sessions} \cup {n} BY <1>5, <2>1, <2>2 DEF Open
    <2>4. \A s \in sessions : ~f[s].open
      <3> SUFFICES ASSUME NEW s \in sessions PROVE ~f[s].open OBVIOUS
      <3>1. s \in Session BY <1>4
      <3>2. CASE s.id = turn[u].sess BY <2>1, <3>1, <3>2 DEF Session
      <3>3. CASE s.id # turn[u].sess
        <4>1. OpenIds \subseteq {turn[u].sess} BY <1>1, <1>3 DEF InStep
        <4>2. ~s.open BY <3>3, <4>1 DEF OpenIds
        <4> QED BY <2>1, <3>3, <4>2
      <3> QED BY <3>2, <3>3
    <2>5. n.open /\ n.id = id BY <2>2
    <2>6. {t \in sessions' : t.open} = {n} BY <2>3, <2>4, <2>5
    <2>7. OpenIds' = {id} BY <2>5, <2>6 DEF OpenIds
    <2> QED BY <2>7 DEF CurrentIds
  <1>8. ~strayed' BY <1>3 DEF Orderly
  <1>9. CASE Kind(u) = "session"
    <2>1. turn' = [turn EXCEPT ![u] = [NoTurn EXCEPT !.at = "done"]] /\ told' = <<>> BY <1>9 DEF Open
    <2>2. Others(u) /\ turn'[u].at = "done" BY <1>1, <1>2, <2>1 DEF Others, NoTurn
    <2>3. Running' = {} BY <1>1, <2>2 DEF Running, Others
    <2>4. HoldsTold'
      <3>1. Messages(<<>>) = <<>> /\ Told(<<>>) = <<>> BY DEF Messages, Told
      <3> QED BY <1>3, <1>6, <1>7, <2>1, <3>1, SaidFacts DEF HoldsTold
    <2>5. told' \in Seq(Turns) BY <2>1
    <2> QED BY <1>7, <1>8, <2>3, <2>4, <2>5, OrderlyAgain
  <1>10. CASE Kind(u) # "session"
    <2>1. turn' = [turn EXCEPT ![u].at = "count", ![u].sess = id] /\ told' = told
      BY <1>5, <1>10 DEF Open
    <2>2. Others(u) /\ turn'[u].at = "count" /\ turn'[u].sess = id /\ turn'[u].hist = turn[u].hist
      BY <1>1, <1>2, <2>1 DEF Others, TurnRecord
    <2>3. Running' = {u} BY <1>1, <2>2 DEF Running, Others
    <2>4. StartsOver(u)' BY <1>3, <1>5, <1>6, <2>2 DEF StartsOver, Saving
    <2>5. Told(turn[u].hist) = Said(Append(told, u)) BY <1>1, <1>3, <1>10 DEF InStep
    <2>6. turn[u].hist = Messages(RowsWith(rows, id)) \o Rest(turn[u].hist, RowsWith(rows, id))
      BY <1>2, <1>4, <1>6, RestFacts
    <2>7. InStep(u)' BY <1>3, <1>7, <2>1, <2>2, <2>5, <2>6 DEF InStep, Carries, Saving
    <2> QED BY <1>7, <1>8, <2>1, <2>3, <2>4, <2>7, OrderlyAgain
  <1> QED BY <1>9, <1>10

LEMMA InsertPlain ==
  ASSUME ChatTypes, Orderly, told \in Seq(Turns), NEW u \in Running, Insert(u)
  PROVE  Orderly' /\ told' \in Seq(Turns)
  <1>1. Running = {u} /\ u \in Turns /\ InStep(u) BY AloneIs
  <1>2. /\ turn[u].hist \in Seq(Message) /\ turn[u].base \in Nat /\ DOMAIN turn = Turns
        /\ turn[u].at = "insert" /\ turn[u].sess \in Nat
    BY <1>1 DEF Insert, ChatTypes, TurnTypes, TurnOK, TurnRecord
  <1>3. UNCHANGED strayed /\ told' = Append(told, u) /\ rows' = rows \o Added(u) BY DEF Insert, Added
  <1>4. rows \in Seq(Row(Message)) /\ sessions \in SUBSET Session BY DEF ChatTypes, StoreTypes
  <1>5. PICK id \in Nat, h \in Seq(Message) : id = turn[u].sess /\ h = turn[u].hist BY <1>2
  <1>6. PICK r \in Seq(Row(Message)) : r = RowsWith(rows, id) BY <1>4, OnlyFacts DEF RowsWith
  <1>7. /\ Told(h) = Said(Append(told, u)) /\ CurrentIds = {id} /\ h = Messages(r) \o Rest(h, r)
        /\ turn[u].base = Len(r)
    BY <1>1, <1>2, <1>5, <1>6 DEF InStep, Saving
  <1>8. PICK a : a = Added(u) OBVIOUS
  <1>9. /\ a \in Seq([sess : {id}, msg : Message]) /\ a \in Seq(Row(Message))
        /\ Messages(a) = Rest(h, r)
    <2>1. New(u) = Rest(h, r) BY <1>5, <1>7 DEF New, Rest
    <2> QED BY <1>2, <1>5, <1>8, <2>1, AddedIs
  <1>10. RowsWith(rows', id) = r \o a
    <2>1. PICK S : S = [sess : {id}, msg : Message] OBVIOUS
    <2>2. Only(a, S) = a BY <1>9, <2>1, OnlyAll
    <2>3. Only(rows \o a, S) = Only(rows, S) \o Only(a, S) BY <1>4, <1>9, OnlyConcat
    <2> QED BY <1>3, <1>6, <1>8, <2>1, <2>2, <2>3 DEF RowsWith
  <1>11. Messages(RowsWith(rows', id)) = h BY <1>6, <1>7, <1>9, <1>10, MessagesConcat
  <1>12. CurrentIds' = {id}
    <2>1. PICK f : f = [s \in sessions |-> IF s.id = turn[u].sess
                                           THEN [s EXCEPT !.count = Len(RowsOf(s.id)) + Len(New(u))] ELSE s]
      OBVIOUS
    <2>2. sessions' = {f[s] : s \in sessions} BY <2>1 DEF Insert
    <2>3. \A s \in sessions : f[s].id = s.id /\ f[s].open = s.open BY <1>4, <2>1 DEF Session
    <2>4. OpenIds' = OpenIds
      <3>1. OpenIds' = {s.id : s \in {t \in sessions' : t.open}} BY DEF OpenIds
      <3>2. ASSUME NEW s \in sessions, s.open PROVE s.id \in OpenIds'
        <4>1. f[s] \in sessions' /\ f[s].open /\ f[s].id = s.id BY <2>2, <2>3, <3>2
        <4> QED BY <3>1, <4>1
      <3>3. ASSUME NEW t \in sessions', t.open PROVE t.id \in OpenIds
        <4>1. PICK s \in sessions : t = f[s] BY <2>2
        <4>2. s.open /\ t.id = s.id BY <2>3, <3>3, <4>1
        <4> QED BY <4>2 DEF OpenIds
      <3> QED BY <3>1, <3>2, <3>3 DEF OpenIds
    <2>5. Ids' = Ids
      <3>1. Ids' = {s.id : s \in sessions'} BY DEF Ids
      <3> QED BY <2>2, <2>3, <3>1 DEF Ids
    <2> QED BY <1>7, <2>4, <2>5 DEF CurrentIds
  <1>13. HoldsTold' BY <1>3, <1>7, <1>11, <1>12 DEF HoldsTold
  <1>14. Running' = {}
    <2>1. turn' = [turn EXCEPT ![u] = [NoTurn EXCEPT !.at = "done"]] BY DEF Insert
    <2>2. Others(u) /\ turn'[u].at = "done" BY <1>1, <1>2, <2>1 DEF Others, NoTurn
    <2> QED BY <1>1, <2>2 DEF Running, Others
  <1>15. told' \in Seq(Turns) BY <1>1, <1>3
  <1>16. ~strayed' BY <1>3 DEF Orderly
  <1> QED BY <1>12, <1>13, <1>14, <1>15, <1>16, OrderlyAgain

LEMMA CommandPlain ==
  ASSUME ChatTypes, Orderly, NEW u \in Running, Command(u), plain'
  PROVE  Orderly' /\ told' \in Seq(Turns)
  <1>1. Running = {u} /\ u \in Turns BY AloneIs
  <1>2. told' = <<>> /\ sessions' = {s \in sessions : s.id \notin Erased(Kind(u))} BY DEF Command
  <1>3. CurrentIds' = {}
    <2>1. CASE Kind(u) # "new"
      <3>1. sessions' = {} BY <1>2, <2>1 DEF Erased
      <3> QED BY <3>1 DEF CurrentIds, OpenIds, Ids
    <2>2. CASE Kind(u) = "new"
      <3>1. \A s \in Active : s.id = Chats BY <2>2 DEF Command
      <3>2. \A id \in CurrentIds : id = Chats BY <3>1, ActiveAre DEF Orderly
      <3>3. sessions' = {s \in sessions : s.id # Chats} BY <1>2, <2>2 DEF Erased
      <3>4. Chats \notin Ids' BY <3>3 DEF Ids
      <3>5. OpenIds' = {}
        <4>1. \A id \in OpenIds : id = Chats BY <3>2 DEF CurrentIds
        <4>2. \A s \in sessions : s.open => s.id = Chats BY <4>1 DEF OpenIds
        <4> QED BY <3>3, <4>2 DEF OpenIds
      <3> QED BY <3>4, <3>5 DEF CurrentIds
    <2> QED BY <2>1, <2>2
  <1>4. HoldsTold' BY <1>3 DEF HoldsTold
  <1>5. Running' = {}
    <2>1. turn' = [turn EXCEPT ![u] = [NoTurn EXCEPT !.at = "done"]] BY DEF Command
    <2>2. Others(u) /\ turn'[u].at = "done" BY <1>1, <2>1 DEF Others, NoTurn, ChatTypes, TurnTypes
    <2> QED BY <1>1, <2>2 DEF Running, Others
  <1>6. ~strayed' BY <1>1 DEF Command, Orderly
  <1>7. told' \in Seq(Turns) BY <1>2
  <1> QED BY <1>2, <1>3, <1>4, <1>5, <1>6, <1>7, OrderlyAgain

LEMMA SpawnPlain ==
  ASSUME ChatTypes, Orderly, Spawn, plain'
  PROVE  Orderly'
  <1>1. Running = {} BY DEF Spawn
  <1>2. UNCHANGED <<scene, rows, sessions, told, strayed>> BY DEF Spawn, storeVars
  <1>3. UNCHANGED <<CurrentIds, HoldsTold>> BY <1>2 DEF CurrentIds, OpenIds, Ids, HoldsTold
  <1>4. HoldsTold BY <1>1 DEF Orderly
  <1>5. PICK u : u = Update OBVIOUS
  <1>6. /\ u \in Turns /\ \A v \in Turns \ {u} : turn'[v] = turn[v]
        /\ turn'[u].at \in {"load", "infer", "rotate", "command"}
        /\ turn'[u].at = "infer" => Kind(u) = "photo"
        /\ turn'[u].at = "rotate" => Kind(u) = "session"
    BY <1>5, SpawnIs
  <1>7. Kind(u)' = Kind(u) BY <1>2 DEF Kind
  <1>8. Running' \subseteq {u} BY <1>1, <1>6 DEF Running
  <1>9. InStep(u)' BY <1>6, <1>7 DEF InStep, Carries, Saving
  <1>10. ~strayed' /\ (\A i, j \in CurrentIds' : i = j) /\ (CurrentIds' = {} => told' = <<>>) /\ HoldsTold'
    BY <1>2, <1>3, <1>4 DEF Orderly
  <1> QED BY <1>8, <1>9, <1>10, OrderlyAgain

LEMMA CrashPlain ==
  ASSUME ChatTypes, Orderly, ChatCrash, plain'
  PROVE  Orderly'
  <1>1. Running' = {} BY CrashIs
  <1>2. UNCHANGED <<rows, sessions, told, strayed>> BY DEF ChatCrash, storeVars
  <1>3. UNCHANGED <<CurrentIds, HoldsTold>> BY <1>2 DEF CurrentIds, OpenIds, Ids, HoldsTold
  <1>4. Starting = {} BY DEF ChatCrash
  <1>5. \A u \in Running : ~StartsOver(u) BY <1>4, RowsAre DEF StartsOver, Starting, Saving
  <1>6. HoldsTold BY <1>5 DEF Orderly
  <1>7. ~strayed' /\ (\A i, j \in CurrentIds' : i = j) /\ (CurrentIds' = {} => told' = <<>>) /\ HoldsTold'
    BY <1>2, <1>3, <1>6 DEF Orderly
  <1> QED BY <1>1, <1>7, OrderlyAgain

LEMMA UntouchedPlain ==
  ASSUME Orderly, UNCHANGED <<scene, turn, rows, sessions, told, strayed>>
  PROVE  Orderly'
  <1>1. UNCHANGED <<Running, CurrentIds, HoldsTold, OpenIds>> BY DEF Running, CurrentIds, OpenIds, Ids, HoldsTold
  <1>2. \A u \in Running : InStep(u)'
    <2> SUFFICES ASSUME NEW u \in Running PROVE InStep(u)' OBVIOUS
    <2>1. InStep(u) BY DEF Orderly
    <2> QED BY <1>1, <2>1 DEF InStep, Carries, Saving, Kind
  <1>3. \A u : StartsOver(u)' = StartsOver(u) BY DEF StartsOver, Saving
  <1> QED BY <1>1, <1>2, <1>3 DEF Orderly

PlainInv == told \in Seq(Turns) /\ (plain => Orderly)

LEMMA PlainInit == Init => PlainInv
  <1> SUFFICES ASSUME Init PROVE PlainInv OBVIOUS
  <1>1. /\ rows = <<>> /\ sessions = {} /\ told = <<>> /\ strayed = FALSE
        /\ turn = [u \in Turns |-> NoTurn]
    BY DEF Init, ChatInit
  <1>2. NoTurn.at = "none" BY DEF NoTurn
  <1>3. Running = {} BY <1>1, <1>2 DEF Running
  <1>4. CurrentIds = {} BY <1>1 DEF CurrentIds, OpenIds, Ids
  <1>5. told \in Seq(Turns) BY <1>1
  <1> QED BY <1>1, <1>3, <1>4, <1>5 DEF PlainInv, Orderly, HoldsTold

LEMMA PlainStep == ASSUME ErasedInv, PlainInv, [Next]_vars PROVE PlainInv'
  <1>1. ChatTypes /\ (~strayed => Housed) BY DEF ErasedInv
  <1>2. told \in Seq(Turns) BY DEF PlainInv
  <1>3. CASE UNCHANGED chatVars
    <2>1. UNCHANGED <<scene, turn, rows, sessions, told, strayed, plain>>
      BY <1>3 DEF chatVars, storeVars, chatHistory
    <2> QED BY <1>2, <2>1, UntouchedPlain DEF PlainInv
  <1>4. ASSUME NEW u \in Turns, Acts(u) PROVE PlainInv'
    <2>1. u \in Running BY <1>1, <1>4, Acting
    <2>2. told' \in Seq(Turns)
      <3>1. CASE Open(u)
        <4>1. told' = <<>> \/ told' = told BY <3>1 DEF Open
        <4>2. <<>> \in Seq(Turns) OBVIOUS
        <4> QED BY <1>2, <4>1, <4>2
      <3>2. CASE Insert(u)
        <4>1. told' = Append(told, u) BY <3>2 DEF Insert
        <4> QED BY <1>2, <4>1
      <3>3. CASE Command(u)
        <4>1. told' = <<>> BY <3>3 DEF Command
        <4> QED BY <4>1
      <3>4. CASE Load(u) \/ Thinks(u) \/ Save(u) \/ Rotate(u) \/ Count(u)
        BY <1>2, <3>4 DEF Load, Thinks, Inferred, Save, Rotate, Count, chatHistory
      <3> QED BY <1>4, <3>1, <3>2, <3>3, <3>4 DEF Acts
    <2>3. SUFFICES ASSUME plain' PROVE Orderly' BY <2>2 DEF PlainInv
    <2>4. plain
      BY <1>4, <2>3 DEF Acts, Load, Thinks, Inferred, Save, Rotate, Open, Count, Insert, Command, chatHistory
    <2>5. Orderly /\ Housed
      <3>1. Orderly BY <2>4 DEF PlainInv
      <3> QED BY <1>1, <3>1 DEF Orderly
    <2> QED BY <1>1, <1>2, <1>4, <2>1, <2>3, <2>5, LoadPlain, ThinkPlain, SavePlain, RotatePlain, OpenPlain,
               CountPlain, InsertPlain, CommandPlain DEF Acts
  <1>5. CASE PollStep \/ Send \/ ChatCrash
    <2>1. told' \in Seq(Turns)
      BY <1>2, <1>5 DEF PollStep, Fetch, Persist, PersistFails, WriteOffset, Spawn, Restart, Send,
                        ChatCrash, chatHistory
    <2>2. SUFFICES ASSUME plain' PROVE Orderly' BY <2>1 DEF PlainInv
    <2>3. plain
      BY <1>5, <2>2 DEF PollStep, Fetch, Persist, PersistFails, WriteOffset, Spawn, Restart, Send,
                        ChatCrash, chatHistory
    <2>4. Orderly BY <2>3 DEF PlainInv
    <2>5. CASE Spawn BY <1>1, <2>2, <2>4, <2>5, SpawnPlain
    <2>6. CASE ChatCrash BY <1>1, <2>2, <2>4, <2>6, CrashPlain
    <2>7. CASE Fetch \/ Persist \/ PersistFails \/ WriteOffset \/ Restart \/ Send
      <3>1. UNCHANGED <<scene, turn, rows, sessions, told, strayed>>
        BY <2>7 DEF Fetch, Persist, PersistFails, WriteOffset, Restart, Send, storeVars, chatHistory
      <3> QED BY <2>4, <3>1, UntouchedPlain
    <2> QED BY <1>5, <2>5, <2>6, <2>7 DEF PollStep
  <1> QED BY <1>3, <1>4, <1>5, ChatMoves

(* In every behaviour in which turns come one at a time and loads return   *)
(* all that is stored, the active session of the chat holds exactly the    *)
(* turns saved since the conversation began, question and answer, in       *)
(* order (agent.py, chat_history.py): across the rotations that a save     *)
(* makes when the session has Split messages, across /session new, /new    *)
(* and /fresh, and across crashes, for every number of turns.              *)
THEOREM PlainChatIsKeptHolds == FairSpec => []PlainChatIsKept
  <1>1. ErasedInv /\ PlainInv => PlainChatIsKept
    <2> SUFFICES ASSUME ErasedInv, PlainInv, plain, Running = {}, NEW s \in Active
                 PROVE  Holds(s.id) = Said(told)
      BY DEF PlainChatIsKept
    <2>1. Orderly BY DEF PlainInv
    <2>2. HoldsTold BY <2>1 DEF Orderly
    <2>3. s.id \in CurrentIds BY ActiveAre DEF ErasedInv
    <2> QED BY <2>2, <2>3, RowsAre DEF HoldsTold
  <1>2. Init => ErasedInv /\ PlainInv BY ErasedInit, PlainInit
  <1>3. ErasedInv /\ PlainInv /\ [Next]_vars => ErasedInv' /\ PlainInv' BY ErasedStep, PlainStep
  <1> QED BY <1>1, <1>2, <1>3, PTL DEF FairSpec

-----------------------------------------------------------------------------
(* The chat implements a conversation.                                     *)
(* A concatenation with two elements.                                      *)
LEMMA WithTwo ==
  ASSUME NEW R, NEW a \in Seq(R), NEW b \in Seq(R), Len(b) = 2
  PROVE  /\ Len(a \o b) = Len(a) + 2
         /\ \A i \in 1..Len(a) + 2 : (a \o b)[i] = IF i <= Len(a) THEN a[i] ELSE b[i - Len(a)]
  <1>1. PICK n : n = Len(b) /\ n = 2 OBVIOUS
  <1>2. PICK w : w = a \o b OBVIOUS
  <1>3. /\ Len(w) = Len(a) + Len(b)
        /\ \A i \in 1..Len(a) + Len(b) : w[i] = IF i <= Len(a) THEN a[i] ELSE b[i - Len(a)]
    BY <1>2, ConcatProperties
  <1>4. Len(w) = Len(a) + 2 /\ \A i \in 1..Len(a) + 2 : w[i] = IF i <= Len(a) THEN a[i] ELSE b[i - Len(a)]
    BY <1>3
  <1> QED BY <1>2, <1>4

(* What a list of turns says, it says of the turns in the list.            *)
LEMMA SaidOfTheList ==
  ASSUME NEW us \in Seq(Turns)
  PROVE  \A i \in 1..Len(Said(us)) : \E k \in 1..Len(us) : Said(us)[i][2] = us[k]
  <1> DEFINE OfList(s) == \A i \in 1..Len(Said(s)) : \E k \in 1..Len(s) : Said(s)[i][2] = s[k]
             X == {s \in Seq(Turns) : OfList(s)}
  <1>1. <<>> \in X
    <2>1. Said(<<>>) = <<>> BY SaidFacts
    <2>2. Len(Said(<<>>)) = 0 BY <2>1
    <2> QED BY <2>2
  <1>2. ASSUME NEW s \in Seq(Turns), s \in X, NEW u \in Turns PROVE Append(s, u) \in X
    <2>1. PICK a \in Seq(Roles) : a = Said(s) BY SaidFacts
    <2>2. PICK t : t = Append(s, u) OBVIOUS
    <2>3. t \in Seq(Turns) /\ Len(t) = Len(s) + 1 /\ t[Len(s) + 1] = u
          /\ (\A k \in 1..Len(s) : t[k] = s[k]) /\ Len(s) \in Nat
      BY <2>2
    <2>4. PICK b : b = BothOf(u) OBVIOUS
    <2>5. b \in Seq(Roles) /\ Len(b) = 2 /\ b[1][2] = u /\ b[2][2] = u BY <2>4 DEF BothOf, Roles
    <2>6. PICK w : w = a \o b OBVIOUS
    <2>7. Len(w) = Len(a) + 2 /\ \A i \in 1..Len(a) + 2 : w[i] = IF i <= Len(a) THEN a[i] ELSE b[i - Len(a)]
      BY <2>1, <2>5, <2>6, WithTwo
    <2>8. Said(t) = w BY <2>1, <2>2, <2>4, <2>6, SaidFacts
    <2>9. ASSUME NEW i \in 1..Len(a) + 2 PROVE \E k \in 1..Len(t) : w[i][2] = t[k]
      <3>1. Len(a) \in Nat BY <2>1
      <3>2. CASE i <= Len(a)
        <4>1. i \in 1..Len(a) BY <3>1, <3>2
        <4>2. PICK k \in 1..Len(s) : a[i][2] = s[k] BY <1>2, <2>1, <4>1
        <4>3. k \in 1..Len(t) /\ t[k] = s[k] BY <2>3
        <4> QED BY <2>7, <3>2, <4>2, <4>3
      <3>3. CASE ~(i <= Len(a))
        <4>1. i - Len(a) \in {1, 2} BY <3>1, <3>3
        <4>2. w[i][2] = u BY <2>5, <2>7, <3>3, <4>1
        <4>3. Len(s) + 1 \in 1..Len(t) BY <2>3
        <4> QED BY <2>3, <4>2, <4>3
      <3> QED BY <3>2, <3>3
    <2>10. OfList(t) BY <2>7, <2>8, <2>9
    <2> QED BY <2>2, <2>3, <2>10
  <1> HIDE DEF X
  <1>3. us \in X BY <1>1, <1>2, AppendInduction
  <1> QED BY <1>3 DEF X

(* Without its last two messages, a history that says one turn more says   *)
(* what was told.                                                          *)
LEMMA BroughtAlong ==
  ASSUME NEW h \in Seq(Message), NEW us \in Seq(Turns), NEW u \in Turns,
         Told(h) = Said(Append(us, u))
  PROVE  Told(SubSeq(h, 1, Len(h) - 2)) = Said(us)
  <1>1. PICK a \in Seq(Roles) : a = Said(us) BY SaidFacts
  <1>2. PICK b : b = BothOf(u) OBVIOUS
  <1>3. b \in Seq(Roles) /\ Len(b) = 2 BY <1>2 DEF BothOf, Roles
  <1>4. PICK w : w = a \o b OBVIOUS
  <1>5. Len(w) = Len(a) + 2 /\ \A i \in 1..Len(a) + 2 : w[i] = IF i <= Len(a) THEN a[i] ELSE b[i - Len(a)]
    BY <1>1, <1>3, <1>4, WithTwo
  <1>6. Told(h) = w BY <1>1, <1>2, <1>4, SaidFacts
  <1>7. Len(h) \in Nat /\ Len(a) \in Nat /\ \A i \in 1..Len(h) : h[i] \in Message BY <1>1
  <1>8. Told(h) \in Seq(Roles) /\ Len(Told(h)) = Len(h) /\ \A i \in 1..Len(h) : Told(h)[i] = <<h[i].role, h[i].turn>>
    <2>1. \A i \in 1..Len(h) : <<h[i].role, h[i].turn>> \in Roles BY <1>7 DEF Message, Roles
    <2>2. [i \in 1..Len(h) |-> <<h[i].role, h[i].turn>>] \in Seq(Roles) BY <1>7, <2>1
    <2> QED BY <1>7, <2>1, <2>2 DEF Told
  <1>9. Len(h) = Len(a) + 2 BY <1>5, <1>6, <1>8
  <1>10. PICK m \in Nat : m = Len(a) /\ m = Len(h) - 2 BY <1>7, <1>9
  <1>11. PICK q : q = SubSeq(h, 1, m) OBVIOUS
  <1>12. q \in Seq(Message) /\ Len(q) = m /\ \A i \in 1..m : q[i] = h[i]
    <2>1. \A i \in 1..m : h[i] \in Message BY <1>7, <1>10
    <2> QED BY <1>7, <1>10, <1>11, <2>1, SubSeqProperties
  <1>13. Told(q) \in Seq(Roles) /\ Len(Told(q)) = m /\ \A i \in 1..m : Told(q)[i] = <<h[i].role, h[i].turn>>
    <2>1. Told(q) = [i \in 1..m |-> <<q[i].role, q[i].turn>>] BY <1>12 DEF Told
    <2>0. \A i \in 1..m : q[i] \in Message BY <1>12
    <2>2. \A i \in 1..m : <<q[i].role, q[i].turn>> \in Roles BY <2>0 DEF Message, Roles
    <2>3. [i \in 1..m |-> <<q[i].role, q[i].turn>>] \in Seq(Roles) BY <2>2
    <2> QED BY <1>12, <2>1, <2>2, <2>3
  <1>14. ASSUME NEW i \in 1..m PROVE Told(q)[i] = a[i]
    <2>1. i \in 1..Len(h) /\ i \in 1..Len(a) + 2 /\ i <= Len(a) BY <1>10
    <2>2. Told(h)[i] = a[i] BY <1>5, <1>6, <2>1
    <2>3. Told(q)[i] = Told(h)[i] BY <1>8, <1>13, <2>1
    <2> QED BY <2>2, <2>3
  <1>15. PICK v \in Seq(Roles) : v = Told(q) /\ Len(v) = m BY <1>13
  <1>16. v = a BY <1>1, <1>10, <1>14, <1>15, SeqEqual
  <1> QED BY <1>1, <1>10, <1>11, <1>15, <1>16

(* What the chat shows is what was told.                                   *)
LEMMA LogIs ==
  ASSUME ChatTypes, Orderly, told \in Seq(Turns)
  PROVE  Log = Said(told)
  <1>1. \A u \in Running : u \in Starting <=> StartsOver(u) BY RowsAre DEF Starting, StartsOver, Saving
  <1>2. CASE Starting # {}
    <2>1. PICK u : u = CHOOSE v \in Starting : TRUE OBVIOUS
    <2>2. u \in Starting BY <1>2, <2>1
    <2>3. u \in Running /\ u \in Turns BY <2>2 DEF Starting, Running
    <2>4. StartsOver(u) /\ InStep(u) BY <1>1, <2>2, <2>3 DEF Orderly
    <2>5. Told(turn[u].hist) = Said(Append(told, u)) BY <2>4 DEF StartsOver, InStep
    <2>6. turn[u].hist \in Seq(Message) BY <2>3 DEF ChatTypes, TurnTypes, TurnOK, TurnRecord
    <2>7. PICK h : h = turn[u].hist OBVIOUS
    <2>8. Told(SubSeq(h, 1, Len(h) - 2)) = Said(told) BY <2>3, <2>5, <2>6, <2>7, BroughtAlong
    <2>9. Log = Told(SubSeq(h, 1, Len(h) - 2)) BY <1>2, <2>1, <2>7 DEF Log
    <2> QED BY <2>8, <2>9
  <1>3. CASE Starting = {}
    <2>1. HoldsTold BY <1>1, <1>3 DEF Orderly
    <2>2. CASE Active = {}
      <3>1. told = <<>> BY <2>2, ActiveAre DEF Orderly
      <3>2. Log = <<>> BY <1>3, <2>2 DEF Log
      <3> QED BY <3>1, <3>2, SaidFacts
    <2>3. CASE Active # {}
      <3>1. PICK s : s = CHOOSE t \in Active : TRUE OBVIOUS
      <3>2. s \in Active BY <2>3, <3>1
      <3>3. s.id \in CurrentIds BY <3>2, ActiveAre
      <3>4. Holds(s.id) = Said(told) BY <2>1, <3>3, RowsAre DEF HoldsTold
      <3>5. Log = Holds(s.id) BY <1>3, <2>3, <3>1 DEF Log
      <3> QED BY <3>4, <3>5
    <2> QED BY <2>2, <2>3
  <1> QED BY <1>2, <1>3

(* Who is told was handled and runs no more.                               *)
ToldInv ==
    /\ \A u \in Running : handled[u] > 0
    /\ ~slipped => \A k \in 1..Len(told) : handled[told[k]] > 0 /\ told[k] \notin Running

(* A turn step moves the turn it is of.                                    *)
LEMMA ActsMoveOne == ASSUME ChatTypes, NEW u \in Turns, Acts(u) PROVE Others(u)
  <1>1. DOMAIN turn = Turns BY DEF ChatTypes, TurnTypes
  <1>2. CASE Load(u) BY <1>1, <1>2 DEF Load, Others
  <1>3. CASE Thinks(u) BY <1>1, <1>3 DEF Thinks, Inferred, Others
  <1>4. CASE Save(u) BY <1>1, <1>4 DEF Save, Others
  <1>5. CASE Rotate(u) BY <1>1, <1>5 DEF Rotate, Others
  <1>6. CASE Open(u) BY <1>1, <1>6 DEF Open, Others
  <1>7. CASE Count(u) BY <1>1, <1>7 DEF Count, Others
  <1>8. CASE Insert(u) BY <1>1, <1>8 DEF Insert, Others
  <1>9. CASE Command(u) BY <1>1, <1>9 DEF Command, Others
  <1> QED BY <1>2, <1>3, <1>4, <1>5, <1>6, <1>7, <1>8, <1>9 DEF Acts

LEMMA ToldStep ==
  ASSUME ErasedInv, PlainInv, OffsetInv, ToldInv, [Next]_vars
  PROVE  ToldInv'
  <1>1. ChatTypes /\ ChatTypes' BY ChatTypesStep DEF ErasedInv
  <1>2. told \in Seq(Turns) /\ told' \in Seq(Turns) BY PlainStep DEF PlainInv
  <1>3. handled \in [Turns -> Nat] BY DEF OffsetInv, OffsetType
  <1>4. CASE UNCHANGED chatVars BY <1>4 DEF chatVars, chatHistory, ToldInv, Running
  <1>5. ASSUME NEW u \in Turns, Acts(u) PROVE ToldInv'
    <2>1. u \in Running BY <1>1, <1>5, Acting
    <2>2. UNCHANGED <<handled, slipped>>
      BY <1>5 DEF Acts, Load, Thinks, Inferred, Save, Rotate, Open, Count, Insert, Command, chatHistory
    <2>3. Running' \subseteq Running
      <3>1. Others(u) BY <1>1, <1>5, ActsMoveOne
      <3> QED BY <2>1, <3>1 DEF Others, Running
    <2>4. \A v \in Running' : handled'[v] > 0 BY <2>2, <2>3 DEF ToldInv
    <2>5. SUFFICES ASSUME ~slipped', NEW k \in 1..Len(told')
                   PROVE  handled'[told'[k]] > 0 /\ told'[k] \notin Running'
      BY <2>4 DEF ToldInv
    <2>6. CASE Insert(u)
      <3>1. told' = Append(told, u) /\ turn' = [turn EXCEPT ![u] = [NoTurn EXCEPT !.at = "done"]]
        BY <2>6 DEF Insert
      <3>2. turn'[u].at = "done" BY <1>1, <3>1 DEF ChatTypes, TurnTypes, NoTurn
      <3>3. u \notin Running' BY <3>2 DEF Running
      <3>4. CASE k = Len(told) + 1
        <4>1. told'[k] = u BY <1>2, <3>1, <3>4
        <4> QED BY <2>1, <2>2, <3>3, <4>1 DEF ToldInv
      <3>5. CASE k # Len(told) + 1
        <4>1. k \in 1..Len(told) /\ told'[k] = told[k] BY <1>2, <3>1, <3>5
        <4> QED BY <2>2, <2>3, <2>5, <4>1 DEF ToldInv
      <3> QED BY <3>4, <3>5
    <2>7. CASE ~Insert(u)
      <3>1. told' = told \/ told' = <<>>
        BY <1>5, <2>7 DEF Acts, Load, Thinks, Inferred, Save, Rotate, Open, Count, Command, chatHistory
      <3>2. told' = told BY <3>1
      <3> QED BY <2>2, <2>3, <2>5, <3>2 DEF ToldInv
    <2> QED BY <2>6, <2>7
  <1>6. CASE Spawn
    <2>1. PICK u : u = Update OBVIOUS
    <2>2. u \in Turns /\ \A v \in Turns \ {u} : turn'[v] = turn[v] BY <1>1, <1>6, <2>1, SpawnIs
    <2>3. poll.at = "spawn" /\ UNCHANGED <<slipped, told>> /\ handled' = [handled EXCEPT ![u] = @ + 1]
      BY <1>6, <2>1 DEF Spawn
    <2>4. handled'[u] > 0 /\ \A v \in Turns \ {u} : handled'[v] = handled[v] BY <1>3, <2>2, <2>3
    <2>5. \A v \in Running' : v = u \/ v \in Running BY <2>2 DEF Running
    <2>6. \A v \in Running' : handled'[v] > 0
      <3> SUFFICES ASSUME NEW v \in Running' PROVE handled'[v] > 0 OBVIOUS
      <3>1. v \in Turns BY DEF Running
      <3> QED BY <2>4, <2>5, <3>1 DEF ToldInv
    <2>7. ASSUME ~slipped', NEW k \in 1..Len(told')
          PROVE  handled'[told'[k]] > 0 /\ told'[k] \notin Running'
      <3>1. k \in 1..Len(told) /\ told'[k] = told[k] /\ ~slipped BY <2>3, <2>7
      <3>2. handled[told[k]] > 0 /\ told[k] \notin Running /\ told[k] \in Turns BY <1>2, <3>1 DEF ToldInv
      <3>3. handled[u] = 0
        <4>1. u \in Int /\ poll.offset \in Int /\ u >= poll.offset - 1
          BY <2>1, <2>2 DEF Update, OffsetInv, OffsetType
        <4> QED BY <2>2, <2>3, <3>1, <4>1 DEF OffsetInv, OffsetOrder
      <3>4. told[k] # u BY <3>2, <3>3
      <3> QED BY <2>4, <2>5, <3>1, <3>2, <3>4
    <2> QED BY <2>6, <2>7 DEF ToldInv
  <1>7. CASE ChatCrash
    <2>1. Running' = {} BY <1>1, <1>7, CrashIs
    <2>2. UNCHANGED <<told, handled>> /\ (~slipped' => ~slipped) BY <1>7 DEF ChatCrash
    <2> QED BY <2>1, <2>2 DEF ToldInv
  <1>8. CASE Fetch \/ Persist \/ PersistFails \/ WriteOffset \/ Restart \/ Send
    <2>1. UNCHANGED <<told, handled, turn>> /\ (~slipped' => ~slipped)
      BY <1>8 DEF Fetch, Persist, PersistFails, WriteOffset, Restart, Send, chatHistory
    <2> QED BY <2>1 DEF ToldInv, Running
  <1> QED BY <1>4, <1>5, <1>6, <1>7, <1>8, ChatMoves DEF PollStep

LEMMA ToldInit == Init => ToldInv
  <1> SUFFICES ASSUME Init PROVE ToldInv OBVIOUS
  <1>1. turn = [u \in Turns |-> NoTurn] /\ told = <<>> BY DEF Init, ChatInit
  <1>2. NoTurn.at = "none" BY DEF NoTurn
  <1>3. Running = {} BY <1>1, <1>2 DEF Running
  <1>4. Len(told) = 0 BY <1>1
  <1> QED BY <1>3, <1>4 DEF ToldInv

LEMMA LogIsTold == ChatTypes /\ Orderly /\ told \in Seq(Turns) => Log = Said(told)
  BY LogIs

LEMMA LogIsToldNext == (ChatTypes /\ Orderly /\ told \in Seq(Turns) => Log = Said(told))'
  BY LogIsTold, PTL

(* One step of the chat is one of the conversation, or shows nothing.      *)
LEMMA ConversationStep ==
  ASSUME ErasedInv, PlainInv, ToldInv, [Next]_vars, ErasedInv', PlainInv', plain', ~slipped'
  PROVE  Outside!ConversationNext \/ UNCHANGED Log
  <1>1. ChatTypes /\ ChatTypes' BY DEF ErasedInv
  <1>2. told \in Seq(Turns) /\ told' \in Seq(Turns) /\ Orderly' BY DEF PlainInv
  <1>3. plain /\ ~slipped
    <2>1. CASE UNCHANGED chatVars BY <2>1 DEF chatVars, chatHistory
    <2>2. ASSUME NEW u \in Turns, Acts(u) PROVE plain /\ ~slipped
      <3>1. slipped' = slipped
        BY <2>2 DEF Acts, Load, Thinks, Inferred, Save, Rotate, Open, Count, Insert, Command, chatHistory
      <3>2. plain' => plain
        BY <2>2 DEF Acts, Load, Thinks, Inferred, Save, Rotate, Open, Count, Insert, Command, chatHistory
      <3> QED BY <3>1, <3>2
    <2>3. CASE PollStep \/ Send \/ ChatCrash
      <3>1. CASE PersistFails BY <3>1 DEF PersistFails
      <3>2. CASE Fetch \/ Persist \/ WriteOffset \/ Restart \/ Send
        <4>1. UNCHANGED chatHistory BY <3>2 DEF Fetch, Persist, WriteOffset, Restart, Send
        <4>2. plain' = plain /\ slipped' = slipped BY <4>1 DEF chatHistory
        <4> QED BY <4>2
      <3>3. CASE Spawn BY <3>3 DEF Spawn
      <3>4. CASE ChatCrash BY <3>4 DEF ChatCrash
      <3> QED BY <2>3, <3>1, <3>2, <3>3, <3>4 DEF PollStep
    <2> QED BY <2>1, <2>2, <2>3, ChatMoves
  <1>4. Orderly BY <1>3 DEF PlainInv
  <1>5. Log = Said(told) BY <1>1, <1>2, <1>4, LogIs
  <1>6. Log' = Said(told')
    <2>1. (ChatTypes /\ Orderly /\ told \in Seq(Turns) => Log = Said(told))' BY LogIsToldNext
    <2>3. Said(told)' = Said(told') OBVIOUS
    <2> QED BY <1>1, <1>2, <2>1, <2>3
  <1>7. CASE told' = told BY <1>5, <1>6, <1>7
  <1>8. CASE told' = <<>>
    <2>1. Log' = <<>> BY <1>6, <1>8, SaidFacts
    <2> QED BY <2>1 DEF Outside!ConversationNext, Outside!Empty
  <1>9. ASSUME NEW u \in Turns, Insert(u) PROVE Outside!ConversationNext
    <2>1. told' = Append(told, u) BY <1>9 DEF Insert
    <2>2. Log' = Log \o BothOf(u) BY <1>2, <1>5, <1>6, <2>1, SaidFacts
    <2>3. u \in Running BY <1>1, <1>9, Acting DEF Acts
    <2>4. \A k \in 1..Len(told) : told[k] # u BY <1>3, <2>3 DEF ToldInv
    <2>5. \A i \in 1..Len(Log) : Log[i][2] # u BY <1>2, <1>5, <2>4, SaidOfTheList
    <2>6. Outside!Add(u) BY <2>2, <2>5 DEF Outside!Add, Outside!BothOf, BothOf
    <2> QED BY <2>6 DEF Outside!ConversationNext
  <1>10. told' = told \/ told' = <<>> \/ \E u \in Turns : Insert(u)
    <2>1. CASE UNCHANGED chatVars BY <2>1 DEF chatVars, chatHistory
    <2>2. ASSUME NEW u \in Turns, Acts(u), ~Insert(u) PROVE told' = told \/ told' = <<>>
      BY <2>2 DEF Acts, Load, Thinks, Inferred, Save, Rotate, Open, Count, Command, chatHistory
    <2>3. CASE PollStep \/ Send \/ ChatCrash
      BY <2>3 DEF PollStep, Fetch, Persist, PersistFails, WriteOffset, Spawn, Restart, Send, ChatCrash, chatHistory
    <2> QED BY <2>1, <2>2, <2>3, ChatMoves
  <1> QED BY <1>7, <1>8, <1>9, <1>10

(* In every behaviour in which turns come one at a time, loads return all  *)
(* that is stored and the offset file works, the chat is a conversation as *)
(* seen from outside: the writes of a turn (agent.py, chat_history.py),    *)
(* with the session they may rotate, come to one addition of its question  *)
(* and its answer at the end, no turn is added twice, whatever crashes and *)
(* is handled again, and only a command takes anything away.               *)
THEOREM ConversationImplemented == FairSpec => ImplementsConversation
  <1>1. Init => Outside!ConversationInit
    <2> SUFFICES ASSUME Init PROVE Log = <<>> BY DEF Outside!ConversationInit
    <2>1. turn = [u \in Turns |-> NoTurn] /\ sessions = {} BY DEF Init, ChatInit
    <2>2. NoTurn.at = "none" BY DEF NoTurn
    <2>3. Starting = {} BY <2>1, <2>2 DEF Starting, Running
    <2>4. Active = {} BY <2>1 DEF Active
    <2> QED BY <2>3, <2>4 DEF Log
  <1> DEFINE Inv == ErasedInv /\ PlainInv /\ OffsetInv /\ ToldInv
             Implements == plain' /\ ~slipped' => Outside!ConversationNext \/ UNCHANGED Log
  <1>2. Init => Inv
    <2>1. Init => OffsetInv BY DEF Init, ChatInit, OffsetInv, OffsetType, OffsetOrder
    <2> QED BY <2>1, ErasedInit, PlainInit, ToldInit
  <1>3. Inv /\ [Next]_vars => Inv' BY ErasedStep, PlainStep, OffsetStep, ToldStep
  <1>4. Inv /\ [Next]_vars => [Implements]_chatVars
    <2> SUFFICES ASSUME Inv, [Next]_vars PROVE Implements OBVIOUS
    <2>1. Inv' BY <1>3
    <2> QED BY <2>1, ConversationStep
  <1> HIDE DEF Inv
  <1> QED BY <1>1, <1>2, <1>3, <1>4, PTL DEF FairSpec, ImplementsConversation
=============================================================================
