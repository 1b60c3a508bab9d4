------------------------- MODULE ModelActivityProofs -------------------------
(* Proofs about the activity marker, for any number of callers.            *)
EXTENDS Serving, FiniteSetTheorems, TLAPS

(* As long as updates do not overlap, what the file holds, or will hold    *)
(* again once the one update under way is written, counts every call in    *)
(* flight, is fresh as long as one of them is young, and has a recent end  *)
(* as long as one is.                                                      *)
Busy == {p \in Peers : beat[p].at \in {"in", "end", "endOpen"}}
Accounts(m) ==
    /\ m \in Marks
    /\ Cardinality(Busy) <= m.count
    /\ young # {} => m.start = "fresh"
    /\ ~rested => m.end = "recent"

MarkType ==
    /\ marker \in Marks \cup {Torn}
    /\ beat \in [Peers -> [at : {"out", "start", "startOpen", "in", "end", "endOpen"}, copy : Marks]]
    /\ heal \in [at : {"none", "read", "open"}, copy : Marks]
    /\ young \subseteq Peers /\ rested \in BOOLEAN /\ muddled \in BOOLEAN

MarkOrder ==
    /\ young \subseteq Busy
    /\ \A p \in Peers : Updating(p) => /\ heal.at = "none" /\ Accounts(beat[p].copy)
                                       /\ \A q \in Peers \ {p} : ~Updating(q)
    /\ heal.at # "none" => Busy = {} /\ Accounts(heal.copy)
    /\ IF marker = Torn THEN heal.at = "open" \/ \E p \in Peers : beat[p].at \in {"startOpen", "endOpen"}
       ELSE Accounts(marker)

MarkInv == MarkType /\ (~muddled => MarkOrder)
-----------------------------------------------------------------------------
(* The sides of the calls in flight are finitely many.                     *)
LEMMA BusyFinite ==
  ASSUME NEW S \in SUBSET Peers
  PROVE  /\ IsFiniteSet(S) /\ Cardinality(S) \in Nat
         /\ \A p \in Peers \ S : Cardinality(S \cup {p}) = Cardinality(S) + 1
         /\ \A p \in S : Cardinality(S \ {p}) = Cardinality(S) - 1
         /\ \A T \in SUBSET S : Cardinality(T) <= Cardinality(S)
  <1> DEFINE Sides == {"client"} \cup {"server"}
  <1>1. IsFiniteSet(Sides) /\ Sides = {"client", "server"} BY FS_Singleton, FS_Union
  <1>2. IsFiniteSet(Peers) BY <1>1, FS_Product, ActivityAssumption DEF Peers
  <1>3. IsFiniteSet(S) BY <1>2, FS_Subset
  <1> QED BY <1>3, FS_CardinalityType, FS_AddElement, FS_RemoveElement, FS_Subset

(* A file that parses is what the next update starts from.                 *)
LEMMA UndisturbedReads ==
  ASSUME MarkInv, NEW p \in Peers, ~Updating(p), ~muddled, Undisturbed(p)
  PROVE  Readable = marker /\ marker # Torn /\ \A q \in Peers : ~Updating(q)
  BY DEF MarkInv, MarkOrder, Undisturbed, Updating, Readable

LEMMA BlankMarks == Blank \in Marks BY DEF Blank, Marks

(* A mark more, a mark less.                                               *)
LEMMA MarksMove ==
  ASSUME NEW m \in Marks
  PROVE  /\ Started(m) \in Marks /\ Started(m).count = m.count + 1 /\ Started(m).start = "fresh"
         /\ Started(m).end = m.end
         /\ Ended(m) \in Marks /\ Ended(m).start = m.start /\ Ended(m).end = "recent"
         /\ m.count > 0 => Ended(m).count = m.count - 1
  <1> DEFINE less == IF m.count > 0 THEN m.count - 1 ELSE 0
  <1>1. m.count \in Nat /\ less \in Nat /\ m.count + 1 \in Nat BY DEF Marks
  <1>2. Started(m) = [m EXCEPT !.count = m.count + 1, !.start = "fresh"] BY Zenon DEF Started
  <1>3. Ended(m) = [m EXCEPT !.count = less, !.end = "recent"] BY Zenon DEF Ended
  <1>4. ASSUME NEW n \in Nat, NEW s, s = [m EXCEPT !.count = n, !.start = "fresh"]
        PROVE  s \in Marks /\ s.count = n /\ s.start = "fresh" /\ s.end = m.end
    BY <1>4 DEF Marks
  <1>5. ASSUME NEW n \in Nat, NEW s, s = [m EXCEPT !.count = n, !.end = "recent"]
        PROVE  s \in Marks /\ s.count = n /\ s.start = m.start /\ s.end = "recent"
    BY <1>5 DEF Marks
  <1>6. /\ Started(m) \in Marks /\ Started(m).count = m.count + 1 /\ Started(m).start = "fresh"
        /\ Started(m).end = m.end
    BY <1>1, <1>2, <1>4, Zenon
  <1>7. /\ Ended(m) \in Marks /\ Ended(m).count = less /\ Ended(m).start = m.start /\ Ended(m).end = "recent"
    BY <1>1, <1>3, <1>5, Zenon
  <1>8. m.count > 0 => less = m.count - 1 OBVIOUS
  <1> HIDE DEF less
  <1> QED BY <1>6, <1>7, <1>8

LEMMA ReadKeeps ==
  ASSUME MarkInv, NEW p \in Peers, MarkStart(p) \/ MarkEnd(p)
  PROVE  MarkInv'
  <1>1. PICK from \in {"out", "in"}, to \in {"start", "end"} :
           Read(p, from, to) /\ (from = "out") = (to = "start")
    BY DEF MarkStart, MarkEnd
  <1>2. MarkType BY DEF MarkInv
  <1>3. Readable \in Marks BY <1>2, BlankMarks DEF MarkType, Readable
  <1>4. /\ beat' = [beat EXCEPT ![p] = [at |-> to, copy |-> Readable]] /\ beat[p].at = from
        /\ UNCHANGED <<marker, heal, young, rested>>
    BY <1>1 DEF Read
  <1>5. muddled' \in BOOLEAN /\ (~muddled' => ~muddled /\ Undisturbed(p)) BY <1>1 DEF Read
  <1>6. MarkType' BY <1>2, <1>3, <1>4, <1>5 DEF MarkType
  <1>7. ASSUME ~muddled' PROVE MarkOrder'
    <2>1. MarkOrder BY <1>5, <1>7 DEF MarkInv
    <2>2. Readable = marker /\ marker # Torn /\ \A q \in Peers : ~Updating(q)
      BY <1>4, <1>5, <1>7, UndisturbedReads DEF Updating
    <2>3. Busy' = Busy BY <1>1, <1>2, <1>4 DEF Busy, MarkType
    <2>4. \A m : Accounts(m)' <=> Accounts(m) BY <1>4, <2>3 DEF Accounts
    <2>5. heal.at = "none" BY <1>5, <1>7 DEF Undisturbed
    <2>6. Accounts(marker)' BY <2>1, <2>2, <1>4, <2>3 DEF MarkOrder, Accounts
    <2>7. \A q \in Peers \ {p} : beat'[q] = beat[q] BY <1>2, <1>4 DEF MarkType
    <2>8. beat'[p].copy = marker BY <1>2, <1>4, <2>2 DEF MarkType
    <2> QED BY <1>4, <2>1, <2>2, <2>3, <2>5, <2>6, <2>7, <2>8 DEF MarkOrder, Updating
  <1> QED BY <1>6, <1>7 DEF MarkInv

LEMMA WriteKeeps ==
  ASSUME MarkInv, NEW p \in Peers, Truncate(p) \/ WriteStart(p) \/ WriteEnd(p)
  PROVE  MarkInv'
  <1>1. MarkType BY DEF MarkInv
  <1>2. beat[p].copy \in Marks BY <1>1 DEF MarkType
  <1>3. CASE Truncate(p)
    <2>1. /\ marker' = Torn /\ UNCHANGED <<heal, young, rested, muddled>>
          /\ \A q \in Peers \ {p} : beat'[q] = beat[q]
          /\ beat'[p].copy = beat[p].copy
          /\ \/ beat[p].at = "start" /\ beat'[p].at = "startOpen"
             \/ beat[p].at = "end" /\ beat'[p].at = "endOpen"
      BY <1>1, <1>3 DEF Truncate, MarkType
    <2>2. MarkType' BY <1>1, <1>3, <2>1 DEF Truncate, MarkType
    <2>3. Busy' = Busy BY <2>1 DEF Busy
    <2>4. ASSUME ~muddled PROVE MarkOrder'
      BY <2>1, <2>3, <2>4 DEF MarkInv, MarkOrder, Accounts, Updating
    <2> QED BY <2>1, <2>2, <2>4 DEF MarkInv
  <1>4. CASE WriteStart(p)
    <2>1. /\ beat[p].at = "startOpen" /\ marker' = Started(beat[p].copy)
          /\ beat' = [beat EXCEPT ![p] = [at |-> "in", copy |-> Blank]]
          /\ young' = young \cup {p} /\ UNCHANGED <<heal, rested, muddled>>
      BY <1>4 DEF WriteStart
    <2>2. /\ marker' \in Marks /\ marker'.count = beat[p].copy.count + 1 /\ marker'.start = "fresh"
          /\ marker'.end = beat[p].copy.end
      BY <1>2, <2>1, MarksMove
    <2>3. MarkType' BY <1>1, <2>1, <2>2, BlankMarks DEF MarkType
    <2>4. \A q \in Peers \ {p} : beat'[q] = beat[q] BY <1>1, <2>1 DEF MarkType
    <2>5. beat'[p].at = "in" BY <1>1, <2>1 DEF MarkType
    <2>6. Busy' = Busy \cup {p} /\ p \notin Busy BY <2>1, <2>4, <2>5 DEF Busy
    <2>7. ASSUME ~muddled PROVE MarkOrder'
      <3>1. MarkOrder BY <2>7 DEF MarkInv
      <3>2. Accounts(beat[p].copy) /\ heal.at = "none" /\ \A q \in Peers \ {p} : ~Updating(q)
        BY <2>1, <3>1 DEF MarkOrder, Updating
      <3>3. Cardinality(Busy) \in Nat /\ Cardinality(Busy)' = Cardinality(Busy) + 1
        BY <2>6, BusyFinite DEF Busy
      <3>4. beat[p].copy.count \in Nat BY <1>2 DEF Marks
      <3>5. Accounts(marker)' BY <2>1, <2>2, <3>2, <3>3, <3>4 DEF Accounts
      <3>6. marker' # Torn BY <2>2, ActivityAssumption
      <3>7. \A q \in Peers : ~Updating(q)' BY <2>4, <2>5, <3>2 DEF Updating
      <3>8. young' \subseteq Busy' BY <2>1, <2>6, <3>1 DEF MarkOrder
      <3> QED BY <2>1, <3>2, <3>5, <3>6, <3>7, <3>8 DEF MarkOrder
    <2> QED BY <2>1, <2>3, <2>7 DEF MarkInv
  <1>5. CASE WriteEnd(p)
    <2>1. /\ beat[p].at = "endOpen" /\ marker' = Ended(beat[p].copy)
          /\ beat' = [beat EXCEPT ![p] = [at |-> "out", copy |-> Blank]]
          /\ young' = young \ {p} /\ rested' = FALSE /\ UNCHANGED <<heal, muddled>>
      BY <1>5 DEF WriteEnd
    <2>2. /\ marker' \in Marks /\ marker'.start = beat[p].copy.start /\ marker'.end = "recent"
          /\ beat[p].copy.count > 0 => marker'.count = beat[p].copy.count - 1
      BY <1>2, <2>1, MarksMove
    <2>3. MarkType' BY <1>1, <2>1, <2>2, BlankMarks DEF MarkType
    <2>4. \A q \in Peers \ {p} : beat'[q] = beat[q] BY <1>1, <2>1 DEF MarkType
    <2>5. beat'[p].at = "out" BY <1>1, <2>1 DEF MarkType
    <2>6. Busy' = Busy \ {p} /\ p \in Busy BY <2>1, <2>4, <2>5 DEF Busy
    <2>7. ASSUME ~muddled PROVE MarkOrder'
      <3>1. MarkOrder BY <2>7 DEF MarkInv
      <3>2. Accounts(beat[p].copy) /\ heal.at = "none" /\ \A q \in Peers \ {p} : ~Updating(q)
        BY <2>1, <3>1 DEF MarkOrder, Updating
      <3>3. Cardinality(Busy)' \in Nat /\ Cardinality(Busy) = Cardinality(Busy)' + 1
        BY <2>6, BusyFinite DEF Busy
      <3>4. beat[p].copy.count \in Nat BY <1>2 DEF Marks
      <3>5. Accounts(marker)' BY <2>1, <2>2, <3>2, <3>3, <3>4 DEF Accounts
      <3>6. marker' # Torn BY <2>2, ActivityAssumption
      <3>7. \A q \in Peers : ~Updating(q)' BY <2>4, <2>5, <3>2 DEF Updating
      <3>8. young' \subseteq Busy' BY <2>1, <2>6, <3>1 DEF MarkOrder
      <3> QED BY <2>1, <3>2, <3>5, <3>6, <3>7, <3>8 DEF MarkOrder
    <2> QED BY <2>1, <2>3, <2>7 DEF MarkInv
  <1> QED BY <1>3, <1>4, <1>5

LEMMA EngineKeeps == ASSUME MarkInv, HealRead \/ HealOpen \/ HealWrite PROVE MarkInv'
  <1>1. MarkType BY DEF MarkInv
  <1>2. CASE HealRead
    <2>1. /\ heal' = [at |-> "read", copy |-> [marker EXCEPT !.count = 0]] /\ marker # Torn
          /\ UNCHANGED <<marker, beat, young, rested>>
      BY <1>2 DEF HealRead
    <2>2. muddled' \in BOOLEAN /\ (~muddled' => ~muddled /\ \A p \in Peers : beat[p].at = "out")
      BY <1>2 DEF HealRead
    <2>3. marker \in Marks BY <1>1, <2>1 DEF MarkType
    <2>4. /\ heal'.copy \in Marks /\ heal'.copy.count = 0 /\ heal'.copy.end = marker.end /\ heal'.at = "read"
      BY <2>1, <2>3 DEF Marks
    <2>5. heal' = [at |-> "read", copy |-> heal'.copy] BY <2>1
    <2>6. MarkType' BY <1>1, <2>1, <2>2, <2>4, <2>5 DEF MarkType
    <2>7. ASSUME ~muddled' PROVE MarkOrder'
      <3>1. MarkOrder BY <2>2, <2>7 DEF MarkInv
      <3>2. Busy = {} /\ Busy' = Busy BY <2>1, <2>2, <2>7 DEF Busy
      <3>3. young = {} BY <3>1, <3>2 DEF MarkOrder
      <3>4. Cardinality(Busy) = 0 /\ Cardinality(Busy)' = 0 BY <3>2, FS_EmptySet
      <3>5. Accounts(marker) BY <2>1, <3>1 DEF MarkOrder
      <3>6. Accounts(marker)' BY <2>1, <3>2, <3>5 DEF Accounts
      <3>7. Accounts(heal.copy)' BY <2>1, <2>4, <3>3, <3>4, <3>5 DEF Accounts
      <3>8. \A p \in Peers : ~Updating(p)' BY <2>1, <2>2, <2>7 DEF Updating
      <3> QED BY <2>1, <3>2, <3>3, <3>6, <3>7, <3>8 DEF MarkOrder
    <2> QED BY <2>6, <2>7 DEF MarkInv
  <1>3. CASE HealOpen
    <2>1. /\ heal.at = "read" /\ heal'.at = "open" /\ heal'.copy = heal.copy /\ marker' = Torn
          /\ UNCHANGED <<beat, young, rested, muddled>>
      BY <1>1, <1>3 DEF HealOpen, MarkType
    <2>2. MarkType' BY <1>1, <1>3, <2>1 DEF HealOpen, MarkType
    <2>3. Busy' = Busy BY <2>1 DEF Busy
    <2> QED BY <2>1, <2>2, <2>3 DEF MarkInv, MarkOrder, Accounts, Updating
  <1>4. CASE HealWrite
    <2>1. /\ heal.at = "open" /\ heal' = [at |-> "none", copy |-> Blank] /\ marker' = heal.copy
          /\ UNCHANGED <<beat, young, rested, muddled>>
      BY <1>4 DEF HealWrite
    <2>2. heal.copy \in Marks BY <1>1 DEF MarkType
    <2>3. MarkType' BY <1>1, <2>1, <2>2, BlankMarks DEF MarkType
    <2>4. Busy' = Busy BY <2>1 DEF Busy
    <2>5. marker' # Torn /\ heal'.at = "none" BY <2>1, <2>2, ActivityAssumption
    <2> QED BY <2>1, <2>3, <2>4, <2>5 DEF MarkInv, MarkOrder, Accounts, Updating
  <1> QED BY <1>2, <1>3, <1>4

(* Time passes only between two updates.                                   *)
LEMMA PauseKeeps == ASSUME MarkInv, QuietPause \/ LongPause PROVE MarkInv'
  <1>1. MarkType BY DEF MarkInv
  <1>2. PICK long \in BOOLEAN : Age(long) BY DEF QuietPause, LongPause
  <1>3. /\ Still /\ rested' = TRUE /\ young' \subseteq young /\ (long => young' = {})
        /\ UNCHANGED <<beat, heal, muddled>>
    BY <1>2 DEF Age
  <1>4. \/ marker = Torn /\ marker' = Torn
        \/ /\ marker \in Marks /\ marker' \in Marks /\ marker'.count = marker.count
           /\ ~long => marker'.start = marker.start
    BY <1>1, <1>2 DEF Age, MarkType, Marks
  <1>5. MarkType' BY <1>1, <1>3, <1>4 DEF MarkType
  <1>6. Busy' = Busy BY <1>3 DEF Busy
  <1>7. ASSUME ~muddled PROVE MarkOrder'
    <2>1. MarkOrder BY <1>7 DEF MarkInv
    <2>2. heal.at = "none" /\ \A p \in Peers : ~Updating(p) BY <1>3 DEF Still
    <2>3. marker # Torn BY <2>1, <2>2 DEF MarkOrder, Updating
    <2>4. Accounts(marker)' BY <1>3, <1>4, <1>6, <2>1, <2>3 DEF MarkOrder, Accounts
    <2>5. marker' # Torn BY <1>4, <2>3, ActivityAssumption
    <2> QED BY <1>3, <1>6, <2>1, <2>2, <2>4, <2>5 DEF MarkOrder, Updating
  <1> QED BY <1>3, <1>5, <1>7 DEF MarkInv

(* A crash takes calls out of flight, and cuts no update unless it muddles. *)
LEMMA CutKeeps == ASSUME MarkInv, NEW C, Cut(C) PROVE MarkInv'
  <1> DEFINE dead == {p \in C \X {"client"} : beat[p].at # "out"}
  <1>1. MarkType BY DEF MarkInv
  <1>2. /\ beat' = [p \in Peers |-> IF p \in dead THEN [at |-> "out", copy |-> Blank] ELSE beat[p]]
        /\ heal' = [at |-> "none", copy |-> Blank]
        /\ young' = young \ dead /\ UNCHANGED <<marker, rested>>
    BY DEF Cut
  <1>3. muddled' \in BOOLEAN /\ (~muddled' => ~muddled /\ heal.at = "none" /\ \A p \in dead : ~Updating(p))
    BY DEF Cut
  <1> HIDE DEF dead
  <1>4. MarkType' BY <1>1, <1>2, <1>3, BlankMarks DEF MarkType
  <1>5. ASSUME ~muddled' PROVE MarkOrder'
    <2>1. MarkOrder BY <1>3, <1>5 DEF MarkInv
    <2>2. \A p \in Peers : beat'[p] = beat[p] \/ (p \in dead /\ beat'[p].at = "out") BY <1>2
    <2>3. Busy' = Busy \ dead BY <1>2 DEF Busy
    <2>4. Cardinality(Busy)' <= Cardinality(Busy) /\ Cardinality(Busy)' \in Nat /\ Cardinality(Busy) \in Nat
      BY <2>3, BusyFinite DEF Busy
    <2>5. ASSUME NEW m, Accounts(m) PROVE Accounts(m)'
      <3>1. m.count \in Nat BY <2>5 DEF Accounts, Marks
      <3> QED BY <1>2, <2>4, <2>5, <3>1 DEF Accounts
    <2>6. heal'.at = "none" /\ heal.at = "none" BY <1>2, <1>3, <1>5
    <2>7. young' \subseteq Busy' BY <1>2, <2>1, <2>3 DEF MarkOrder
    <2>8. \A p \in Peers : Updating(p)' => Updating(p) /\ beat'[p] = beat[p] BY <2>2 DEF Updating
    <2>9. \A p \in Peers : Updating(p)' => Accounts(beat[p].copy)' /\ \A q \in Peers \ {p} : ~Updating(q)'
      <3> SUFFICES ASSUME NEW p \in Peers, Updating(p)'
                   PROVE  Accounts(beat[p].copy)' /\ \A q \in Peers \ {p} : ~Updating(q)'
        OBVIOUS
      <3>1. Updating(p) /\ beat'[p] = beat[p] BY <2>8
      <3>2. Accounts(beat[p].copy) /\ \A q \in Peers \ {p} : ~Updating(q) BY <2>1, <3>1 DEF MarkOrder
      <3>3. Accounts(beat[p].copy)' BY <1>2, <2>4, <3>1, <3>2 DEF Accounts, Marks
      <3> QED BY <2>8, <3>2, <3>3
    <2>10. IF marker' = Torn THEN \E p \in Peers : beat'[p].at \in {"startOpen", "endOpen"} ELSE Accounts(marker)'
      <3>1. CASE marker = Torn
        <4>1. PICK p \in Peers : beat[p].at \in {"startOpen", "endOpen"} BY <2>1, <2>6, <3>1 DEF MarkOrder
        <4>2. p \notin dead BY <1>3, <1>5, <4>1 DEF Updating
        <4> QED BY <1>2, <2>2, <3>1, <4>1, <4>2
      <3>2. CASE marker # Torn
        <4>1. Accounts(marker) BY <2>1, <3>2 DEF MarkOrder
        <4> QED BY <1>2, <2>4, <3>2, <4>1 DEF Accounts, Marks
      <3> QED BY <3>1, <3>2
    <2> QED BY <2>6, <2>7, <2>9, <2>10 DEF MarkOrder
  <1> QED BY <1>4, <1>5 DEF MarkInv

(* MarkInv holds throughout.                                               *)
LEMMA MarkStep == ASSUME MarkInv, [Next]_vars PROVE MarkInv'
  <1>1. ASSUME UNCHANGED activityVars PROVE MarkInv'
    <2>1. UNCHANGED <<marker, beat, heal, young, rested, muddled>> BY <1>1 DEF activityVars
    <2> QED BY <2>1 DEF MarkInv, MarkType, MarkOrder, Accounts, Busy, Updating
  <1>2. ASSUME NEW p \in Peers, Marking(p) PROVE MarkInv'
    BY <1>2, ReadKeeps, WriteKeeps DEF Marking
  <1>3. CASE Crash BY <1>3, CutKeeps DEF Crash
  <1>4. CASE Engine BY <1>4, EngineKeeps DEF Engine
  <1>5. CASE TimePasses BY <1>5, PauseKeeps DEF TimePasses
  <1>6. CASE Polls \/ Sends \/ UNCHANGED vars BY <1>1, <1>6 DEF Polls, Sends, vars
  <1>7. ASSUME NEW u \in Turns, Chat(u) \/ CallServer(u) \/ Returned(u) PROVE MarkInv'
    BY <1>1, <1>7 DEF Chat, CallServer, Returned
  <1>8. ASSUME NEW c \in Callers, Serves(c) \/ TimesOut(c) PROVE MarkInv'
    BY <1>1, <1>8 DEF Serves, TimesOut
  <1> QED BY <1>2, <1>3, <1>4, <1>5, <1>6, <1>7, <1>8 DEF Next, Proceeds

LEMMA MarkInit == Init => MarkInv
  <1> SUFFICES ASSUME Init PROVE MarkInv OBVIOUS
  <1>1. /\ marker = Blank /\ beat = [p \in Peers |-> [at |-> "out", copy |-> Blank]]
        /\ heal = [at |-> "none", copy |-> Blank] /\ young = {} /\ rested = TRUE /\ muddled = FALSE
    BY DEF Init, ActivityInit
  <1>2. Busy = {} BY <1>1 DEF Busy
  <1>3. Cardinality(Busy) = 0 BY <1>2, FS_EmptySet
  <1>4. Accounts(marker) BY <1>1, <1>3, BlankMarks DEF Accounts, Blank
  <1>5. MarkType BY <1>1, BlankMarks DEF MarkType
  <1>6. MarkOrder BY <1>1, <1>2, <1>4, BlankMarks, ActivityAssumption DEF MarkOrder, Updating
  <1> QED BY <1>5, <1>6 DEF MarkInv

(* The engine takes the model for idle only when it is, unless updates of  *)
(* the marker overlapped (IdleMeansQuiet).                                 *)
THEOREM IdleMeansQuietHolds == FairSpec => []IdleMeansQuiet
  <1>1. Init => MarkInv BY MarkInit
  <1>2. MarkInv => IdleMeansQuiet
    <2> SUFFICES ASSUME MarkInv, ~muddled, marker # Torn, SaysIdle
                 PROVE  young = {} /\ (rested \/ marker.count > 0)
      BY DEF IdleMeansQuiet
    <2>1. MarkOrder /\ Accounts(marker) BY DEF MarkInv, MarkOrder
    <2>2. marker.count \in Nat BY <2>1 DEF Accounts, Marks
    <2>3. CASE Stuck(marker) BY <2>1, <2>3 DEF Accounts, Stuck
    <2>4. CASE marker.count = 0 /\ marker.end # "recent"
      <3>1. Cardinality(Busy) = 0 BY <2>1, <2>2, <2>4, BusyFinite DEF Accounts, Busy
      <3>2. Busy = {} BY <3>1, BusyFinite, FS_EmptySet DEF Busy
      <3> QED BY <2>1, <2>4, <3>2 DEF MarkOrder, Accounts
    <2> QED BY <2>3, <2>4 DEF SaysIdle
  <1> QED BY <1>1, <1>2, MarkStep, PTL DEF FairSpec
=============================================================================
