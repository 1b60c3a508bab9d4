-------------------------- MODULE ThinkAtRestProofs --------------------------
(* Proofs about ThinkAtRest, for any number of requests, threads, restarts *)
(* and faults.                                                             *)
EXTENDS ThinkAtRest, FiniteSetTheorems, SequenceTheorems, TLAPS

Size == Cardinality(Threads)
Credit == faults + restarts * Size      \* what failed updates and restarts have cost
Listing(r) == {t \in Threads : r \in list[t]}
Working(r) == {t \in Threads : cur[t] = r}

Places == {"rest", "list", "next", "evolve", "assess", "ask", "count", "close", "explore", "send", "sent"}
Free == {"rest", "list", "next", "explore", "send", "sent"}

RestType ==
    /\ store \in [Requests -> Rows]
    /\ at \in [Threads -> Places]
    /\ list \in [Threads -> SUBSET Requests]
    /\ cur \in [Threads -> Requests \cup {NoRequest}]
    /\ attempts \in [Requests -> Nat] /\ late \in [Requests -> Nat] /\ noTaps \in [Requests -> Nat]
    /\ faults \in Nat /\ restarts \in Nat
    /\ closing \subseteq Requests

(* A thread that lists or considers has nothing in work, and what it works *)
(* on has left its list.                                                   *)
AtWork ==
    \A t \in Threads :
        /\ at[t] \in Free => cur[t] = NoRequest
        /\ cur[t] \notin list[t]

RestInv == RestType /\ AtWork

(* What the threads do with the requests; all else is at rest.             *)
requestVars == <<store, list, cur, closing, attempts, late, noTaps, yes, racing, restarts>>
-----------------------------------------------------------------------------
(* Threads are finitely many, and there is at least the idle detector.     *)
LEMMA ThreadsFinite == IsFiniteSet(Threads) /\ Size \in Nat /\ Size >= 1
  <1>1. IsFiniteSet({"idle"}) /\ IsFiniteSet(Manual) BY FS_Singleton, RestAssumption
  <1>2. IsFiniteSet(Threads) BY <1>1, FS_Union DEF Threads
  <1>3. Size \in Nat BY <1>2, FS_CardinalityType DEF Size
  <1>4. Size # 0 BY <1>2, FS_EmptySet DEF Size, Threads
  <1> QED BY <1>2, <1>3, <1>4

(* Sets of threads have at most Size members.                              *)
LEMMA SomeThreads ==
  ASSUME NEW S \in SUBSET Threads
  PROVE  IsFiniteSet(S) /\ Cardinality(S) \in Nat /\ Cardinality(S) <= Size
  BY ThreadsFinite, FS_Subset, FS_CardinalityType DEF Size

(* One thread more, one thread less.                                       *)
LEMMA OneMore ==
  ASSUME NEW S \in SUBSET Threads, NEW t \in Threads, t \notin S
  PROVE  Cardinality(S \cup {t}) = Cardinality(S) + 1
  BY SomeThreads, FS_AddElement
LEMMA OneLess ==
  ASSUME NEW S \in SUBSET Threads, NEW t \in S
  PROVE  Cardinality(S \ {t}) = Cardinality(S) - 1
  BY SomeThreads, FS_RemoveElement

(* Two kinds of threads that exclude each other are at most all of them.   *)
LEMMA TwoKinds ==
  ASSUME NEW S \in SUBSET Threads, NEW T \in SUBSET Threads, S \cap T = {}
  PROVE  Cardinality(S) + Cardinality(T) <= Size
  <1>1. Cardinality(S \cup T) = Cardinality(S) + Cardinality(T) - Cardinality(S \cap T)
    BY SomeThreads, FS_Union
  <1>2. Cardinality(S \cap T) = 0 BY FS_EmptySet
  <1>3. Cardinality(S \cup T) <= Size BY SomeThreads
  <1> QED BY <1>1, <1>2, <1>3, SomeThreads

(* The statements on the table of requests, row by row.                    *)
LEMMA BumpedRows ==
  ASSUME store \in [Requests -> Rows], NEW r
  PROVE  /\ Bumped(r) \in [Requests -> Rows]
         /\ \A q \in Requests : /\ Bumped(r)[q].state = store[q].state
                                /\ Bumped(r)[q].reward = store[q].reward
                                /\ Bumped(r)[q].retry = IF q = r THEN store[q].retry + 1 ELSE store[q].retry
  <1>1. ASSUME NEW row \in Rows
        PROVE  LET new == [row EXCEPT !.retry = @ + 1]
               IN  /\ new \in Rows /\ new.retry = row.retry + 1
                   /\ new.state = row.state /\ new.reward = row.reward
    BY DEF Rows
  <1>2. \A q \in Requests : Bumped(r)[q] = IF q = r THEN [store[q] EXCEPT !.retry = @ + 1] ELSE store[q]
    BY DEF Bumped
  <1>3. Bumped(r) = [q \in Requests |-> Bumped(r)[q]] BY DEF Bumped
  <1>4. \A q \in Requests : Bumped(r)[q] \in Rows BY <1>1, <1>2
  <1>5. Bumped(r) \in [Requests -> Rows] BY <1>3, <1>4
  <1> QED BY <1>1, <1>2, <1>5
LEMMA ResolvedRows ==
  ASSUME store \in [Requests -> Rows], NEW r, NEW w \in {"yes", "no"}
  PROVE  /\ Resolved(r, w) \in [Requests -> Rows]
         /\ \A q \in Requests : /\ Resolved(r, w)[q].state = IF q = r THEN "closed" ELSE store[q].state
                                /\ Resolved(r, w)[q].reward = IF q = r THEN w ELSE store[q].reward
                                /\ Resolved(r, w)[q].retry = store[q].retry
  BY DEF Resolved, Rows
LEMMA AwaitsRows ==
  ASSUME store \in [Requests -> Rows], NEW r
  PROVE  /\ AwaitsConfirm(r) \in [Requests -> Rows]
         /\ \A q \in Requests : /\ AwaitsConfirm(r)[q].state = store[q].state
                                /\ AwaitsConfirm(r)[q].reward = store[q].reward
                                /\ AwaitsConfirm(r)[q].retry = store[q].retry
  BY DEF AwaitsConfirm, Rows
-----------------------------------------------------------------------------
(* Goal discovery and the operator leave the requests alone.               *)
LEMMA DiscoveryRests ==
  ASSUME faults \in Nat, Discovery \/ Operator
  PROVE  UNCHANGED <<requestVars, at, sent, dayTurned, today>> /\ faults' \in {faults, faults + 1}
  <1> USE DEF requestVars, storeVars, cycleVars, adVars, historyVars
  <1>1. CASE Operator BY <1>1 DEF Operator, RunningChange
  <1>2. CASE Discovery
    <2>1. UNCHANGED <<requestVars, at, sent, dayTurned, today>> BY <1>2 DEF Discovery
    <2>2. CASE DiscoveryThread
      <3>1. Seed \/ Cycle \/ LoopEnds \/ Drain \/ (\E p \in Patterns : Pick(p)) => faults' = faults
        BY DEF Seed, Cycle, LoopEnds, Drain, Pick
      <3>2. EvolveReturns => faults' \in {faults, faults + 1} BY DEF EvolveReturns, Fault
      <3>3. EvolveRaises => faults' \in {faults, faults + 1} BY DEF EvolveRaises, Fault
      <3> QED BY <2>1, <2>2, <3>1, <3>2, <3>3 DEF DiscoveryThread
    <2>3. CASE CoolsDown \/ ReplicasChange \/ LogGrows BY <2>1, <2>3 DEF CoolsDown, ReplicasChange, LogGrows
    <2> QED BY <1>2, <2>2, <2>3 DEF Discovery
  <1> QED BY <1>1, <1>2

-----------------------------------------------------------------------------
(* The steps as the requests see them.                                     *)
Rests == UNCHANGED requestVars /\ faults' \in {faults, faults + 1}
OthersRest == UNCHANGED <<closing, attempts, late, noTaps, yes, racing, restarts>>

Lists(t) ==
    /\ at[t] = "list" /\ list' = [list EXCEPT ![t] = Unresolved]
    /\ OthersRest /\ UNCHANGED <<store, cur, faults>>
SkipsOne(t, r) ==
    /\ r \in list[t] /\ list' = [list EXCEPT ![t] = @ \ {r}]
    /\ OthersRest /\ UNCHANGED <<store, cur, faults>>
BeginsOne(t, r) ==
    /\ at[t] = "next" /\ r \in list[t] /\ list' = [list EXCEPT ![t] = @ \ {r}]
    /\ cur' = [cur EXCEPT ![t] = r]
    /\ attempts' = [attempts EXCEPT ![r] = @ + 1]
    /\ late' = [late EXCEPT ![r] = IF store[r].state = "closed" THEN @ + 1 ELSE @]
    /\ UNCHANGED <<store, closing, noTaps, yes, racing, restarts, faults>>
Waits(t) ==
    /\ store' = AwaitsConfirm(cur[t])
    /\ OthersRest /\ UNCHANGED <<list, cur, faults>>
Counted(t) ==
    /\ store' = Bumped(cur[t])
    /\ \/ store[cur[t]].retry + 1 >= MaxRetry /\ UNCHANGED cur
       \/ ~(store[cur[t]].retry + 1 >= MaxRetry) /\ cur' = [cur EXCEPT ![t] = NoRequest]
    /\ OthersRest /\ UNCHANGED <<list, faults>>
Closed(t) ==
    /\ store' = Resolved(cur[t], "no") /\ cur' = [cur EXCEPT ![t] = NoRequest]
    /\ OthersRest /\ UNCHANGED <<list, faults>>
LetsGo(t) ==
    /\ cur' = [cur EXCEPT ![t] = NoRequest] /\ faults' = faults + 1
    /\ OthersRest /\ UNCHANGED <<store, list>>

(* Every step of a cycle is of one of these kinds.                         *)
LEMMA CycleKinds ==
  ASSUME NEW t \in Threads, CycleStep(t), faults \in Nat
  PROVE  \/ Rests \/ Lists(t) \/ Waits(t) \/ Counted(t) \/ Closed(t) \/ LetsGo(t)
         \/ \E r \in Requests : SkipsOne(t, r) \/ BeginsOne(t, r)
  <1> USE DEF Rests, OthersRest, requestVars, discoveryVars, logVars, threadVars, outcomeVars,
              storeVars, clockVars, cycleVars, reflectVars, adVars, historyVars, Goto, Fault
  <1>1. CASE ListRequests(t) BY <1>1 DEF ListRequests, Lists
  <1>2. CASE Evolve(t) \/ AssessFails(t) \/ Reflect(t) \/ Sends(t) \/ Sent(t)
    BY <1>2 DEF Evolve, AssessFails, Reflect, Sends, Sent
  <1>3. CASE AssessMarks(t) BY <1>3 DEF AssessMarks, Waits
  <1>4. CASE AssessAsks(t) BY <1>4 DEF AssessAsks
  <1>5. CASE AssessDisabled(t) BY <1>5 DEF AssessDisabled
  <1>6. CASE Count(t)
    <2>1. CASE store' = Bumped(cur[t]) /\ UNCHANGED faults
      <3>1. CASE store[cur[t]].retry + 1 >= MaxRetry BY <1>6, <2>1, <3>1 DEF Count, Counted, LetsGo
      <3>2. CASE ~(store[cur[t]].retry + 1 >= MaxRetry) BY <1>6, <2>1, <3>2 DEF Count, Counted, LetsGo
      <3> QED BY <3>1, <3>2
    <2>2. CASE UNCHANGED store /\ faults' = faults + 1 /\ cur' = [cur EXCEPT ![t] = NoRequest]
      BY <1>6, <2>2 DEF Count, LetsGo
    <2> QED BY <1>6, <2>1, <2>2 DEF Count
  <1>7. CASE Abandon(t) BY <1>7 DEF Abandon, Closed, LetsGo
  <1>8. CASE SendFails(t) BY <1>8 DEF SendFails
  <1>9. CASE Explore(t)
    <2>1. UNCHANGED requestVars BY <1>9 DEF Explore
    <2>2. CASE ExploresNothing(t) \/ ParksProbe(t) BY <2>1, <2>2 DEF ExploresNothing, ParksProbe
    <2>3. CASE Curious(t)
      <3>1. \A p \in Patterns : Promotes(p) => faults' \in {faults, faults + 1}
        BY DEF Promotes, RecordPromoted
      <3> QED BY <2>1, <2>3, <3>1 DEF Curious
    <2> QED BY <1>9, <2>2, <2>3 DEF Explore
  <1>10. ASSUME NEW r \in Requests, Consider(t, r) PROVE SkipsOne(t, r) \/ BeginsOne(t, r)
    <2>1. CASE Skips(t, r) BY <1>10, <2>1 DEF Consider, Skips, SkipsOne
    <2>2. CASE Begins(t, r) BY <1>10, <2>2 DEF Consider, Begins, BeginsOne
    <2> QED BY <1>10, <2>1, <2>2 DEF Consider
  <1> QED BY <1>1, <1>2, <1>3, <1>4, <1>5, <1>6, <1>7, <1>8, <1>9, <1>10 DEF CycleStep

-----------------------------------------------------------------------------
(* A step of a cycle moves its own thread only, and frees it only when      *)
(* nothing is in work.                                                     *)
LEMMA CycleGoes ==
  ASSUME NEW t \in Threads, CycleStep(t), RestInv
  PROVE  /\ at' \in [Threads -> Places]
         /\ \A s \in Threads \ {t} : at'[s] = at[s]
         /\ at'[t] \in Free => cur'[t] = NoRequest
  <1>1. at \in [Threads -> Places] /\ cur \in [Threads -> Requests \cup {NoRequest}]
    BY DEF RestInv, RestType
  <1>2. at[t] \in Free => cur[t] = NoRequest BY DEF RestInv, AtWork
  <1> USE <1>1, <1>2 DEF cycleVars, historyVars, Goto, Free, Places
  <1>3. CASE ListRequests(t) BY <1>3 DEF ListRequests
  <1>4. CASE Evolve(t) BY <1>4 DEF Evolve
  <1>5. CASE AssessFails(t) BY <1>5 DEF AssessFails
  <1>6. CASE AssessMarks(t) BY <1>6 DEF AssessMarks
  <1>7. CASE AssessAsks(t) BY <1>7 DEF AssessAsks
  <1>8. CASE AssessDisabled(t) BY <1>8 DEF AssessDisabled
  <1>9. CASE Count(t) BY <1>9 DEF Count
  <1>10. CASE Abandon(t) BY <1>10 DEF Abandon
  <1>11. CASE Reflect(t) BY <1>11 DEF Reflect
  <1>12. CASE Explore(t)
    <2>1. UNCHANGED cur /\ at[t] = "explore" BY <1>12 DEF Explore
    <2>2. Goto(t, "rest") \/ Goto(t, "send") BY <1>12 DEF Explore, ExploresNothing, ParksProbe, Curious
    <2> QED BY <2>1, <2>2
  <1>13. CASE Sends(t) BY <1>13 DEF Sends
  <1>14. CASE Sent(t) BY <1>14 DEF Sent
  <1>15. CASE SendFails(t) BY <1>15 DEF SendFails
  <1>16. CASE \E r \in Requests : Consider(t, r)
    <2>1. PICK r \in Requests : Consider(t, r) BY <1>16
    <2>2. CASE Skips(t, r) BY <2>1, <2>2 DEF Consider, Skips
    <2>3. CASE Begins(t, r) BY <2>1, <2>3 DEF Consider, Begins
    <2> QED BY <2>1, <2>2, <2>3 DEF Consider
  <1> QED BY <1>3, <1>4, <1>5, <1>6, <1>7, <1>8, <1>9, <1>10, <1>11, <1>12, <1>13, <1>14, <1>15, <1>16 DEF CycleStep

(* A step of a cycle keeps the types and what is in work.                  *)
LEMMA CycleKeepsRest ==
  ASSUME NEW t \in Threads, CycleStep(t), RestInv
  PROVE  RestInv'
  <1>1. /\ at' \in [Threads -> Places]
        /\ \A s \in Threads \ {t} : at'[s] = at[s]
        /\ at'[t] \in Free => cur'[t] = NoRequest
    BY CycleGoes
  <1>2. NoRequest \notin Requests BY RestAssumption
  <1>3. /\ RestType'
        /\ \A s \in Threads : cur'[s] \notin list'[s] /\ (s # t => cur'[s] = cur[s])
    <2>1. RestType /\ \A s \in Threads : cur[s] \notin list[s] BY DEF RestInv, AtWork
    <2> USE <1>1, <1>2, <2>1 DEF RestType, OthersRest
    <2>2. CASE Rests BY <2>2 DEF Rests, requestVars
    <2>3. CASE Lists(t)
      <3>1. Unresolved \in SUBSET Requests BY DEF Unresolved, Newest, Open
      <3>2. at[t] \in Free BY <2>3 DEF Lists, Free
      <3>3. cur[t] = NoRequest BY <3>2 DEF RestInv, AtWork
      <3> QED BY <2>3, <3>1, <3>3 DEF Lists
    <2>4. CASE Waits(t) BY <2>4, AwaitsRows DEF Waits
    <2>5. CASE Counted(t) BY <2>5, BumpedRows DEF Counted
    <2>6. CASE Closed(t) BY <2>6, ResolvedRows DEF Closed
    <2>7. CASE LetsGo(t) BY <2>7 DEF LetsGo
    <2>8. ASSUME NEW r \in Requests, SkipsOne(t, r) PROVE
               RestType' /\ \A s \in Threads : cur'[s] \notin list'[s] /\ (s # t => cur'[s] = cur[s])
      BY <2>8 DEF SkipsOne
    <2>9. ASSUME NEW r \in Requests, BeginsOne(t, r) PROVE
               RestType' /\ \A s \in Threads : cur'[s] \notin list'[s] /\ (s # t => cur'[s] = cur[s])
      <3>1. attempts' \in [Requests -> Nat] /\ late' \in [Requests -> Nat] BY <2>9 DEF BeginsOne
      <3>2. list' \in [Threads -> SUBSET Requests] /\ cur' \in [Threads -> Requests \cup {NoRequest}]
        BY <2>9 DEF BeginsOne
      <3>3. RestType' BY <2>9, <3>1, <3>2 DEF BeginsOne
      <3> QED BY <2>9, <3>3 DEF BeginsOne
    <2> HIDE DEF RestType, OthersRest
    <2> QED BY <2>1, <2>2, <2>3, <2>4, <2>5, <2>6, <2>7, <2>8, <2>9, CycleKinds DEF RestType
  <1>4. AtWork' BY <1>1, <1>3 DEF RestInv, AtWork
  <1> QED BY <1>3, <1>4 DEF RestInv

-----------------------------------------------------------------------------
(* What happens around the cycles: a thread starts one, time and the       *)
(* surroundings move on, a request is recorded, the user taps.             *)
Starts == IdleStarts \/ IdlePolls \/ \E t \in Manual : Trigger(t)
Moves == Starts \/ Surroundings \/ Discovery \/ Operator

Records(r) ==
    /\ store[r].state = "none" /\ store' = [store EXCEPT ![r].state = "open"]
    /\ OthersRest /\ UNCHANGED <<list, cur, at, faults>>

(* Starting a cycle and the surroundings touch no request, and a thread    *)
(* that starts has nothing in work.                                        *)
LEMMA MovesRest ==
  ASSUME Moves, RestInv
  PROVE  /\ Rests
         /\ at' \in [Threads -> Places]
         /\ \A t \in Threads : at'[t] = at[t] \/ at[t] = "rest"
  <1>1. at \in [Threads -> Places] /\ faults \in Nat BY DEF RestInv, RestType
  <1> USE <1>1 DEF Rests, requestVars, storeVars, cycleVars, historyVars, adVars
  <1>2. CASE Discovery \/ Operator BY <1>2, DiscoveryRests
  <1>3. CASE IdleStarts
    <2>1. Rests BY <1>3 DEF IdleStarts, StartsCycle, discoveryVars
    <2>2. at["idle"] = "rest" /\ at' = [at EXCEPT !["idle"] = "list"] BY <1>3 DEF IdleStarts, StartsCycle, Goto
    <2> QED BY <2>1, <2>2 DEF Places
  <1>4. CASE IdlePolls BY <1>4 DEF IdlePolls, discoveryVars
  <1>5. ASSUME NEW t \in Manual, Trigger(t)
        PROVE  Rests /\ at' \in [Threads -> Places] /\ \A s \in Threads : at'[s] = at[s] \/ at[s] = "rest"
    <2>1. Rests BY <1>5 DEF Trigger, StartsCycle, discoveryVars
    <2>2. at[t] = "rest" /\ at' = [at EXCEPT ![t] = "list"] BY <1>5 DEF Trigger, StartsCycle, Goto
    <2> QED BY <2>1, <2>2 DEF Places
  <1>6. CASE Surroundings BY <1>6 DEF Surroundings, GrowStale, Tick, Cools, NewDay, Attend, discoveryVars
  <1> QED BY <1>2, <1>3, <1>4, <1>5, <1>6 DEF Moves, Starts

(* Recording a request.                                                    *)
LEMMA RecordKind == ASSUME NEW r \in Requests, Record(r) PROVE Records(r)
  BY DEF Record, Records, Unrecorded, OthersRest, discoveryVars, cycleVars, historyVars

(* A row opened by Record.                                                 *)
LEMMA RecordedRows ==
  ASSUME store \in [Requests -> Rows], NEW r \in Requests, Records(r)
  PROVE  /\ store' \in [Requests -> Rows]
         /\ \A q \in Requests : /\ store'[q].state = IF q = r THEN "open" ELSE store[q].state
                                /\ store'[q].reward = store[q].reward /\ store'[q].retry = store[q].retry
  BY DEF Records, Rows

(* Everything the user does keeps the types.                               *)
LEMMA UserKeepsRest == ASSUME User, RestInv PROVE RestInv'
  <1>1. PICK r \in Requests : Record(r) \/ TapYes(r) \/ TapNo(r) \/ TapCloses(r) BY DEF User
  <1>2. RestType /\ AtWork BY DEF RestInv
  <1>3. UNCHANGED <<at, list, cur>> BY <1>1 DEF Record, TapYes, TapNo, TapCloses, cycleVars
  <1>4. AtWork' BY <1>2, <1>3 DEF AtWork
  <1>5. UNCHANGED <<attempts, late, faults, restarts>>
    BY <1>1 DEF Record, TapYes, TapNo, TapCloses, discoveryVars, historyVars
  <1>6. store' \in [Requests -> Rows]
    BY <1>1, <1>2, RecordKind, RecordedRows, ResolvedRows, BumpedRows DEF RestType, TapYes, TapNo, TapCloses
  <1>7. noTaps' \in [Requests -> Nat]
    BY <1>1, <1>2 DEF RestType, Record, TapYes, TapNo, TapCloses, historyVars
  <1>8. closing' \subseteq Requests
    BY <1>1, <1>2 DEF RestType, Record, TapYes, TapNo, TapCloses
  <1> QED BY <1>2, <1>3, <1>4, <1>5, <1>6, <1>7, <1>8 DEF RestInv, RestType

(* What a restart does to the requests.                                    *)
LEMMA RestartKind ==
  ASSUME Restart
  PROVE  /\ restarts' = restarts + 1 /\ closing' = {}
         /\ at' = [t \in Threads |-> "rest"] /\ list' = [t \in Threads |-> {}]
         /\ cur' = [t \in Threads |-> NoRequest]
         /\ UNCHANGED <<store, attempts, late, noTaps, yes, racing, faults, today>>
         /\ sent' = 0 /\ dayTurned' = FALSE
  BY DEF Restart

(* RestInv holds throughout.                                               *)
LEMMA RestStep == ASSUME RestInv, [Next]_vars PROVE RestInv'
  <1>1. RestType /\ AtWork BY DEF RestInv
  <1>2. NoRequest \notin Requests BY RestAssumption
  <1>3. CASE Moves
    <2>1. /\ Rests /\ at' \in [Threads -> Places]
          /\ \A t \in Threads : at'[t] = at[t] \/ at[t] = "rest"
      BY <1>3, MovesRest
    <2> QED BY <1>1, <2>1 DEF RestInv, RestType, AtWork, Rests, requestVars, Free
  <1>4. CASE \E t \in Threads : CycleStep(t) BY <1>4, CycleKeepsRest
  <1>5. CASE User BY <1>5, UserKeepsRest
  <1>6. CASE Restart
    <2>1. RestType'
      BY <1>1, <1>6, RestartKind DEF RestType, Places
    <2>2. AtWork' BY <1>2, <1>6, RestartKind DEF AtWork
    <2> QED BY <2>1, <2>2 DEF RestInv
  <1>7. CASE UNCHANGED vars
    BY <1>1, <1>7 DEF vars, RestInv, RestType, AtWork, discoveryVars, storeVars, cycleVars, historyVars
  <1> QED BY <1>3, <1>4, <1>5, <1>6, <1>7 DEF Next, Moves, Starts

(* And initially.                                                          *)
LEMMA RestInit == Init => RestInv
  <1> SUFFICES ASSUME Init PROVE RestInv OBVIOUS
  <1>1. faults = 0 BY DEF Init, DiscoveryInit
  <1>2. store \in [Requests -> Rows] BY DEF Init, Rows
  <1>3. RestType BY <1>1, <1>2 DEF Init, RestType, Places
  <1>4. AtWork BY RestAssumption DEF Init, AtWork
  <1> QED BY <1>3, <1>4 DEF RestInv

-----------------------------------------------------------------------------
(* What a request has cost and may still cost.  While it is open, an       *)
(* evolution is counted, in work, or paid for by a fault or a restart.     *)
(* Once it is closed only the cycles that have it on their list add one.   *)
Ceiling(r) == IF store[r].retry < MaxRetry THEN store[r].retry ELSE MaxRetry - 1
Cost(r) ==
    IF store[r].state = "closed"
    THEN /\ late[r] + Cardinality(Listing(r)) <= Size
         /\ attempts[r] + Cardinality(Listing(r)) <= MaxRetry - 1 + Size + Credit
    ELSE /\ late[r] = 0
         /\ attempts[r] <= Ceiling(r) + Cardinality(Working(r)) + Credit
CostInv == \A r \in Requests : Cost(r)

(* The terms of Cost are numbers.                                          *)
LEMMA CostNumbers ==
  ASSUME RestInv, NEW r \in Requests
  PROVE  /\ Size \in Nat /\ Size >= 1 /\ Credit \in Nat /\ MaxRetry \in Nat /\ MaxRetry >= 1
         /\ Cardinality(Listing(r)) \in Nat /\ Cardinality(Working(r)) \in Nat
         /\ Cardinality(Listing(r)) <= Size
         /\ Cardinality(Listing(r)) + Cardinality(Working(r)) <= Size
         /\ attempts[r] \in Nat /\ late[r] \in Nat
         /\ store[r].retry \in Nat /\ Ceiling(r) \in Nat /\ Ceiling(r) <= MaxRetry - 1
  <1>1. RestType /\ AtWork BY DEF RestInv
  <1>2. Size \in Nat /\ Size >= 1 BY ThreadsFinite
  <1>3. Credit \in Nat BY <1>1, <1>2 DEF Credit, RestType
  <1>4. Listing(r) \in SUBSET Threads /\ Working(r) \in SUBSET Threads BY DEF Listing, Working
  <1>5. Listing(r) \cap Working(r) = {} BY <1>1 DEF Listing, Working, AtWork
  <1>6. MaxRetry \in Nat /\ MaxRetry >= 1 BY RestAssumption
  <1>7. store[r].retry \in Nat BY <1>1 DEF RestType, Rows
  <1>8. Ceiling(r) \in Nat /\ Ceiling(r) <= MaxRetry - 1 BY <1>6, <1>7 DEF Ceiling
  <1> QED BY <1>1, <1>2, <1>3, <1>4, <1>5, <1>6, <1>7, <1>8, SomeThreads, TwoKinds DEF RestType

(* The same of the next state.                                             *)
LEMMA CostNumbersNext ==
  ASSUME RestInv', NEW r \in Requests
  PROVE  /\ Credit' \in Nat /\ store'[r].retry \in Nat
         /\ Cardinality(Listing(r)') \in Nat /\ Cardinality(Working(r)') \in Nat
         /\ Cardinality(Listing(r)') <= Size
         /\ attempts'[r] \in Nat /\ late'[r] \in Nat
         /\ Ceiling(r)' \in Nat /\ Ceiling(r)' <= MaxRetry - 1
  <1>1. RestType' BY DEF RestInv
  <1>2. Size \in Nat /\ Size >= 1 BY ThreadsFinite
  <1>3. Credit' \in Nat BY <1>1, <1>2 DEF Credit, Size, RestType
  <1>4. Listing(r)' \in SUBSET Threads /\ Working(r)' \in SUBSET Threads BY DEF Listing, Working
  <1>5. MaxRetry \in Nat /\ MaxRetry >= 1 BY RestAssumption
  <1>6. store'[r].retry \in Nat BY <1>1 DEF RestType, Rows
  <1>7. Ceiling(r)' \in Nat /\ Ceiling(r)' <= MaxRetry - 1 BY <1>5, <1>6 DEF Ceiling
  <1> QED BY <1>1, <1>3, <1>4, <1>6, <1>7, SomeThreads DEF RestType

(* Fewer threads in a set, a smaller cardinality.                          *)
LEMMA Fewer ==
  ASSUME NEW S \in SUBSET Threads, NEW T \in SUBSET S
  PROVE  Cardinality(T) <= Cardinality(S)
  BY SomeThreads, FS_Subset

(* A step that neither opens nor closes a request, evolves it nor lets go  *)
(* of it keeps its cost.                                                   *)
LEMMA CostKept ==
  ASSUME RestInv, RestInv', NEW r \in Requests, Cost(r),
         (store'[r].state = "closed") <=> (store[r].state = "closed"),
         store'[r].retry >= store[r].retry,
         attempts'[r] = attempts[r], late'[r] = late[r], Credit' >= Credit,
         store[r].state = "closed" => Listing(r)' \subseteq Listing(r),
         store[r].state # "closed" => Working(r) \subseteq Working(r)'
  PROVE  Cost(r)'
  <1> USE CostNumbers, CostNumbersNext
  <1>1. CASE store[r].state = "closed"
    <2>1. Cardinality(Listing(r)') <= Cardinality(Listing(r)) BY <1>1, Fewer DEF Listing
    <2> QED BY <1>1, <2>1 DEF Cost, Size
  <1>2. CASE store[r].state # "closed"
    <2>1. Cardinality(Working(r)) <= Cardinality(Working(r)') BY <1>2, Fewer DEF Working
    <2>2. Ceiling(r)' >= Ceiling(r) BY DEF Ceiling
    <2> QED BY <1>2, <2>1, <2>2 DEF Cost
  <1> QED BY <1>1, <1>2

(* Closing a request: what is in work and what is listed are different     *)
(* threads, at most all of them.                                           *)
LEMMA CostCloses ==
  ASSUME RestInv, RestInv', NEW r \in Requests, Cost(r),
         store[r].state # "closed", store'[r].state = "closed",
         attempts'[r] = attempts[r], late'[r] = late[r], Credit' >= Credit,
         Listing(r)' = Listing(r)
  PROVE  Cost(r)'
  BY CostNumbers, CostNumbersNext DEF Cost, Size

(* Credit grows with each fault, and by all threads with a restart.        *)
LEMMA CreditGrows ==
  ASSUME RestInv, faults' \in {faults, faults + 1}
  PROVE  /\ restarts' = restarts => Credit' = Credit + (faults' - faults) /\ Credit' >= Credit
         /\ restarts' = restarts + 1 => Credit' >= Credit + Size
  <1>1. Size \in Nat /\ Size' = Size BY ThreadsFinite DEF Size
  <1>2. faults \in Nat /\ restarts \in Nat BY DEF RestInv, RestType
  <1>3. (restarts + 1) * Size = restarts * Size + Size BY <1>1, <1>2
  <1>4. restarts * Size \in Nat BY <1>1, <1>2
  <1> QED BY <1>1, <1>2, <1>3, <1>4 DEF Credit

(* Beginning an evolution: one more in work, or one less on the lists.     *)
LEMMA BeginKeepsCost ==
  ASSUME RestInv, RestInv', NEW t \in Threads, NEW q \in Requests, BeginsOne(t, q),
         NEW r \in Requests, Cost(r)
  PROVE  Cost(r)'
  <1>1. RestType /\ AtWork BY DEF RestInv
  <1>2. cur[t] = NoRequest /\ NoRequest \notin Requests
    BY <1>1, RestAssumption DEF AtWork, BeginsOne, Free
  <1>3. Credit' = Credit BY DEF BeginsOne, Credit, Size
  <1>4. store' = store BY DEF BeginsOne
  <1>5. t \in Listing(q) /\ t \notin Working(r) BY <1>2 DEF BeginsOne, Listing, Working
  <1>6. CASE r # q
    <2>1. Listing(r)' = Listing(r) BY <1>1, <1>6 DEF BeginsOne, Listing, RestType
    <2>2. Working(r) \subseteq Working(r)' BY <1>1, <1>2 DEF BeginsOne, Working, RestType
    <2>3. attempts'[r] = attempts[r] /\ late'[r] = late[r] BY <1>1, <1>6 DEF BeginsOne, RestType
    <2> QED BY <1>3, <1>4, <2>1, <2>2, <2>3, CostKept, CostNumbers
  <1>7. CASE r = q
    <2>1. Listing(r)' = Listing(r) \ {t} BY <1>1, <1>7 DEF BeginsOne, Listing, RestType
    <2>2. Working(r)' = Working(r) \cup {t} BY <1>1, <1>2, <1>7 DEF BeginsOne, Working, RestType
    <2>3. Cardinality(Listing(r)') = Cardinality(Listing(r)) - 1 BY <1>5, <1>7, <2>1, OneLess DEF Listing
    <2>4. Cardinality(Working(r)') = Cardinality(Working(r)) + 1 BY <1>5, <2>2, OneMore DEF Working
    <2>5. attempts'[r] = attempts[r] + 1 BY <1>1, <1>7 DEF BeginsOne, RestType
    <2>6. late'[r] = IF store[r].state = "closed" THEN late[r] + 1 ELSE late[r]
      BY <1>1, <1>7 DEF BeginsOne, RestType
    <2>7. Ceiling(r)' = Ceiling(r) BY <1>4 DEF Ceiling
    <2> QED BY <1>3, <1>4, <2>3, <2>4, <2>5, <2>6, <2>7, CostNumbers DEF Cost, Size
  <1> QED BY <1>6, <1>7

(* Letting go of a request: it was counted, or that failed.                *)
LEMMA ReleaseKeepsCost ==
  ASSUME RestInv, RestInv', NEW t \in Threads, NEW r \in Requests, Cost(r),
         cur' = [cur EXCEPT ![t] = NoRequest], OthersRest, UNCHANGED list,
         \A q \in Requests : store'[q].state = store[q].state /\ store'[q].retry >= store[q].retry,
         \/ cur[t] # r /\ Credit' >= Credit
         \/ Credit' = Credit /\ store'[r].retry = store[r].retry + 1 /\ store'[r].retry < MaxRetry
         \/ Credit' = Credit + 1
  PROVE  Cost(r)'
  <1>1. RestType BY DEF RestInv
  <1>2. Listing(r)' = Listing(r) BY DEF Listing
  <1>3. attempts' = attempts /\ late' = late BY DEF OthersRest
  <1>4. Credit' >= Credit BY CostNumbers
  <1>5. CASE store[r].state = "closed" \/ cur[t] # r
    <2>1. cur[t] # r => Working(r) \subseteq Working(r)' BY <1>1 DEF Working, RestType
    <2> QED BY <1>2, <1>3, <1>4, <1>5, <2>1, CostKept
  <1>6. CASE store[r].state # "closed" /\ cur[t] = r
    <2>1. r # NoRequest BY RestAssumption
    <2>2. Working(r)' = Working(r) \ {t} /\ t \in Working(r) BY <1>1, <1>6, <2>1 DEF Working, RestType
    <2>3. Cardinality(Working(r)') = Cardinality(Working(r)) - 1 BY <2>2, OneLess DEF Working
    <2>4. \/ Credit' = Credit /\ Ceiling(r)' = Ceiling(r) + 1
          \/ Credit' = Credit + 1 /\ Ceiling(r)' >= Ceiling(r)
      BY <1>6, CostNumbers, CostNumbersNext DEF Ceiling
    <2> QED BY <1>3, <1>6, <2>3, <2>4, CostNumbers, CostNumbersNext DEF Cost
  <1> QED BY <1>5, <1>6

(* Every step of a cycle keeps the cost of every request.                  *)
LEMMA CycleKeepsCost ==
  ASSUME RestInv, RestInv', CostInv, NEW t \in Threads, CycleStep(t)
  PROVE  CostInv'
  <1> SUFFICES ASSUME NEW r \in Requests PROVE Cost(r)' BY DEF CostInv
  <1>1. Cost(r) BY DEF CostInv
  <1>2. RestType BY DEF RestInv
  <1>3. store[r].retry \in Nat /\ Credit \in Nat BY CostNumbers
  <1>4. CASE Rests
    BY <1>1, <1>3, <1>4, CostKept, CreditGrows DEF Rests, requestVars, Listing, Working
  <1>5. CASE Lists(t)
    <2>1. store[r].state = "closed" => r \notin Unresolved BY DEF Unresolved, Newest, Open
    <2>2. store[r].state = "closed" => Listing(r)' \subseteq Listing(r)
      BY <1>2, <1>5, <2>1 DEF Lists, Listing, RestType
    <2>3. Credit' = Credit BY <1>5 DEF Lists, OthersRest, Credit, Size
    <2> QED BY <1>1, <1>3, <1>5, <2>2, <2>3, CostKept DEF Lists, OthersRest, Working
  <1>6. CASE Waits(t)
    <2>1. Credit' = Credit BY <1>6 DEF Waits, OthersRest, Credit, Size
    <2> QED BY <1>1, <1>2, <1>3, <1>6, <2>1, AwaitsRows, CostKept
            DEF Waits, OthersRest, Working, Listing, RestType
  <1>7. CASE Counted(t)
    <2>1. Credit' = Credit BY <1>7 DEF Counted, OthersRest, Credit, Size
    <2>2. \A q \in Requests : store'[q].state = store[q].state /\ store[q].retry \in Nat
                              /\ store'[q].retry = IF q = cur[t] THEN store[q].retry + 1 ELSE store[q].retry
      BY <1>2, <1>7, BumpedRows, CostNumbers DEF Counted, RestType
    <2>3. CASE UNCHANGED cur
      BY <1>1, <1>3, <1>7, <2>1, <2>2, <2>3, CostKept DEF Counted, OthersRest, Working, Listing
    <2>4. CASE cur' = [cur EXCEPT ![t] = NoRequest] /\ ~(store[cur[t]].retry + 1 >= MaxRetry)
      <3>1. cur[t] = r => store'[r].retry = store[r].retry + 1 /\ store'[r].retry < MaxRetry
        BY <2>2, <2>4, CostNumbers
      <3>2. \A q \in Requests : store'[q].retry >= store[q].retry BY <2>2
      <3>3. OthersRest /\ UNCHANGED list BY <1>7 DEF Counted
      <3>4. cur[t] # r \/ (store'[r].retry = store[r].retry + 1 /\ store'[r].retry < MaxRetry) BY <3>1
      <3>5. cur[t] # r => Cost(r)'
        <4>1. Credit' >= Credit BY <1>3, <2>1
        <4> QED BY <1>1, <2>2, <2>4, <3>2, <3>3, <4>1, ReleaseKeepsCost
      <3>6. store'[r].retry = store[r].retry + 1 /\ store'[r].retry < MaxRetry => Cost(r)'
        BY <1>1, <1>3, <2>1, <2>2, <2>4, <3>2, <3>3, ReleaseKeepsCost
      <3> QED BY <3>4, <3>5, <3>6
    <2> QED BY <1>7, <2>3, <2>4 DEF Counted
  <1>8. CASE Closed(t)
    <2>1. Credit' = Credit BY <1>8 DEF Closed, OthersRest, Credit, Size
    <2>2. \A q \in Requests : /\ store'[q].state = IF q = cur[t] THEN "closed" ELSE store[q].state
                              /\ store'[q].retry = store[q].retry
      BY <1>2, <1>8, ResolvedRows DEF Closed, RestType
    <2>3. Listing(r)' = Listing(r) BY <1>8 DEF Closed, Listing
    <2>4. cur[t] # r => Working(r) \subseteq Working(r)' BY <1>2, <1>8 DEF Closed, Working, RestType
    <2>5. CASE cur[t] = r /\ store[r].state # "closed"
      BY <1>1, <1>3, <1>8, <2>1, <2>2, <2>3, <2>5, CostCloses DEF Closed, OthersRest
    <2>6. CASE cur[t] # r \/ store[r].state = "closed"
      BY <1>1, <1>3, <1>8, <2>1, <2>2, <2>3, <2>4, <2>6, CostKept DEF Closed, OthersRest
    <2> QED BY <2>5, <2>6
  <1>9. CASE LetsGo(t)
    <2>1. faults \in Nat BY <1>2 DEF RestType
    <2>2. Credit' = Credit + 1 BY <1>9, <2>1, CreditGrows DEF LetsGo, OthersRest
    <2>3. \A q \in Requests : store'[q].state = store[q].state /\ store'[q].retry >= store[q].retry
      BY <1>9, CostNumbers DEF LetsGo
    <2>4. cur' = [cur EXCEPT ![t] = NoRequest] /\ OthersRest /\ UNCHANGED list BY <1>9 DEF LetsGo
    <2> HIDE DEF OthersRest, LetsGo
    <2> QED BY <1>1, <2>2, <2>3, <2>4, ReleaseKeepsCost
  <1>10. ASSUME NEW q \in Requests, SkipsOne(t, q) PROVE Cost(r)'
    <2>1. Credit' = Credit BY <1>10 DEF SkipsOne, OthersRest, Credit, Size
    <2>2. Listing(r)' \subseteq Listing(r) BY <1>2, <1>10 DEF SkipsOne, Listing, RestType
    <2> QED BY <1>1, <1>3, <1>10, <2>1, <2>2, CostKept DEF SkipsOne, OthersRest, Working
  <1>11. ASSUME NEW q \in Requests, BeginsOne(t, q) PROVE Cost(r)' BY <1>1, <1>11, BeginKeepsCost
  <1>12. faults \in Nat BY <1>2 DEF RestType
  <1> QED BY <1>4, <1>5, <1>6, <1>7, <1>8, <1>9, <1>10, <1>11, <1>12, CycleKinds

(* What the user does keeps it too: a tap closes a request, or bumps its   *)
(* counter.                                                                *)
LEMMA UserKeepsCost == ASSUME RestInv, RestInv', CostInv, User PROVE CostInv'
  <1> SUFFICES ASSUME NEW r \in Requests PROVE Cost(r)' BY DEF CostInv
  <1>1. PICK q \in Requests : Record(q) \/ TapYes(q) \/ TapNo(q) \/ TapCloses(q) BY DEF User
  <1>2. Cost(r) /\ store \in [Requests -> Rows] BY DEF CostInv, RestInv, RestType
  <1>3. UNCHANGED <<list, cur, attempts, late, faults, restarts>>
    BY <1>1 DEF Record, TapYes, TapNo, TapCloses, discoveryVars, historyVars, cycleVars
  <1>4. Listing(r)' = Listing(r) /\ Working(r)' = Working(r) /\ Credit' = Credit
    BY <1>3 DEF Listing, Working, Credit, Size
  <1>5. store[r].retry \in Nat /\ Credit \in Nat BY CostNumbers
  <1>6. Credit' >= Credit BY <1>4, <1>5
  <1>7. store'[r].retry >= store[r].retry
    BY <1>1, <1>2, <1>5, RecordKind, RecordedRows, ResolvedRows, BumpedRows DEF TapYes, TapNo, TapCloses
  <1>8. store[r].state = "closed" => store'[r].state = "closed"
    BY <1>1, <1>2, RecordKind, RecordedRows, ResolvedRows, BumpedRows DEF Records, TapYes, TapNo, TapCloses
  <1>9. CASE store[r].state # "closed" /\ store'[r].state = "closed"
    BY <1>2, <1>3, <1>4, <1>6, <1>9, CostCloses
  <1>10. CASE (store[r].state = "closed") <=> (store'[r].state = "closed")
    BY <1>2, <1>3, <1>4, <1>6, <1>7, <1>10, CostKept
  <1> QED BY <1>8, <1>9, <1>10

(* A restart takes every thread off its request and is paid for.           *)
LEMMA RestartKeepsCost == ASSUME RestInv, RestInv', CostInv, Restart PROVE CostInv'
  <1> SUFFICES ASSUME NEW r \in Requests PROVE Cost(r)' BY DEF CostInv
  <1>1. Cost(r) BY DEF CostInv
  <1>2. Listing(r)' = {} BY RestartKind DEF Listing
  <1>3. Credit' >= Credit + Size BY RestartKind, CreditGrows
  <1>4. UNCHANGED <<store, attempts, late>> BY RestartKind
  <1>5. Ceiling(r)' = Ceiling(r) BY <1>4 DEF Ceiling
  <1>6. Cardinality(Working(r)) <= Size BY SomeThreads DEF Working
  <1>7. Cardinality(Listing(r)') = 0 BY <1>2, FS_EmptySet
  <1> QED BY <1>1, <1>3, <1>4, <1>5, <1>6, <1>7, CostNumbers, CostNumbersNext DEF Cost, Size

(* The cost of every request is as CostInv says, throughout.               *)
LEMMA CostStep == ASSUME RestInv, CostInv, [Next]_vars PROVE CostInv'
  <1>1. RestInv' BY RestStep
  <1>2. CASE Moves \/ UNCHANGED vars
    <2>1. Rests
      BY <1>2, MovesRest DEF Rests, requestVars, vars, storeVars, cycleVars, historyVars, discoveryVars
    <2>2. Credit' >= Credit BY <2>1, CreditGrows DEF Rests, requestVars
    <2> SUFFICES ASSUME NEW r \in Requests PROVE Cost(r)' BY DEF CostInv
    <2>3. Cost(r) /\ store[r].retry \in Nat BY CostNumbers DEF CostInv
    <2> QED BY <1>1, <2>1, <2>2, <2>3, CostKept DEF Rests, requestVars, Listing, Working
  <1>3. CASE \E t \in Threads : CycleStep(t) BY <1>1, <1>3, CycleKeepsCost
  <1>4. CASE User BY <1>1, <1>4, UserKeepsCost
  <1>5. CASE Restart BY <1>1, <1>5, RestartKeepsCost
  <1> QED BY <1>2, <1>3, <1>4, <1>5 DEF Next, Moves, Starts

(* Initially nothing has cost anything.                                    *)
LEMMA CostInit == Init => CostInv
  <1> SUFFICES ASSUME Init, NEW r \in Requests PROVE Cost(r) BY DEF CostInv
  <1>1. RestInv BY RestInit
  <1>2. store[r].state = "none" /\ late[r] = 0 /\ attempts[r] = 0 BY DEF Init
  <1> QED BY <1>1, <1>2, CostNumbers DEF Cost

(* LateBounded: a closed request is evolved again only by the cycles that  *)
(* listed it before, each at most once.                                    *)
THEOREM LateCorrect == Spec => []LateBounded
  <1>1. RestInv /\ CostInv => LateBounded
    <2> SUFFICES ASSUME RestInv, CostInv, NEW r \in Requests PROVE late[r] <= Cardinality(Threads)
      BY DEF LateBounded
    <2> QED BY CostNumbers DEF CostInv, Cost, Size
  <1> QED BY <1>1, RestInit, CostInit, RestStep, CostStep, PTL DEF Spec

(* AttemptsBounded: what a failed request may cost, whatever cycles run at *)
(* the same time, taps come, updates fail and processes die.               *)
THEOREM AttemptsCorrect == Spec => []AttemptsBounded
  <1>1. RestInv /\ CostInv => AttemptsBounded
    <2> SUFFICES ASSUME RestInv, CostInv, NEW r \in Requests
                 PROVE  attempts[r] <= MaxRetry - 1 + Size * (1 + restarts) + faults
      BY DEF AttemptsBounded, Size
    <2>1. attempts[r] <= MaxRetry - 1 + Size + Credit
      BY CostNumbers DEF CostInv, Cost
    <2>2. faults \in Nat /\ restarts \in Nat BY DEF RestInv, RestType
    <2>3. Size * (1 + restarts) = Size + restarts * Size BY <2>2, ThreadsFinite
    <2>4. restarts * Size \in Nat BY <2>2, ThreadsFinite
    <2> QED BY <2>1, <2>2, <2>3, <2>4, CostNumbers DEF Credit
  <1> QED BY <1>1, RestInit, CostInit, RestStep, CostStep, PTL DEF Spec

-----------------------------------------------------------------------------
(* A request the user confirmed while no cycle held it is closed with that *)
(* reward, and nobody can take it up again: the listing has open requests  *)
(* only, and a "still broken" tap would count.                             *)
Confirmed(r) == store[r].state = "closed" /\ store[r].reward = "yes"
Unheld(r) == \A t \in Threads : r \notin list[t] /\ cur[t] # r
ConfirmInv ==
    /\ yes \subseteq Requests
    /\ \A r \in closing : noTaps[r] > 0
    /\ \A r \in yes \ racing : noTaps[r] = 0 => Confirmed(r) /\ Unheld(r)

(* Where the user does nothing, it suffices that such requests stay        *)
(* closed, confirmed and unheld.                                           *)
LEMMA ConfirmKept ==
  ASSUME ConfirmInv, UNCHANGED <<yes, racing, noTaps>>, closing' \subseteq closing,
         \A r \in Requests : Confirmed(r) /\ Unheld(r) => Confirmed(r)' /\ Unheld(r)'
  PROVE  ConfirmInv'
  BY DEF ConfirmInv

(* No step of a cycle takes up a closed request that no cycle held.        *)
LEMMA CycleKeepsConfirm ==
  ASSUME RestInv, ConfirmInv, NEW t \in Threads, CycleStep(t)
  PROVE  ConfirmInv'
  <1>1. RestType /\ faults \in Nat BY DEF RestInv, RestType
  <1>2. NoRequest \notin Requests BY RestAssumption
  <1>3. UNCHANGED <<yes, racing, noTaps, closing>>
    BY <1>1, CycleKinds DEF Rests, Lists, Waits, Counted, Closed, LetsGo, SkipsOne, BeginsOne, OthersRest, requestVars
  <1> SUFFICES ASSUME NEW r \in Requests, Confirmed(r), Unheld(r) PROVE Confirmed(r)' /\ Unheld(r)'
    BY <1>3, ConfirmKept
  <1> USE DEF Confirmed, Unheld
  <1>4. CASE Rests BY <1>4 DEF Rests, requestVars
  <1>5. CASE Lists(t)
    <2>1. r \notin Unresolved BY DEF Unresolved, Newest, Open
    <2> QED BY <1>1, <1>5, <2>1 DEF Lists, RestType
  <1>6. CASE Waits(t) BY <1>1, <1>6, AwaitsRows DEF Waits, RestType
  <1>7. CASE Counted(t) BY <1>1, <1>2, <1>7, BumpedRows DEF Counted, RestType
  <1>8. CASE Closed(t) BY <1>1, <1>2, <1>8, ResolvedRows DEF Closed, RestType
  <1>9. CASE LetsGo(t) BY <1>1, <1>2, <1>9 DEF LetsGo, RestType
  <1>10. ASSUME NEW q \in Requests, SkipsOne(t, q) PROVE Confirmed(r)' /\ Unheld(r)'
    BY <1>1, <1>10 DEF SkipsOne, RestType
  <1>11. ASSUME NEW q \in Requests, BeginsOne(t, q) PROVE Confirmed(r)' /\ Unheld(r)'
    BY <1>1, <1>11 DEF BeginsOne, RestType
  <1> QED BY <1>1, <1>4, <1>5, <1>6, <1>7, <1>8, <1>9, <1>10, <1>11, CycleKinds

(* Taps: a yes closes with its reward, and races whoever holds the         *)
(* request; a no counts itself.                                            *)
LEMMA UserKeepsConfirm == ASSUME RestInv, ConfirmInv, User PROVE ConfirmInv'
  <1>1. PICK q \in Requests : Record(q) \/ TapYes(q) \/ TapNo(q) \/ TapCloses(q) BY DEF User
  <1>2. store \in [Requests -> Rows] /\ noTaps \in [Requests -> Nat] /\ closing \subseteq Requests
    BY DEF RestInv, RestType
  <1>3. UNCHANGED <<list, cur>> BY <1>1 DEF Record, TapYes, TapNo, TapCloses, cycleVars
  <1>4. \A r \in Requests : Unheld(r)' = Unheld(r) BY <1>3 DEF Unheld
  <1>5. CASE Record(q)
    <2>1. Records(q) BY <1>5, RecordKind
    <2> QED BY <1>2, <1>4, <2>1, RecordedRows DEF ConfirmInv, Confirmed, Records, OthersRest
  <1>6. CASE TapYes(q)
    <2>1. /\ store' = Resolved(q, "yes") /\ yes' = yes \cup {q} /\ UNCHANGED <<closing, noTaps>>
          /\ racing' = IF q \in yes \/ Holders(q) = {} THEN racing ELSE racing \cup {q}
      BY <1>6 DEF TapYes
    <2>2. Holders(q) = {} => Unheld(q) BY DEF Holders, Holds, Unheld
    <2> QED BY <1>2, <1>4, <2>1, <2>2, ResolvedRows DEF ConfirmInv, Confirmed
  <1>7. CASE TapNo(q)
    <2>1. /\ store' = Bumped(q) /\ noTaps' = [noTaps EXCEPT ![q] = @ + 1] /\ UNCHANGED <<yes, racing>>
          /\ closing' \subseteq closing \cup {q}
      BY <1>7 DEF TapNo
    <2>2. noTaps'[q] > 0 /\ \A r \in Requests : r # q => noTaps'[r] = noTaps[r] BY <1>2, <2>1
    <2> QED BY <1>2, <1>4, <2>1, <2>2, BumpedRows DEF ConfirmInv, Confirmed
  <1>8. CASE TapCloses(q)
    <2>1. /\ q \in closing /\ closing' = closing \ {q} /\ store' = Resolved(q, "no")
          /\ UNCHANGED <<yes, racing, noTaps>>
      BY <1>8 DEF TapCloses, historyVars
    <2>2. noTaps[q] > 0 BY <2>1 DEF ConfirmInv
    <2> QED BY <1>2, <1>4, <2>1, <2>2, ResolvedRows DEF ConfirmInv, Confirmed
  <1> QED BY <1>1, <1>5, <1>6, <1>7, <1>8

(* ConfirmInv holds throughout.                                            *)
LEMMA ConfirmStep == ASSUME RestInv, ConfirmInv, [Next]_vars PROVE ConfirmInv'
  <1>1. CASE Moves \/ UNCHANGED vars
    <2>1. Rests
      BY <1>1, MovesRest DEF Rests, requestVars, vars, storeVars, cycleVars, historyVars, discoveryVars,
                             RestInv, RestType
    <2> QED BY <2>1, ConfirmKept DEF Rests, requestVars, Confirmed, Unheld
  <1>2. CASE \E t \in Threads : CycleStep(t) BY <1>2, CycleKeepsConfirm
  <1>3. CASE User BY <1>3, UserKeepsConfirm
  <1>4. CASE Restart
    <2>1. \A r \in Requests : Unheld(r)' BY <1>4, RestartKind, RestAssumption DEF Unheld
    <2>2. UNCHANGED <<store, yes, racing, noTaps>> /\ closing' = {} BY <1>4, RestartKind
    <2> QED BY <2>1, <2>2, ConfirmKept DEF Confirmed
  <1> QED BY <1>1, <1>2, <1>3, <1>4 DEF Next, Moves, Starts

(* ConfirmedLostOnlyInRace: a confirmation is overwritten only by a cycle  *)
(* that held the request when the user tapped.                             *)
THEOREM ConfirmedCorrect == Spec => []ConfirmedLostOnlyInRace
  <1>1. Init => ConfirmInv BY DEF Init, ConfirmInv
  <1>2. ConfirmInv => ConfirmedLostOnlyInRace BY DEF ConfirmInv, Confirmed, ConfirmedLostOnlyInRace
  <1> QED BY <1>1, <1>2, RestInit, RestStep, ConfirmStep, PTL DEF Spec

-----------------------------------------------------------------------------
(* The proactive messages of a day.  Before the counter is reset only the  *)
(* threads that checked yesterday send; afterwards a message is counted,   *)
(* or about to be, and counter and threads under way stay within what one  *)
(* run of the process may send.                                            *)
Checked == {t \in Threads : at[t] = "send"}
Uncounted == {t \in Threads : at[t] = "sent"}
Allowed == MaxPerDay + Size - 1
Lost == Allowed * restarts

AdInv ==
    /\ today \in Nat /\ sent \in Nat /\ restarts \in Nat /\ dayTurned \in BOOLEAN
    /\ dayTurned => today + Cardinality(Checked) <= Size + Lost
    /\ ~dayTurned => /\ today <= Size + Lost + sent + Cardinality(Uncounted)
                     /\ sent + Cardinality(Uncounted) + Cardinality(Checked) <= Allowed

(* The terms of AdInv are numbers.                                         *)
LEMMA AdNumbers ==
  ASSUME restarts \in Nat
  PROVE  /\ Size \in Nat /\ Size >= 1 /\ MaxPerDay \in Nat /\ Allowed \in Nat /\ Lost \in Nat
         /\ Cardinality(Checked) \in Nat /\ Cardinality(Uncounted) \in Nat
         /\ Cardinality(Checked) + Cardinality(Uncounted) <= Size
  <1>1. Size \in Nat /\ Size >= 1 BY ThreadsFinite
  <1>2. MaxPerDay \in Nat BY RestAssumption
  <1>3. Allowed \in Nat BY <1>1, <1>2 DEF Allowed
  <1>4. Lost \in Nat BY <1>3 DEF Lost
  <1>5. Checked \in SUBSET Threads /\ Uncounted \in SUBSET Threads /\ Checked \cap Uncounted = {}
    BY DEF Checked, Uncounted
  <1> QED BY <1>1, <1>2, <1>3, <1>4, <1>5, SomeThreads, TwoKinds

(* Steps that neither send nor count keep it.                              *)
LEMMA AdKept ==
  ASSUME AdInv, UNCHANGED <<today, sent, restarts, dayTurned>>,
         \A t \in Threads : at'[t] \in {"send", "sent"} \/ at[t] \in {"send", "sent"} => at'[t] = at[t]
  PROVE  AdInv'
  <1>1. Checked' = Checked /\ Uncounted' = Uncounted BY DEF Checked, Uncounted
  <1>2. Lost' = Lost /\ Allowed' = Allowed /\ Size' = Size BY DEF Lost, Allowed, Size
  <1> QED BY <1>1, <1>2 DEF AdInv

(* A thread that passes the check, or explores without sending.            *)
LEMMA CheckKeepsAd ==
  ASSUME RestInv, AdInv, NEW t \in Threads, at[t] = "explore",
         MaySend, UNCHANGED <<today, restarts>>,
         \/ at' = [at EXCEPT ![t] = "rest"]
         \/ at' = [at EXCEPT ![t] = "send"] /\ sent' < MaxPerDay
  PROVE  AdInv'
  <1>1. at \in [Threads -> Places] BY DEF RestInv, RestType
  <1>2. Uncounted' = Uncounted BY <1>1 DEF Uncounted
  <1>3. t \notin Checked /\ t \notin Uncounted BY DEF Checked, Uncounted
  <1>4. Lost' = Lost /\ Allowed' = Allowed /\ Size' = Size BY DEF Lost, Allowed, Size
  <1>5. Cardinality(Checked) + Cardinality(Uncounted) + 1 <= Size
    <2>1. Checked \cup {t} \in SUBSET Threads /\ Uncounted \in SUBSET Threads
          /\ (Checked \cup {t}) \cap Uncounted = {} /\ Checked \in SUBSET Threads
      BY <1>3 DEF Checked, Uncounted
    <2>2. Cardinality(Checked \cup {t}) = Cardinality(Checked) + 1 BY <1>3, <2>1, OneMore
    <2>3. Cardinality(Checked \cup {t}) + Cardinality(Uncounted) <= Size BY <2>1, TwoKinds
    <2> QED BY <2>1, <2>2, <2>3, SomeThreads
  <1>6. dayTurned' = FALSE /\ sent' = (IF dayTurned THEN 0 ELSE sent) /\ sent' \in Nat
    BY DEF MaySend, AdInv
  <1>7. today \in Nat /\ restarts \in Nat BY DEF AdInv
  <1>8. today <= Size + Lost + sent' + Cardinality(Uncounted)
    <2>1. CASE dayTurned BY <1>6, <1>7, <2>1, AdNumbers DEF AdInv
    <2>2. CASE ~dayTurned BY <1>6, <1>7, <2>2 DEF AdInv
    <2> QED BY <2>1, <2>2
  <1>9. sent' + Cardinality(Uncounted) + Cardinality(Checked) <= Allowed
    <2>1. CASE dayTurned
      <3>1. sent' = 0 BY <1>6, <2>1
      <3>2. Size - 1 <= Allowed BY <1>7, AdNumbers DEF Allowed
      <3> QED BY <1>5, <1>7, <3>1, <3>2, AdNumbers
    <2>2. CASE ~dayTurned BY <1>6, <1>7, <2>2 DEF AdInv
    <2> QED BY <2>1, <2>2
  <1>10. sent' + Cardinality(Uncounted) + Cardinality(Checked') <= Allowed
    <2>1. CASE at' = [at EXCEPT ![t] = "rest"]
      <3>1. Checked' = Checked BY <1>1, <1>3, <2>1 DEF Checked
      <3> QED BY <1>9, <3>1
    <2>2. CASE at' = [at EXCEPT ![t] = "send"] /\ sent' < MaxPerDay
      <3>1. Checked' = Checked \cup {t} BY <1>1, <2>2 DEF Checked
      <3>2. Cardinality(Checked') = Cardinality(Checked) + 1 BY <1>3, <3>1, OneMore DEF Checked
      <3>3. sent' <= MaxPerDay - 1 BY <1>6, <1>7, <2>2, AdNumbers
      <3> QED BY <1>5, <1>6, <1>7, <3>2, <3>3, AdNumbers DEF Allowed
    <2> QED BY <2>1, <2>2
  <1>11. today' = today /\ restarts' = restarts /\ dayTurned' = FALSE BY <1>6
  <1> QED BY <1>2, <1>4, <1>6, <1>7, <1>8, <1>10, <1>11 DEF AdInv

(* A thread that sends, counts, or fails to send.                          *)
LEMMA SendKeepsAd ==
  ASSUME RestInv, AdInv, NEW t \in Threads, Sends(t) \/ Sent(t) \/ SendFails(t)
  PROVE  AdInv'
  <1>1. at \in [Threads -> Places] BY DEF RestInv, RestType
  <1>2. today \in Nat /\ sent \in Nat /\ restarts \in Nat BY DEF AdInv
  <1>3. UNCHANGED <<restarts, dayTurned>> BY DEF Sends, Sent, SendFails, adVars, historyVars
  <1>4. Lost' = Lost /\ Allowed' = Allowed /\ Size' = Size BY <1>3 DEF Lost, Allowed, Size
  <1>5. Checked \in SUBSET Threads /\ Uncounted \in SUBSET Threads BY DEF Checked, Uncounted
  <1>6. CASE Sends(t)
    <2>1. at[t] = "send" /\ at' = [at EXCEPT ![t] = "sent"] /\ today' = today + 1 /\ sent' = sent
      BY <1>6 DEF Sends, Goto, adVars
    <2>2. Checked' = Checked \ {t} /\ Uncounted' = Uncounted \cup {t} /\ t \in Checked /\ t \notin Uncounted
      BY <1>1, <2>1 DEF Checked, Uncounted
    <2>3. Cardinality(Checked') = Cardinality(Checked) - 1 BY <1>5, <2>2, OneLess
    <2>4. Cardinality(Uncounted') = Cardinality(Uncounted) + 1 BY <1>5, <2>2, OneMore
    <2> QED BY <1>2, <1>3, <1>4, <2>1, <2>3, <2>4, AdNumbers DEF AdInv
  <1>7. CASE Sent(t)
    <2>1. at[t] = "sent" /\ at' = [at EXCEPT ![t] = "rest"] /\ today' = today /\ sent' = sent + 1
      BY <1>7 DEF Sent, Goto, historyVars
    <2>2. Checked' = Checked /\ Uncounted' = Uncounted \ {t} /\ t \in Uncounted
      BY <1>1, <2>1 DEF Checked, Uncounted
    <2>3. Cardinality(Uncounted') = Cardinality(Uncounted) - 1 BY <1>5, <2>2, OneLess
    <2> QED BY <1>2, <1>3, <1>4, <2>1, <2>2, <2>3, AdNumbers DEF AdInv
  <1>8. CASE SendFails(t)
    <2>1. at[t] = "send" /\ at' = [at EXCEPT ![t] = "rest"] /\ today' = today /\ sent' = sent
      BY <1>8 DEF SendFails, Goto, historyVars, adVars
    <2>2. Checked' = Checked \ {t} /\ t \in Checked /\ Uncounted' = Uncounted
      BY <1>1, <2>1 DEF Checked, Uncounted
    <2>3. Cardinality(Checked') = Cardinality(Checked) - 1 BY <1>5, <2>2, OneLess
    <2> QED BY <1>2, <1>3, <1>4, <2>1, <2>2, <2>3, AdNumbers DEF AdInv
  <1> QED BY <1>6, <1>7, <1>8

(* Every step of a cycle keeps the daily count.                            *)
LEMMA CycleKeepsAd ==
  ASSUME RestInv, AdInv, NEW t \in Threads, CycleStep(t)
  PROVE  AdInv'
  <1>1. at \in [Threads -> Places] BY DEF RestInv, RestType
  <1> USE <1>1 DEF Goto, adVars, historyVars
  <1>2. CASE ListRequests(t) BY <1>2, AdKept DEF ListRequests
  <1>3. CASE Evolve(t) BY <1>3, AdKept DEF Evolve
  <1>4. CASE AssessFails(t) BY <1>4, AdKept DEF AssessFails
  <1>5. CASE AssessMarks(t) BY <1>5, AdKept DEF AssessMarks
  <1>6. CASE AssessAsks(t) BY <1>6, AdKept DEF AssessAsks
  <1>7. CASE AssessDisabled(t) BY <1>7, AdKept DEF AssessDisabled
  <1>8. CASE Count(t) BY <1>8, AdKept DEF Count
  <1>9. CASE Abandon(t) BY <1>9, AdKept DEF Abandon
  <1>10. CASE Reflect(t) BY <1>10, AdKept DEF Reflect
  <1>11. CASE Sends(t) \/ Sent(t) \/ SendFails(t) BY <1>11, SendKeepsAd
  <1>12. CASE Explore(t)
    <2>1. at[t] = "explore" /\ UNCHANGED <<today, restarts>> BY <1>12 DEF Explore
    <2>2. CASE ExploresNothing(t) \/ ParksProbe(t)
      <3>1. at' = [at EXCEPT ![t] = "rest"] /\ UNCHANGED <<sent, dayTurned>>
        BY <2>2 DEF ExploresNothing, ParksProbe
      <3> QED BY <2>1, <3>1, AdKept
    <2>3. CASE Curious(t)
      <3>1. MaySend BY <2>3 DEF Curious
      <3>2. \/ at' = [at EXCEPT ![t] = "rest"]
            \/ at' = [at EXCEPT ![t] = "send"] /\ sent' < MaxPerDay
        BY <2>3 DEF Curious
      <3> QED BY <2>1, <3>1, <3>2, CheckKeepsAd
    <2> QED BY <1>12, <2>2, <2>3 DEF Explore
  <1>13. CASE \E r \in Requests : Consider(t, r)
    <2>1. PICK r \in Requests : Consider(t, r) BY <1>13
    <2>2. at[t] = "next" /\ UNCHANGED <<sent, dayTurned>> BY <2>1 DEF Consider
    <2>3. CASE Skips(t, r) BY <2>2, <2>3, AdKept DEF Skips
    <2>4. CASE Begins(t, r) BY <2>2, <2>4, AdKept DEF Begins
    <2> QED BY <2>1, <2>3, <2>4 DEF Consider
  <1> QED BY <1>2, <1>3, <1>4, <1>5, <1>6, <1>7, <1>8, <1>9, <1>10, <1>11, <1>12, <1>13 DEF CycleStep

(* AdInv holds throughout.                                                 *)
LEMMA AdStep == ASSUME RestInv, AdInv, [Next]_vars PROVE AdInv'
  <1>1. at \in [Threads -> Places] BY DEF RestInv, RestType
  <1>2. CASE \E t \in Threads : CycleStep(t) BY <1>2, CycleKeepsAd
  <1>3. CASE NewDay
    <2>1. today' = 0 /\ dayTurned' = TRUE /\ UNCHANGED <<at, sent, restarts>>
      BY <1>3 DEF NewDay, cycleVars
    <2>2. Checked' = Checked /\ Lost' = Lost /\ Size' = Size BY <2>1 DEF Checked, Lost, Allowed, Size
    <2>3. restarts \in Nat /\ sent \in Nat BY DEF AdInv
    <2> QED BY <2>1, <2>2, <2>3, AdNumbers DEF AdInv
  <1>4. CASE Restart
    <2>1. Checked' = {} /\ Uncounted' = {} BY <1>4, RestartKind DEF Checked, Uncounted
    <2>2. Cardinality(Checked)' = 0 /\ Cardinality(Uncounted)' = 0 BY <2>1, FS_EmptySet
    <2>3. today' = today /\ restarts' = restarts + 1 /\ sent' = 0 /\ dayTurned' = FALSE
      BY <1>4, RestartKind
    <2>4. today \in Nat /\ sent \in Nat /\ restarts \in Nat BY DEF AdInv
    <2>5. Lost' = Lost + Allowed /\ Allowed' = Allowed /\ Size' = Size
      BY <2>3, <2>4, AdNumbers DEF Lost, Allowed, Size
    <2>6. today <= Size + Lost + Allowed BY <2>4, AdNumbers DEF AdInv
    <2>7. today' \in Nat /\ sent' \in Nat /\ restarts' \in Nat BY <2>3, <2>4
    <2>8. dayTurned' \in BOOLEAN /\ ~dayTurned' BY <2>3
    <2>9. Size \in Nat /\ Allowed \in Nat /\ Lost \in Nat BY <2>4, AdNumbers
    <2>10. today' <= Size' + Lost' + sent' + Cardinality(Uncounted)'
      BY <2>2, <2>3, <2>4, <2>5, <2>6, <2>9
    <2>11. sent' + Cardinality(Uncounted)' + Cardinality(Checked)' <= Allowed'
      BY <2>2, <2>3, <2>5, <2>9
    <2> QED BY <2>7, <2>10, <2>11, <2>8 DEF AdInv
  <1>5. CASE Starts
    <2>1. UNCHANGED <<sent, dayTurned, today, restarts>>
      BY <1>5 DEF Starts, IdleStarts, IdlePolls, Trigger, StartsCycle, adVars, historyVars
    <2>2. \A t \in Threads : at'[t] = at[t] \/ (at[t] = "rest" /\ at'[t] = "list")
      BY <1>1, <1>5 DEF Starts, IdleStarts, IdlePolls, Trigger, StartsCycle, Goto, cycleVars
    <2> QED BY <2>1, <2>2, AdKept
  <1>6. CASE User \/ GrowStale \/ Tick \/ Cools \/ (\E a \in {"quiet", "pinged", "active"} : Attend(a)) \/ UNCHANGED vars
    <2>1. UNCHANGED <<sent, dayTurned, today, restarts, at>>
      BY <1>6 DEF User, Record, TapYes, TapNo, TapCloses, GrowStale, Tick, Cools, Attend, vars,
                  adVars, historyVars, cycleVars
    <2> QED BY <2>1, AdKept
  <1>7. CASE Discovery \/ Operator
    <2>1. UNCHANGED <<sent, dayTurned, today, restarts, at>>
      BY <1>7 DEF Discovery, Operator, adVars, historyVars, cycleVars
    <2> QED BY <2>1, AdKept
  <1> QED BY <1>2, <1>3, <1>4, <1>5, <1>6, <1>7 DEF Next, Starts, Surroundings

(* ProactiveBounded: the messages of a day, for any number of threads,     *)
(* restarts and days.                                                      *)
THEOREM ProactiveCorrect == Spec => []ProactiveBounded
  <1>1. Init => AdInv
    <2> SUFFICES ASSUME Init PROVE AdInv OBVIOUS
    <2>1. today = 0 /\ sent = 0 /\ restarts = 0 /\ dayTurned = FALSE BY DEF Init
    <2>2. Checked = {} /\ Uncounted = {} BY DEF Init, Checked, Uncounted
    <2>3. Cardinality(Checked) = 0 /\ Cardinality(Uncounted) = 0 BY <2>2, FS_EmptySet
    <2>4. restarts \in Nat BY <2>1
    <2>5. Size \in Nat /\ Allowed \in Nat /\ Lost \in Nat BY <2>4, AdNumbers
    <2>6. today <= Size + Lost + sent + Cardinality(Uncounted) BY <2>1, <2>3, <2>5
    <2>7. sent + Cardinality(Uncounted) + Cardinality(Checked) <= Allowed BY <2>1, <2>3, <2>5
    <2> QED BY <2>1, <2>4, <2>6, <2>7 DEF AdInv
  <1>2. AdInv => ProactiveBounded
    <2> SUFFICES ASSUME AdInv PROVE today <= Allowed * (1 + restarts) + Size
      BY DEF ProactiveBounded, Allowed, Size
    <2>1. restarts \in Nat /\ today \in Nat /\ sent \in Nat BY DEF AdInv
    <2>2. Allowed * (1 + restarts) = Allowed + Lost BY <2>1, AdNumbers DEF Lost
    <2>3. today <= Size + Lost + Allowed BY <2>1, AdNumbers DEF AdInv
    <2> QED BY <2>1, <2>2, <2>3, AdNumbers
  <1> QED BY <1>1, <1>2, RestInit, RestStep, AdStep, PTL DEF Spec
-----------------------------------------------------------------------------
(* Goal discovery decides by what it read before its loop, and that is     *)
(* enough: what the log shows since then, and did not before, is what the  *)
(* loop tried, and that has left todo; rows only go out of view.           *)
Looping == phase \in {"seeding", "cycle"}
LoopInv ==
    /\ DOMAIN logged = Patterns
    /\ trying # NoPattern => (Looping \/ phase = "single") /\ (Looping => trying \notin todo)
    /\ Looping => todo \cap Visible \subseteq known

loopVars == <<logged, installed, unseen, phase, todo, known, trying>>
Retries == \E p \in Patterns : trying # p /\ trying' = p /\ p \in Visible \cup installed

(* Only the thread of goal discovery and a restart touch them.             *)
LEMMA CycleKeepsLoop == ASSUME NEW t \in Threads, CycleStep(t) PROVE UNCHANGED loopVars
  <1> USE DEF loopVars, discoveryVars, threadVars, outcomeVars
  <1>1. CASE ListRequests(t) BY <1>1 DEF ListRequests
  <1>2. CASE Evolve(t) BY <1>2 DEF Evolve
  <1>3. CASE AssessFails(t) BY <1>3 DEF AssessFails
  <1>4. CASE AssessMarks(t) \/ AssessAsks(t) BY <1>4 DEF AssessMarks, AssessAsks
  <1>5. CASE AssessDisabled(t) BY <1>5 DEF AssessDisabled
  <1>6. CASE Count(t) BY <1>6 DEF Count
  <1>7. CASE Abandon(t) BY <1>7 DEF Abandon
  <1>8. CASE Reflect(t) BY <1>8 DEF Reflect
  <1>9. CASE Explore(t) BY <1>9 DEF Explore, ExploresNothing, ParksProbe, Curious
  <1>10. CASE Sends(t) \/ Sent(t) \/ SendFails(t) BY <1>10 DEF Sends, Sent, SendFails
  <1>11. CASE \E r \in Requests : Consider(t, r) BY <1>11 DEF Consider
  <1> QED BY <1>1, <1>2, <1>3, <1>4, <1>5, <1>6, <1>7, <1>8, <1>9, <1>10, <1>11 DEF CycleStep

LEMMA OthersKeepLoop ==
  ASSUME Starts \/ User \/ Surroundings \/ Operator \/ UNCHANGED vars
  PROVE  UNCHANGED loopVars
  BY DEF Starts, IdleStarts, IdlePolls, Trigger, StartsCycle, User, Record, TapYes, TapNo, TapCloses,
         Surroundings, GrowStale, Tick, Cools, NewDay, Attend, Operator, RunningChange, vars,
         loopVars, discoveryVars, threadVars, outcomeVars

(* Every step keeps the invariant and tries no pattern again.              *)
LEMMA LoopStep == ASSUME LoopInv, [Next]_vars PROVE LoopInv' /\ ~Retries
  <1>1. NoPattern \notin Patterns BY DiscoveryAssumption
  <1>2. ASSUME UNCHANGED loopVars PROVE LoopInv' /\ ~Retries
    BY <1>2 DEF LoopInv, Looping, Known, Visible, Retries, loopVars
  <1>3. CASE DiscoveryThread
    <2> USE DEF LoopInv, Looping, outcomeVars
    <2>1. CASE Seed \/ Cycle \/ LoopEnds
      <3>1. trying' = trying /\ trying = NoPattern /\ logged' = logged /\ unseen' = unseen
        BY <2>1 DEF Seed, Cycle, LoopEnds
      <3>2. known' = Visible \/ ~Looping' BY <2>1 DEF Seed, Cycle, LoopEnds
      <3>3. Visible' = Visible BY <3>1 DEF Known, Visible
      <3> QED BY <3>1, <3>2, <3>3 DEF Retries
    <2>2. ASSUME NEW p \in Patterns, Pick(p) PROVE LoopInv' /\ ~Retries
      BY <1>1, <2>2 DEF Pick, Retries, Known, Visible
    <2>3. CASE Drain
      <3>1. LoopInv' BY <2>3 DEF Drain, Known, Visible
      <3>2. ~Retries BY <1>1, <2>3 DEF Drain, Retries
      <3> QED BY <3>1, <3>2
    <2>4. CASE EvolveReturns \/ EvolveRaises
      <3>1. trying # NoPattern /\ trying' = NoPattern /\ DOMAIN logged' = DOMAIN logged
            /\ (\A p \in Patterns \ {trying} : logged'[p] = logged[p]) /\ unseen \subseteq unseen' \cup {trying}
        BY <2>4 DEF EvolveReturns, EvolveRaises, LogsRow
      <3>2. \/ todo' = todo /\ known' = known /\ (phase' = phase \/ phase' = "sleep")
            \/ phase' \in {"dead", "sleep"}
        BY <2>4 DEF EvolveReturns, EvolveRaises
      <3>3. Visible' \subseteq Visible \cup {trying} BY <3>1 DEF Known, Visible
      <3>4. ~Retries BY <1>1, <3>1 DEF Retries
      <3>5. LoopInv' BY <3>1, <3>2, <3>3
      <3> QED BY <3>4, <3>5
    <2> QED BY <1>3, <2>1, <2>2, <2>3, <2>4 DEF DiscoveryThread
  <1>4. CASE Restart
    BY <1>1, <1>4 DEF Restart, DiscoveryRestart, LoopInv, Looping, Retries
  <1>5. CASE CoolsDown \/ ReplicasChange
    BY <1>2, <1>5 DEF CoolsDown, ReplicasChange, loopVars, threadVars, outcomeVars
  <1>6. CASE LogGrows
    <2>1. UNCHANGED <<logged, installed, phase, todo, known, trying>> /\ unseen \subseteq unseen'
      BY <1>6 DEF LogGrows, threadVars
    <2>2. Visible' \subseteq Visible BY <2>1 DEF Known, Visible
    <2> QED BY <2>1, <2>2 DEF LoopInv, Looping, Retries
  <1>7. CASE \E t \in Threads : CycleStep(t) BY <1>2, <1>7, CycleKeepsLoop
  <1>8. CASE Starts \/ User \/ Surroundings \/ Operator \/ UNCHANGED vars BY <1>2, <1>8, OthersKeepLoop
  <1> QED BY <1>3, <1>4, <1>5, <1>6, <1>7, <1>8 DEF Next, Starts, Discovery

(* NoRework: boot, cycles and the deferred list never evolve a pattern of  *)
(* which the log shows a row, whatever they read before, and whichever     *)
(* rows go out of view meanwhile.                                          *)
THEOREM NoReworkHolds == Spec => NoRework
  <1>1. Init => LoopInv
    BY DEF Init, DiscoveryInit, LoopInv, Looping
  <1>2. LoopInv /\ [Next]_vars
        => [\A p \in Patterns : trying # p /\ trying' = p => p \notin Visible \cup installed]_discoveryVars
    BY LoopStep DEF Retries
  <1>3. LoopInv /\ [Next]_vars => LoopInv' BY LoopStep
  <1> QED BY <1>1, <1>2, <1>3, PTL DEF Spec, NoRework
-----------------------------------------------------------------------------
(* Types.  RestType has those of the requests and of the threads; here are *)
(* those of goal discovery and of the engine's other variables.  What a    *)
(* thread works on is a request: the confirmation it asks for is shown     *)
(* under that name.                                                        *)
Flags ==
    /\ recent \in BOOLEAN /\ replicas \in BOOLEAN /\ running \in BOOLEAN
    /\ handled \in [Threads -> BOOLEAN] /\ dayTurned \in BOOLEAN /\ warm \in BOOLEAN
Minds ==
    /\ weight \in [Patterns -> Nat] /\ saved \in [Patterns -> Nat]
    /\ logged \in [Patterns -> {"none", "gap", "found", "resolved"}]
    /\ installed \subseteq Patterns /\ unseen \subseteq Patterns
    /\ deferred \in Seq(Patterns)
    /\ phase \in {"boot", "seeding", "sleep", "cycle", "drain", "single", "dead"}
    /\ todo \subseteq Patterns /\ known \subseteq Patterns
    /\ trying \in Patterns \cup {NoPattern}
    /\ faults \in 0..FaultBound
Clocks ==
    /\ load \in Loads
    /\ stale \in Requests \cup {0} /\ attention \in {"quiet", "pinged", "active"} /\ since \in 0..2
    /\ iter \in [Threads -> 1..MaxIter]
    /\ probes \in 0..ProbeBound /\ lastSignal \in -1..ProbeBound
    /\ ideas \subseteq Patterns /\ sent \in Nat
Shows ==
    /\ shown \subseteq Requests /\ noTaps \in [Requests -> 0..TapBound]
    /\ yes \subseteq Requests /\ racing \subseteq yes
    /\ today \in Nat /\ days \in 0..DayBound /\ restarts \in 0..RestartBound
InWork == \A t \in Threads : at[t] \notin Free => cur[t] \in Requests
TypesInv == Flags /\ Minds /\ Clocks /\ Shows /\ InWork

LEMMA TypesGive == RestInv /\ TypesInv => TypeOK
  BY DEF RestInv, RestType, TypesInv, Flags, Minds, Clocks, Shows, TypeOK, DiscoveryTypeOK, Places

(* The engine's calls leave warm a flag.                                   *)
LEMMA CallsTyped ==
  ASSUME warm \in BOOLEAN, UNCHANGED warm \/ Calls \/ Seeks \/ Consolidates PROVE warm' \in BOOLEAN
  <1>1. CASE UNCHANGED warm BY <1>1
  <1>2. CASE Calls BY <1>2 DEF Calls
  <1>3. CASE Seeks BY <1>3 DEF Seeks
  <1>4. CASE Consolidates BY <1>4 DEF Consolidates
  <1> QED BY <1>1, <1>2, <1>3, <1>4
LEMMA CycleKeepsWarm ==
  ASSUME NEW t \in Threads, CycleStep(t) PROVE UNCHANGED warm \/ Calls \/ Seeks \/ Consolidates
  <1>1. CASE ListRequests(t) BY <1>1 DEF ListRequests
  <1>2. CASE Evolve(t) BY <1>2 DEF Evolve
  <1>3. CASE AssessFails(t) \/ AssessMarks(t) BY <1>3 DEF AssessFails, AssessMarks
  <1>4. CASE AssessAsks(t) \/ AssessDisabled(t) BY <1>4 DEF AssessAsks, AssessDisabled, clockVars
  <1>5. CASE Count(t) \/ Abandon(t) \/ Reflect(t) BY <1>5 DEF Count, Abandon, Reflect, clockVars
  <1>6. CASE Explore(t) BY <1>6 DEF Explore
  <1>7. CASE Sends(t) \/ Sent(t) \/ SendFails(t) BY <1>7 DEF Sends, Sent, SendFails, clockVars
  <1>8. CASE \E r \in Requests : Consider(t, r) BY <1>8 DEF Consider, clockVars
  <1> QED BY <1>1, <1>2, <1>3, <1>4, <1>5, <1>6, <1>7, <1>8 DEF CycleStep

(* What the flags become.                                                  *)
LEMMA CycleKeepsFlags == ASSUME NEW t \in Threads, CycleStep(t), Flags PROVE Flags'
  <1>0. warm' \in BOOLEAN BY CallsTyped, CycleKeepsWarm DEF Flags
  <1> USE <1>0 DEF Flags, discoveryVars, threadVars, cycleVars, adVars, reflectVars
  <1>1. CASE ListRequests(t) BY <1>1 DEF ListRequests
  <1>2. CASE Evolve(t) BY <1>2 DEF Evolve
  <1>3. CASE AssessFails(t) BY <1>3 DEF AssessFails
  <1>4. CASE AssessMarks(t) BY <1>4 DEF AssessMarks
  <1>5. CASE AssessAsks(t) BY <1>5 DEF AssessAsks
  <1>6. CASE AssessDisabled(t) BY <1>6 DEF AssessDisabled
  <1>7. CASE Count(t) BY <1>7 DEF Count
  <1>8. CASE Abandon(t) BY <1>8 DEF Abandon
  <1>9. CASE Reflect(t) BY <1>9 DEF Reflect
  <1>10. CASE Explore(t)
    <2>1. UNCHANGED <<recent, replicas, running, handled>>
      BY <1>10 DEF Explore, ExploresNothing, ParksProbe, Curious
    <2>2. dayTurned' = dayTurned \/ dayTurned' = FALSE
      BY <1>10 DEF Explore, ExploresNothing, ParksProbe, Curious, MaySend
    <2> QED BY <2>1, <2>2
  <1>11. CASE Sends(t) BY <1>11 DEF Sends
  <1>12. CASE Sent(t) BY <1>12 DEF Sent
  <1>13. CASE SendFails(t) BY <1>13 DEF SendFails
  <1>14. CASE \E r \in Requests : Consider(t, r) BY <1>14 DEF Consider, Skips, Begins
  <1> QED BY <1>1, <1>2, <1>3, <1>4, <1>5, <1>6, <1>7, <1>8, <1>9, <1>10, <1>11, <1>12, <1>13, <1>14 DEF CycleStep

(* A promoted idea, and patterns resolved.                                 *)
LEMMA LogTypes ==
  ASSUME weight \in [Patterns -> Nat], saved \in [Patterns -> Nat], faults \in 0..FaultBound
  PROVE  /\ \A p \in Patterns : Promotes(p) /\ ideas \subseteq Patterns
               => /\ weight' \in [Patterns -> Nat] /\ saved' \in [Patterns -> Nat]
                  /\ faults' \in 0..FaultBound /\ ideas' \subseteq Patterns
         /\ \A S : ResolvePattern(S) => weight' \in [Patterns -> Nat] /\ saved' \in [Patterns -> Nat]
  BY DiscoveryAssumption DEF Promotes, RecordPromoted, ResolvePattern, Fault, logVars


(* A step of a cycle keeps the types of the patterns,                      *)
LEMMA CycleKeepsMinds == ASSUME NEW t \in Threads, CycleStep(t), Minds, Clocks PROVE Minds'
  <1> DEFINE LogsOK == /\ UNCHANGED deferred /\ weight' \in [Patterns -> Nat] /\ saved' \in [Patterns -> Nat]
                       /\ faults' \in 0..FaultBound
  <1>1. /\ weight \in [Patterns -> Nat] /\ saved \in [Patterns -> Nat]
        /\ faults \in 0..FaultBound /\ ideas \subseteq Patterns
    BY DEF Minds, Clocks
  <1>2. FaultBound \in Nat BY DiscoveryAssumption
  <1>3. UNCHANGED loopVars BY CycleKeepsLoop
  <1>4. LogsOK
    <2> USE <1>1, <1>2 DEF discoveryVars, logVars, threadVars, Fault
    <2>1. CASE ListRequests(t) \/ Evolve(t) \/ AssessFails(t) \/ AssessMarks(t)
      BY <2>1 DEF ListRequests, Evolve, AssessFails, AssessMarks
    <2>2. CASE AssessAsks(t) BY <2>2 DEF AssessAsks
    <2>3. CASE AssessDisabled(t) BY <2>3, LogTypes DEF AssessDisabled
    <2>4. CASE Count(t) BY <2>4 DEF Count
    <2>5. CASE Abandon(t) BY <2>5 DEF Abandon
    <2>6. CASE Reflect(t) \/ Sends(t) \/ Sent(t) BY <2>6 DEF Reflect, Sends, Sent
    <2>7. CASE SendFails(t) BY <2>7 DEF SendFails
    <2>8. CASE \E r \in Requests : Consider(t, r) BY <2>8 DEF Consider
    <2>9. CASE Explore(t)
      <3>1. CASE ExploresNothing(t) \/ ParksProbe(t) BY <3>1 DEF ExploresNothing, ParksProbe
      <3>2. CASE Curious(t) BY <3>2, LogTypes DEF Curious
      <3> QED BY <2>9, <3>1, <3>2 DEF Explore
    <2> QED BY <2>1, <2>2, <2>3, <2>4, <2>5, <2>6, <2>7, <2>8, <2>9 DEF CycleStep
  <1> QED BY <1>3, <1>4 DEF Minds, loopVars

(* of the clocks and the loads,                                            *)
LEMMA CycleKeepsClocks == ASSUME NEW t \in Threads, CycleStep(t), Minds, Clocks PROVE Clocks'
  <1>1. MaxIter \in Nat \ {0} /\ ProbeBound \in Nat BY RestAssumption
  <1> USE <1>1 DEF Clocks, clockVars, cycleVars, reflectVars, adVars
  <1>2. CASE ListRequests(t) \/ Evolve(t) \/ AssessMarks(t) \/ AssessAsks(t)
    BY <1>2 DEF ListRequests, Evolve, AssessMarks, AssessAsks
  <1>3. CASE AssessFails(t) BY <1>3 DEF AssessFails
  <1>4. CASE AssessDisabled(t) BY <1>4 DEF AssessDisabled
  <1>5. CASE Count(t) BY <1>5 DEF Count
  <1>6. CASE Abandon(t) BY <1>6 DEF Abandon
  <1>7. CASE Reflect(t) BY <1>7 DEF Reflect
  <1>8. CASE Sends(t) \/ SendFails(t) BY <1>8 DEF Sends, SendFails
  <1>9. CASE Sent(t) BY <1>9 DEF Sent
  <1>10. CASE \E r \in Requests : Consider(t, r) BY <1>10 DEF Consider, Skips, Begins
  <1>11. CASE Explore(t)
    <2>1. UNCHANGED <<load, stale, attention, iter, lastSignal>> /\ since' = 0 BY <1>11 DEF Explore
    <2>2. probes' \in 0..ProbeBound BY <1>11 DEF Explore, ExploresNothing, ParksProbe, Curious
    <2>3. ideas' \subseteq Patterns
      <3>1. CASE ExploresNothing(t) \/ ParksProbe(t) BY <3>1 DEF ExploresNothing, ParksProbe
      <3>2. CASE Curious(t) BY <3>2, LogTypes DEF Curious, Minds
      <3> QED BY <1>11, <3>1, <3>2 DEF Explore
    <2>4. sent' \in Nat
      <3>1. CASE ExploresNothing(t) \/ ParksProbe(t) BY <3>1 DEF ExploresNothing, ParksProbe
      <3>2. CASE Curious(t) BY <3>2 DEF Curious, MaySend
      <3> QED BY <1>11, <3>1, <3>2 DEF Explore
    <2> QED BY <2>1, <2>2, <2>3, <2>4
  <1> QED BY <1>2, <1>3, <1>4, <1>5, <1>6, <1>7, <1>8, <1>9, <1>10, <1>11 DEF CycleStep

(* of what the user sees and taps; and it works on requests only.          *)
LEMMA CycleKeepsShows ==
  ASSUME NEW t \in Threads, CycleStep(t), RestInv, Shows, InWork PROVE Shows' /\ InWork'
  <1>1. /\ at \in [Threads -> Places] /\ cur \in [Threads -> Requests \cup {NoRequest}]
    BY DEF RestInv, RestType
  <1>2. Shows'
    <2> USE DEF Shows, storeVars, historyVars
    <2>1. CASE ListRequests(t) \/ Evolve(t) \/ AssessFails(t) \/ AssessMarks(t) \/ AssessDisabled(t)
      BY <2>1 DEF ListRequests, Evolve, AssessFails, AssessMarks, AssessDisabled
    <2>2. CASE AssessAsks(t)
      <3>1. cur[t] \in Requests BY <2>2 DEF AssessAsks, InWork, Free
      <3> QED BY <2>2, <3>1 DEF AssessAsks
    <2>3. CASE Count(t) \/ Abandon(t) BY <2>3 DEF Count, Abandon
    <2>4. CASE Reflect(t) \/ Sent(t) \/ SendFails(t) \/ Explore(t)
      BY <2>4 DEF Reflect, Sent, SendFails, Explore
    <2>5. CASE Sends(t) BY <2>5 DEF Sends
    <2>6. CASE \E r \in Requests : Consider(t, r) BY <2>6 DEF Consider, Skips, Begins
    <2> QED BY <2>1, <2>2, <2>3, <2>4, <2>5, <2>6 DEF CycleStep
  <1>3. InWork'
    <2> USE <1>1 DEF InWork, cycleVars, Goto, Free, Places
    <2>1. CASE ListRequests(t) \/ Evolve(t) \/ AssessMarks(t) \/ AssessAsks(t) \/ AssessDisabled(t)
      BY <2>1 DEF ListRequests, Evolve, AssessMarks, AssessAsks, AssessDisabled
    <2>2. CASE AssessFails(t) BY <2>2 DEF AssessFails
    <2>3. CASE Count(t) BY <2>3 DEF Count
    <2>4. CASE Abandon(t) BY <2>4 DEF Abandon
    <2>5. CASE Reflect(t) \/ Sends(t) \/ Sent(t) \/ SendFails(t) BY <2>5 DEF Reflect, Sends, Sent, SendFails
    <2>6. CASE Explore(t)
      <3>1. UNCHANGED cur BY <2>6 DEF Explore
      <3>2. Goto(t, "rest") \/ Goto(t, "send") BY <2>6 DEF Explore, ExploresNothing, ParksProbe, Curious
      <3> QED BY <3>1, <3>2
    <2>7. ASSUME NEW r \in Requests, Consider(t, r) PROVE InWork'
      <3>1. CASE Skips(t, r) BY <3>1 DEF Skips
      <3>2. CASE Begins(t, r) BY <3>2 DEF Begins
      <3> QED BY <2>7, <3>1, <3>2 DEF Consider
    <2> QED BY <2>1, <2>2, <2>3, <2>4, <2>5, <2>6, <2>7 DEF CycleStep
  <1> QED BY <1>2, <1>3

(* The order in which the boot tries the patterns is a sequence of them.   *)
LEMMA SeedOrder ==
  ASSUME NEW S \in SUBSET Patterns, NEW w, NEW order \in ByFrequency(S, w), NEW n \in Nat, NEW q \in Seq(Patterns)
  PROVE  /\ q \o SubSeq(order, n + 1, Len(order)) \in Seq(Patterns)
         /\ n <= Len(order) => ToSet(SubSeq(order, 1, n)) \subseteq Patterns
  <1>1. IsFiniteSet(S) BY DiscoveryAssumption, FS_Subset
  <1>2. Cardinality(S) \in Nat BY <1>1, FS_CardinalityType
  <1>3. order \in [1..Cardinality(S) -> S] BY DEF ByFrequency, SetToSeqs
  <1>4. order \in Seq(Patterns) /\ Len(order) = Cardinality(S) BY <1>2, <1>3
  <1>5. \A i \in 1..Len(order) : order[i] \in Patterns BY <1>4
  <1>6. SubSeq(order, n + 1, Len(order)) \in Seq(Patterns)
    BY <1>4, <1>5, <1>2, SubSeqProperties
  <1>7. n <= Len(order) => SubSeq(order, 1, n) \in Seq(Patterns)
    BY <1>4, <1>5, <1>2, SubSeqProperties
  <1>8. n <= Len(order) => ToSet(SubSeq(order, 1, n)) \subseteq Patterns
    BY <1>7 DEF ToSet
  <1> QED BY <1>6, <1>8

(* Goal discovery keeps its types.                                         *)
LEMMA DiscoveryKeepsMinds ==
  ASSUME Minds, DiscoveryThread \/ CoolsDown \/ ReplicasChange \/ RunningChange \/ LogGrows PROVE Minds'
  <1>1. NoPattern \notin Patterns /\ Asked \in [Patterns -> Nat] /\ {BootCap, FaultBound} \subseteq Nat
    BY DiscoveryAssumption
  <1> USE DEF Minds, logVars, outcomeVars, threadVars
  <1>2. CASE Seed
    <2>1. weight' \in [Patterns -> Nat]
      <3>1. weight' = [p \in Patterns |-> weight[p] + Asked[p] + saved[p]] BY <1>2 DEF Seed, Seeded
      <3>2. \A p \in Patterns : weight[p] \in Nat /\ Asked[p] \in Nat /\ saved[p] \in Nat BY <1>1
      <3>3. \A p \in Patterns : weight[p] + Asked[p] + saved[p] \in Nat BY <3>2
      <3> QED BY <3>1, <3>3
    <2>2. Visible \subseteq Patterns BY DEF Known, Visible
    <2> DEFINE S == {p \in Patterns : Seeded[p] >= Threshold}
    <2>3. PICK order \in ByFrequency(S, Seeded) :
            LET n == IF Len(order) < BootCap THEN Len(order) ELSE BootCap
            IN  /\ deferred' = deferred \o SubSeq(order, n + 1, Len(order))
                /\ \/ phase' = "seeding" /\ todo' = ToSet(SubSeq(order, 1, n)) /\ known' = Visible
                   \/ phase' = "sleep" /\ UNCHANGED <<todo, known>>
      BY <1>2 DEF Seed
    <2> DEFINE n == IF Len(order) < BootCap THEN Len(order) ELSE BootCap
    <2>4. S \in SUBSET Patterns OBVIOUS
    <2> HIDE DEF S
    <2>5. Len(order) \in Nat
      <3>1. IsFiniteSet(S) BY <2>4, DiscoveryAssumption, FS_Subset
      <3>2. Cardinality(S) \in Nat BY <3>1, FS_CardinalityType
      <3>3. order \in [1..Cardinality(S) -> S] BY DEF ByFrequency, SetToSeqs
      <3> QED BY <3>2, <3>3
    <2>6. n \in Nat /\ n <= Len(order) BY <1>1, <2>5
    <2>7. /\ deferred' = deferred \o SubSeq(order, n + 1, Len(order))
          /\ \/ phase' = "seeding" /\ todo' = ToSet(SubSeq(order, 1, n)) /\ known' = Visible
             \/ phase' = "sleep" /\ UNCHANGED <<todo, known>>
      BY <2>3
    <2> HIDE DEF n
    <2>8. deferred' \in Seq(Patterns) /\ ToSet(SubSeq(order, 1, n)) \subseteq Patterns
      BY <2>4, <2>6, <2>7, SeedOrder
    <2>9. UNCHANGED <<saved, logged, installed, unseen, trying, faults>> BY <1>2 DEF Seed
    <2> QED BY <2>1, <2>2, <2>7, <2>8, <2>9
  <1>3. CASE Cycle BY <1>3 DEF Cycle, Known, Visible, Recurring
  <1>4. CASE LoopEnds BY <1>4 DEF LoopEnds
  <1>5. CASE Drain
    <2>1. CASE deferred = <<>> BY <1>5, <2>1 DEF Drain
    <2>2. CASE deferred # <<>>
      <3>1. Tail(deferred) \in Seq(Patterns) /\ Head(deferred) \in Patterns BY <2>2
      <3> QED BY <1>5, <3>1 DEF Drain
    <2> QED BY <2>1, <2>2
  <1>6. CASE EvolveReturns
    <2>1. trying \in Patterns /\ trying' = NoPattern BY <1>6 DEF EvolveReturns
    <2>2. phase' \in {phase, "sleep"} /\ UNCHANGED <<deferred, todo, known, weight, saved>>
      BY <1>6 DEF EvolveReturns
    <2>3. logged' \in [Patterns -> {"none", "gap", "found", "resolved"}] BY <1>6 DEF EvolveReturns
    <2>4. installed' \subseteq Patterns BY <1>6, <2>1 DEF EvolveReturns
    <2>5. faults' \in 0..FaultBound BY <1>1, <1>6 DEF EvolveReturns, Fault
    <2>6. unseen' \subseteq Patterns BY <1>6 DEF EvolveReturns, LogsRow
    <2> QED BY <2>1, <2>2, <2>3, <2>4, <2>5, <2>6
  <1>7. CASE EvolveRaises BY <1>1, <1>7 DEF EvolveRaises, Fault
  <1>8. ASSUME NEW p \in Patterns, Pick(p) PROVE Minds' BY <1>8 DEF Pick
  <1>9. CASE CoolsDown \/ ReplicasChange \/ RunningChange
    BY <1>9 DEF CoolsDown, ReplicasChange, RunningChange
  <1>10. CASE LogGrows BY <1>10 DEF LogGrows, Known, Visible
  <1> QED BY <1>2, <1>3, <1>4, <1>5, <1>6, <1>7, <1>8, <1>9, <1>10 DEF DiscoveryThread

(* And its flags.                                                          *)
LEMMA DiscoveryKeepsFlags ==
  ASSUME Flags, Discovery \/ Operator PROVE Flags'
  <1> USE DEF Flags, threadVars, cycleVars, adVars, clockVars
  <1>1. UNCHANGED <<handled, dayTurned, warm>> BY DEF Discovery, Operator
  <1>2. CASE Operator BY <1>1, <1>2 DEF Operator, RunningChange
  <1>3. CASE Discovery
    <2>1. CASE Seed \/ Cycle \/ LoopEnds \/ EvolveReturns \/ EvolveRaises
      BY <1>1, <2>1 DEF Seed, Cycle, LoopEnds, EvolveReturns, EvolveRaises
    <2>2. CASE Drain BY <1>1, <2>2 DEF Drain
    <2>3. ASSUME NEW p \in Patterns, Pick(p) PROVE Flags' BY <1>1, <2>3 DEF Pick
    <2>4. CASE CoolsDown \/ ReplicasChange \/ LogGrows BY <1>1, <2>4 DEF CoolsDown, ReplicasChange, LogGrows
    <2> QED BY <1>3, <2>1, <2>2, <2>3, <2>4 DEF Discovery, DiscoveryThread
  <1> QED BY <1>2, <1>3

(* The starts of a cycle and the surroundings.                             *)
LEMMA MovesKeepTypes ==
  ASSUME Moves, RestInv, TypesInv PROVE TypesInv'
  <1>1. ProbeBound \in Nat /\ Requests = 1..Cardinality(Requests) BY RestAssumption
  <1>2. InWork'
    <2>1. at \in [Threads -> Places] BY DEF RestInv, RestType
    <2>2. UNCHANGED cur /\ \A t \in Threads : at'[t] = at[t] \/ (at'[t] = "list" /\ at[t] = "rest")
      <3>1. CASE IdleStarts BY <2>1, <3>1 DEF IdleStarts, StartsCycle, Goto
      <3>2. ASSUME NEW t \in Manual, Trigger(t)
            PROVE  UNCHANGED cur /\ \A s \in Threads : at'[s] = at[s] \/ (at'[s] = "list" /\ at[s] = "rest")
        BY <2>1, <3>2 DEF Trigger, StartsCycle, Goto
      <3>3. CASE IdlePolls \/ Surroundings \/ Discovery \/ Operator
        BY <3>3 DEF IdlePolls, Surroundings, GrowStale, Tick, Cools, NewDay, Attend, Discovery, Operator, cycleVars
      <3> QED BY <3>1, <3>2, <3>3 DEF Moves, Starts
    <2> QED BY <2>2 DEF TypesInv, InWork, Free
  <1>3. CASE Discovery \/ Operator
    <2>1. UNCHANGED <<storeVars, clockVars, cycleVars, reflectVars, adVars, load, historyVars>>
      BY <1>3 DEF Discovery, Operator
    <2>2. Clocks' /\ Shows'
      BY <2>1 DEF TypesInv, Clocks, Shows, storeVars, clockVars, cycleVars, reflectVars, adVars, historyVars
    <2>3. Minds' BY <1>3, DiscoveryKeepsMinds DEF TypesInv, Discovery, Operator
    <2>4. Flags' BY <1>3, DiscoveryKeepsFlags DEF TypesInv
    <2> QED BY <1>2, <2>2, <2>3, <2>4 DEF TypesInv
  <1>4. CASE Starts \/ Surroundings
    <2> USE DEF Starts, StartsCycle, IdleStarts, IdlePolls, Trigger, Surroundings, GrowStale, Tick, Cools, NewDay, Attend
    <2>1. UNCHANGED discoveryVars BY <1>4
    <2>2. Minds' BY <2>1 DEF TypesInv, Minds, discoveryVars, logVars, outcomeVars, threadVars
    <2>3. UNCHANGED handled /\ (dayTurned' = dayTurned \/ dayTurned' = TRUE) BY <1>4 DEF cycleVars, adVars
    <2>4. Flags'
      <3>1. UNCHANGED warm \/ warm' = FALSE \/ Seeks BY <1>4 DEF clockVars
      <3>2. warm' \in BOOLEAN BY <3>1, CallsTyped DEF TypesInv, Flags
      <3> QED BY <2>1, <2>3, <3>2 DEF TypesInv, Flags, discoveryVars, threadVars
    <2>5. Clocks'
      <3>1. UNCHANGED <<load, iter, sent>> BY <1>4 DEF cycleVars, adVars
      <3>2. stale' \in Requests \cup {0} /\ attention' \in {"quiet", "pinged", "active"}
        BY <1>4 DEF TypesInv, Clocks, clockVars
      <3>3. since' \in 0..2 BY <1>4 DEF TypesInv, Clocks, clockVars
      <3>4. probes' \in 0..ProbeBound /\ lastSignal' \in -1..ProbeBound
        BY <1>1, <1>4 DEF TypesInv, Clocks, reflectVars
      <3>5. ideas' \subseteq Patterns BY <1>4 DEF TypesInv, Clocks, adVars
      <3> QED BY <3>1, <3>2, <3>3, <3>4, <3>5 DEF TypesInv, Clocks
    <2>6. Shows'
      <3>1. UNCHANGED <<shown, noTaps, yes, racing, restarts>> BY <1>4 DEF storeVars, historyVars
      <3>2. today' \in Nat /\ days' \in 0..DayBound
        BY <1>4, RestAssumption DEF TypesInv, Shows, historyVars
      <3> QED BY <3>1, <3>2 DEF TypesInv, Shows
    <2> QED BY <1>2, <2>2, <2>4, <2>5, <2>6 DEF TypesInv
  <1> QED BY <1>3, <1>4 DEF Moves

(* The user.                                                               *)
LEMMA UserKeepsTypes == ASSUME User, TypesInv PROVE TypesInv'
  <1>1. PICK r \in Requests : Record(r) \/ TapYes(r) \/ TapNo(r) \/ TapCloses(r) BY DEF User
  <1> USE DEF Record, TapYes, TapNo, TapCloses
  <1>2. UNCHANGED <<discoveryVars, clockVars, cycleVars, reflectVars, adVars, load>> BY <1>1
  <1>3. Minds' /\ Flags' /\ InWork'
    BY <1>2 DEF TypesInv, Minds, Flags, InWork, discoveryVars, logVars, outcomeVars, threadVars, clockVars,
                   cycleVars, adVars
  <1>4. Clocks' BY <1>2 DEF TypesInv, Clocks, clockVars, cycleVars, reflectVars, adVars
  <1>5. Shows'
    <2>1. UNCHANGED <<shown, today, days, restarts>> BY <1>1 DEF historyVars
    <2>2. noTaps' \in [Requests -> 0..TapBound] BY <1>1, RestAssumption DEF TypesInv, Shows, historyVars
    <2>3. yes' \subseteq Requests /\ racing' \subseteq yes' BY <1>1 DEF TypesInv, Shows, historyVars
    <2> QED BY <2>1, <2>2, <2>3 DEF TypesInv, Shows
  <1> QED BY <1>3, <1>4, <1>5 DEF TypesInv

(* A restart.                                                              *)
LEMMA RestartKeepsTypes == ASSUME Restart, TypesInv PROVE TypesInv'
  <1>1. /\ {MaxIter} \subseteq Nat \ {0} /\ {ProbeBound, RestartBound} \subseteq Nat
        /\ load.restarts \in 0..RestartBound
    BY RestAssumption DEF TypesInv, Clocks
  <1>2. Minds'
    <2>1. logged' \in [Patterns -> {"none", "gap", "found", "resolved"}]
      BY DEF Restart, DiscoveryRestart, TypesInv, Minds
    <2> QED BY <2>1 DEF Restart, DiscoveryRestart, TypesInv, Minds
  <1>3. Flags' BY DEF Restart, DiscoveryRestart, TypesInv, Flags
  <1>4. Clocks' BY <1>1 DEF Restart, TypesInv, Clocks
  <1>5. Shows' BY <1>1 DEF Restart, TypesInv, Shows
  <1>6. InWork' BY DEF Restart, InWork, Free
  <1> QED BY <1>2, <1>3, <1>4, <1>5, <1>6 DEF TypesInv

(* Every step keeps the types.                                             *)
LEMMA TypesStep == ASSUME RestInv, TypesInv, [Next]_vars PROVE TypesInv'
  <1>1. CASE Moves BY <1>1, MovesKeepTypes
  <1>2. ASSUME NEW t \in Threads, CycleStep(t) PROVE TypesInv'
    BY <1>2, CycleKeepsFlags, CycleKeepsMinds, CycleKeepsClocks, CycleKeepsShows DEF TypesInv
  <1>3. CASE User BY <1>3, UserKeepsTypes
  <1>4. CASE Restart BY <1>4, RestartKeepsTypes
  <1>5. CASE UNCHANGED vars
    BY <1>5 DEF vars, TypesInv, Flags, Minds, Clocks, Shows, InWork, discoveryVars, logVars, outcomeVars,
                threadVars, storeVars, clockVars, cycleVars, reflectVars, adVars, historyVars
  <1> QED BY <1>1, <1>2, <1>3, <1>4, <1>5 DEF Next, Moves, Starts

(* Every variable of the engine and of goal discovery keeps its type.      *)
THEOREM TypeCorrect == Spec => []TypeOK
  <1>1. Init => TypesInv
    <2> SUFFICES ASSUME Init PROVE TypesInv OBVIOUS
    <2>1. Minds BY DiscoveryAssumption DEF Init, DiscoveryInit, Minds
    <2>2. Flags BY DEF Init, DiscoveryInit, Flags
    <2>3. Clocks BY RestAssumption DEF Init, Clocks
    <2>4. Shows BY RestAssumption DEF Init, Shows
    <2>5. InWork BY DEF Init, InWork, Free
    <2> QED BY <2>1, <2>2, <2>3, <2>4, <2>5 DEF TypesInv
  <1>2. RestInv /\ TypesInv /\ [Next]_vars => TypesInv' BY TypesStep
  <1>3. RestInv /\ [Next]_vars => RestInv' BY RestStep
  <1> QED BY <1>1, <1>2, <1>3, RestInit, TypesGive, PTL DEF Spec
=============================================================================
