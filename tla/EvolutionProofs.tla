-------------------------- MODULE EvolutionProofs ---------------------------
(***************************************************************************)
(* Proofs about the evolution cycle, for any number of threads, skills and *)
(* requests, any caps, with or without crashes and faults: its types, how  *)
(* far the cap is overshot, how many cycles a halt lets through, and that  *)
(* the approval gate implements ApprovalGate.                              *)
(***************************************************************************)
EXTENDS Evolution, EvolutionStateProofs, FiniteSetTheorems

(* TypeOK without the variables of the state machine and its history. *)
CycleTypes ==
    /\ pc \in [Callers -> Stages]
    /\ task \in [Callers -> Skills \union {NoTask}]
    /\ skill \in [Skills -> {"absent", "partial", "complete"}]
    /\ store \subseteq Ids
    /\ shown \subseteq Ids
    /\ fate \in [Ids -> Fates]
    /\ trigger \in {"idle", "checked", "started", "raised"}

GateInv == CycleTypes /\ PendingUndecided

-----------------------------------------------------------------------------
(* The five kinds of step, as the state machine sees them: a cycle begins, *)
(* ends and is counted, the machine is operated, the process dies, or the  *)
(* machine rests.                                                          *)
Begins == up /\ MayEvolve /\ UNCHANGED <<controlVars, sinceHalt>>

Ends ==
    /\ \E c \in InFlight : InFlight' = InFlight \ {c}
    /\ Increment /\ Counts(1)

Operates ==
    /\ ControlOp \/ AutoPause \/ RestartControl
    /\ InFlight' = InFlight /\ Counts(0)

Dies == CrashControl /\ InFlight' = {} /\ UNCHANGED sinceHalt

Rests == UNCHANGED <<controlVars, sinceHalt>> /\ InFlight' \subseteq InFlight

StepKind == Begins \/ Ends \/ Operates \/ Dies \/ Rests

(* Every step of the cycle is of one of these kinds. *)
LEMMA StepKinds == CycleTypes /\ [Next]_vars => StepKind
<1> SUFFICES ASSUME CycleTypes, [Next]_vars PROVE StepKind
  OBVIOUS
<1> USE DEF CycleTypes, Stages, InFlight, cycleVars, gateVars, StepKind, Begins, Ends,
            Operates, Dies, Rests
<1>1. ASSUME NEW c \in Callers, BeginCycle(c) PROVE StepKind
  BY <1>1 DEF BeginCycle, OutsideCycle
<1>2. ASSUME NEW c \in Callers, RefuseAtCap(c) PROVE StepKind
  BY <1>2 DEF RefuseAtCap
<1>3. ASSUME NEW c \in Callers, SearchMisses(c) PROVE StepKind
  BY <1>3 DEF SearchMisses, Goto, OutsideCycle
<1>4. ASSUME NEW c \in Callers, FindsLocal(c) PROVE StepKind
  BY <1>4 DEF FindsLocal, Found, Goto, OutsideCycle
<1>5. ASSUME NEW c \in Callers, FindsInstalled(c) PROVE StepKind
  BY <1>5 DEF FindsInstalled, Found, Goto, OutsideCycle
<1>6. ASSUME NEW c \in Callers, BeginClone(c) PROVE StepKind
  BY <1>6 DEF BeginClone, Goto, OutsideCycle
<1>7. ASSUME NEW c \in Callers, EndClone(c) PROVE StepKind
  BY <1>7 DEF EndClone, Found, Goto, OutsideCycle
<1>8. ASSUME NEW c \in Callers, CloneFails(c) PROVE StepKind
  BY <1>8 DEF CloneFails, Goto, OutsideCycle
<1>9. ASSUME NEW c \in Callers, GateSkipped(c) PROVE StepKind
  BY <1>9 DEF GateSkipped, Goto, OutsideCycle
<1>10. ASSUME NEW c \in Callers, GateAsks(c) PROVE StepKind
  BY <1>10 DEF GateAsks, Returns
<1>11. ASSUME NEW c \in Callers, GateRaises(c) PROVE StepKind
  BY <1>11 DEF GateRaises, Goto
<1>12. ASSUME NEW c \in Callers, PipelineInstalls(c) PROVE StepKind
  BY <1>12 DEF PipelineInstalls, Found, Goto, OutsideCycle
<1>13. ASSUME NEW c \in Callers, CriticRejects(c) PROVE StepKind
  BY <1>13 DEF CriticRejects, Returns, OutsideCycle
<1>14. ASSUME NEW c \in Callers, PipelineFails(c) PROVE StepKind
  BY <1>14 DEF PipelineFails, Goto, OutsideCycle
<1>15. ASSUME NEW c \in Callers, LegacyInstalls(c) PROVE StepKind
  BY <1>15 DEF LegacyInstalls, Found, Goto, OutsideCycle
<1>16. ASSUME NEW c \in Callers, LegacyFails(c) PROVE StepKind
  BY <1>16 DEF LegacyFails, Returns, OutsideCycle
<1>17. ASSUME NEW c \in Callers, CountIteration(c) PROVE StepKind
  BY <1>17 DEF CountIteration, Returns
<1>18. ASSUME NEW id \in Ids, Approve(id) PROVE StepKind
  BY <1>18 DEF Approve
<1>19. ASSUME NEW id \in Ids, Reject(id) PROVE StepKind
  BY <1>19 DEF Reject
<1>20. ASSUME NEW id \in Ids, TapTearsStore(id) PROVE StepKind
  BY <1>20 DEF TapTearsStore
<1>21. ASSUME NEW id \in Ids, WorkerInstalls(id) PROVE StepKind
  BY <1>21 DEF WorkerInstalls, EndsAs
<1>22. ASSUME NEW id \in Ids, WorkerRejected(id) PROVE StepKind
  BY <1>22 DEF WorkerRejected, EndsAs
<1>23. ASSUME NEW id \in Ids, WorkerFallsBack(id) PROVE StepKind
  BY <1>23 DEF WorkerFallsBack, EndsAs
<1>24. ASSUME NEW id \in Ids, WorkerLegacy(id) PROVE StepKind
  BY <1>24 DEF WorkerLegacy, EndsAs
<1>25. CASE Control
  BY <1>25 DEF Control
<1>26. CASE TriggerChecks
  BY <1>26 DEF TriggerChecks
<1>27. ASSUME NEW cap \in Caps, TriggerStarts(cap) PROVE StepKind
  BY <1>27 DEF TriggerStarts, ControlOp
<1>28. CASE TriggerRaises
  BY <1>28 DEF TriggerRaises
<1>29. CASE TriggerReturns
  BY <1>29 DEF TriggerReturns
<1>30. CASE Crash
  BY <1>30 DEF Crash
<1>31. CASE Restart
  BY <1>31 DEF Restart
<1>32. CASE UNCHANGED vars
  BY <1>32 DEF vars
<1> HIDE DEF CycleTypes, StepKind, Begins, Ends, Operates, Dies, Rests
<1>33. ASSUME NEW c \in Callers, CallerStep(c) PROVE StepKind
  BY <1>3, <1>4, <1>5, <1>6, <1>7, <1>8, <1>9, <1>10,
     <1>11, <1>12, <1>13, <1>14, <1>15, <1>16, <1>17, <1>33 DEF CallerStep, Tier1, Gate, Tier2
<1>34. ASSUME NEW id \in Ids, Worker(id) PROVE StepKind
  BY <1>21, <1>22, <1>23, <1>24, <1>34 DEF Worker
<1>35. CASE Trigger
  BY <1>26, <1>27, <1>28, <1>29, <1>35 DEF Trigger
<1> QED
  BY <1>1, <1>2, <1>18, <1>19, <1>20, <1>25, <1>30, <1>31, <1>32, <1>33, <1>34, <1>35
     DEF Next

(* Every action keeps the types of the cycle and PendingUndecided. *)
LEMMA GateInvStep == GateInv /\ [Next]_vars => GateInv'
<1> SUFFICES ASSUME GateInv, [Next]_vars PROVE GateInv'
  OBVIOUS
<1> USE SkillsAssumption, ChatAssumption
    DEF GateInv, CycleTypes, PendingUndecided, Stages, Fates, cycleVars, gateVars
<1>1. ASSUME NEW c \in Callers, BeginCycle(c) PROVE GateInv'
  BY <1>1 DEF BeginCycle, OutsideCycle
<1>2. ASSUME NEW c \in Callers, RefuseAtCap(c) PROVE GateInv'
  BY <1>2 DEF RefuseAtCap, Counts
<1>3. ASSUME NEW c \in Callers, SearchMisses(c) PROVE GateInv'
  BY <1>3 DEF SearchMisses, Goto, OutsideCycle
<1>4. ASSUME NEW c \in Callers, FindsLocal(c) PROVE GateInv'
  BY <1>4 DEF FindsLocal, Found, Goto, OutsideCycle
<1>5. ASSUME NEW c \in Callers, FindsInstalled(c) PROVE GateInv'
  BY <1>5 DEF FindsInstalled, Found, Goto, OutsideCycle
<1>6. ASSUME NEW c \in Callers, BeginClone(c) PROVE GateInv'
  BY <1>6 DEF BeginClone, Goto, OutsideCycle
<1>7. ASSUME NEW c \in Callers, EndClone(c) PROVE GateInv'
  BY <1>7 DEF EndClone, Found, Goto, WritesSkill, OutsideCycle
<1>8. ASSUME NEW c \in Callers, CloneFails(c) PROVE GateInv'
  BY <1>8 DEF CloneFails, Goto, OutsideCycle
<1>9. ASSUME NEW c \in Callers, GateSkipped(c) PROVE GateInv'
  BY <1>9 DEF GateSkipped, Goto, OutsideCycle
<1>10. ASSUME NEW c \in Callers, GateAsks(c) PROVE GateInv'
  BY <1>10 DEF GateAsks, Returns, Unused
<1>11. ASSUME NEW c \in Callers, GateRaises(c) PROVE GateInv'
  BY <1>11 DEF GateRaises, Goto
<1>12. ASSUME NEW c \in Callers, PipelineInstalls(c) PROVE GateInv'
  BY <1>12 DEF PipelineInstalls, Found, Goto, WritesSkill, OutsideCycle
<1>13. ASSUME NEW c \in Callers, CriticRejects(c) PROVE GateInv'
  BY <1>13 DEF CriticRejects, Returns, OutsideCycle
<1>14. ASSUME NEW c \in Callers, PipelineFails(c) PROVE GateInv'
  BY <1>14 DEF PipelineFails, Goto, MayLeavePartial, OutsideCycle
<1>15. ASSUME NEW c \in Callers, LegacyInstalls(c) PROVE GateInv'
  BY <1>15 DEF LegacyInstalls, Found, Goto, InstallsIfAbsent, OutsideCycle
<1>16. ASSUME NEW c \in Callers, LegacyFails(c) PROVE GateInv'
  BY <1>16 DEF LegacyFails, Returns, OutsideCycle
<1>17. ASSUME NEW c \in Callers, CountIteration(c) PROVE GateInv'
  BY <1>17 DEF CountIteration, Returns, Counts
<1>18. ASSUME NEW id \in Ids, Approve(id) PROVE GateInv'
  BY <1>18 DEF Approve
<1>19. ASSUME NEW id \in Ids, Reject(id) PROVE GateInv'
  BY <1>19 DEF Reject
<1>20. ASSUME NEW id \in Ids, TapTearsStore(id) PROVE GateInv'
  BY <1>20 DEF TapTearsStore
<1>21. ASSUME NEW id \in Ids, WorkerInstalls(id) PROVE GateInv'
  BY <1>21 DEF WorkerInstalls, EndsAs, WritesSkill
<1>22. ASSUME NEW id \in Ids, WorkerRejected(id) PROVE GateInv'
  BY <1>22 DEF WorkerRejected, EndsAs
<1>23. ASSUME NEW id \in Ids, WorkerFallsBack(id) PROVE GateInv'
  BY <1>23 DEF WorkerFallsBack, EndsAs, MayLeavePartial
<1>24. ASSUME NEW id \in Ids, WorkerLegacy(id) PROVE GateInv'
  BY <1>24 DEF WorkerLegacy, EndsAs, InstallsIfAbsent
<1>25. CASE Control
  BY <1>25 DEF Control, Counts
<1>26. CASE TriggerChecks
  BY <1>26 DEF TriggerChecks
<1>27. ASSUME NEW cap \in Caps, TriggerStarts(cap) PROVE GateInv'
  BY <1>27 DEF TriggerStarts, Counts
<1>28. CASE TriggerRaises
  BY <1>28 DEF TriggerRaises
<1>29. CASE TriggerReturns
  BY <1>29 DEF TriggerReturns
<1>30. CASE Crash
  BY <1>30 DEF Crash, Working
<1>31. CASE Restart
  BY <1>31 DEF Restart, Counts
<1>32. CASE UNCHANGED vars
  BY <1>32 DEF vars
<1> HIDE DEF GateInv, CycleTypes, PendingUndecided
<1>33. ASSUME NEW c \in Callers, CallerStep(c) PROVE GateInv'
  BY <1>3, <1>4, <1>5, <1>6, <1>7, <1>8, <1>9, <1>10,
     <1>11, <1>12, <1>13, <1>14, <1>15, <1>16, <1>17, <1>33 DEF CallerStep, Tier1, Gate, Tier2
<1>34. ASSUME NEW id \in Ids, Worker(id) PROVE GateInv'
  BY <1>21, <1>22, <1>23, <1>24, <1>34 DEF Worker
<1>35. CASE Trigger
  BY <1>26, <1>27, <1>28, <1>29, <1>35 DEF Trigger
<1> QED
  BY <1>1, <1>2, <1>18, <1>19, <1>20, <1>25, <1>30, <1>31, <1>32, <1>33, <1>34, <1>35
     DEF Next

(* Nothing is stored and no cycle runs at the first start. *)
LEMMA GateInvInit == Init => GateInv
BY DEF Init, GateInv, CycleTypes, PendingUndecided, Stages, Fates

(* GateInv holds whatever crashes, tears or raises. *)
THEOREM GateInvariant == Spec => []GateInv
BY GateInvInit, GateInvStep, PTL DEF Spec

(* A stored request is one nobody has decided. *)
THEOREM PendingUndecidedCorrect == Spec => []PendingUndecided
<1>1. GateInv => PendingUndecided
  BY DEF GateInv
<1> QED
  BY <1>1, GateInvariant, PTL

-----------------------------------------------------------------------------
(* The state machine inside the cycle: ControlInv of EvolutionStateProofs. *)
LEMMA ControlStepKept == ControlInv /\ StepKind => ControlInv'
<1> SUFFICES ASSUME ControlInv, StepKind PROVE ControlInv'
  OBVIOUS
<1>1. CASE Begins \/ Rests
  BY <1>1 DEF Begins, Rests, controlVars, ControlInv, ControlTypeOK, DiskMirrorsMemory,
              StampsOf
<1>2. CASE Ends
  BY <1>2, CycleOpInv DEF Ends
<1>3. CASE Operates
  BY <1>3, ControlOpInv, CycleOpInv, CrashRestartInv DEF Operates
<1>4. CASE Dies
  BY <1>4, CrashRestartInv DEF Dies
<1> QED
  BY <1>1, <1>2, <1>3, <1>4 DEF StepKind

-----------------------------------------------------------------------------
(* How many cycles are in flight.                                          *)
N == Cardinality(Callers)
Flying == Cardinality(InFlight)

(* There is at least one thread. *)
LEMMA CallersCount == N \in Nat \ {0}
BY CallersAssumption, FS_CardinalityType, FS_EmptySet DEF N

(* No more cycles are in flight than there are threads, ... *)
LEMMA FlyingBound == InFlight \subseteq Callers /\ Flying \in Nat /\ Flying <= N
BY CallersAssumption, FS_Subset, FS_CardinalityType DEF InFlight, Flying, N

(* ... nor after a step, ... *)
LEMMA FlyingBoundNext ==
    InFlight' \subseteq Callers /\ Flying' \in Nat /\ Flying' <= N
<1>1. InFlight' \subseteq Callers
  BY DEF InFlight
<1> QED
  BY <1>1, CallersAssumption, FS_Subset, FS_CardinalityType DEF Flying, N

(* ... and a cycle that ends is one less. *)
LEMMA FlyingDrops ==
    /\ InFlight' \subseteq InFlight => Flying' <= Flying
    /\ \A c \in InFlight : InFlight' = InFlight \ {c} => Flying' = Flying - 1
<1>1. IsFiniteSet(InFlight)
  BY FlyingBound, CallersAssumption, FS_Subset
<1> QED
  BY <1>1, FS_Subset, FS_RemoveElement DEF Flying

(* A record of the machine leaves room for n cycles in flight: they pass   *)
(* the cap by at most N - 1, and none is in flight under a cap of zero.    *)
Room(m, n) ==
    /\ m.cap = 0 => m.iterations = 0 /\ n = 0
    /\ m.iterations + n <= m.cap - 1 + N

(* Every operation on the record leaves the room there was. *)
LEMMA OperationRoom ==
    ASSUME NEW m \in EvolutionRecord, NEW n \in Nat, n <= N, Room(m, n),
           NEW cap \in Caps \union {NoCap}
    PROVE  /\ Room(Started(m, cap), n)
           /\ Room(Paused(m), n)
           /\ Room(Resumed(m), n)
           /\ Room(StoppedNow(m), n)
           /\ Room(ResetTo(m, cap), n)
           /\ n # 0 => Room(Incremented(m), n - 1)
<1> USE CallersCount, CapBumpAssumption DEF Room, EvolutionRecord
<1>1. cap # NoCap => AtLeastOne(cap) \in Nat \ {0}
  BY CapArgument, AtLeastOneType
<1>2. Room(Started(m, cap), n)
  BY <1>1 DEF Started
<1>3. Room(Paused(m), n) /\ Room(StoppedNow(m), n)
  BY DEF Paused, StoppedNow
<1>4. Room(Resumed(m), n)
  BY DEF Resumed
<1>5. Room(ResetTo(m, cap), n)
  BY <1>1 DEF ResetTo
<1>6. n # 0 => Room(Incremented(m), n - 1)
  BY DEF Incremented
<1> QED
  BY <1>2, <1>3, <1>4, <1>5, <1>6

(* What has room for n has room for fewer. *)
LEMMA LessRoom ==
    ASSUME NEW m \in EvolutionRecord, NEW n \in Nat, NEW k \in 0..n, Room(m, n)
    PROVE  Room(m, k)
BY CallersCount DEF Room, EvolutionRecord

(* The record in memory has room for the cycles in flight, the one on disk *)
(* has room when a restart finds none, and a dead process runs none.       *)
CapInv ==
    /\ Room(mem, Flying)
    /\ disk # NoRecord => Room(disk, 0)
    /\ ~up => InFlight = {}

(* A save of a record with room, and the room there is in any record. *)
LEMMA PersistRoom ==
    ASSUME CapInv, ControlTypeOK, InFlight' \subseteq InFlight,
           NEW m \in EvolutionRecord, Room(m, Flying'), Persist(m)
    PROVE  CapInv'
<1>1. Room(m, 0)
  BY LessRoom, FlyingBoundNext
<1>2. mem' = m /\ up /\ up' = up /\ disk' \in {m, disk, NoRecord}
  BY DEF Persist
<1>3. Room(mem', Flying')
  BY <1>2
<1>4. disk' # NoRecord => Room(disk', 0)
  BY <1>1, <1>2 DEF CapInv
<1> QED
  BY <1>2, <1>3, <1>4 DEF CapInv, ControlTypeOK

(* Every kind of step leaves room in the record and in the file. *)
LEMMA CapInvStep == ControlTypeOK /\ CapInv /\ StepKind => CapInv'
<1> SUFFICES ASSUME ControlTypeOK, CapInv, StepKind PROVE CapInv'
  OBVIOUS
<1> USE FlyingBound, FlyingBoundNext, FlyingDrops, CallersCount
<1>1. CASE Begins
  <2>1. mem' = mem /\ disk' = disk /\ up' = up /\ up
    BY <1>1 DEF Begins, controlVars
  <2>2. Room(mem, Flying')
    BY <1>1 DEF Begins, MayEvolve, ControlTypeOK, EvolutionRecord, Room
  <2> QED
    BY <2>1, <2>2 DEF CapInv
<1>2. CASE Ends
  <2>1. PICK c \in InFlight : InFlight' = InFlight \ {c}
    BY <1>2 DEF Ends
  <2>2. Flying # 0 /\ Flying' = Flying - 1 /\ InFlight' \subseteq InFlight
    BY <2>1
  <2>3. Incremented(mem) \in EvolutionRecord /\ Room(Incremented(mem), Flying')
    BY <2>2, OperationRoom, OperationTypes DEF CapInv, ControlTypeOK
  <2> QED
    BY <1>2, <2>2, <2>3, PersistRoom DEF Ends, Increment
<1>3. CASE Operates
  <2>1. InFlight' = InFlight /\ Flying' = Flying
    BY <1>3 DEF Operates, Flying
  <2> USE <2>1, OperationRoom, OperationTypes, PersistRoom DEF CapInv, ControlTypeOK
  <2>2. ASSUME NEW cap \in Caps \union {NoCap}, Start(cap) PROVE CapInv'
    BY <2>2 DEF Start
  <2>3. ASSUME NEW cap \in Caps \union {NoCap}, Reset(cap) PROVE CapInv'
    BY <2>3 DEF Reset
  <2>4. CASE Pause
    BY <2>4 DEF Pause
  <2>5. CASE Resume
    BY <2>5 DEF Resume
  <2>6. CASE Stop
    BY <2>6 DEF Stop
  <2>7. CASE AutoPause
    BY <2>7 DEF AutoPause
  <2>8. CASE RestartControl
    <3>1. up' = TRUE /\ mem' = LoadPersisted(disk) /\ disk' = disk
      BY <2>8 DEF RestartControl
    <3>2. Flying' = 0
      BY <2>8, FS_EmptySet DEF RestartControl, Flying
    <3>3. Room(EnvDefault, 0)
      BY EnvAssumption DEF Room, EnvDefault
    <3> QED
      BY <3>1, <3>2, <3>3 DEF LoadPersisted
  <2> QED
    BY <1>3, <2>2, <2>3, <2>4, <2>5, <2>6, <2>7, <2>8 DEF Operates, ControlOp
<1>4. CASE Dies
  <2>1. Flying' = 0
    BY <1>4, FS_EmptySet DEF Dies, Flying
  <2>2. Room(mem, 0)
    BY LessRoom DEF CapInv, ControlTypeOK
  <2> QED
    BY <1>4, <2>1, <2>2 DEF Dies, CrashControl, CapInv
<1>5. CASE Rests
  <2>1. mem' = mem /\ disk' = disk /\ up' = up /\ InFlight' \subseteq InFlight
    BY <1>5 DEF Rests, controlVars
  <2>2. Room(mem, Flying')
    BY <2>1, LessRoom DEF CapInv, ControlTypeOK
  <2> QED
    BY <2>1, <2>2 DEF CapInv
<1> QED
  BY <1>1, <1>2, <1>3, <1>4, <1>5 DEF StepKind

(* While the machine runs nothing is counted against a halt, and a cycle   *)
(* begins only then: those in flight are all a halt can let through.       *)
HaltInv ==
    /\ mem.state = RUNNING => sinceHalt = 0
    /\ sinceHalt \in Nat
    /\ sinceHalt + Flying <= N

(* Every kind of step keeps HaltInv. *)
LEMMA HaltInvStep == HaltInv /\ StepKind => HaltInv'
<1> SUFFICES ASSUME HaltInv, StepKind PROVE HaltInv'
  OBVIOUS
<1> USE FlyingBound, FlyingBoundNext, FlyingDrops, CallersCount DEF N
<1>1. CASE Begins
  BY <1>1 DEF Begins, MayEvolve, controlVars, HaltInv
<1>2. CASE Ends
  BY <1>2 DEF Ends, Counts, HaltInv
<1>3. CASE Operates
  BY <1>3 DEF Operates, Counts, HaltInv
<1>4. CASE Dies
  BY <1>4 DEF Dies, CrashControl, HaltInv
<1>5. CASE Rests
  BY <1>5 DEF Rests, controlVars, HaltInv
<1> QED
  BY <1>1, <1>2, <1>3, <1>4, <1>5 DEF StepKind

CycleInv == GateInv /\ ControlInv /\ CapInv /\ HaltInv

(* The whole invariant holds at the first start. *)
LEMMA CycleInvInit == Init => CycleInv
<1> SUFFICES ASSUME Init PROVE CycleInv
  OBVIOUS
<1>1. ControlInv
  BY ControlInitInv DEF Init
<1>2. InFlight = {} /\ Flying = 0
  BY FS_EmptySet DEF Init, InFlight, Flying
<1>3. CapInv
  BY <1>2, CallersCount, EnvAssumption
     DEF Init, ControlInit, CapInv, Room, EnvDefault
<1>4. HaltInv
  BY <1>2, CallersCount DEF Init, HaltInv
<1> QED
  BY <1>1, <1>3, <1>4, GateInvInit DEF CycleInv

(* CycleInv holds in every state of the cycle. *)
THEOREM CycleInvariant == Spec => []CycleInv
<1>1. CycleInv /\ [Next]_vars => CycleInv'
  BY StepKinds, GateInvStep, ControlStepKept, CapInvStep, HaltInvStep
     DEF CycleInv, GateInv, ControlInv
<1> QED
  BY <1>1, CycleInvInit, PTL DEF Spec

(* The types of the cycle and of the state machine it runs under. *)
THEOREM TypeCorrect == Spec => []TypeOK
<1>1. CycleInv => TypeOK
  BY DEF CycleInv, GateInv, CycleTypes, ControlInv, HaltInv, TypeOK
<1> QED
  BY <1>1, CycleInvariant, PTL

(* The cap is overshot by less than the number of threads. *)
THEOREM CapOvershootCorrect == Spec => []CapOvershootBounded
<1>1. CycleInv => CapOvershootBounded
  <2> SUFFICES ASSUME CycleInv PROVE mem.iterations < mem.cap + N
    BY DEF CapOvershootBounded, N
  <2> QED
    BY FlyingBound, CallersCount
       DEF CycleInv, ControlInv, ControlTypeOK, EvolutionRecord, CapInv, Room
<1> QED
  BY <1>1, CycleInvariant, PTL

(* A halt lets at most one cycle per thread be counted. *)
THEOREM HaltBoundsCyclesCorrect == Spec => []HaltBoundsCycles
<1>1. CycleInv => HaltBoundsCycles
  BY FlyingBound, CallersCount DEF CycleInv, HaltInv, HaltBoundsCycles, N
<1> QED
  BY <1>1, CycleInvariant, PTL

-----------------------------------------------------------------------------
(* The gate of the cycle implements ApprovalGate.  A step that leaves the  *)
(* store and the fates alone leaves the phases alone; one that empties the *)
(* store loses every request that was asked.                               *)
PhaseStep == Abstract!GateNext \/ UNCHANGED GatePhase

(* The store and the fates unchanged. *)
LEMMA SameGate == UNCHANGED <<store, fate>> => PhaseStep
BY DEF PhaseStep, GatePhase, PhaseOf, Working

(* The store emptied. *)
LEMMA StoreLost ==
    ASSUME GateInv, store' = {}, UNCHANGED fate
    PROVE  PhaseStep
<1> USE DEF GateInv, CycleTypes, Fates, PendingUndecided, GatePhase, PhaseOf, Working
<1>1. \A r \in store : GatePhase[r] \in {"asked", "approved"}
  OBVIOUS
<1>2. GatePhase' = [r \in Ids |-> IF r \in store THEN "lost" ELSE GatePhase[r]]
  OBVIOUS
<1>3. store \in SUBSET Ids
  OBVIOUS
<1> QED
  BY <1>1, <1>2, <1>3 DEF PhaseStep, Abstract!GateNext, Abstract!Lose

(* Every action is a step of ApprovalGate or changes no phase. *)
LEMMA GateStepRefines == GateInv /\ [Next]_vars => PhaseStep
<1> SUFFICES ASSUME GateInv, [Next]_vars PROVE PhaseStep
  OBVIOUS
<1> USE DEF GateInv, CycleTypes, Fates, PendingUndecided, GatePhase, PhaseOf, Working,
            PhaseStep
<1>1. ASSUME NEW c \in Callers, BeginCycle(c) PROVE PhaseStep
  BY <1>1, SameGate DEF BeginCycle, OutsideCycle, gateVars
<1>2. ASSUME NEW c \in Callers, RefuseAtCap(c) PROVE PhaseStep
  BY <1>2, SameGate DEF RefuseAtCap, gateVars
<1>3. ASSUME NEW c \in Callers, SearchMisses(c) PROVE PhaseStep
  BY <1>3, SameGate DEF SearchMisses, OutsideCycle, gateVars
<1>4. ASSUME NEW c \in Callers, FindsLocal(c) PROVE PhaseStep
  BY <1>4, SameGate DEF FindsLocal, OutsideCycle, gateVars
<1>5. ASSUME NEW c \in Callers, FindsInstalled(c) PROVE PhaseStep
  BY <1>5, SameGate DEF FindsInstalled, OutsideCycle, gateVars
<1>6. ASSUME NEW c \in Callers, BeginClone(c) PROVE PhaseStep
  BY <1>6, SameGate DEF BeginClone, OutsideCycle, gateVars
<1>7. ASSUME NEW c \in Callers, EndClone(c) PROVE PhaseStep
  BY <1>7, SameGate DEF EndClone, OutsideCycle, gateVars
<1>8. ASSUME NEW c \in Callers, CloneFails(c) PROVE PhaseStep
  BY <1>8, SameGate DEF CloneFails, OutsideCycle, gateVars
<1>9. ASSUME NEW c \in Callers, GateSkipped(c) PROVE PhaseStep
  BY <1>9, SameGate DEF GateSkipped, OutsideCycle, gateVars
<1>10. ASSUME NEW c \in Callers, GateAsks(c) PROVE PhaseStep
  <2>1. PICK id \in Unused : /\ store' = store \union {id}
                             /\ fate' = [fate EXCEPT ![id] = "pending"]
    BY <1>10 DEF GateAsks
  <2>2. GatePhase' = [GatePhase EXCEPT ![id] = "asked"] /\ GatePhase[id] = "new"
    BY <2>1 DEF Unused
  <2> QED
    BY <2>1, <2>2 DEF Unused, Abstract!GateNext, Abstract!Ask, Abstract!Moves
<1>11. ASSUME NEW c \in Callers, GateRaises(c) PROVE PhaseStep
  <2>1. CASE store' = store
    BY <1>11, <2>1, SameGate DEF GateRaises
  <2>2. CASE store' = {}
    BY <1>11, <2>2, StoreLost DEF GateRaises
  <2> QED
    BY <1>11, <2>1, <2>2 DEF GateRaises
<1>12. ASSUME NEW c \in Callers, PipelineInstalls(c) PROVE PhaseStep
  BY <1>12, SameGate DEF PipelineInstalls, OutsideCycle, gateVars
<1>13. ASSUME NEW c \in Callers, CriticRejects(c) PROVE PhaseStep
  BY <1>13, SameGate DEF CriticRejects, OutsideCycle, gateVars
<1>14. ASSUME NEW c \in Callers, PipelineFails(c) PROVE PhaseStep
  BY <1>14, SameGate DEF PipelineFails, OutsideCycle, gateVars
<1>15. ASSUME NEW c \in Callers, LegacyInstalls(c) PROVE PhaseStep
  BY <1>15, SameGate DEF LegacyInstalls, OutsideCycle, gateVars
<1>16. ASSUME NEW c \in Callers, LegacyFails(c) PROVE PhaseStep
  BY <1>16, SameGate DEF LegacyFails, OutsideCycle, gateVars
<1>17. ASSUME NEW c \in Callers, CountIteration(c) PROVE PhaseStep
  BY <1>17, SameGate DEF CountIteration, gateVars
<1>18. ASSUME NEW id \in Ids, Approve(id) PROVE PhaseStep
  <2>1. GatePhase' = [GatePhase EXCEPT ![id] = "approved"] /\ GatePhase[id] = "asked"
    BY <1>18 DEF Approve
  <2> QED
    BY <2>1 DEF Abstract!GateNext, Abstract!Approve, Abstract!Moves
<1>19. ASSUME NEW id \in Ids, Reject(id) PROVE PhaseStep
  <2>1. GatePhase' = [GatePhase EXCEPT ![id] = "rejected"] /\ GatePhase[id] = "asked"
    BY <1>19 DEF Reject
  <2> QED
    BY <2>1 DEF Abstract!GateNext, Abstract!Reject, Abstract!Moves
<1>20. ASSUME NEW id \in Ids, TapTearsStore(id) PROVE PhaseStep
  BY <1>20, StoreLost DEF TapTearsStore
<1>21. ASSUME NEW id \in Ids, WorkerInstalls(id) PROVE PhaseStep
  <2>1. GatePhase' = [GatePhase EXCEPT ![id] = "finished"] /\ GatePhase[id] = "approved"
    BY <1>21 DEF WorkerInstalls, EndsAs
  <2> QED
    BY <2>1 DEF Abstract!GateNext, Abstract!Finish, Abstract!Moves
<1>22. ASSUME NEW id \in Ids, WorkerRejected(id) PROVE PhaseStep
  <2>1. GatePhase' = [GatePhase EXCEPT ![id] = "finished"] /\ GatePhase[id] = "approved"
    BY <1>22 DEF WorkerRejected, EndsAs
  <2> QED
    BY <2>1 DEF Abstract!GateNext, Abstract!Finish, Abstract!Moves
<1>23. ASSUME NEW id \in Ids, WorkerFallsBack(id) PROVE PhaseStep
  BY <1>23 DEF WorkerFallsBack, EndsAs
<1>24. ASSUME NEW id \in Ids, WorkerLegacy(id) PROVE PhaseStep
  <2>1. GatePhase' = [GatePhase EXCEPT ![id] = "finished"] /\ GatePhase[id] = "approved"
    BY <1>24 DEF WorkerLegacy, EndsAs
  <2> QED
    BY <2>1 DEF Abstract!GateNext, Abstract!Finish, Abstract!Moves
<1>25. CASE Control
  BY <1>25, SameGate DEF Control, gateVars
<1>26. CASE TriggerChecks
  BY <1>26, SameGate DEF TriggerChecks, gateVars
<1>27. ASSUME NEW cap \in Caps, TriggerStarts(cap) PROVE PhaseStep
  BY <1>27, SameGate DEF TriggerStarts, gateVars
<1>28. CASE TriggerRaises
  BY <1>28, SameGate DEF TriggerRaises, gateVars
<1>29. CASE TriggerReturns
  BY <1>29, SameGate DEF TriggerReturns, gateVars
<1>30. CASE Crash
  <2> DEFINE S == {id \in Ids : Working(id)}
  <2>1. \A r \in S : GatePhase[r] = "approved"
    OBVIOUS
  <2>2. GatePhase' = [r \in Ids |-> IF r \in S THEN "lost" ELSE GatePhase[r]]
    BY <1>30 DEF Crash
  <2> QED
    BY <2>1, <2>2 DEF Abstract!GateNext, Abstract!Lose
<1>31. CASE Restart
  BY <1>31, SameGate DEF Restart, gateVars
<1>32. CASE UNCHANGED vars
  BY <1>32 DEF vars, gateVars
<1> HIDE DEF GateInv, CycleTypes, PendingUndecided, GatePhase, PhaseOf, PhaseStep
<1>33. ASSUME NEW c \in Callers, CallerStep(c) PROVE PhaseStep
  BY <1>3, <1>4, <1>5, <1>6, <1>7, <1>8, <1>9, <1>10,
     <1>11, <1>12, <1>13, <1>14, <1>15, <1>16, <1>17, <1>33 DEF CallerStep, Tier1, Gate, Tier2
<1>34. ASSUME NEW id \in Ids, Worker(id) PROVE PhaseStep
  BY <1>21, <1>22, <1>23, <1>24, <1>34 DEF Worker
<1>35. CASE Trigger
  BY <1>26, <1>27, <1>28, <1>29, <1>35 DEF Trigger
<1> QED
  BY <1>1, <1>2, <1>18, <1>19, <1>20, <1>25, <1>30, <1>31, <1>32, <1>33, <1>34, <1>35
     DEF Next

(* A request is asked once, decided at most once, and acted upon at most   *)
(* once and only if approved, across crashes and damaged files.            *)
THEOREM GateImplements == Spec => ImplementsGate
<1>1. Init => Abstract!GateInit
  <2> SUFFICES ASSUME Init PROVE Abstract!GateInit
    OBVIOUS
  <2>1. ASSUME NEW id \in Ids PROVE PhaseOf(id) = "new"
    <3>1. fate[id] = "unused"
      BY DEF Init
    <3> QED
      BY <3>1 DEF PhaseOf, Working
  <2> QED
    BY <2>1 DEF GatePhase, Abstract!GateInit
<1>2. GateInv /\ [Next]_vars => [Abstract!GateNext]_GatePhase
  BY GateStepRefines DEF PhaseStep
<1> QED
  BY <1>1, <1>2, GateInvariant, PTL DEF Spec, ImplementsGate, Abstract!GateSpec
=============================================================================
