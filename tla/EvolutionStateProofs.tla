------------------------ MODULE EvolutionStateProofs ------------------------
(***************************************************************************)
(* Proofs about the evolution state machine, for every set of caps, every  *)
(* environment and with or without save faults: the types, and that the    *)
(* file always holds what a restart needs.                                 *)
(***************************************************************************)
EXTENDS EvolutionState, TLAPS

(* What is true of the record whoever holds it, and of the file. *)
StampsOf(m) ==
    /\ m.state = RUNNING => ~m.paused_at /\ ~m.stopped_at
    /\ m.state = PAUSED => m.paused_at /\ ~m.stopped_at

ControlInv ==
    /\ ControlTypeOK
    /\ StampsOf(mem)
    /\ disk # NoRecord => StampsOf(disk)
    /\ DiskMirrorsMemory

-----------------------------------------------------------------------------
(* The environment's defaults are a record with its stamps in order. *)
LEMMA EnvDefaultType == EnvDefault \in EvolutionRecord /\ StampsOf(EnvDefault)
BY EnvAssumption
   DEF EnvDefault, EvolutionRecord, States, StampsOf, RUNNING, PAUSED, STOPPED

(* max(1, cap) is a positive number for every cap a client passes. *)
LEMMA AtLeastOneType ==
    ASSUME NEW cap \in Int
    PROVE  AtLeastOne(cap) \in Nat \ {0}
BY DEF AtLeastOne

(* A call of start() or reset() gets None or a cap a client may pass. *)
LEMMA CapArgument ==
    ASSUME NEW cap \in Caps \union {NoCap}, cap # NoCap
    PROVE  cap \in Int
BY CapsAssumption

(* Every operation maps a record to a record. *)
LEMMA OperationTypes ==
    ASSUME NEW m \in EvolutionRecord, NEW cap \in Caps \union {NoCap}
    PROVE  /\ Incremented(m) \in EvolutionRecord
           /\ Started(m, cap) \in EvolutionRecord
           /\ Paused(m) \in EvolutionRecord
           /\ Resumed(m) \in EvolutionRecord
           /\ StoppedNow(m) \in EvolutionRecord
           /\ ResetTo(m, cap) \in EvolutionRecord
<1>1. cap # NoCap => AtLeastOne(cap) \in Nat
    BY CapArgument, AtLeastOneType
<1>2. m.iterations + CapBump \in Nat
    BY CapBumpAssumption DEF EvolutionRecord
<1> USE DEF EvolutionRecord, States, RUNNING, PAUSED, STOPPED
<1>3. Incremented(m) \in EvolutionRecord
    BY DEF Incremented
<1>4. Started(m, cap) \in EvolutionRecord
    BY <1>1 DEF Started
<1>5. Paused(m) \in EvolutionRecord
    BY DEF Paused
<1>6. Resumed(m) \in EvolutionRecord
    BY <1>2 DEF Resumed
<1>7. StoppedNow(m) \in EvolutionRecord
    BY DEF StoppedNow
<1>8. ResetTo(m, cap) \in EvolutionRecord
    BY <1>1 DEF ResetTo
<1>9. QED
    BY <1>3, <1>4, <1>5, <1>6, <1>7, <1>8

(* ... and keeps the stamps in order, from the state it is allowed in. *)
LEMMA OperationStamps ==
    ASSUME NEW m \in EvolutionRecord, NEW cap \in Caps \union {NoCap}, StampsOf(m)
    PROVE  /\ StampsOf(Incremented(m))
           /\ StampsOf(Started(m, cap))
           /\ m.state = RUNNING => StampsOf(Paused(m))
           /\ m.state = PAUSED => StampsOf(Resumed(m))
           /\ StampsOf(StoppedNow(m))
           /\ StampsOf(ResetTo(m, cap))
BY DEF EvolutionRecord, States, RUNNING, PAUSED, STOPPED, StampsOf, Incremented,
       Started, Paused, Resumed, StoppedNow, ResetTo

(* Whatever the save does, the invariant is that of the new record. *)
LEMMA PersistInv ==
    ASSUME ControlInv, NEW m \in EvolutionRecord, StampsOf(m), Persist(m)
    PROVE  ControlInv'
<1>1. /\ up' = up
      /\ mem' = m
    BY DEF Persist
<1>2. m # NoRecord
    BY RecordAssumption
<1>3. CASE disk' = m /\ saved' = TRUE
    BY <1>1, <1>2, <1>3
    DEF ControlInv, ControlTypeOK, DiskMirrorsMemory, LoadPersisted, StampsOf
<1>4. CASE disk' \in {disk, NoRecord} /\ saved' = FALSE
    BY <1>1, <1>4 DEF ControlInv, ControlTypeOK, DiskMirrorsMemory, StampsOf
<1>5. QED
    BY <1>3, <1>4 DEF Persist

(* A supervision control keeps the invariant. *)
LEMMA ControlOpInv ==
    ASSUME ControlInv, ControlOp
    PROVE  ControlInv'
<1> USE DEF ControlInv, ControlTypeOK
<1>1. ASSUME NEW cap \in Caps \union {NoCap}, Start(cap) PROVE ControlInv'
    BY <1>1, OperationTypes, OperationStamps, PersistInv DEF Start
<1>2. ASSUME NEW cap \in Caps \union {NoCap}, Reset(cap) PROVE ControlInv'
    BY <1>2, OperationTypes, OperationStamps, PersistInv DEF Reset
<1>3. CASE Pause
    BY <1>3, OperationTypes, OperationStamps, PersistInv DEF Pause
<1>4. CASE Resume
    BY <1>4, OperationTypes, OperationStamps, PersistInv DEF Resume
<1>5. CASE Stop
    BY <1>5, OperationTypes, OperationStamps, PersistInv DEF Stop
<1>6. QED
    BY <1>1, <1>2, <1>3, <1>4, <1>5 DEF ControlOp

(* The automatic pause at the cap and the count of an iteration keep it. *)
LEMMA CycleOpInv ==
    ASSUME ControlInv, AutoPause \/ Increment
    PROVE  ControlInv'
<1> USE DEF ControlInv, ControlTypeOK
<1>1. CASE AutoPause
    BY <1>1, OperationTypes, OperationStamps, PersistInv DEF AutoPause
<1>2. CASE Increment
    BY <1>2, OperationTypes, OperationStamps, PersistInv DEF Increment
<1>3. QED
    BY <1>1, <1>2

(* A crash and a restart keep it: the file is all the new process has. *)
LEMMA CrashRestartInv ==
    ASSUME ControlInv, CrashControl \/ RestartControl
    PROVE  ControlInv'
<1>1. CASE CrashControl
    BY <1>1 DEF CrashControl, ControlInv, ControlTypeOK, DiskMirrorsMemory, StampsOf
<1>2. CASE RestartControl
    BY <1>2, EnvDefaultType
    DEF RestartControl, ControlInv, ControlTypeOK, DiskMirrorsMemory, LoadPersisted, StampsOf
<1>3. QED
    BY <1>1, <1>2

(* The invariant holds at the first start. *)
LEMMA ControlInitInv == ControlInit => ControlInv
BY EnvDefaultType
   DEF ControlInit, ControlInv, ControlTypeOK, DiskMirrorsMemory, LoadPersisted, StampsOf

(* Every step of the state machine keeps the invariant. *)
LEMMA ControlStepInv == ControlInv /\ [ControlNext]_controlVars => ControlInv'
<1> SUFFICES ASSUME ControlInv, [ControlNext]_controlVars
             PROVE  ControlInv'
    OBVIOUS
<1>1. CASE ControlOp
    BY <1>1, ControlOpInv
<1>2. CASE AutoPause \/ Increment
    BY <1>2, CycleOpInv
<1>3. CASE CrashControl \/ RestartControl
    BY <1>3, CrashRestartInv
<1>4. CASE UNCHANGED controlVars
    BY <1>4
    DEF controlVars, ControlInv, ControlTypeOK, DiskMirrorsMemory, StampsOf
<1>5. QED
    BY <1>1, <1>2, <1>3, <1>4 DEF ControlNext

(* ControlInv is an invariant of the state machine. *)
LEMMA ControlInvariant == ControlSpec => []ControlInv
BY ControlInitInv, ControlStepInv, PTL DEF ControlSpec

-----------------------------------------------------------------------------
(* The record in memory and the one on disk always have the code's types. *)
THEOREM ControlTypeCorrect == ControlSpec => []ControlTypeOK
<1>1. ControlInv => ControlTypeOK
    BY DEF ControlInv
<1>2. QED
    BY <1>1, ControlInvariant, PTL

(* The two stamps always agree with the state they belong to. *)
THEOREM StampsCorrect == ControlSpec => []StampsMatchState
<1>1. ControlInv => StampsMatchState
    BY DEF ControlInv, StampsOf, StampsMatchState
<1>2. QED
    BY <1>1, ControlInvariant, PTL

(* Memory and file agree whenever the last save went through. *)
THEOREM DiskCorrect == ControlSpec => []DiskMirrorsMemory
<1>1. ControlInv => DiskMirrorsMemory
    BY DEF ControlInv
<1>2. QED
    BY <1>1, ControlInvariant, PTL

(* A restart brings back the record the dead process had, provided its     *)
(* last save went through: every control the operator used is durable.     *)
THEOREM RestartKeepsControl == ControlSpec => DurableControl
<1>1. ASSUME ControlInv, [ControlNext]_controlVars, ~up, up', saved
      PROVE  mem' = mem
    <2>1. CASE RestartControl
        BY <1>1, <2>1 DEF RestartControl, ControlInv, DiskMirrorsMemory
    <2>2. ~CrashControl /\ ~ControlOp /\ ~AutoPause /\ ~Increment
        BY <1>1
        DEF CrashControl, ControlOp, AutoPause, Increment, Start, Reset, Pause, Resume,
            Stop, Persist
    <2>3. CASE UNCHANGED controlVars
        BY <2>3 DEF controlVars
    <2>4. QED
        BY <1>1, <2>1, <2>2, <2>3 DEF ControlNext
<1>2. ControlInv /\ [ControlNext]_controlVars
          => [~up /\ up' /\ saved => mem' = mem]_controlVars
    BY <1>1
<1>3. QED
    BY <1>2, ControlInvariant, PTL DEF ControlSpec, DurableControl
=============================================================================
