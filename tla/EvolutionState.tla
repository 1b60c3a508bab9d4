--------------------------- MODULE EvolutionState ---------------------------
(***************************************************************************)
(* The evolution state machine and its supervision controls (ADR-004),     *)
(* src/core/evolution/evolution_state.py: one module-level record guarded  *)
(* by one lock, written to evolution_state.json by every operation that    *)
(* changes it, and loaded again when the process starts.                   *)
(*                                                                         *)
(* Every operation takes the lock for its whole body, so it is one action. *)
(* The record is volatile (mem), the file is not (disk).  While the        *)
(* process is down, mem keeps the value it had when the process died: the  *)
(* code has no such value, the properties compare a restart with it.       *)
(* The two time stamps are kept as "set" or "None"; the control log is     *)
(* in memory only, read by nothing but the status page, and left out.      *)
(***************************************************************************)
EXTENDS Integers

CONSTANTS
    Caps,         \* caps a client may pass to start() and reset()
    NoCap,        \* the argument None
    NoRecord,     \* evolution_state.json missing or not parseable
    CapBump,      \* the amount added by resume() at the cap (20 in the code)
    EnvEnabled,   \* EVOLUTION_ENABLED of the environment
    EnvCap,       \* EVOLUTION_MAX_ITERATIONS of the environment
    SaveFaults,   \* whether _save_state may fail or be cut short
    IterBound     \* bound of the model: no increment or cap bump beyond it

RUNNING == "running"
PAUSED == "paused"
STOPPED == "stopped"
States == {RUNNING, PAUSED, STOPPED}

(* The persisted record; paused_at and stopped_at say whether the stamp is set. *)
EvolutionRecord == [state : States, iterations : Nat, cap : Nat,
                    paused_at : BOOLEAN, stopped_at : BOOLEAN]

ASSUME CapsAssumption == Caps \subseteq Int /\ NoCap \notin Int
ASSUME RecordAssumption == NoRecord \notin EvolutionRecord
ASSUME CapBumpAssumption == CapBump \in Nat \ {0}
ASSUME EnvAssumption == EnvEnabled \in BOOLEAN /\ EnvCap \in Nat
ASSUME FaultAssumption == SaveFaults \in BOOLEAN
ASSUME BoundAssumption == IterBound \in Nat

VARIABLES
    up,     \* the process is running
    mem,    \* _state, _iterations, _cap, _paused_at, _stopped_at
    disk,   \* the content of evolution_state.json
    saved   \* the last _save_state completed (or none was needed yet)

controlVars == <<up, mem, disk, saved>>

-----------------------------------------------------------------------------
(* What each operation makes of the record. *)

EnvDefault == [state |-> IF EnvEnabled THEN RUNNING ELSE STOPPED,
               iterations |-> 0, cap |-> EnvCap,
               paused_at |-> FALSE, stopped_at |-> FALSE]

(* Mutant: the file is taken as it is, missing or not. *)
LoadUnchecked(d) == d

LoadPersisted(d) == IF d = NoRecord THEN EnvDefault ELSE d

(* Mutant: max(1, cap) forgotten. *)
Unclamped(cap) == cap

AtLeastOne(cap) == IF cap > 1 THEN cap ELSE 1

Incremented(m) == [m EXCEPT !.iterations = @ + 1]

Started(m, cap) ==
    [state |-> RUNNING,
     iterations |-> IF cap # NoCap \/ m.state = STOPPED THEN 0 ELSE m.iterations,
     cap |-> IF cap # NoCap THEN AtLeastOne(cap) ELSE m.cap,
     paused_at |-> FALSE, stopped_at |-> FALSE]

Paused(m) == [m EXCEPT !.state = PAUSED, !.paused_at = TRUE]

(* Mutant: resume() forgets paused_at. *)
ResumedKeepsStamp(m) ==
    [m EXCEPT !.state = RUNNING,
              !.cap = IF m.iterations >= m.cap THEN m.iterations + CapBump ELSE @]

Resumed(m) ==
    [m EXCEPT !.state = RUNNING, !.paused_at = FALSE,
              !.cap = IF m.iterations >= m.cap THEN m.iterations + CapBump ELSE @]

StoppedNow(m) == [m EXCEPT !.state = STOPPED, !.stopped_at = TRUE]

ResetTo(m, cap) ==
    [state |-> STOPPED, iterations |-> 0,
     cap |-> IF cap # NoCap THEN AtLeastOne(cap) ELSE m.cap,
     paused_at |-> FALSE, stopped_at |-> TRUE]

-----------------------------------------------------------------------------
(* _save_state truncates the file and then writes it; an exception is      *)
(* swallowed, so the operation goes on with the old file (open failed) or  *)
(* with an unparseable one (the write failed).  A process that dies inside *)
(* the save is the unparseable outcome followed by Crash.                  *)
Persist(m) ==
    /\ up
    /\ mem' = m
    /\ \/ disk' = m /\ saved' = TRUE
       \/ SaveFaults /\ disk' \in {disk, NoRecord} /\ saved' = FALSE
    /\ UNCHANGED up

(* Mutants: the cap is compared with <=; the state is not looked at. *)
MayEvolveOffByOne == mem.state = RUNNING /\ mem.iterations <= mem.cap
MayEvolveAnyState == mem.iterations < mem.cap

MayEvolve == mem.state = RUNNING /\ mem.iterations < mem.cap

(* Mutant: the pause at the cap is not persisted. *)
AutoPauseUnsaved ==
    /\ up /\ mem.state = RUNNING /\ mem.iterations >= mem.cap
    /\ mem' = Paused(mem)
    /\ UNCHANGED <<up, disk, saved>>

AutoPause == mem.state = RUNNING /\ mem.iterations >= mem.cap /\ Persist(Paused(mem))

(* Mutant: the count is not persisted. *)
IncrementUnsaved == up /\ mem' = Incremented(mem) /\ UNCHANGED <<up, disk, saved>>

Increment == Persist(Incremented(mem))

Start(cap) == Persist(Started(mem, cap))

Pause == mem.state = RUNNING /\ Persist(Paused(mem))

Resume == mem.state = PAUSED /\ Persist(Resumed(mem))

Stop == Persist(StoppedNow(mem))

Reset(cap) == Persist(ResetTo(mem, cap))

CrashControl == up /\ up' = FALSE /\ UNCHANGED <<mem, disk, saved>>

RestartControl ==
    /\ ~up
    /\ up' = TRUE
    /\ mem' = LoadPersisted(disk)
    /\ saved' = TRUE
    /\ UNCHANGED disk

(* The bound of the model on the caps that resume() hands out. *)
BumpWithinBound == mem.iterations >= mem.cap => mem.iterations + CapBump <= IterBound

ControlOp ==
    \/ \E cap \in Caps \union {NoCap} : Start(cap) \/ Reset(cap)
    \/ Pause
    \/ BumpWithinBound /\ Resume
    \/ Stop

ControlInit ==
    /\ up = TRUE
    /\ disk = NoRecord
    /\ mem = EnvDefault
    /\ saved = TRUE

ControlNext ==
    \/ ControlOp
    \/ AutoPause
    \/ mem.iterations < IterBound /\ Increment
    \/ CrashControl
    \/ RestartControl

ControlSpec == ControlInit /\ [][ControlNext]_controlVars

-----------------------------------------------------------------------------
(* The record, the file and the flags have the types the code gives them. *)
ControlTypeOK ==
    /\ up \in BOOLEAN
    /\ saved \in BOOLEAN
    /\ mem \in EvolutionRecord
    /\ disk \in EvolutionRecord \union {NoRecord}

(* The two time stamps always tell how the machine got where it is: none   *)
(* while running, only paused_at while paused, and no stamp is left behind *)
(* by a start or a resume (the dashboard shows them next to the state).    *)
StampsMatchState ==
    /\ mem.state = RUNNING => ~mem.paused_at /\ ~mem.stopped_at
    /\ mem.state = PAUSED => mem.paused_at /\ ~mem.stopped_at

(* No operation leaves the file behind the memory: as long as the last     *)
(* save went through, a process that loads the file gets exactly the       *)
(* record the running one has, whichever operation came last.              *)
DiskMirrorsMemory == saved => LoadPersisted(disk) = mem

(* A crash and a restart change nothing: the state, the counter and the    *)
(* cap the operator left are the ones the new process has, provided the    *)
(* last save went through.                                                 *)
DurableControl == [][~up /\ up' /\ saved => mem' = mem]_controlVars

=============================================================================
