----------------------------- MODULE Evolution ------------------------------
(***************************************************************************)
(* The evolution cycle: Tier 1 acquisition (evolver.py), the approval gate *)
(* of ADR-021 (evolution_hook.py, pending_synthesis.py), Tier 2 synthesis  *)
(* (evolution_hook.py, code_synthesizer.py) and the state machine that     *)
(* supervises it (evolution_state.py), as they interleave in one process:  *)
(*                                                                         *)
(*   Callers  the threads that call maybe_evolve: Think-at-Rest and goal   *)
(*            discovery.  Each runs one cycle at a time, and nothing keeps *)
(*            two of them from running at once;                            *)
(*   workers  one daemon thread per approved synthesis;                    *)
(*   clients  the API (control, trigger) and the user's taps in Telegram.  *)
(*                                                                         *)
(* A cycle is about one skill.  A skill directory is absent, partial (it   *)
(* exists without a usable SKILL.md) or complete.  The evolution log and   *)
(* the messages to the user are left out, except whether the approval      *)
(* message was delivered: without it nobody can tap.                       *)
(***************************************************************************)
EXTENDS EvolutionState, FiniteSets

CONSTANTS
    Callers,        \* threads that run evolution cycles
    Skills,         \* skills the tasks are about
    NoTask,         \* the task of a thread that runs no cycle
    LocalSkills,    \* found in the ecosystem, no allowlisted repository
    RemoteSkills,   \* found in the ecosystem, with an allowlisted repository
    ChatCallers,    \* callers that know a Telegram chat to ask
    Ids,            \* synthesis ids
    GateFaults,     \* whether the gate may raise (config.yaml, the store)
    Crashes         \* whether the process may crash

ASSUME CallersAssumption == IsFiniteSet(Callers) /\ Callers # {}
ASSUME SkillsAssumption == LocalSkills \subseteq Skills /\ RemoteSkills \subseteq Skills
ASSUME TaskAssumption == NoTask \notin Skills
ASSUME ChatAssumption == ChatCallers \subseteq Callers
ASSUME SwitchAssumption == GateFaults \in BOOLEAN /\ Crashes \in BOOLEAN

VARIABLES
    pc,         \* where each caller is in maybe_evolve
    task,       \* the skill its cycle is about
    skill,      \* the skill directories under private/skills
    store,      \* the ids in pending_synthesis.json
    shown,      \* the ids whose approval message was delivered
    fate,       \* what became of each id
    trigger,    \* where POST /evolution/trigger is
    sinceHalt   \* cycles that counted a skill since the machine left RUNNING

cycleVars == <<pc, task>>
gateVars == <<store, shown, fate>>
vars == <<controlVars, cycleVars, skill, gateVars, trigger, sinceHalt>>

Stages == {"idle", "search", "clone", "gate", "pipeline", "legacy", "count"}
Fates == {"unused", "pending", "pipeline", "legacy", "finished", "rejected", "lost"}

InFlight == {c \in Callers : pc[c] # "idle"}
Unused == {id \in Ids : fate[id] = "unused"}
Working(id) == fate[id] \in {"pipeline", "legacy"}

(* The bound of the model on requests: a cycle that may ask needs an id. *)
IdLeft(c) == c \in ChatCallers => Cardinality(InFlight) < Cardinality(Unused)

-----------------------------------------------------------------------------
(* Building blocks: a caller goes on, a worker goes on, the halted count.  *)

Goto(c, stage) == pc' = [pc EXCEPT ![c] = stage] /\ UNCHANGED task

(* The cycle has a skill to report: found, acquired or synthesised, or one *)
(* that was there before.                                                  *)
Found(c) == Goto(c, "count")

(* maybe_evolve returns. *)
Returns(c) ==
    /\ pc' = [pc EXCEPT ![c] = "idle"]
    /\ task' = [task EXCEPT ![c] = NoTask]

EndsAs(id, f) == fate' = [fate EXCEPT ![id] = f] /\ UNCHANGED <<store, shown>>

Counts(n) == sinceHalt' = IF mem'.state = RUNNING THEN 0 ELSE sinceHalt + n

(* A directory is written in full, or left with whatever was written. *)
WritesSkill(s) == skill' = [skill EXCEPT ![s] = "complete"]

MayLeavePartial(s) ==
    \/ UNCHANGED skill
    \/ SaveFaults /\ skill' = [skill EXCEPT ![s] = "partial"]

(* CodeSynthesizer.install does nothing when the directory exists. *)
InstallsIfAbsent(s) ==
    skill' = [skill EXCEPT ![s] = IF @ = "absent" THEN "complete" ELSE @]

OutsideCycle == UNCHANGED <<controlVars, gateVars, trigger, sinceHalt>>

-----------------------------------------------------------------------------
(* maybe_evolve: the switch of the environment, then the check of the      *)
(* state machine, and its refusal at the cap, which pauses.  The cycle     *)
(* runs after the lock is released.                                        *)
BeginCycle(c) ==
    /\ EnvEnabled
    /\ up /\ pc[c] = "idle" /\ MayEvolve /\ IdLeft(c)
    /\ \E s \in Skills : task' = [task EXCEPT ![c] = s]
    /\ pc' = [pc EXCEPT ![c] = "search"]
    /\ UNCHANGED skill /\ OutsideCycle

RefuseAtCap(c) ==
    /\ EnvEnabled /\ pc[c] = "idle"
    /\ AutoPause /\ Counts(0)
    /\ UNCHANGED <<cycleVars, skill, gateVars, trigger>>

(* Evolver.run.  Verification may reject any candidate; the clone of a     *)
(* repository takes up to 60 seconds, with the directory already there.    *)
SearchMisses(c) ==
    /\ up /\ pc[c] = "search"
    /\ Goto(c, "gate")
    /\ UNCHANGED skill /\ OutsideCycle

FindsLocal(c) ==
    /\ up /\ pc[c] = "search" /\ task[c] \in LocalSkills
    /\ Found(c)
    /\ UNCHANGED skill /\ OutsideCycle

FindsInstalled(c) ==
    /\ up /\ pc[c] = "search" /\ task[c] \in RemoteSkills
    /\ skill[task[c]] # "absent"
    /\ Found(c)
    /\ UNCHANGED skill /\ OutsideCycle

BeginClone(c) ==
    /\ up /\ pc[c] = "search" /\ task[c] \in RemoteSkills
    /\ skill[task[c]] = "absent"
    /\ skill' = [skill EXCEPT ![task[c]] = "partial"]
    /\ Goto(c, "clone")
    /\ OutsideCycle

EndClone(c) ==
    /\ up /\ pc[c] = "clone"
    /\ WritesSkill(task[c]) /\ Found(c)
    /\ OutsideCycle

(* git removes what it cloned; a clone killed by the timeout stays.        *)
CloneFails(c) ==
    /\ up /\ pc[c] = "clone"
    /\ \E left \in {"absent", "partial"} : skill' = [skill EXCEPT ![task[c]] = left]
    /\ Goto(c, "gate")
    /\ OutsideCycle

Tier1(c) ==
    \/ SearchMisses(c) \/ FindsLocal(c) \/ FindsInstalled(c)
    \/ BeginClone(c) \/ EndClone(c) \/ CloneFails(c)

-----------------------------------------------------------------------------
(* The gate of _try_tier2_pipeline.  With no chat to ask, synthesis goes   *)
(* on unguarded; else the request is stored and the cycle ends.  Whatever  *)
(* raises up to there (reading config.yaml, building the provider, storing *)
(* the request) is caught by the handler of the whole function, which runs *)
(* the legacy synthesis as if it were approved.                            *)
GateSkipped(c) ==
    /\ up /\ pc[c] = "gate" /\ c \notin ChatCallers
    /\ Goto(c, "pipeline")
    /\ UNCHANGED skill /\ OutsideCycle

GateAsks(c) ==
    /\ up /\ pc[c] = "gate" /\ c \in ChatCallers
    /\ \E id \in Unused :
        /\ store' = store \union {id}
        /\ fate' = [fate EXCEPT ![id] = "pending"]
        /\ \/ shown' = shown \union {id}
           \/ UNCHANGED shown          \* the message could not be sent
    /\ Returns(c)
    /\ UNCHANGED <<controlVars, skill, trigger, sinceHalt>>

GateRaises(c) ==
    /\ GateFaults
    /\ up /\ pc[c] = "gate"
    /\ store' \in IF c \in ChatCallers THEN {store, {}} ELSE {store}
    /\ Goto(c, "legacy")
    /\ UNCHANGED <<controlVars, skill, shown, fate, trigger, sinceHalt>>

Gate(c) == GateSkipped(c) \/ GateAsks(c) \/ GateRaises(c)

-----------------------------------------------------------------------------
(* Tier 2 in a cycle.  The drafter/critic pipeline overwrites the skill it *)
(* installs; an exception or a draft too short falls back to the legacy    *)
(* synthesis, which installs nothing over an existing directory and still  *)
(* reports it installed.  The model that synthesises names the skill, so   *)
(* it can be any, not only the one the task was about.                     *)
PipelineInstalls(c) ==
    /\ up /\ pc[c] = "pipeline"
    /\ \E s \in Skills : WritesSkill(s) /\ Found(c)
    /\ OutsideCycle

CriticRejects(c) ==
    /\ up /\ pc[c] = "pipeline"
    /\ Returns(c)
    /\ UNCHANGED skill /\ OutsideCycle

PipelineFails(c) ==
    /\ up /\ pc[c] = "pipeline"
    /\ \E s \in Skills : MayLeavePartial(s)
    /\ Goto(c, "legacy")
    /\ OutsideCycle

LegacyInstalls(c) ==
    /\ up /\ pc[c] = "legacy"
    /\ \E s \in Skills : InstallsIfAbsent(s) /\ Found(c)
    /\ OutsideCycle

(* Mutant: a failed synthesis is tried again from the start, forever. *)
LegacyRetries(c) ==
    /\ up /\ pc[c] = "legacy"
    /\ Goto(c, "pipeline")
    /\ UNCHANGED skill /\ OutsideCycle

LegacyFails(c) ==
    /\ up /\ pc[c] = "legacy"
    /\ Returns(c)
    /\ UNCHANGED skill /\ OutsideCycle

Tier2(c) ==
    \/ PipelineInstalls(c) \/ CriticRejects(c) \/ PipelineFails(c)
    \/ LegacyInstalls(c) \/ LegacyFails(c)

(* found and installed: the cycle is counted against the cap.              *)
CountIteration(c) ==
    /\ pc[c] = "count"
    /\ Increment /\ Counts(1)
    /\ Returns(c)
    /\ UNCHANGED <<skill, gateVars, trigger>>

-----------------------------------------------------------------------------
(* The user's taps.  remove() is atomic and returns the record to one tap  *)
(* only; a tap on a request that is no longer stored does nothing.         *)
(* Mutants: the record stays in the file; the record is not looked for. *)
ApproveKeepsRecord(id) ==
    /\ up /\ id \in store \intersect shown
    /\ fate' = [fate EXCEPT ![id] = "pipeline"]
    /\ UNCHANGED <<controlVars, cycleVars, skill, store, shown, trigger, sinceHalt>>

ApproveUnchecked(id) ==
    /\ up /\ id \in shown
    /\ store' = store \ {id}
    /\ fate' = [fate EXCEPT ![id] = "pipeline"]
    /\ UNCHANGED <<controlVars, cycleVars, skill, shown, trigger, sinceHalt>>

Approve(id) ==
    /\ up /\ id \in store \intersect shown
    /\ store' = store \ {id}
    /\ fate' = [fate EXCEPT ![id] = "pipeline"]
    /\ UNCHANGED <<controlVars, cycleVars, skill, shown, trigger, sinceHalt>>

Reject(id) ==
    /\ up /\ id \in store \intersect shown
    /\ store' = store \ {id}
    /\ fate' = [fate EXCEPT ![id] = "rejected"]
    /\ UNCHANGED <<controlVars, cycleVars, skill, shown, trigger, sinceHalt>>

(* The file cannot be rewritten: the tap raises, and every record is gone. *)
TapTearsStore(id) ==
    /\ SaveFaults
    /\ up /\ id \in store \intersect shown
    /\ store' = {}
    /\ UNCHANGED <<controlVars, cycleVars, skill, shown, fate, trigger, sinceHalt>>

(* The thread of an approved synthesis: the same pipeline, never counted   *)
(* and never checked against the state machine.                            *)
WorkerInstalls(id) ==
    /\ up /\ fate[id] = "pipeline"
    /\ \E s \in Skills : WritesSkill(s)
    /\ EndsAs(id, "finished")
    /\ UNCHANGED <<controlVars, cycleVars, trigger, sinceHalt>>

WorkerRejected(id) ==
    /\ up /\ fate[id] = "pipeline"
    /\ EndsAs(id, "finished")
    /\ UNCHANGED <<controlVars, cycleVars, skill, trigger, sinceHalt>>

(* Mutant: an exception of the pipeline ends the thread. *)
WorkerDies(id) ==
    /\ up /\ fate[id] = "pipeline"
    /\ EndsAs(id, "lost")
    /\ UNCHANGED <<controlVars, cycleVars, skill, trigger, sinceHalt>>

WorkerFallsBack(id) ==
    /\ up /\ fate[id] = "pipeline"
    /\ \E s \in Skills : MayLeavePartial(s)
    /\ EndsAs(id, "legacy")
    /\ UNCHANGED <<controlVars, cycleVars, trigger, sinceHalt>>

WorkerLegacy(id) ==
    /\ up /\ fate[id] = "legacy"
    /\ (\E s \in Skills : InstallsIfAbsent(s)) \/ UNCHANGED skill
    /\ EndsAs(id, "finished")
    /\ UNCHANGED <<controlVars, cycleVars, trigger, sinceHalt>>

Worker(id) ==
    WorkerInstalls(id) \/ WorkerRejected(id) \/ WorkerFallsBack(id) \/ WorkerLegacy(id)

-----------------------------------------------------------------------------
(* POST /evolution/control: one operation of the state machine.            *)
Control ==
    /\ ControlOp /\ Counts(0)
    /\ UNCHANGED <<cycleVars, skill, gateVars, trigger>>

(* POST /evolution/trigger reads the state, then starts the machine if the *)
(* client gave a cap, then refers to a name its module does not have: the  *)
(* request ends with an exception before the cycle it was for.             *)
TriggerChecks ==
    /\ up /\ trigger = "idle" /\ mem.state # STOPPED
    /\ trigger' = "checked"
    /\ UNCHANGED <<controlVars, cycleVars, skill, gateVars, sinceHalt>>

TriggerStarts(cap) ==
    /\ trigger = "checked" /\ cap # 0
    /\ trigger' = "started"
    /\ Start(cap) /\ Counts(0)
    /\ UNCHANGED <<cycleVars, skill, gateVars>>

TriggerRaises ==
    /\ up /\ trigger \in {"checked", "started"}
    /\ trigger' = "raised"
    /\ UNCHANGED <<controlVars, cycleVars, skill, gateVars, sinceHalt>>

TriggerReturns ==
    /\ up /\ trigger = "raised"
    /\ trigger' = "idle"
    /\ UNCHANGED <<controlVars, cycleVars, skill, gateVars, sinceHalt>>

Trigger ==
    \/ TriggerChecks
    \/ \E cap \in Caps : TriggerStarts(cap)
    \/ TriggerRaises
    \/ TriggerReturns

-----------------------------------------------------------------------------
(* The process dies with all its threads; what is on disk stays.           *)
Crash ==
    /\ Crashes
    /\ CrashControl
    /\ pc' = [c \in Callers |-> "idle"]
    /\ task' = [c \in Callers |-> NoTask]
    /\ fate' = [id \in Ids |-> IF Working(id) THEN "lost" ELSE fate[id]]
    /\ trigger' = "idle"
    /\ UNCHANGED <<skill, store, shown, sinceHalt>>

Restart ==
    /\ RestartControl /\ Counts(0)
    /\ UNCHANGED <<cycleVars, skill, gateVars, trigger>>

Init ==
    /\ ControlInit
    /\ pc = [c \in Callers |-> "idle"]
    /\ task = [c \in Callers |-> NoTask]
    /\ skill = [s \in Skills |-> "absent"]
    /\ store = {}
    /\ shown = {}
    /\ fate = [id \in Ids |-> "unused"]
    /\ trigger = "idle"
    /\ sinceHalt = 0

CallerStep(c) == Tier1(c) \/ Gate(c) \/ Tier2(c) \/ CountIteration(c)

Next ==
    \/ \E c \in Callers : BeginCycle(c) \/ RefuseAtCap(c) \/ CallerStep(c)
    \/ \E id \in Ids : Approve(id) \/ Reject(id) \/ TapTearsStore(id) \/ Worker(id)
    \/ Control
    \/ Trigger
    \/ Crash
    \/ Restart

Spec == Init /\ [][Next]_vars

(* Threads and an interrupted process go on: every call they wait for (git,*)
(* the providers, the disk) ends by itself or by its timeout.  Nothing is  *)
(* assumed of the user, of the clients or of the start of new cycles.      *)
Fairness ==
    /\ \A c \in Callers : WF_vars(CallerStep(c))
    /\ \A id \in Ids : WF_vars(Worker(id))
    /\ WF_vars(Restart)

FairSpec == Spec /\ Fairness

-----------------------------------------------------------------------------
(* Types of the cycle's variables, on top of the state machine's.          *)
TypeOK ==
    /\ ControlTypeOK
    /\ pc \in [Callers -> Stages]
    /\ task \in [Callers -> Skills \union {NoTask}]
    /\ skill \in [Skills -> {"absent", "partial", "complete"}]
    /\ store \subseteq Ids
    /\ shown \subseteq Ids
    /\ fate \in [Ids -> Fates]
    /\ trigger \in {"idle", "checked", "started", "raised"}
    /\ sinceHalt \in Nat

(* The cap is checked when a cycle begins and counted when it ends, so the *)
(* threads that passed the check together overshoot it: by one less than   *)
(* there are threads and never by more, whatever starts, resets, restarts  *)
(* and automatic pauses come in between.                                   *)
CapOvershootBounded == mem.iterations < mem.cap + Cardinality(Callers)

(* A pause or a stop does not reach a cycle that passed the check, but it  *)
(* lets no other begin: after the machine leaves RUNNING no more cycles    *)
(* are counted than there are threads, until it is RUNNING again.          *)
HaltBoundsCycles == sinceHalt <= Cardinality(Callers)

(* A stored request is one nobody has decided: a tap, a crash or a damaged *)
(* file never leaves behind a record whose synthesis ran or was rejected,  *)
(* so no second tap can run it again.                                      *)
PendingUndecided == \A id \in store : fate[id] = "pending"

(* Every cycle ends and every approved synthesis runs to its end.          *)
ApprovedFinishes == \A id \in Ids : Working(id) ~> fate[id] = "finished"
CyclesEnd == \A c \in Callers : pc[c] # "idle" ~> pc[c] = "idle"

(* The gate of the cycle, seen from outside, is ApprovalGate.              *)
PhaseOf(id) ==
    CASE fate[id] = "unused" -> "new"
      [] fate[id] = "pending" -> IF id \in store THEN "asked" ELSE "lost"
      [] Working(id) -> "approved"
      [] OTHER -> fate[id]

GatePhase == [id \in Ids |-> PhaseOf(id)]

Abstract == INSTANCE ApprovalGate WITH Requests <- Ids, phase <- GatePhase

(* A request is asked once, decided at most once, and acted upon at most   *)
(* once and only if it was approved, across crashes and damaged files.     *)
ImplementsGate == Abstract!GateSpec

-----------------------------------------------------------------------------
(* ADR-021:23, "Tier 2 synthesis MUST pause and ask the user before        *)
(* spending any tokens": a cycle that knows a chat never synthesises.      *)
SynthesisAsksFirst == \A c \in ChatCallers : pc[c] \notin {"pipeline", "legacy"}
=============================================================================
