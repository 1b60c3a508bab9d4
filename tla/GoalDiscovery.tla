---------------------------- MODULE GoalDiscovery ----------------------------
(***************************************************************************)
(* Goal discovery, src/src/core/pipelines/goal_discovery.py: one           *)
(* background thread that looks for patterns recurring in the log of       *)
(* unhandled texts and evolves a skill for each of them.                   *)
(*                                                                         *)
(* The texts of one pattern are counted, not kept (weight); the ring       *)
(* buffer is taken never to overflow (_MAX_LOG = 500).  The evolution log  *)
(* holds an open gap or a success under a pattern's name, or nothing; what *)
(* the thread reads of it is less: of the successes those among the 500    *)
(* newest rows of a table that all activity of the process is logged in,   *)
(* of the gaps one for each text, and that text is cut at 80 characters.   *)
(* maybe_evolve is one call with its outcomes: module Evolution has its    *)
(* inside, and ThinkAtRest the caller that promotes ideas.                 *)
(***************************************************************************)
EXTENDS Integers, Sequences, FiniteSets, SequencesExt

CONSTANTS
    Patterns,        \* the intents _extract_intent_keywords tells apart
    NoPattern,
    Asked,           \* how often each occurs in the chat history
    Threshold,       \* RECURRENCE_THRESHOLD
    PromotedWeight,  \* the weight of a promoted idea
    BootCap,         \* BOOT_PATTERN_CAP
    WeightBound,     \* bound: promotions stop above this weight
    FaultBound       \* bound: exceptions and failed writes, over all modules

ASSUME DiscoveryAssumption ==
    /\ NoPattern \notin Patterns /\ IsFiniteSet(Patterns)
    /\ Asked \in [Patterns -> Nat]
    /\ {Threshold, PromotedWeight, BootCap, WeightBound, FaultBound} \subseteq Nat

VARIABLES
    weight,     \* _interaction_log: entries of each pattern
    saved,      \* promoted_signals: weight of the rows of each pattern
    logged,     \* the evolution log under the pattern's name
    installed,  \* patterns that name an installed skill directory
    unseen,     \* patterns whose rows are out of view: too old or taken for a duplicate
    deferred,   \* _deferred_patterns
    phase,      \* where the discovery thread is
    todo,       \* the patterns left in its loop
    known,      \* known_gaps and known_resolved, as read before the loop
    trying,     \* the pattern maybe_evolve runs for
    recent,     \* _last_model_call_ts is less than 120 s old
    replicas,   \* replica.active() is not empty
    running,    \* evolution_state: running and below the cap
    faults      \* faults so far

logVars == <<weight, saved>>
threadVars == <<deferred, phase, todo, known, trying, recent>>
outcomeVars == <<logged, installed, unseen>>
discoveryVars == <<logVars, threadVars, outcomeVars, replicas, running, faults>>

Fault == faults < FaultBound /\ faults' = faults + 1

(* Patterns over the threshold, those the log holds, and of these the ones *)
(* that get_gaps and get_history(limit=500) return.                        *)
Recurring == {p \in Patterns : weight[p] >= Threshold}
Known == {p \in Patterns : logged[p] \in {"gap", "found"}}
Visible == Known \ unseen
SystemIdle == ~replicas /\ ~recent

(* weight copies of the text enter the buffer, then one row the table; a   *)
(* failing insert is logged and forgotten.                                 *)
RecordPromoted(p) ==
    /\ weight[p] + PromotedWeight <= WeightBound
    /\ weight' = [weight EXCEPT ![p] = @ + PromotedWeight]
    /\ \/ saved' = [saved EXCEPT ![p] = @ + PromotedWeight] /\ UNCHANGED faults
       \/ UNCHANGED saved /\ Fault

(* Everything that shares a keyword with the text leaves table and buffer. *)
ResolvePattern(S) ==
    /\ weight' = [p \in Patterns |-> IF p \in S THEN 0 ELSE weight[p]]
    /\ saved' = [p \in Patterns |-> IF p \in S THEN 0 ELSE saved[p]]

-----------------------------------------------------------------------------
(* The thread starts: buffer from the chat history and the saved signals,  *)
(* the BootCap most frequent patterns at once, the others deferred.        *)
Seeded == [p \in Patterns |-> weight[p] + Asked[p] + saved[p]]

ByFrequency(S, w) ==
    {q \in SetToSeqs(S) : \A i, j \in DOMAIN q : i < j => w[q[i]] >= w[q[j]]}

Seed ==
    /\ phase = "boot"
    /\ weight' = Seeded
    /\ \E order \in ByFrequency({p \in Patterns : Seeded[p] >= Threshold}, Seeded) :
          LET n == IF Len(order) < BootCap THEN Len(order) ELSE BootCap
          IN  /\ deferred' = deferred \o SubSeq(order, n + 1, Len(order))
              /\ IF running /\ SystemIdle
                 THEN phase' = "seeding" /\ todo' = ToSet(SubSeq(order, 1, n)) /\ known' = Visible
                 ELSE phase' = "sleep" /\ UNCHANGED <<todo, known>>
    /\ UNCHANGED <<saved, trying, recent, outcomeVars, replicas, running, faults>>

(* _run_discovery_cycle: idle, running and something recurs, or nothing.   *)
CycleTopOnly ==
    /\ phase = "sleep"
    /\ IF SystemIdle /\ running /\ Recurring # {}
       THEN /\ phase' = "cycle" /\ known' = Visible
            /\ todo' = {CHOOSE p \in Recurring : \A q \in Recurring : weight[q] <= weight[p]}
       ELSE phase' = "drain" /\ UNCHANGED <<todo, known>>
    /\ UNCHANGED <<deferred, trying, recent, logVars, outcomeVars, replicas, running, faults>>
Cycle ==
    /\ phase = "sleep"
    /\ IF SystemIdle /\ running /\ Recurring # {}
       THEN phase' = "cycle" /\ todo' = Recurring /\ known' = Visible
       ELSE phase' = "drain" /\ UNCHANGED <<todo, known>>
    /\ UNCHANGED <<deferred, trying, recent, logVars, outcomeVars, replicas, running, faults>>

(* The next pattern of the loop: skipped when known or installed, else     *)
(* handed to maybe_evolve.                                                 *)
Pick(p) ==
    /\ phase \in {"seeding", "cycle"} /\ trying = NoPattern /\ p \in todo
    /\ todo' = todo \ {p}
    /\ IF p \in known \cup installed
       THEN UNCHANGED <<trying, recent>>
       ELSE trying' = p /\ recent' = TRUE
    /\ UNCHANGED <<deferred, phase, known, logVars, outcomeVars, replicas, running, faults>>

LoopEnds ==
    /\ phase \in {"seeding", "cycle"} /\ trying = NoPattern /\ todo = {}
    /\ phase' = IF phase = "seeding" THEN "sleep" ELSE "drain"
    /\ known' = {}
    /\ UNCHANGED <<deferred, todo, trying, recent, logVars, outcomeVars, replicas, running, faults>>

(* One deferred pattern per cycle: it is taken off the list first, and     *)
(* _run_single_pattern asks everything again before it evolves.            *)
DrainUnasked ==
    /\ phase = "drain"
    /\ IF deferred # <<>> /\ SystemIdle
       THEN deferred' = Tail(deferred) /\ phase' = "single" /\ trying' = Head(deferred) /\ recent' = TRUE
       ELSE phase' = "sleep" /\ UNCHANGED <<deferred, trying, recent>>
    /\ UNCHANGED <<todo, known, logVars, outcomeVars, replicas, running, faults>>
Drain ==
    /\ phase = "drain"
    /\ IF deferred # <<>> /\ SystemIdle
       THEN /\ deferred' = Tail(deferred)
            /\ IF running /\ Head(deferred) \notin Visible \cup installed
               THEN phase' = "single" /\ trying' = Head(deferred) /\ recent' = TRUE
               ELSE phase' = "sleep" /\ UNCHANGED <<trying, recent>>
       ELSE phase' = "sleep" /\ UNCHANGED <<deferred, trying, recent>>
    /\ UNCHANGED <<todo, known, logVars, outcomeVars, replicas, running, faults>>

(* The pattern's row is the newest now.                                    *)
LogsRow(p) == unseen' = unseen \ {p}

(* maybe_evolve returns: nothing when evolution was halted meanwhile, else *)
(* a gap or a find in the log, and after the gap Tier 2 may install a      *)
(* skill under the pattern's name; a failing log write is swallowed.       *)
EvolveReturns ==
    /\ trying # NoPattern
    /\ trying' = NoPattern
    /\ phase' = IF phase = "single" THEN "sleep" ELSE phase
    /\ \/ ~running /\ UNCHANGED <<outcomeVars, faults>>
       \/ /\ running
          /\ \/ logged' = [logged EXCEPT ![trying] = "found"] /\ UNCHANGED installed
             \/ /\ logged' = [logged EXCEPT ![trying] = "gap"]
                /\ installed' \in {installed, installed \cup {trying}}
          /\ LogsRow(trying) /\ UNCHANGED faults
       \/ running /\ UNCHANGED outcomeVars /\ Fault
    /\ UNCHANGED <<deferred, todo, known, recent, logVars, replicas, running>>

(* It raises: the loop is given up until the next cycle, and while seeding *)
(* nothing catches the exception, so the thread ends.                      *)
EvolveRaises ==
    /\ trying # NoPattern /\ Fault
    /\ trying' = NoPattern /\ todo' = {} /\ known' = {}
    /\ phase' = IF phase = "seeding" THEN "dead" ELSE "sleep"
    /\ UNCHANGED <<deferred, recent, logVars, outcomeVars, replicas, running>>

(* A row is put out of view by the rows after it: 500 of any activity, or  *)
(* the gap of a task that starts with the same words.                      *)
LogGrows ==
    /\ \E p \in Visible : unseen' = unseen \cup {p}
    /\ UNCHANGED <<logVars, threadVars, logged, installed, replicas, running, faults>>

(* 120 seconds pass; replicas come and go; the state machine is operated.  *)
CoolsDown ==
    /\ recent /\ trying = NoPattern /\ recent' = FALSE
    /\ UNCHANGED <<logVars, deferred, phase, todo, known, trying, outcomeVars, replicas, running, faults>>
ReplicasChange ==
    /\ replicas' = ~replicas
    /\ UNCHANGED <<logVars, threadVars, outcomeVars, running, faults>>
RunningChange ==
    /\ running' = ~running
    /\ UNCHANGED <<logVars, threadVars, outcomeVars, replicas, faults>>

(* The process restarts: buffer and thread are new, and agent.init marks   *)
(* gaps resolved that an installed skill seems to close; a gap that one of *)
(* them hid is back in view.                                               *)
DiscoveryRestart ==
    /\ weight' = [p \in Patterns |-> 0]
    /\ deferred' = <<>> /\ phase' = "boot" /\ todo' = {} /\ known' = {}
    /\ trying' = NoPattern /\ recent' = FALSE /\ replicas' = FALSE
    /\ \E S \in SUBSET {p \in Patterns : logged[p] = "gap"} :
          /\ logged' = [p \in Patterns |-> IF p \in S THEN "resolved" ELSE logged[p]]
          /\ unseen' \in SUBSET (unseen \ S)
    /\ UNCHANGED <<saved, installed, running>>

DiscoveryInit ==
    /\ weight = [p \in Patterns |-> 0]
    /\ saved = [p \in Patterns |-> 0]
    /\ logged = [p \in Patterns |-> "none"]
    /\ installed = {} /\ unseen = {}
    /\ deferred = <<>> /\ phase = "boot" /\ todo = {} /\ known = {} /\ trying = NoPattern
    /\ recent = FALSE /\ replicas = FALSE /\ running = TRUE /\ faults = 0

DiscoveryThread ==
    \/ Seed \/ Cycle \/ LoopEnds \/ Drain \/ EvolveReturns \/ EvolveRaises
    \/ \E p \in Patterns : Pick(p)

-----------------------------------------------------------------------------
DiscoveryTypeOK ==
    /\ weight \in [Patterns -> Nat]
    /\ saved \in [Patterns -> Nat]
    /\ logged \in [Patterns -> {"none", "gap", "found", "resolved"}]
    /\ installed \subseteq Patterns /\ unseen \subseteq Patterns
    /\ deferred \in Seq(Patterns)
    /\ phase \in {"boot", "seeding", "sleep", "cycle", "drain", "single", "dead"}
    /\ todo \subseteq Patterns /\ known \subseteq Patterns
    /\ trying \in Patterns \cup {NoPattern}
    /\ recent \in BOOLEAN /\ replicas \in BOOLEAN /\ running \in BOOLEAN
    /\ faults \in 0..FaultBound

(* A pattern is not evolved again as long as the log shows its row: the    *)
(* loop decides from what it read before its first model call, and the     *)
(* boot, the cycle and the drain of the deferred list all reach the same   *)
(* pattern.  Only one whose row is out of view is.                         *)
NoRework == [][\A p \in Patterns : trying # p /\ trying' = p => p \notin Visible \cup installed]_discoveryVars

=============================================================================
