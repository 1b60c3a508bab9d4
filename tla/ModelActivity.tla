---------------------------- MODULE ModelActivity ----------------------------
(***************************************************************************)
(* The activity marker: the file model_activity.json that says whether a   *)
(* model call is in flight, so that Think-at-Rest stays out of the way.    *)
(* src/src/core/inference/{activity,model_client}.py write it,             *)
(* _model_is_active of src/src/services/thought_engine.py reads it, and    *)
(* heals a counter that looks stuck.                                       *)
(*                                                                         *)
(* Every writer reads the file, changes its copy and writes it back:       *)
(* open(.., "w") truncates, then the text follows.  There is no lock, and  *)
(* writers run in two processes.  Time is what the engine tells apart:     *)
(* a start within 120 s, an end within 30 s.                               *)
(***************************************************************************)
EXTENDS Integers, FiniteSets

CONSTANTS
    Callers,   \* who makes model calls
    Torn       \* a truncated file

VARIABLES
    watched,   \* Think-at-Rest is enabled; without a reader the marking is left out
    marker,    \* the file: in_flight, the ages of last_start_ts and last_end_ts
    beat,      \* where each side of a call is in marking, with the copy it read
    heal,      \* the same for the engine that resets a stuck counter
    \* history
    young,     \* calls in flight that started less than 120 s ago
    rested,    \* no call ended within the last 30 s
    muddled    \* two updates overlapped, one was cut, or the counter was reset under a call

activityVars == <<watched, marker, beat, heal, young, rested, muddled>>

Peers == Callers \X {"client", "server"}     \* the server marks its own generation too
Blank == [count |-> 0, start |-> "never", end |-> "never"]
Marks == [count : Nat, start : {"never", "fresh", "old"}, end : {"never", "recent", "quiet"}]

ASSUME ActivityAssumption == IsFiniteSet(Callers) /\ Torn \notin Marks

ActivityTypeOK ==
    /\ marker \in Marks \cup {Torn}
    /\ beat \in [Peers -> [at : {"out", "start", "startOpen", "in", "end", "endOpen"}, copy : Marks]]
    /\ heal \in [at : {"none", "read", "open"}, copy : Marks]
    /\ young \subseteq Peers /\ {watched, rested, muddled} \subseteq BOOLEAN

ActivityInit(enabled) ==
    /\ watched = enabled
    /\ marker = Blank
    /\ beat = [p \in Peers |-> [at |-> "out", copy |-> Blank]]
    /\ heal = [at |-> "none", copy |-> Blank]
    /\ young = {} /\ rested = TRUE /\ muddled = FALSE

Marked(p) == beat[p].at = "in" \/ ~watched
Unmarked(p) == beat[p].at = "out"
Updating(p) == beat[p].at \notin {"out", "in"}
Undisturbed(p) == heal.at = "none" /\ \A q \in Peers \ {p} : ~Updating(q)
Readable == IF marker = Torn THEN Blank ELSE marker

\* _read_activity: a file that does not parse counts as a blank one
Read(p, from, to) ==
    /\ watched /\ beat[p].at = from
    /\ beat' = [beat EXCEPT ![p] = [at |-> to, copy |-> Readable]]
    /\ muddled' = (muddled \/ ~Undisturbed(p))
    /\ UNCHANGED <<watched, marker, heal, young, rested>>

MarkStart(p) == Read(p, "out", "start")
MarkEnd(p) == Read(p, "in", "end")

\* open(path, "w")
Truncate(p) ==
    /\ beat[p].at \in {"start", "end"}
    /\ marker' = Torn
    /\ beat' = [beat EXCEPT ![p].at = IF @ = "start" THEN "startOpen" ELSE "endOpen"]
    /\ UNCHANGED <<watched, heal, young, rested, muddled>>

\* Mutants: the start is not stamped beside another call; the counter may go below zero.
StartedLate(m) ==
    [m EXCEPT !.count = @ + 1, !.start = IF m.count > 0 THEN @ ELSE "fresh"]
EndedBelow(m) == [m EXCEPT !.count = @ - 1, !.end = "recent"]

Started(m) == [m EXCEPT !.count = @ + 1, !.start = "fresh"]
Ended(m) == [m EXCEPT !.count = IF @ > 0 THEN @ - 1 ELSE 0, !.end = "recent"]

WriteStart(p) ==
    /\ beat[p].at = "startOpen"
    /\ marker' = Started(beat[p].copy)
    /\ beat' = [beat EXCEPT ![p] = [at |-> "in", copy |-> Blank]]
    /\ young' = young \cup {p}
    /\ UNCHANGED <<watched, heal, rested, muddled>>

WriteEnd(p) ==
    /\ beat[p].at = "endOpen"
    /\ marker' = Ended(beat[p].copy)
    /\ beat' = [beat EXCEPT ![p] = [at |-> "out", copy |-> Blank]]
    /\ young' = young \ {p} /\ rested' = FALSE
    /\ UNCHANGED <<watched, heal, muddled>>

(* The engine: what _model_is_active answers to the file as it is, and the *)
(* write by which it resets a counter it takes for stuck.                  *)
StuckNever(m) == FALSE       \* mutant: the counter is trusted for ever
Stuck(m) == m.count > 0 /\ m.start = "old"

SaysIdle == marker = Torn \/ Stuck(marker) \/ (marker.count = 0 /\ marker.end # "recent")

HealRead ==
    /\ watched /\ heal.at = "none" /\ marker # Torn /\ Stuck(marker)
    /\ heal' = [at |-> "read", copy |-> [marker EXCEPT !.count = 0]]
    /\ muddled' = (muddled \/ \E p \in Peers : beat[p].at # "out")
    /\ UNCHANGED <<watched, marker, beat, young, rested>>

HealOpen ==
    /\ heal.at = "read"
    /\ marker' = Torn /\ heal' = [heal EXCEPT !.at = "open"]
    /\ UNCHANGED <<watched, beat, young, rested, muddled>>

HealWrite ==
    /\ heal.at = "open"
    /\ marker' = heal.copy /\ heal' = [at |-> "none", copy |-> Blank]
    /\ UNCHANGED <<watched, beat, young, rested, muddled>>

\* 30 s, or more than 120 s, pass between two updates.
Still == watched /\ heal.at = "none" /\ \A p \in Peers : ~Updating(p)

Age(long) ==
    /\ Still
    /\ rested' = TRUE
    /\ young' = IF long THEN {} ELSE young
    /\ marker' = IF marker = Torn THEN Torn
                 ELSE [marker EXCEPT !.end = IF @ = "recent" THEN "quiet" ELSE @,
                                     !.start = IF long /\ @ = "fresh" THEN "old" ELSE @]
    /\ UNCHANGED <<watched, beat, heal, muddled>>

QuietPause == Age(FALSE) /\ ~rested
LongPause == Age(TRUE) /\ activityVars' # activityVars

\* The process of these callers dies, and the engine with it.
Cut(callers) ==
    LET dead == {p \in callers \X {"client"} : beat[p].at # "out"} IN
    /\ beat' = [p \in Peers |-> IF p \in dead THEN [at |-> "out", copy |-> Blank] ELSE beat[p]]
    /\ heal' = [at |-> "none", copy |-> Blank]
    /\ young' = young \ dead
    /\ muddled' = (muddled \/ heal.at # "none" \/ \E p \in dead : Updating(p))
    /\ UNCHANGED <<watched, marker, rested>>
-----------------------------------------------------------------------------
(* The engine takes the model for idle only when no call that started less *)
(* than 120 s ago is in flight, and none ended within the last 30 s while  *)
(* the counter is down, unless updates of the marker overlapped: a call    *)
(* that begins beside a long one, or after a crash, is not overlooked.     *)
IdleMeansQuiet ==
    ~muddled /\ marker # Torn /\ SaysIdle => young = {} /\ (rested \/ marker.count > 0)

(* A counter that a crash or a lost update left up does not keep the       *)
(* engine away: once calls cease, it finds the model idle, for good.       *)
EngineResumes == <>[](\A p \in Peers : beat[p].at = "out") => <>[]SaysIdle
=============================================================================
