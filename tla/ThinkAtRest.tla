----------------------------- MODULE ThinkAtRest -----------------------------
(***************************************************************************)
(* The Think-at-Rest engine, src/src/services/thought_engine.py, with the  *)
(* stores it works on: failed requests, probes, promoted ideas.            *)
(*                                                                         *)
(* A think cycle runs in the thread of the idle detector and in every      *)
(* thread that POST /think/trigger starts, on one engine object and with   *)
(* no lock.  It lists the newest unresolved requests once, evolves them    *)
(* one after the other (minutes each), bumps their retry counters, and     *)
(* explores only when there was nothing real to do.  The user meanwhile    *)
(* answers confirmation buttons in the threads of the Telegram bot.        *)
(*                                                                         *)
(* While a model call is under way, and for 30 seconds after, the engine   *)
(* holds back: no cycle of the idle detector starts and a request is       *)
(* skipped (_model_is_active).  It does not tell its own calls (warm) from *)
(* those of others (attention), and a cycle makes two before it looks at   *)
(* the requests, the memory seeker's and the identity consolidator's.      *)
(*                                                                         *)
(* Requests are numbered in the order of their timestamps.  The clock is   *)
(* the number of cadence thresholds since the last cycle (since), the      *)
(* oldest requests outside the recency window (stale) and the turn of the  *)
(* day.  What the model says is a choice.                                  *)
(***************************************************************************)
EXTENDS GoalDiscovery, FiniteSetsExt

CONSTANTS
    Requests,      \* ids of failed_requests, 1..n in the order of ts
    NoRequest,
    Manual,        \* threads of POST /think/trigger
    Limit,         \* get_unresolved(limit=3)
    MaxRetry,      \* closed at this retry_count (3)
    MaxIter,       \* attempts of one evolution with critique (3)
    ProbeAlarm,    \* more active probes than this are a signal (10)
    ProbeBound,    \* bound: probes in the store
    MaxPerDay,     \* proactive_max_per_day
    TapBound,      \* bound: "still broken" taps per request
    DayBound,      \* bound: turns of the day
    RestartBound,  \* bound: restarts
    Loads          \* what may happen in a behaviour, one chosen at the start

Threads == {"idle"} \cup Manual

ASSUME RestAssumption ==
    /\ Requests = 1..Cardinality(Requests) /\ IsFiniteSet(Requests)
    /\ NoRequest \notin Requests
    /\ IsFiniteSet(Manual)
    /\ {Limit, MaxRetry, MaxIter} \subseteq Nat \ {0}
    /\ {ProbeAlarm, ProbeBound, MaxPerDay, TapBound, DayBound, RestartBound} \subseteq Nat
    /\ Loads \subseteq [requests : SUBSET Requests, manual : SUBSET Manual, critique : BOOLEAN,
                         thoughts : SUBSET {"probe", "message", "idea"}, restarts : 0..RestartBound,
                         calls : SUBSET BOOLEAN \ {{}},
                         varies : SUBSET {"attention", "running", "age", "replicas", "day", "log"}]

VARIABLES
    store,       \* the table failed_requests
    stale,       \* requests up to this one are older than the recency window
    attention,   \* "quiet", "pinged" by a request, or "active": a model call of others
    warm,        \* a model call of the engine is under way or ended less than 30 s ago
    at,          \* where each thread is
    list,        \* the requests of its cycle it has still to consider
    cur,         \* the request it evolves
    iter,        \* the attempt within the evolution
    handled,     \* it has evolved a request or journalled a signal
    since,       \* _last_think_time: 0 just now, 1 past the floor, 2 past the interval
    probes,      \* active probes
    lastSignal,  \* _last_signal_values: the probe count last seen, -1 at the start
    ideas,       \* idea files of today
    sent,        \* _proactive_count_today
    dayTurned,   \* the date differs from _proactive_date
    shown,       \* requests with confirmation buttons on the screen
    closing,     \* requests a "still broken" tap is about to close
    load,        \* the member of Loads: the requests that fail, the threads that may be
                 \* triggered, the kinds of thoughts, the restarts, what changes
                 \* around the engine; critique enabled or not; whether the two
                 \* housekeeping calls are made (server up, a turn of the user in the chat)
    \* history
    attempts,    \* evolutions started for each request
    late,        \* those started after it was closed
    noTaps,      \* "still broken" taps
    yes,         \* requests the user confirmed
    racing,      \* of these, the ones a cycle held at that moment
    today,       \* proactive messages of the day
    days,
    restarts

storeVars == <<store, shown, closing>>
clockVars == <<stale, attention, warm, since>>
cycleVars == <<at, list, cur, iter, handled>>
reflectVars == <<probes, lastSignal>>
adVars == <<ideas, sent, dayTurned>>
historyVars == <<attempts, late, noTaps, yes, racing, today, days, restarts>>
vars == <<discoveryVars, storeVars, clockVars, cycleVars, reflectVars, adVars, load, historyVars>>

Goto(t, where) == at' = [at EXCEPT ![t] = where]
Open == {r \in Requests : store[r].state = "open"}
Unrecorded == {r \in load.requests : store[r].state = "none"}

(* get_unresolved: ORDER BY ts DESC LIMIT n, and its mirror image.         *)
Newest(S) == {r \in S : Cardinality({q \in S : q > r}) < Limit}
Oldest(S) == {r \in S : Cardinality({q \in S : q < r}) < Limit}
UnresolvedOldestFirst == Oldest(Open)
UnresolvedAnyState == Newest({r \in Requests : store[r].state # "none"})
Unresolved == Newest(Open)

(* A thread holds a request from the listing until it has counted it.      *)
Holds(t, r) == r \in list[t] \/ cur[t] = r
Holders(r) == {t \in Threads : Holds(t, r)}

(* Rows of the table: what each statement of failed_requests.py writes.    *)
Bumped(r) == [store EXCEPT ![r].retry = @ + 1]
Resolved(r, reward) == [store EXCEPT ![r].state = "closed", ![r].reward = reward, ![r].pending = FALSE]
AwaitsConfirm(r) == [store EXCEPT ![r].pending = TRUE]

-----------------------------------------------------------------------------
(* A failing reply is recorded by the handler that sends it.               *)
Record(r) ==
    /\ r \in Unrecorded /\ \A q \in Unrecorded : r <= q
    /\ store' = [store EXCEPT ![r].state = "open"]
    /\ UNCHANGED <<discoveryVars, shown, closing, clockVars, cycleVars, reflectVars, adVars, load, historyVars>>

(* The oldest request leaves the recency window.                           *)
GrowStale ==
    /\ "age" \in load.varies /\ stale + 1 \in Requests /\ store[stale + 1].state # "none"
    /\ stale' = stale + 1
    /\ UNCHANGED <<discoveryVars, storeVars, attention, warm, since, cycleVars, reflectVars, adVars, load, historyVars>>

(* mark_active on HTTP requests, the marker of model calls, or neither.    *)
Attend(a) ==
    /\ "attention" \in load.varies /\ a # attention /\ attention' = a
    /\ UNCHANGED <<discoveryVars, storeVars, stale, warm, since, cycleVars, reflectVars, adVars, load, historyVars>>

Tick ==
    /\ since < 2 /\ since' = since + 1
    /\ UNCHANGED <<discoveryVars, storeVars, stale, attention, warm, cycleVars, reflectVars, adVars, load, historyVars>>

(* _model_is_active, and how its 30 seconds pass: from the housekeeping to *)
(* the last request a thread skips nothing takes time but a model call.    *)
ModelActive == attention = "active" \/ warm
Cools ==
    /\ warm /\ \A t \in Threads : at[t] \notin {"list", "next"}
    /\ warm' = FALSE
    /\ UNCHANGED <<discoveryVars, storeVars, stale, attention, since, cycleVars, reflectVars, adVars, load, historyVars>>
Calls == warm' \in {warm, TRUE}
(* The memory seeker asks the model in every cycle, when it can; the       *)
(* identity consolidator at most every 20 hours.                           *)
Seeks == \E called \in load.calls : warm' = (warm \/ called)
Consolidates == \E called \in load.calls \cup {FALSE} : warm' = (warm \/ called)

-----------------------------------------------------------------------------
(* _gather_performance_signals: emitted when the count is alarming and new *)
(* or changed; reading it makes it the last value seen.                    *)
Signals == probes > ProbeAlarm /\ (lastSignal <= ProbeAlarm \/ probes # lastSignal)

(* The start of a cycle: the clock restarts, expired probes go, and the    *)
(* memory seeker runs.                                                     *)
StartsCycle(t) ==
    /\ Goto(t, "list")
    /\ since' = 0
    /\ probes' \in 0..probes
    /\ Seeks
    /\ UNCHANGED <<discoveryVars, storeVars, stale, attention, list, cur, iter, handled, adVars, load, historyVars>>

(* _on_idle: quiet and past the interval, or past the floor with a signal. *)
(* Asking for the signal consumes it, whether or not a cycle starts.       *)
IdleStarts ==
    /\ at["idle"] = "rest" /\ attention = "quiet" /\ ~warm
    /\ since = 2 \/ (since = 1 /\ Signals)
    /\ lastSignal' = probes
    /\ StartsCycle("idle")
IdlePolls ==
    /\ at["idle"] = "rest" /\ attention = "quiet" /\ ~warm
    /\ ~(since = 2 \/ (since = 1 /\ Signals))
    /\ lastSignal' = probes
    /\ UNCHANGED <<discoveryVars, storeVars, clockVars, cycleVars, probes, adVars, load, historyVars>>
Trigger(t) == t \in load.manual /\ at[t] = "rest" /\ StartsCycle(t) /\ UNCHANGED lastSignal

(* The consolidator runs, and the unresolved requests are read, once per   *)
(* cycle.                                                                  *)
ListRequests(t) ==
    /\ at[t] = "list"
    /\ list' = [list EXCEPT ![t] = Unresolved]
    /\ Goto(t, "next")
    /\ Consolidates
    /\ UNCHANGED <<discoveryVars, storeVars, stale, attention, since, cur, iter, handled, reflectVars, adVars, load, historyVars>>

(* _evolve_from_failed_request: halted, stale or yielding to a model call, *)
(* the request is skipped and does not count as handled.                   *)
SkippedCounts(t, r) ==
    /\ ~running \/ r <= stale \/ ModelActive
    /\ handled' = [handled EXCEPT ![t] = TRUE]
    /\ UNCHANGED <<at, cur, iter, historyVars>>
Skips(t, r) ==
    /\ ~running \/ r <= stale \/ ModelActive
    /\ UNCHANGED <<at, cur, iter, handled, historyVars>>
Begins(t, r) ==
    /\ running /\ r > stale /\ ~ModelActive
    /\ Goto(t, "evolve") /\ cur' = [cur EXCEPT ![t] = r]
    /\ attempts' = [attempts EXCEPT ![r] = @ + 1]
    /\ late' = [late EXCEPT ![r] = IF store[r].state = "closed" THEN @ + 1 ELSE @]
    /\ UNCHANGED <<iter, handled, noTaps, yes, racing, today, days, restarts>>
Consider(t, r) ==
    /\ at[t] = "next" /\ r \in list[t] /\ \A q \in list[t] : q <= r
    /\ list' = [list EXCEPT ![t] = @ \ {r}]
    /\ Skips(t, r) \/ Begins(t, r)
    /\ UNCHANGED <<discoveryVars, storeVars, clockVars, reflectVars, adVars, load>>

(* maybe_evolve: nothing installed (no skill, an approval asked for, an    *)
(* exception, evolution halted), or something to assess.                   *)
Evolve(t) ==
    /\ at[t] = "evolve"
    /\ Goto(t, "count") \/ (running /\ Goto(t, "assess"))
    /\ Calls
    /\ UNCHANGED <<discoveryVars, storeVars, stale, attention, since, list, cur, iter, handled, reflectVars, adVars, load, historyVars>>

(* critique.assess: not good enough, the next attempt or the escalation.   *)
AssessFailsOnceMore(t) ==
    /\ at[t] = "assess" /\ load.critique
    /\ IF iter[t] <= MaxIter
       THEN Goto(t, "evolve") /\ iter' = [iter EXCEPT ![t] = @ + 1]
       ELSE Goto(t, "count") /\ UNCHANGED iter
    /\ Calls
    /\ UNCHANGED <<discoveryVars, storeVars, stale, attention, since, list, cur, handled, reflectVars, adVars, load, historyVars>>
AssessFails(t) ==
    /\ at[t] = "assess" /\ load.critique
    /\ IF iter[t] < MaxIter
       THEN Goto(t, "evolve") /\ iter' = [iter EXCEPT ![t] = @ + 1]
       ELSE Goto(t, "count") /\ UNCHANGED iter
    /\ Calls
    /\ UNCHANGED <<discoveryVars, storeVars, stale, attention, since, list, cur, handled, reflectVars, adVars, load, historyVars>>
(* Good: the row is marked, then the buttons are sent, which may fail.     *)
AssessMarks(t) ==
    /\ at[t] = "assess" /\ load.critique
    /\ store' = AwaitsConfirm(cur[t]) /\ Goto(t, "ask") /\ Calls
    /\ UNCHANGED <<discoveryVars, shown, closing, stale, attention, since, list, cur, iter, handled, reflectVars, adVars, load, historyVars>>
AssessAsks(t) ==
    /\ at[t] = "ask" /\ Goto(t, "count")
    /\ \/ shown' = shown \cup {cur[t]} /\ UNCHANGED faults
       \/ UNCHANGED shown /\ Fault
    /\ UNCHANGED <<logVars, threadVars, outcomeVars, replicas, running, store, closing, clockVars,
                   list, cur, iter, handled, reflectVars, adVars, load, historyVars>>
(* Critique disabled by its flat key: taken as resolved, so the matching   *)
(* signals and probes go; the row of the request is not touched.           *)
AssessDisabled(t) ==
    /\ at[t] = "assess" /\ ~load.critique /\ Goto(t, "count")
    /\ \E S \in SUBSET Patterns : ResolvePattern(S)
    /\ probes' \in 0..probes
    /\ UNCHANGED <<threadVars, outcomeVars, replicas, running, faults, storeVars, clockVars, list, cur,
                   iter, handled, lastSignal, adVars, load, historyVars>>

(* increment_retry after every evolution, and mark_resolved at the limit:  *)
(* two transactions.  A failing one is swallowed.                          *)
CountsOnly(t) ==
    /\ at[t] = "count" /\ Goto(t, "next")
    /\ store' = Bumped(cur[t]) /\ cur' = [cur EXCEPT ![t] = NoRequest]
    /\ handled' = [handled EXCEPT ![t] = TRUE] /\ iter' = [iter EXCEPT ![t] = 1]
    /\ UNCHANGED <<discoveryVars, shown, closing, clockVars, list, reflectVars, adVars, load, historyVars>>
Count(t) ==
    /\ at[t] = "count"
    /\ handled' = [handled EXCEPT ![t] = TRUE] /\ iter' = [iter EXCEPT ![t] = 1]
    /\ \/ /\ store' = Bumped(cur[t])
          /\ IF store[cur[t]].retry + 1 >= MaxRetry
             THEN Goto(t, "close") /\ UNCHANGED cur
             ELSE Goto(t, "next") /\ cur' = [cur EXCEPT ![t] = NoRequest]
          /\ UNCHANGED faults
       \/ UNCHANGED store /\ Goto(t, "next") /\ cur' = [cur EXCEPT ![t] = NoRequest] /\ Fault
    /\ UNCHANGED <<logVars, threadVars, outcomeVars, replicas, running, shown, closing, clockVars,
                   list, reflectVars, adVars, load, historyVars>>
Abandon(t) ==
    /\ at[t] = "close" /\ Goto(t, "next")
    /\ cur' = [cur EXCEPT ![t] = NoRequest]
    /\ \/ store' = Resolved(cur[t], "no") /\ UNCHANGED faults
       \/ UNCHANGED store /\ Fault
    /\ UNCHANGED <<logVars, threadVars, outcomeVars, replicas, running, shown, closing, clockVars,
                   list, iter, handled, reflectVars, adVars, load, historyVars>>

(* Phase 2: the signals again.  Nothing handled, and the cycle explores.   *)
Reflect(t) ==
    /\ at[t] = "next" /\ list[t] = {}
    /\ lastSignal' = probes
    /\ Goto(t, IF handled[t] \/ Signals THEN "rest" ELSE "explore")
    /\ handled' = [handled EXCEPT ![t] = FALSE]
    /\ UNCHANGED <<discoveryVars, storeVars, clockVars, list, cur, iter, probes, adVars, load, historyVars>>

-----------------------------------------------------------------------------
(* Phase 3, the base class's cycle: the clock restarts and probes expire   *)
(* again; then no server, no news or no seeds, or one accepted thought:    *)
(* journalled, parked as a probe, or accepted as a curiosity.  It calls    *)
(* the model for the housekeeping once more and for the thought.           *)
ExploresNothing(t) ==
    /\ Goto(t, "rest") /\ probes' \in 0..probes
    /\ UNCHANGED <<discoveryVars, adVars>>
ParksProbe(t) ==
    /\ "probe" \in load.thoughts /\ Goto(t, "rest")
    /\ \E left \in 0..probes : left < ProbeBound /\ probes' = left + 1
    /\ UNCHANGED <<discoveryVars, adVars>>
(* _promote_to_idea: once per idea and day, with everything it entails.    *)
Promotes(p) ==
    IF p \in ideas
    THEN UNCHANGED <<logVars, ideas, faults>>
    ELSE RecordPromoted(p) /\ ideas' = ideas \cup {p}
(* _maybe_send_telegram: the day's counter is reset when the date differs, *)
(* and checked before the message is sent.                                 *)
MaySendForgetful == dayTurned' = FALSE /\ sent' = 0
MaySend ==
    /\ dayTurned' = FALSE
    /\ sent' = IF dayTurned THEN 0 ELSE sent
Curious(t) ==
    /\ load.thoughts \cap {"idea", "message"} # {} /\ probes' \in 0..probes
    /\ \/ "idea" \in load.thoughts /\ \E p \in Patterns : Promotes(p)
       \/ UNCHANGED <<logVars, ideas, faults>>
    /\ MaySend
    /\ Goto(t, IF "message" \in load.thoughts /\ sent' < MaxPerDay THEN "send" ELSE "rest")
    /\ UNCHANGED <<threadVars, outcomeVars, replicas, running>>
Explore(t) ==
    /\ at[t] = "explore" /\ since' = 0
    /\ ExploresNothing(t) \/ ParksProbe(t) \/ Curious(t)
    /\ Calls
    /\ UNCHANGED <<storeVars, stale, attention, list, cur, iter, handled, lastSignal, load, historyVars>>

(* The message goes out, then the counter goes up.                         *)
Sends(t) ==
    /\ at[t] = "send" /\ Goto(t, "sent") /\ today' = today + 1
    /\ UNCHANGED <<discoveryVars, storeVars, clockVars, list, cur, iter, handled, reflectVars, adVars,
                   load, attempts, late, noTaps, yes, racing, days, restarts>>
Sent(t) ==
    /\ at[t] = "sent" /\ Goto(t, "rest") /\ sent' = sent + 1
    /\ UNCHANGED <<discoveryVars, storeVars, clockVars, list, cur, iter, handled, reflectVars, ideas,
                   dayTurned, load, historyVars>>
SendFails(t) ==
    /\ at[t] = "send" /\ Goto(t, "rest") /\ Fault
    /\ UNCHANGED <<logVars, threadVars, outcomeVars, replicas, running, storeVars, clockVars, list, cur,
                   iter, handled, reflectVars, adVars, load, historyVars>>

NewDay ==
    /\ "day" \in load.varies /\ days < DayBound /\ days' = days + 1
    /\ dayTurned' = TRUE /\ ideas' = {} /\ today' = 0
    /\ UNCHANGED <<discoveryVars, storeVars, clockVars, cycleVars, reflectVars, sent, load,
                   attempts, late, noTaps, yes, racing, restarts>>

-----------------------------------------------------------------------------
(* The user answers the confirmation; the buttons stay and may be tapped   *)
(* again, in any order.                                                    *)
TapYes(r) ==
    /\ r \in shown
    /\ store' = Resolved(r, "yes")
    /\ yes' = yes \cup {r}
    /\ racing' = IF r \in yes \/ Holders(r) = {} THEN racing ELSE racing \cup {r}
    /\ UNCHANGED <<discoveryVars, shown, closing, clockVars, cycleVars, reflectVars, adVars, load,
                   attempts, late, noTaps, today, days, restarts>>
TapNo(r) ==
    /\ r \in shown /\ noTaps[r] < TapBound
    /\ noTaps' = [noTaps EXCEPT ![r] = @ + 1]
    /\ store' = Bumped(r)
    /\ closing' = IF store[r].retry + 1 >= MaxRetry THEN closing \cup {r} ELSE closing
    /\ UNCHANGED <<discoveryVars, shown, clockVars, cycleVars, reflectVars, adVars, load,
                   attempts, late, yes, racing, today, days, restarts>>
TapCloses(r) ==
    /\ r \in closing /\ closing' = closing \ {r}
    /\ store' = Resolved(r, "no")
    /\ UNCHANGED <<discoveryVars, shown, clockVars, cycleVars, reflectVars, adVars, load, historyVars>>

(* The process dies and is started again: threads and counters are lost,   *)
(* the tables, the idea files and the messages on the screen stay.         *)
Restart ==
    /\ restarts < load.restarts /\ restarts' = restarts + 1
    /\ DiscoveryRestart /\ UNCHANGED faults
    /\ at' = [t \in Threads |-> "rest"] /\ list' = [t \in Threads |-> {}]
    /\ cur' = [t \in Threads |-> NoRequest] /\ iter' = [t \in Threads |-> 1]
    /\ handled' = [t \in Threads |-> FALSE]
    /\ since' = 2 /\ lastSignal' = -1 /\ sent' = 0 /\ dayTurned' = FALSE /\ closing' = {}
    /\ UNCHANGED <<store, shown, stale, attention, warm, probes, ideas, load,
                   attempts, late, noTaps, yes, racing, today, days>>

-----------------------------------------------------------------------------
Init ==
    /\ DiscoveryInit
    /\ load \in Loads
    /\ store = [r \in Requests |-> [state |-> "none", retry |-> 0, reward |-> "none", pending |-> FALSE]]
    /\ shown = {} /\ closing = {}
    /\ stale = 0 /\ attention = "quiet" /\ warm = FALSE /\ since = 2
    /\ at = [t \in Threads |-> "rest"] /\ list = [t \in Threads |-> {}]
    /\ cur = [t \in Threads |-> NoRequest] /\ iter = [t \in Threads |-> 1]
    /\ handled = [t \in Threads |-> FALSE]
    /\ probes = 0 /\ lastSignal = -1
    /\ ideas = {} /\ sent = 0 /\ dayTurned = FALSE
    /\ attempts = [r \in Requests |-> 0] /\ late = [r \in Requests |-> 0]
    /\ noTaps = [r \in Requests |-> 0]
    /\ yes = {} /\ racing = {} /\ today = 0 /\ days = 0 /\ restarts = 0

CycleStep(t) ==
    \/ ListRequests(t) \/ Evolve(t) \/ AssessFails(t) \/ AssessMarks(t) \/ AssessAsks(t)
    \/ AssessDisabled(t) \/ Count(t) \/ Abandon(t) \/ Reflect(t) \/ Explore(t)
    \/ Sends(t) \/ Sent(t) \/ SendFails(t)
    \/ \E r \in Requests : Consider(t, r)

User == \E r \in Requests : Record(r) \/ TapYes(r) \/ TapNo(r) \/ TapCloses(r)

Surroundings ==
    \/ GrowStale \/ Tick \/ Cools \/ NewDay
    \/ \E a \in {"quiet", "pinged", "active"} : Attend(a)

Discovery ==
    /\ "idea" \in load.thoughts
    /\ \/ DiscoveryThread \/ CoolsDown
       \/ "replicas" \in load.varies /\ ReplicasChange
       \/ "log" \in load.varies /\ LogGrows
    /\ UNCHANGED <<storeVars, clockVars, cycleVars, reflectVars, adVars, load, historyVars>>
Operator ==
    "running" \in load.varies /\ RunningChange /\ UNCHANGED <<storeVars, clockVars, cycleVars, reflectVars, adVars, load, historyVars>>

Next ==
    \/ IdleStarts \/ IdlePolls
    \/ \E t \in Manual : Trigger(t)
    \/ \E t \in Threads : CycleStep(t)
    \/ User \/ Surroundings \/ Discovery \/ Operator \/ Restart

Spec == Init /\ [][Next]_vars

(* Some thread of the engine runs; a model call ends by its timeout; time  *)
(* passes.                                                                 *)
EngineStep == IdleStarts \/ \E t \in Threads : CycleStep(t)
Fairness ==
    /\ WF_cycleVars(EngineStep)
    /\ WF_clockVars(Tick \/ Cools)
    /\ WF_discoveryVars("idea" \in load.thoughts /\ DiscoveryThread)
    /\ WF_discoveryVars("idea" \in load.thoughts /\ CoolsDown)
FairSpec == Spec /\ Fairness

-----------------------------------------------------------------------------
Rows == [state : {"none", "open", "closed"}, retry : Nat, reward : {"none", "yes", "no"}, pending : BOOLEAN]

(* Every variable has its type. *)
TypeOK ==
    /\ DiscoveryTypeOK
    /\ load \in Loads
    /\ store \in [Requests -> Rows]
    /\ shown \subseteq Requests /\ closing \subseteq Requests
    /\ stale \in Requests \cup {0} /\ attention \in {"quiet", "pinged", "active"}
    /\ warm \in BOOLEAN /\ since \in 0..2
    /\ at \in [Threads -> {"rest", "list", "next", "evolve", "assess", "ask", "count", "close",
                           "explore", "send", "sent"}]
    /\ list \in [Threads -> SUBSET Requests]
    /\ cur \in [Threads -> Requests \cup {NoRequest}]
    /\ iter \in [Threads -> 1..MaxIter] /\ handled \in [Threads -> BOOLEAN]
    /\ probes \in 0..ProbeBound /\ lastSignal \in -1..ProbeBound
    /\ ideas \subseteq Patterns /\ sent \in Nat /\ dayTurned \in BOOLEAN
    /\ attempts \in [Requests -> Nat] /\ late \in [Requests -> Nat]
    /\ noTaps \in [Requests -> 0..TapBound]
    /\ yes \subseteq Requests /\ racing \subseteq yes
    /\ today \in Nat /\ days \in 0..DayBound /\ restarts \in 0..RestartBound

(* A request costs at most MaxRetry evolutions, one more for every other   *)
(* cycle that listed it meanwhile, and one for every counter update that   *)
(* failed or that a restart cut off: increment_retry and mark_resolved are *)
(* two transactions after the work, and cycles do not exclude each other.  *)
AttemptsBounded ==
    \A r \in Requests :
        attempts[r] <= MaxRetry - 1 + Cardinality(Threads) * (1 + restarts) + faults

(* A closed request is evolved again only by cycles that listed it before  *)
(* it was closed, each at most once.                                       *)
LateBounded == \A r \in Requests : late[r] <= Cardinality(Threads)

(* The reward of a request the user confirmed, and never called broken, is *)
(* lost only when a cycle held the request at that very moment.            *)
ConfirmedLostOnlyInRace ==
    \A r \in yes : noTaps[r] = 0 /\ store[r].reward = "no" => r \in racing

(* The day's proactive messages: the cap, and one more for every other     *)
(* thread between its check and the increment, all of it again after each  *)
(* restart (the counter is not kept), and one for each thread that checked *)
(* before the day turned.                                                  *)
ProactiveBounded ==
    today <= (MaxPerDay + Cardinality(Threads) - 1) * (1 + restarts) + Cardinality(Threads)

(* While evolution runs, nobody else calls the model and no cycle is       *)
(* triggered by hand, a failed request is closed or leaves the recency     *)
(* window ("will be reconsidered on a later idle cycle").                  *)
OpenSettles ==
    <>[](running /\ attention = "quiet" /\ \A t \in Manual : at[t] = "rest") =>
        <>[](\A r \in Requests : store[r].state = "open" => r <= stale)

(* It is so as long as the housekeeping of a cycle makes no model call     *)
(* (server down, or no turn of the user in the chat): the limit of the     *)
(* listing, requests that are skipped, failed updates and the engine's     *)
(* calls for an earlier request do not hold one back for ever.             *)
FreshSettles == TRUE \notin load.calls => OpenSettles

(* At rest, the engine gets round to exploring again and again: a backlog  *)
(* of requests that are all skipped and a persisting signal do not starve  *)
(* it.                                                                     *)
CuriosityNotStarved == <>[](attention = "quiet") => []<>(\E t \in Threads : at[t] = "explore")

(* A pattern that recurs, or was promoted, is handed to maybe_evolve,      *)
(* found known or installed, or resolved: whatever the deferred list drops *)
(* and exceptions cut off, unless one ended the thread.                    *)
PromotedIsTried ==
    <>[](running /\ ~replicas /\ phase # "dead" /\ "idea" \in load.thoughts) =>
        <>[](\A p \in Recurring : trying = p \/ p \in Known \cup installed)

=============================================================================
