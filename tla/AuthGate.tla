------------------------------ MODULE AuthGate ------------------------------
(***************************************************************************)
(* The shell-authorization gate (core/auth_gate.py) as the tool loops use  *)
(* it (core/tools.py execute_tool, and the loop of each host).  One chat:  *)
(* all the gate's state is per chat, and chats do not interact.            *)
(*                                                                         *)
(* A task is one run of a tool loop.  Its host is                          *)
(*   "inproc"  core/inference/model.py infer_with_tools, in the process of *)
(*             the Telegram bot;                                           *)
(*   "server"  handlers/tools.py, the same loop in the model_server        *)
(*             process, whose gate has a memory of its own;                *)
(*   "cloud"   provider.py's three loops, in the process of the bot.       *)
(* A step of the loop is one reply of the model.  The in-process loop runs *)
(* one call of a reply, the two others all of them, one after the other.   *)
(* Besides the tasks there are the threads of the bot that handle taps and *)
(* /stop.  A tool call is a shell command, which is safe, blocked or risky,*)
(* or another tool, which is not gated.  A wait ends by an answer or by    *)
(* its timeout of 60 seconds; the model does not tell which came first, so *)
(* the event that wakes the waiter needs no variable.                      *)
(***************************************************************************)
EXTENDS Integers, FiniteSets

CONSTANTS
    Tasks,          \* runs of a tool loop in the chat
    Host,           \* "inproc", "server" or "cloud"
    MaxRunning,     \* tasks of the chat that may run at once
    MaxSteps,       \* max_steps of the loop (60 in the code)
    MaxCalls,       \* calls of one reply: _MAX_CALLS_PER_RESPONSE (8) on the server;
                    \* a bound of the model where the code has none
    MaxDenies,      \* MAX_CONSECUTIVE_DENIES (3 in the code)
    MaxTaps,        \* bound of the model: taps handled at once
    NoTap,          \* nothing granted
    SendFaults      \* whether the request may fail to reach the user

(* _auto_allow: who tapped, whether the tap raced the end of its request.  *)
Grants == [by : Tasks, raced : BOOLEAN, expired : BOOLEAN]

ASSUME TasksAssumption == IsFiniteSet(Tasks) /\ NoTap \notin Grants
ASSUME HostAssumption == Host \in {"inproc", "server", "cloud"}
ASSUME StepsAssumption == MaxSteps \in Nat /\ {MaxCalls, MaxDenies} \subseteq Nat \ {0}
ASSUME RunningAssumption == MaxRunning \in Nat \ {0} /\ MaxTaps \in Nat
ASSUME SendAssumption == SendFaults \in BOOLEAN

VARIABLES
    pc,         \* where each task is
    step,       \* its step counter
    left,       \* the calls of the reply that come after the current one
    kind,       \* the kind of its current tool call
    auth,       \* what lets the call run
    entry,      \* its request in _pending: absent, open or the answer
    seen,       \* the deny count it read in _record_denial
    deny,       \* _deny_count of the chat
    grant,      \* _auto_allow of the chat
    stop,       \* the stop marker and event of the chat
    taps,       \* taps being handled by the bot's threads
    heard,      \* history: what the user tapped on the current request
    allowed,    \* history: the tasks in which the user tapped "Approve all"
    misses,     \* history: consecutive refusals and timeouts in the task
    owed,       \* history: a stop was requested while the task ran
    late        \* history: what the task ran since then, calls and shell commands

taskVars == <<pc, step, left, kind, auth, entry, seen>>
gateVars == <<deny, grant, stop>>
userVars == <<taps, heard>>
historyVars == <<allowed, misses, owed, late>>
vars == <<taskVars, gateVars, userVars, historyVars>>

Kinds == {"safe", "blocked", "risky", "other"}
Choices == {"allow", "allow_all", "deny"}
Stages == {"new", "top", "model", "next", "call", "gate", "wait", "refused", "counting",
           "stopping", "run", "done"}
Auths == {"none", "safe", "ungated", "tap"} \union Tasks

Running(t) == pc[t] \notin {"new", "done"}
Tap == [task : Tasks, step : 0..MaxSteps, left : 0..MaxCalls, choice : Choices,
        stage : {"found", "set"}]

(* The request a tap found is that of the call its task is at, and the     *)
(* task still waits for it.                                                *)
OfCall(x) == step[x.task] = x.step /\ left[x.task] = x.left
Current(x) == entry[x.task] # "absent" /\ OfCall(x)

(* How many calls of a reply are run: the in-process loop parses one, the  *)
(* cloud loops end at a reply without calls, the server asks again when it *)
(* is empty, refuses, or has no call whose arguments fit.                  *)
Replies ==
    {n \in 0..MaxCalls : (Host = "inproc" => n = 1) /\ (n = 0 => Host = "server")}
PerReply == IF Host = "inproc" THEN 1 ELSE MaxCalls

Goto(t, stage) == pc' = [pc EXCEPT ![t] = stage]

(* After a call comes the next one of the same reply, with no look at the  *)
(* stop, and only after the last the top of the loop.                      *)
After(t) == IF left[t] = 0 THEN "top" ELSE "next"

(* A call has returned; what was local to it is forgotten, so is the       *)
(* history of its request.                                                 *)
EndsCall(t, stage) ==
    /\ Goto(t, stage)
    /\ kind' = [kind EXCEPT ![t] = "other"]
    /\ auth' = [auth EXCEPT ![t] = "none"]
    /\ seen' = [seen EXCEPT ![t] = 0]
    /\ heard' = [heard EXCEPT ![t] = {}]

Runs(t, why) == Goto(t, "run") /\ auth' = [auth EXCEPT ![t] = why]
Misses(t) == misses' = [misses EXCEPT ![t] = @ + 1]
Pops(t) == entry' = [entry EXCEPT ![t] = "absent"]

(* What the history keeps of a tap. *)
Hears(t, choice) ==
    /\ heard' = [heard EXCEPT ![t] = @ \union {choice}]
    /\ allowed' = IF choice = "allow_all" THEN allowed \union {t} ELSE allowed

(* request_stop: the marker, and in the history who ran when it was set.   *)
RequestStop ==
    /\ stop' = TRUE
    /\ owed' = [t \in Tasks |-> owed[t] \/ Running(t)]

-----------------------------------------------------------------------------
(* The tool loop.  The local hosts clear the state of the chat when a task *)
(* starts and look for a stop before every step; the cloud loops do        *)
(* neither.                                                                *)
(* Mutant: a new task clears the stop only.                                *)
StartTaskKeepsGrant(t) ==
    /\ pc[t] = "new"
    /\ Cardinality({u \in Tasks : Running(u)}) < MaxRunning
    /\ Goto(t, "top")
    /\ stop' = FALSE
    /\ UNCHANGED <<step, left, kind, auth, entry, seen, deny, grant, userVars, historyVars>>

StartTask(t) ==
    /\ pc[t] = "new"
    /\ Cardinality({u \in Tasks : Running(u)}) < MaxRunning
    /\ Goto(t, "top")
    /\ IF Host = "cloud"
       THEN UNCHANGED gateVars
       ELSE grant' = NoTap /\ deny' = 0 /\ stop' = FALSE
    /\ UNCHANGED <<step, left, kind, auth, entry, seen, userVars, historyVars>>

StopsLoop(t) ==
    /\ pc[t] = "top" /\ Host # "cloud" /\ stop
    /\ Goto(t, "done")
    /\ UNCHANGED <<step, left, kind, auth, entry, seen, gateVars, userVars, historyVars>>

(* Mutants: no check of the stop; no limit on the steps. *)
NextStepIgnoresStop(t) ==
    /\ pc[t] = "top"
    /\ Goto(t, IF step[t] < MaxSteps THEN "model" ELSE "done")
    /\ UNCHANGED <<step, left, kind, auth, entry, seen, gateVars, userVars, historyVars>>

NextStepUnbounded(t) ==
    /\ pc[t] = "top" /\ (Host = "cloud" \/ ~stop)
    /\ Goto(t, "model")
    /\ UNCHANGED <<step, left, kind, auth, entry, seen, gateVars, userVars, historyVars>>

NextStep(t) ==
    /\ pc[t] = "top" /\ (Host = "cloud" \/ ~stop)
    /\ Goto(t, IF step[t] < MaxSteps THEN "model" ELSE "done")
    /\ UNCHANGED <<step, left, kind, auth, entry, seen, gateVars, userVars, historyVars>>

ModelAnswers(t) ==
    /\ pc[t] = "model"
    /\ Goto(t, "done")
    /\ UNCHANGED <<step, left, kind, auth, entry, seen, gateVars, userVars, historyVars>>

StartsCall(t) ==
    \E k \in Kinds :
        /\ kind' = [kind EXCEPT ![t] = k]
        /\ IF k = "other" THEN Runs(t, "ungated") ELSE Goto(t, "call") /\ UNCHANGED auth

ModelCallsTool(t) ==
    /\ pc[t] = "model"
    /\ step' = [step EXCEPT ![t] = @ + 1]
    /\ \E n \in Replies :
        IF n = 0
        THEN left' = [left EXCEPT ![t] = 0] /\ Goto(t, "top") /\ UNCHANGED <<kind, auth>>
        ELSE left' = [left EXCEPT ![t] = n - 1] /\ StartsCall(t)
    /\ UNCHANGED <<entry, seen, gateVars, userVars, historyVars>>

NextCall(t) ==
    /\ pc[t] = "next"
    /\ left' = [left EXCEPT ![t] = @ - 1]
    /\ StartsCall(t)
    /\ UNCHANGED <<step, entry, seen, gateVars, userVars, historyVars>>

(* A guard against repeated calls ends the task, or a result that already  *)
(* answers the question, or arguments that do not parse.                   *)
GivesUp(t) ==
    /\ pc[t] = "next"
    /\ Goto(t, "done")
    /\ UNCHANGED <<step, left, kind, auth, entry, seen, gateVars, userVars, historyVars>>

(* execute_tool, exec_shell: a stop that was requested is the result.      *)
(* Mutant: it is not looked at.                                            *)
ProceedsAnyway(t) ==
    /\ pc[t] = "call"
    /\ Goto(t, "gate")
    /\ UNCHANGED <<step, left, kind, auth, entry, seen, gateVars, userVars, historyVars>>

ProceedsToGate(t) ==
    /\ pc[t] = "call" /\ ~stop
    /\ Goto(t, "gate")
    /\ UNCHANGED <<step, left, kind, auth, entry, seen, gateVars, userVars, historyVars>>

StoppedByUser(t) ==
    /\ pc[t] = "call" /\ stop
    /\ EndsCall(t, After(t))
    /\ UNCHANGED <<step, left, entry, gateVars, taps, historyVars>>

Counted(t) == [calls |-> late[t].calls + 1,
               shell |-> late[t].shell + (IF kind[t] = "other" THEN 0 ELSE 1)]

RunsTool(t) ==
    /\ pc[t] = "run"
    /\ EndsCall(t, After(t))
    /\ late' = IF owed[t] THEN [late EXCEPT ![t] = Counted(t)] ELSE late
    /\ UNCHANGED <<step, left, entry, gateVars, taps, allowed, misses, owed>>

-----------------------------------------------------------------------------
(* request_auth, in its order: blocked, safe, grant, then the request.     *)
Blocked(t) ==
    /\ pc[t] = "gate" /\ kind[t] = "blocked"
    /\ EndsCall(t, After(t))
    /\ UNCHANGED <<step, left, entry, gateVars, taps, historyVars>>

Safe(t) ==
    /\ pc[t] = "gate" /\ kind[t] = "safe"
    /\ Runs(t, "safe")
    /\ UNCHANGED <<step, left, kind, entry, seen, gateVars, userVars, historyVars>>

HasGrant == grant # NoTap /\ ~grant.expired

Granted(t) ==
    /\ pc[t] = "gate" /\ kind[t] = "risky" /\ HasGrant
    /\ Runs(t, grant.by)
    /\ UNCHANGED <<step, left, kind, entry, seen, gateVars, userVars, historyVars>>

NeedsTap(t) == pc[t] = "gate" /\ kind[t] = "risky" /\ ~HasGrant

Asks(t) ==
    /\ NeedsTap(t)
    /\ grant' = NoTap
    /\ entry' = [entry EXCEPT ![t] = "open"]
    /\ Goto(t, "wait")
    /\ UNCHANGED <<step, left, kind, auth, seen, deny, stop, userVars, historyVars>>

(* No bot to send with counts as a denial; a failed send only refuses.     *)
NoBot(t) ==
    /\ SendFaults /\ NeedsTap(t)
    /\ grant' = NoTap
    /\ Misses(t)
    /\ Goto(t, "refused")
    /\ UNCHANGED <<step, left, kind, auth, entry, seen, deny, stop, userVars, allowed, owed, late>>

SendFails(t) ==
    /\ SendFaults /\ NeedsTap(t)
    /\ grant' = NoTap
    /\ EndsCall(t, After(t))
    /\ UNCHANGED <<step, left, entry, deny, stop, taps, historyVars>>

(* The wait is over: the request is popped and its answer, if any, read.   *)
(* Mutant: no answer within the timeout counts as an approval. *)
ApprovedByTimeout(t) ==
    /\ pc[t] = "wait" /\ entry[t] # "deny"
    /\ Pops(t)
    /\ deny' = 0
    /\ misses' = [misses EXCEPT ![t] = 0]
    /\ Runs(t, "tap")
    /\ UNCHANGED <<step, left, kind, seen, grant, stop, userVars, allowed, owed, late>>

Approved(t) ==
    /\ pc[t] = "wait" /\ entry[t] \in {"allow", "allow_all"}
    /\ Pops(t)
    /\ deny' = 0
    /\ misses' = [misses EXCEPT ![t] = 0]
    /\ Runs(t, "tap")
    /\ UNCHANGED <<step, left, kind, seen, grant, stop, userVars, allowed, owed, late>>

(* Mutant: the wait has no timeout. *)
RefusedByTapOnly(t) ==
    /\ pc[t] = "wait" /\ entry[t] = "deny"
    /\ Pops(t)
    /\ Misses(t)
    /\ Goto(t, "refused")
    /\ UNCHANGED <<step, left, kind, auth, seen, gateVars, userVars, allowed, owed, late>>

Refused(t) ==
    /\ pc[t] = "wait" /\ entry[t] \in {"open", "deny"}
    /\ Pops(t)
    /\ Misses(t)
    /\ Goto(t, "refused")
    /\ UNCHANGED <<step, left, kind, auth, seen, gateVars, userVars, allowed, owed, late>>

(* _record_denial takes no lock: read, write, and the stop at the limit.   *)
ReadsDenials(t) ==
    /\ pc[t] = "refused"
    /\ seen' = [seen EXCEPT ![t] = deny]
    /\ Goto(t, "counting")
    /\ UNCHANGED <<step, left, kind, auth, entry, gateVars, userVars, historyVars>>

(* Mutant: one denial too many. *)
WritesDenialsOffByOne(t) ==
    /\ pc[t] = "counting"
    /\ deny' = seen[t] + 1
    /\ EndsCall(t, IF seen[t] + 1 > MaxDenies THEN "stopping" ELSE After(t))
    /\ UNCHANGED <<step, left, entry, grant, stop, taps, historyVars>>

WritesDenials(t) ==
    /\ pc[t] = "counting"
    /\ deny' = seen[t] + 1
    /\ EndsCall(t, IF seen[t] + 1 >= MaxDenies THEN "stopping" ELSE After(t))
    /\ UNCHANGED <<step, left, entry, grant, stop, taps, historyVars>>

StopsAfterDenials(t) ==
    /\ pc[t] = "stopping"
    /\ RequestStop
    /\ Goto(t, After(t))
    /\ UNCHANGED <<step, left, kind, auth, entry, seen, deny, grant, userVars, allowed, misses, late>>

RequestAuth(t) ==
    \/ Blocked(t) \/ Safe(t) \/ Granted(t) \/ Asks(t) \/ NoBot(t) \/ SendFails(t)
    \/ Approved(t) \/ Refused(t)
    \/ ReadsDenials(t) \/ WritesDenials(t) \/ StopsAfterDenials(t)

TaskStep(t) ==
    \/ StopsLoop(t) \/ NextStep(t) \/ ModelAnswers(t) \/ ModelCallsTool(t)
    \/ NextCall(t) \/ GivesUp(t)
    \/ ProceedsToGate(t) \/ StoppedByUser(t) \/ RunsTool(t)
    \/ RequestAuth(t)

-----------------------------------------------------------------------------
(* The bot's threads.  A tap looks its request up in the bot's _pending:   *)
(* that of a task in the model server is not there.                        *)
TapFinds(t, choice) ==
    /\ Host # "server" /\ entry[t] # "absent"
    /\ Cardinality(taps) < MaxTaps
    /\ taps' = taps \union {[task |-> t, step |-> step[t], left |-> left[t],
                              choice |-> choice, stage |-> "found"]}
    /\ Hears(t, choice)
    /\ UNCHANGED <<taskVars, gateVars, misses, owed, late>>

TapMisses(t, choice) ==
    /\ Host = "server" /\ entry[t] # "absent"
    /\ Hears(t, choice)
    /\ UNCHANGED <<taskVars, gateVars, taps, misses, owed, late>>

(* resolve_auth: the answer (lost if the waiter already popped the entry), *)
(* then for "Approve all" the grant of the chat.                           *)
(* Mutant: only approvals reach the waiter. *)
TapAnswersApprovalsOnly(x) ==
    /\ x.stage = "found"
    /\ entry' = IF Current(x) /\ x.choice # "deny"
                THEN [entry EXCEPT ![x.task] = x.choice] ELSE entry
    /\ taps' = IF x.choice = "allow_all"
               THEN (taps \ {x}) \union {[x EXCEPT !.stage = "set"]}
               ELSE taps \ {x}
    /\ UNCHANGED <<pc, step, left, kind, auth, seen, gateVars, heard, historyVars>>

TapAnswers(x) ==
    /\ x.stage = "found"
    /\ entry' = IF Current(x) THEN [entry EXCEPT ![x.task] = x.choice] ELSE entry
    /\ taps' = IF x.choice = "allow_all"
               THEN (taps \ {x}) \union {[x EXCEPT !.stage = "set"]}
               ELSE taps \ {x}
    /\ UNCHANGED <<pc, step, left, kind, auth, seen, gateVars, heard, historyVars>>

TapGrants(x) ==
    /\ x.stage = "set"
    /\ grant' = [by |-> x.task, raced |-> ~Current(x), expired |-> FALSE]
    /\ taps' = taps \ {x}
    /\ UNCHANGED <<taskVars, deny, stop, heard, historyVars>>

(* AUTO_ALLOW_TTL passes. *)
GrantExpires ==
    /\ HasGrant
    /\ grant' = [grant EXCEPT !.expired = TRUE]
    /\ UNCHANGED <<taskVars, deny, stop, userVars, historyVars>>

(* /stop: the marker.  The patterns with which it then kills the model      *)
(* server match no command line that starts one, so only the socket of the *)
(* server goes, and the next task gets another server: a memory as clean   *)
(* as the one StartTask leaves.                                            *)
UserStops ==
    /\ RequestStop
    /\ UNCHANGED <<taskVars, deny, grant, userVars, allowed, misses, late>>

BotStep ==
    \/ \E t \in Tasks, choice \in Choices : TapFinds(t, choice) \/ TapMisses(t, choice)
    \/ \E x \in taps : TapAnswers(x) \/ TapGrants(x)
    \/ GrantExpires
    \/ UserStops

Init ==
    /\ pc = [t \in Tasks |-> "new"]
    /\ step = [t \in Tasks |-> 0] /\ left = [t \in Tasks |-> 0]
    /\ kind = [t \in Tasks |-> "other"]
    /\ auth = [t \in Tasks |-> "none"]
    /\ entry = [t \in Tasks |-> "absent"]
    /\ seen = [t \in Tasks |-> 0]
    /\ deny = 0
    /\ grant = NoTap
    /\ stop = FALSE
    /\ taps = {}
    /\ heard = [t \in Tasks |-> {}]
    /\ allowed = {}
    /\ misses = [t \in Tasks |-> 0]
    /\ owed = [t \in Tasks |-> FALSE]
    /\ late = [t \in Tasks |-> [calls |-> 0, shell |-> 0]]

Next ==
    \/ \E t \in Tasks : StartTask(t) \/ TaskStep(t)
    \/ BotStep

Spec == Init /\ [][Next]_vars

(* The loop's thread goes on: the model, the command and the wait for the  *)
(* user all have their timeouts.  Nothing is assumed of the user.          *)
FairSpec == Spec /\ \A t \in Tasks : WF_vars(TaskStep(t))

-----------------------------------------------------------------------------
(* Types of the gate's state. *)
TypeOK ==
    /\ pc \in [Tasks -> Stages]
    /\ step \in [Tasks -> 0..MaxSteps] /\ left \in [Tasks -> 0..MaxCalls]
    /\ kind \in [Tasks -> Kinds]
    /\ auth \in [Tasks -> Auths]
    /\ entry \in [Tasks -> {"absent", "open"} \union Choices]
    /\ seen \in [Tasks -> Nat]
    /\ deny \in Nat
    /\ grant \in Grants \union {NoTap}
    /\ stop \in BOOLEAN
    /\ taps \subseteq Tap
    /\ heard \in [Tasks -> SUBSET Choices]
    /\ allowed \subseteq Tasks
    /\ misses \in [Tasks -> Nat]
    /\ owed \in [Tasks -> BOOLEAN]
    /\ late \in [Tasks -> [calls : Nat, shell : Nat]]

(* No command that is neither safe nor another tool ever runs unless the   *)
(* user tapped Allow or "Approve all" on its own request, or "Approve all" *)
(* on an earlier one; a blocked command never runs, not even under a       *)
(* grant.  Timeouts, failed sends, late and repeated taps do not help.     *)
RunsOnlyAuthorised ==
    \A t \in Tasks : pc[t] = "run" =>
        /\ kind[t] # "blocked"
        /\ kind[t] = "risky" =>
              \/ auth[t] = "tap" /\ heard[t] \intersect {"allow", "allow_all"} # {}
              \/ auth[t] \in allowed

(* A grant is the one of the task that runs, however the previous task     *)
(* ended; only a tap that raced the timeout of its request, and lands      *)
(* after its task, can leave one behind.                                   *)
GrantScoped ==
    \A t \in Tasks : Running(t) /\ HasGrant /\ ~grant.raced => grant.by = t

(* A tap on a request that still waits is its answer as soon as the bot's  *)
(* thread has handled it: no tap is swallowed.                             *)
TapIsAnswer ==
    \A t \in Tasks : entry[t] = "open" /\ heard[t] # {} =>
        \E x \in taps : x.task = t /\ OfCall(x)

(* Three consecutive refusals or timeouts in a task stop it, wherever in   *)
(* the loop they fall and whatever was approved before them.               *)
ThreeDenialsStop ==
    \A t \in Tasks :
        misses[t] >= MaxDenies /\ Running(t)
            => stop \/ pc[t] \in {"refused", "counting", "stopping"}

(* After /stop or the three denials, a task that was running runs at most  *)
(* the shell command that was past the check of exec_shell, and no call of *)
(* another reply than the one it was at: in-process just the call it was   *)
(* making, on the server as many as a reply may have.                      *)
StopBoundsCalls ==
    \A t \in Tasks : late[t].shell <= 1 /\ late[t].calls <= PerReply

(* A task starts with nothing of an earlier one: no grant, no denials, no  *)
(* stop (clear_task_state, auth_gate.py:295-296, "so nothing ... leaks     *)
(* into an unrelated later task").                                         *)
TaskStartsClean ==
    [][\A t \in Tasks : pc[t] = "new" /\ pc'[t] = "top"
            => grant' = NoTap /\ deny' = 0 /\ ~stop']_vars

(* Every task ends: a request nobody answers does not block its loop.      *)
TasksEnd == \A t \in Tasks : Running(t) ~> pc[t] = "done"
=============================================================================
