# A formal model of eva-agent

TLA+ modules that model parts of eva-agent, the TLC configurations that check
them on small instances, and theorems checked with the TLA+ proof system. Paths
without a directory are under `src/src/core` or its subdirectories; `evolution/`
stands for `src/src/core/evolution/`.

1. [The system](#the-system): the inventory
2. [The modules](#the-modules): how state and actions correspond to the code
3. [The runs](#the-runs): what is checked, bounds, fairness
4. [The proofs](#the-proofs)
5. [Seen in the model](#seen-in-the-model): where code and documents differ
6. [What is not modelled](#what-is-not-modelled)
7. [The plan](#the-plan)

## The system

eva-agent is a personal agent that runs on one machine. Two processes matter:
the *bot* (Telegram polling, the agent, the API, the background engines; each
message and each tap is handled in a thread of its own) and the *model server*
(a socket server around the local models). The agent answers a message with a
tool loop; what it could not do is stored as a failed request, and background
threads try to acquire or synthesise a skill that could ("evolution").

| component | state | operations | hard behaviours | what makes it correct |
|---|---|---|---|---|
| evolution state machine (`evolution/evolution_state.py`) | one record (state, iterations, cap, two stamps), its JSON file | start, pause, resume, stop, reset, should_evolve, increment, load, save | crash inside a save, failed save, any order of operations | file and memory agree; stamps fit the state; a control survives a restart |
| evolution cycle (`evolution_hook.py`, `evolver.py`, `code_synthesizer.py`) | skill directories, the step each thread is at | maybe_evolve: search, clone, approve, synthesise, install, count | two threads at once, minutes between check and count, partial directories, one handler for many failures | the cap, a halt, and the user's decision are respected; every cycle ends |
| pending synthesis and its taps (`pending_synthesis.py`, `telegram_callbacks.py`) | `pending_synthesis.json`, the messages shown | enqueue, remove, approve, reject | double taps, crash after the record is removed, torn file | asked once, decided at most once, acted upon at most once and only if approved |
| evolution API (`api/routers/evolution.py`) | none of its own | control, trigger | the trigger checks and acts in two steps | a stop is not undone |
| shell authorization gate (`auth_gate.py`, `tools.py`) | per chat: open requests, grant, denial counter, stop | request_auth, resolve_auth, clear_task_state, request_stop | tap against timeout, tap after the task, requests and taps in different processes, unlocked counter | nothing risky runs unauthorised; a grant ends with its task; three denials stop |
| tool loops (`inference/model.py`, `inference/handlers/tools.py`, `inference/provider.py`) | step counter, the calls of the model's reply | infer_with_tools, _handle_infer_with_tools and the cloud loops | copies of one protocol that differ; a stop between any two steps; a reply of several calls | a stop ends the loop; the loop ends |
| emergency stop (`telegram_maintenance.py`) | the stop marker | /stop | another task of the chat clears it | the running task stops |
| Think-at-Rest (`services/thought_engine.py`, `thought_engine_support.py`) | the clock of the last cycle, last signal values, proactive counter; all else is in stores | idle detector, manual trigger, a cycle of three phases (failed requests, signals, exploration) | two cycles at once on one engine, lists that go stale while a request is evolved for minutes, a yield gate that also sees the engine's own model calls, swallowed failures of a store | a failed request costs a bounded number of evolutions and settles; the day's cap holds; nothing starves exploration |
| goal discovery (`pipelines/goal_discovery.py`, `database/agent/promoted_signals.py`) | ring buffer of texts, deferred list, promoted signals | seed at boot, cycle over recurring patterns, drain one deferred, promote, resolve | the machine changes state between check and run; an exception ends a loop or the thread; rows of the log that drop out of view | a recurring pattern is tried; one the log shows is not tried again |
| failed requests (`database/agent/failed_requests.py`) | SQLite table | record, list, bump, mark pending, resolve | a confirmation races a cycle that holds the request | a confirmed request stays confirmed |
| critique layer (`layers/critique_layer.py`) | none | run a skill in a sandbox with a timeout, judge, ask the user | timeout against late answer | the verdict decides what is stored |
| model activity (`inference/activity.py`, `model_client.py`) | in-flight counter and two time stamps in a file | begin, end, reset by age | two processes, no lock, a file that is truncated and then written | idle only if nothing is in flight; a counter left up does not keep the engine away |
| model slots (`inference/slots.py`, `handlers/slots.py`, `model_slots.py`) | loaded models, path, backend | load on demand, alias, swap, unload | one lock that a swap does not take, failures half way | the engine is loaded once; a swap serves what it was asked for |
| model server (`inference/model_server.py`, `loaders.py`, `vllm.py`, `handlers/`) | module globals, `load_lock` | one thread per request | requests and swaps at once, clients that give up | every request ends |
| providers (`inference/provider.py`) | routing table | fallback | partial failure | some provider answers |
| chat memory (`agent.py`, `memory/memory.py`, `database/memory/chat_history.py`) | JSON window, tables sessions and messages | load, pre-save, save, rotate, erase | two messages of a chat at once, rotation and append in separate calls, a count taken for a position | a chat is kept in order; what is erased stays erased |
| Telegram polling (`services/channels/telegram_poll.py`) | offset, its file | getUpdates, write the offset, a thread per update | crash between offset and thread, torn offset file | handled once, in which cases not at all |
| question and computer-use gates (`ask_questions_gate.py`, `computer_confirm_gate.py`) | open questions | ask, answer, time out | like the shell gate | an answer reaches its question |
| replicas (`replica/replica.py`) | pipeline of replicas | start, stop, chain | partial failure | a chain ends |
| observer, probes (`layers/observer_layer.py`, `probe_store.py`) | probe table | ask, answer, expire | answer after expiry | answered at most once |

How they interact. Think-at-Rest and goal discovery call `maybe_evolve`, each in
its own thread; only Think-at-Rest knows a chat to ask. The cycle asks the state
machine whether it may run, and counts itself there at the end. A request for
approval goes to Telegram; the tap comes back in a thread of the bot, which
starts a daemon thread for the synthesis. The API operates the state machine.
The tool loops call the authorization gate, which blocks on an event that a
thread of the bot sets; with a local model the loop may run in the model server,
whose memory the bot does not share. A turn of the chat is a client of the model
server: it marks its call in the activity file, which Think-at-Rest reads to stay
out of the way, and stores question and answer in the chat memory. Think-at-Rest
promotes ideas to goal discovery through the promoted signals. The rest of the list (ranking, updater,
dashboard, devices) is in `PROJECT.json` with the reason it stays outside.

## The modules

| module | models | extends / instantiates |
|---|---|---|
| `EvolutionState` | the state machine and its file | |
| `Evolution` | the cycle, the taps, the API and crashes, around the state machine | `EvolutionState`; instance of `ApprovalGate` |
| `ApprovalGate` | what an approval gate promises: new, asked, approved or rejected, finished, or lost | |
| `AuthGate` | the authorization gate, the tool loops and the threads of the bot | |
| `GoalDiscovery` | the discovery thread, promoted signals, what the evolution log knows of a pattern | |
| `ThinkAtRest` | the engine, failed requests, critique, probes, the user's confirmations; composed with goal discovery | `GoalDiscovery` |
| `ModelActivity` | the activity file, its writers and the engine that heals it | |
| `ModelServer` | the server's threads over its globals, and their clients | `ModelActivity` |
| `Conversation` | what the memory of a chat promises: a log to which turns are added and which a command empties | |
| `ChatTurns` | polling, a turn from load to save, sessions, erasing commands | instance of `Conversation` |
| `Serving` | chat, server and marker together, with crashes of the bot | `ChatTurns`, `ModelServer` |
| `EvolutionStateProofs`, `EvolutionProofs`, `AuthGateProofs`, `ThinkAtRestProofs`, `ServingProofs` | the proofs | the module of that name |
| `ModelActivityProofs` | the proof about the marker, as `Serving` drives it | `Serving` |
| `FoldLemmas` | induction on numbers, sets of numbers and sequences; what `FoldLeft` computes | the library's theorems |
| `ChatTurnsProofs` | the proofs about the chat, its lists and its refinement, and the types of `Serving` | `ServingProofs`, `ModelActivityProofs`, `FoldLemmas` |
| `MCEvolutionState`, `MCEvolution`, `MCAuthGate`, `MCThinkAtRest`, `MCServing` | small sets and scenes for TLC | the module of that name |

**EvolutionState.** `mem` is the module-level record, `disk` the content of
`evolution_state.json` (or `NoRecord`: missing or not parseable), `up` whether
the process runs, `saved` whether the last save completed. Each operation holds
the lock for its whole body and is one action; the record it makes is an operator
of its own (`Started`, `Paused`, ...). `Persist` is the save: it succeeds, fails
to open the file (the old content stays) or is cut short (`NoRecord`), and the
operation goes on in each case because `_save_state` swallows its exceptions.
`pause()` saves the same record twice in one critical section: one `Persist`.
The stamps are kept as set or not set.

**Evolution.** `pc` and `task` say where each thread is in `maybe_evolve` and for
which skill; `skill` what is in each skill directory (absent, partial, complete);
`store`, `shown` and `fate` are the pending requests, the messages that were
delivered and what became of each id; `trigger` is the progress of one
`POST /evolution/trigger`. `BeginCycle` and `RefuseAtCap` are `should_evolve`
with its two outcomes, the second of which pauses. Tier 1 is `SearchMisses`,
`FindsLocal`, `FindsInstalled` and the clone, whose directory exists from its
start to its end. The gate either is skipped (no chat), asks and ends the cycle,
or raises, in which case the handler runs the legacy synthesis. Tier 2 overwrites
(pipeline) or installs only if absent (legacy). The skill a synthesis names is
chosen by a model and is any skill. The approved synthesis runs in its own
thread (`Worker...`) and is neither counted nor checked. `Crash` ends all
threads; the files stay. `sinceHalt` is a history variable.

**AuthGate.** One chat: every dictionary of the gate is keyed by chat. `pc`,
`step`, `left`, `kind`, `auth`, `entry` and `seen` belong to a task, that is one run
of a tool loop; `deny`, `grant` and `stop` to the chat; `taps` are the threads of the
bot in the middle of `resolve_auth`. `Host` selects the loop: in the bot's
process, in the model server (no tap finds its request), or one of the cloud
loops (no reset at the start, no look at the stop). A step of the loop is one reply
of the model. `left` counts the calls of the reply that come after the current one:
the in-process loop runs one call of a reply, the other loops all of them
(`NextCall`), the server at most eight (`MaxCalls`; its two-stage loop has no limit),
and no loop looks at the stop in between; only `exec_shell` does, for itself
(`StoppedByUser`). `GivesUp` are the guards that end a task between two calls of a
reply. A call whose arguments do not fit is not run: the reply is one with a call
less. The wait ends by answer or timeout; the model does not tell which came first, so every race of a tap with
the timeout is there. `TapFinds`, `TapAnswers` and `TapGrants` are the unlocked
steps of `resolve_auth`; `ReadsDenials`, `WritesDenials` and `StopsAfterDenials`
those of `_record_denial`. `heard`, `allowed`, `misses`, `owed` and `late` are
history variables: what the user tapped, how many refusals came in a row, who ran
when a stop came and how many calls, and of these shell commands, it still made.

**ApprovalGate** knows nothing of threads or files. `Evolution` maps to it with
`GatePhase`: an id that is pending and stored is asked, pending and not stored is
lost, in synthesis is approved.

**GoalDiscovery.** `weight` counts the texts of each pattern in the ring buffer,
`saved` the rows of `promoted_signals`, `logged` and `installed` what the
evolution log and the skill directory say under the pattern's name. The thread does
not see all of the log: successes are looked for among the 500 newest rows of a table
in which every activity of the process is logged, and of the gaps that start with the
same 80 characters only the newest is listed. `unseen` are the patterns whose row is
out of view for either reason, `Visible` those that `get_gaps` and `get_history`
return; `LogGrows` puts a row out of view, a row of its own brings the pattern back
(`LogsRow`). Only rows that goal discovery writes bear a pattern's name. `Seed` is the
boot, `Cycle`, `Pick` and `LoopEnds` are `_run_discovery_cycle`, `Drain` takes one
deferred pattern. `maybe_evolve` is here one call with its outcomes
(`EvolveReturns`, `EvolveRaises`).

**ThinkAtRest.** `at`, `list`, `cur`, `iter` and `handled` belong to the thread of a
cycle: the idle detector's or one that `POST /think/trigger` started. `store` is the
table of failed requests (open or closed, retry counter, reward, pending mark).
`StartsCycle` is the start of a cycle with the memory seeker, `ListRequests` the
identity consolidator and the first phase's query; `Consider` and `Evolve` one request; `Assess...` the critique and what follows it; `Count` and `Abandon` the
two transactions after every attempt; `Reflect` the second phase; `Explore` the
third, with what a thought may become. `TapYes`, `TapNo` and `TapCloses` are the
buttons, which stay on the screen. The engine holds back while the activity file shows a model call, or one that
ended within 30 s, and it does not tell its own calls from others: `attention` is what
others do, a choice; `warm` is set by each call the engine makes itself (`Seeks`,
`Consolidates`, `Calls`) and `ModelActive` is either. `Cools` is the passing of the
30 s; it does not happen between the housekeeping and the last request that a cycle
skips, since nothing there takes time. The seeker calls in every cycle when the server
is up and a message of the user is among the last 40 turns (`load.calls`), the
consolidator at most every 20 hours. The calls of goal discovery count as `attention`.
`ModelActivity` has how the file comes to say it. The clock is cut to what the engine compares: `since` (0 just now, 1 past
the floor, 2 past the interval) and `stale` (requests up to this one have left the
recency window). History: `attempts`, `late`, `noTaps`, `yes`, `racing`, `today`.

**ModelActivity.** A writer reads the file (`MarkStart`, `MarkEnd`), truncates it
(`Truncate`) and writes its changed copy (`WriteStart`, `WriteEnd`), each a step;
so does the engine that resets a counter it takes for stuck (`Heal...`). `Torn` is
the file in between. Ages are what `_model_is_active` tells apart: a start within
120 s, an end within 30 s. `muddled` says that two updates overlapped, one was cut,
or the counter was reset under a call.

**ModelServer.** `engine` is the vLLM engine's model, `main`, `nemo`, `hears`, `mm`
and `mmProc` attributes of `server_state`, `path` the configuration's model path,
`lock` is `load_lock`. `sv` has the server's thread of each call, `call` the client.
`Dispatch` is the handler table and the start of each handler; `TakeLock`,
`LoadEngine`, `HfBegins` and `HfLoads` are `_load_model` with the vLLM engine, the
fall-back and the early return; `SwapConfigures` leads a swap into the same loaders
without the lock; `Slot`, `SlotLoads`, `See` and `UseMain` are the image request;
`Route` and `Generate` an answer; of the server's generations only that of the
multimodal slot is marked in the activity file.

**ChatTurns.** `poll` and `offsetFile` are the poll loop; `turn` the thread of each
update, with the list it works on; `rows`, `sessions` and `window` the stores.
`Fetch` confirms what the offset covers; `Persist`, `WriteOffset` and `PersistFails`
are the write of the offset; `Spawn` starts the thread. `Load` is `memory.load`
(session lookup, deduplication, sanitising, trimming) and the pre-save; the markers
that sanitising cuts out of a user's message are data the messages here do not have; `Save` the
window and the choice of the session; `Rotate` and `Open` the two halves of a
rotation; `Count` and `Insert` those of `append_messages`; `Command` is /new or
/fresh. History: `told`, `forgotten`, `handled`, and `plain`, `strayed`, `slipped`,
which say that one of the disturbances named there has happened. Lists are filtered
with `Only`, a fold, since nothing can be proved about the built-in `SelectSeq`.

`Log` is what a user could read of all this: what the active session holds or, while
a save has opened a new session that is empty still (`Starting`), the part of the
history it brings along that was there before. `ImplementsConversation` says that
`Log` behaves as the `log` of `Conversation`.

**Serving** joins them: `CallServer` makes a turn a client, `Returned` makes an
answer or an error text of the outcome, `Marking` ties the steps of the marker to
the calls, `Crash` ends the bot's threads and leaves the server's, its models and
the marker as they are.

Definitions whose name ends like `...OffByOne`, `...Unsaved` or `...KeepsGrant`
and that a comment calls a mutant are wrong on purpose. No action uses them;
put in the place of the definition they vary, they make a property fail, which
shows that the property depends on that line of the code.

## The runs

| run | instance | shows |
|---|---|---|
| `control` | caps {0, 1, 3}, environment off, failing and torn saves, crashes; 51 thousand states | types, stamps, file and memory agree, a restart keeps the record |
| `cap` | two threads, no chat, two skills, caps {-1, 2}, crashes; 162 thousand states | the cap is overshot by less than the number of threads; a halt lets at most one cycle per thread be counted |
| `gate` | two threads, one with a chat, two ids, gate faults, failing saves, crashes; 856 thousand states | a stored request is undecided; the cycle implements `ApprovalGate` |
| `progress` | the same without crashes, under `FairSpec` | every cycle returns; every approved synthesis runs to its end |
| `auth_local` | two tasks, one at a time, 4 steps, 3 denials; 3 million states | a grant stays in its task, three denials stop, a stop leaves a task the call it was making |
| `auth_shared` | two tasks at once, 2 steps, 2 denials; 8 million states | nothing runs unauthorised; no tap is swallowed |
| `auth_server` | two tasks in the model server, 3 steps, up to 2 calls a reply, under `FairSpec` | every task ends although no tap arrives; a stop leaves a task one shell command and no call of a further reply |
| `unasked` | the cycle with faults of the gate | *violated*: synthesis asks first |
| `rest` | nine loads over two requests, two threads of cycles, two patterns, one fault, one restart, under `FairSpec`; 1.2 million states | what a failed request costs, when a confirmation is lost, the daily cap; requests settle if the housekeeping calls no model, exploration and promoted ideas get their turn, nothing the log shows is tried again |
| `serving` | 59 scenes: chats of up to three updates, three concurrent calls of the server, the marker under a crash, and all together, under `FairSpec`; 404 thousand states | the conversation is kept and erased and implements `Conversation`, updates are handled once and to the end, the engine is loaded once, a swap serves its model, requests end, idle means quiet |
| `error_answer` | a chat of three texts with error answers | *violated*: a saved turn is kept |
| `chatted` | `ThinkAtRest` with the two housekeeping calls always made | *violated*: a failed request is closed or leaves the recency window |

**Bounds.** `IterBound` bounds the counter and the caps `resume` hands out;
beyond one cap bump nothing new happens, since only the comparison of the counter
with the cap is used. `CapBump` is 20 in the code; only "positive" matters. Two
threads are what the code has (Think-at-Rest and goal discovery), and two ids let
one request be decided while another is open. The caps include a value that
`max(1, cap)` changes. `MaxSteps` is 60 in the code; 4 steps allow three denials
and a further call, 2 steps with `MaxDenies = 2` allow a request and a later one
in each of two tasks at once. `MaxCalls` is 8 on the server; 2 make a call that follows
another without a look at the stop, of either kind. `MaxTaps` bounds the taps handled at once; one thread suffices for a tap
to be overtaken by the end of its request, of its task, and by the start of
another task. `IdLeft` keeps a cycle that may ask from beginning without a free
id.

`rest` and `serving` combine many causes; a variable (`load`, `scene`) chosen in the
initial state says which of them a behaviour has, so that each combination that
could interact is explored without their product. In `rest`: two requests with a
listing limit of one (the limit matters with one more request than it lists), three
attempts cut to two, a critique of two iterations, a probe alarm of one, ideas that weigh as much as the threshold, one message
a day, a turn of the day, a restart, one fault of a store. In `serving`: `Split` is
200 messages in the code, 4 make the third turn rotate; a budget of three messages
makes a trim; at most two crashes, one fault of SQLite, one slip of the offset file;
three models, of which one has the Nemotron loader and one hears, and one fault of
the server (a failing load or a client that gives up). Three calls at once are two
that race and a swap or unload beside them. Marking is left out of the scenes in
which nobody reads the marker (`watched`). The scene's updates and calls are finite,
so the system may stop: the run does not check deadlock, `RequestsEnd` and
`UpdatesHandled` say instead that nothing is left waiting.

Safety is also proved without these bounds where the next section says so.

**Fairness.** `Evolution!Fairness`: a caller's thread and a worker go on, because
every call they make (git, provider, disk) has a timeout or returns; an
interrupted process is restarted (`deploy/kernel-evolving.service`, by systemd). `AuthGate`: the
thread of a loop goes on, because the model, the command and the 60 seconds of
the wait all end. Nothing is assumed of the user, the clients, taps, /stop or of
new cycles beginning. `ThinkAtRest`: the
idle detector polls (a `while True` with a sleep), and as long as some thread of the
engine can go on, one does, because every model call has a timeout (`EngineStep`); so
does the discovery thread, and time passes (`Tick \/ Cools`);
nothing is assumed of failing replies, taps, triggers, the operator, restarts or the
attention of the user. `Serving`: as long as some thread can go on, one does
(`Proceeds`); loads and generations return or raise, and a crash is followed by a
restart; no message need be sent and no call need time out. Weak fairness suffices: no step of a thread that goes on is
disabled by another thread for ever. `ApprovedFinishes` is checked without
crashes: a crash loses an approved synthesis ("Seen in the model").

## The proofs

All theorems are checked by TLAPS from the definitions and the named assumptions
on the constants (finite non-empty sets of threads, natural numbers, values that
are distinct). None depends on the bounds TLC uses.

*EvolutionStateProofs.* `ControlInv` adds to the types that the stamps are right
in memory and in the file and that the file mirrors the memory whenever the last
save completed. The stamps of the file are needed because a restart loads them.
From it: `ControlTypeCorrect`, `StampsCorrect`, `DiskCorrect`, and
`RestartKeepsControl`, an action property.

*EvolutionProofs.* Every action of the cycle is first shown to be of one of five
kinds as the state machine sees it (`StepKinds`: a cycle begins, ends and is
counted, the machine is operated, the process dies, or the machine rests); the
arithmetic is then done once per kind. `CapInv` says that a record has room for
the cycles in flight: `iterations + inFlight <= cap - 1 + threads`, and nothing is
in flight under a cap of zero. Without the second part it is not inductive, because
`EVOLUTION_MAX_ITERATIONS` may be zero and `reset()` keeps the cap. The record on
disk needs room for none, since a crash ends all cycles. `HaltInv`:
`sinceHalt + inFlight <= threads`, and `sinceHalt` is zero while running.
Theorems: `TypeCorrect`, `CapOvershootCorrect`, `HaltBoundsCyclesCorrect`,
`PendingUndecidedCorrect`, and `GateImplements`, the refinement of `ApprovalGate`:
each action is one step of it or changes no phase; a torn store and a crash are
its `Lose`.

*AuthGateProofs.* `GateInv` holds on every host with any number of tasks at once.
Its heart is `TapsAreHeard`: a tap being handled belongs to the current request of
its task or an earlier one, never to a later one, because every request has its
own step and place in the reply; so an answer found in an entry was tapped on it. From it `TypeCorrect`,
`AuthorisationCorrect` and, where the bot and the loop share memory
(`Host # "server"`), `TapIsAnswerCorrect`. `SoleInv` needs a local host and one
task at a time (`Sole`): then the counter of the chat is the task's own and
nobody clears a stop. From it `ThreeDenialsCorrect` and `GrantScopedCorrect`.
`LateCalls` is the argument for `StopBoundsCallsCorrect`: the calls made since the stop
and those the current reply may still make (`ToCome`) are together at most a reply's,
since no task that made one asks the model again; and once a shell command counts,
no other passes the check in `exec_shell`, so that only other tools follow. The
assumption is not idle: in a cloud loop, which never looks
at the stop, or with two tasks at once, the second of which clears it,
`StopBoundsCalls` fails. One task at a time is what a user does who waits for the
answer before writing again; the code does not enforce it. `TaskStartsCleanHolds`
(no run checks it: it is the effect of one action) adds that nothing but `StartTask`
lets a new task begin, on every host but the cloud loops.

*ThinkAtRestProofs.* `RestInv` has the types and what is in work: a thread that
lists or considers works on nothing, and what a thread works on has left its list.
`CycleKinds` reduces every step of a cycle to what it is for the requests (lists,
skips, begins, waits, counts, closes, lets go, or rests), `Rests` the rest of the
system to nothing. Three invariants are then shown once per kind. `CostInv`: an open
request has been begun at most as often as its counter says (at most `MaxRetry - 1`),
plus once for each thread that works on it and once for each failed update or, per
restart, each thread; a closed one costs nothing more than the threads that still
list it. It gives `AttemptsCorrect` and `LateCorrect`. `ConfirmInv`: a request
confirmed while no thread held it stays closed, with its reward and unheld, because
listings are of open requests and a "no" tap accounts for itself
(`ConfirmedCorrect`). `AdInv`: between the turn of the day and the reset only threads
that checked before may still send; after it, what was sent is counted or about to
be, and counter and threads under way stay below `MaxPerDay` plus the other threads
(`ProactiveCorrect`). `LoopInv` is goal discovery's: a pattern still in `todo` whose row
the log shows was among those read before the loop, because a row comes into view only
for a pattern the loop has tried and taken from `todo`, or by a restart, and rows that
go out of view do no harm (`NoReworkHolds`). `TypesInv` adds the remaining
variables, with what a thread at work holds at each place, for `TypeCorrect`.

*ServingProofs.* `OffsetInv` says, unless a write of the
offset slipped: whatever has been handled lies below the offset the next process
will start from, and between the write of an offset and the start of its thread the
update has not been handled. Where the offset is read depends on the place of the
poll loop, hence one conjunct per place. `TurnStepKeeps` disposes of the threads of
the chat, which touch none of it; from it `HandledOnceHolds`, for any number of
updates, crashes and batches. `EngineInv` is the argument of the double-checked lock:
a thread that loads on demand holds `load_lock` and, unless something ran beside a
swap or an unload, has seen under it that there is no engine (`EngineKeptHolds`).
`SwapInv` follows a swap that is alone: no model is resident while it loads, and the
path is the one it was asked for; and while no other kind of swap has happened, the HF
model is the one the path names, so that the multimodal slot can alias only itself
(`SwapServesHolds`, `ImagesAreSttHolds`). `ServerKinds` and `OneKeepsSwap` reduce the
server's thirteen actions to what they do to the lock, the path and the models.

*ModelActivityProofs.* `MarkInv`: as long as no updates overlapped, the content that
the file has, or will have again when the one update under way is written, counts
every call in flight, has a fresh start while one of them is young and a recent end
while one is. The copy of an update under way is part of it, since the file itself
is torn then. From it `IdleMeansQuietHolds`.

*FoldLemmas.* The induction theorems of the library take a predicate as a parameter,
which the provers cannot instantiate. That the naturals are well founded is however a
fact about a set (`WFMin`), and from it follow, with a set in the place of the
predicate, inductions over numbers, over the subsets of an interval (in the order in
which `FoldLeft` takes its elements) and over sequences (`SetInduction`,
`SubsetInduction`, `AppendInduction`). The community module defines `FoldLeft` by a
recursive function on sets of indices that is chosen; `RunExists` and `RunUnique` say
that there is one and one only, and `BuildFacts`, for a fold whose step is a function:
its type, its value on the empty sequence and on one with an element more.
`FiniteMax` gives a finite set its greatest value.

*ChatTurnsProofs.* First the lists, of any length: `Only`, `Deduplicated`, `Sanitised`,
`Said` are shown to be such folds. `DeduplicatedKeepsOne`: each text of a role is
returned once and none is lost. `SanitisedIsClean`: no error answer is left and no
user message follows another. Then four invariants of the chat.

`ChatTypes` says what a turn holds at each place and that ids are fresh (`NewIdIsNew`,
from the finiteness of what is stored). It gives `ServingTypesHold` together with the
types of the server and the marker.

`ErasedInv` gives `ErasedStaysErasedHolds`. That the rows of a forgotten turn are gone is
not inductive: /fresh erases the sessions it finds in the table, so every row must
have its session there, and so must a turn about to insert (`Housed`); and a turn in
flight carries a history, the window another, from which the next save would bring
the erased turns back, so both must be made of remembered turns.

`PlainInv` gives `PlainChatIsKeptHolds`. While `plain` holds, the chat is `Orderly`: one
turn in flight, one id among the active sessions, and that session holds what was
told, or the turn in flight starts a session over. What a turn carries from place to
place (`InStep`) is the history it loaded, then that history and its own two messages;
from the choice of the session to the insertion the history begins with the rows the
session has, so that the number of rows is the position at which the new ones begin,
which is what `append_messages` relies on.

`ToldInv`, with `OffsetInv`, says that a turn that was told has been handled and runs no
more, hence is not told again. From it and `Orderly`, `Log` equals `Said(told)` in every
plain state (`LogIs`), also in the middle of a rotation, and each step adds one turn
that was not there, empties the log or shows nothing (`ConversationImplemented`). The
refinement is conditional on `plain` and on no slip of the offset file because without
either it fails: two turns at once overwrite each other, and an update may be handled
twice.

The assumptions of these are types and finiteness: `RestAssumption`,
`DiscoveryAssumption` (patterns are finitely many), `ServerAssumption`,
`ServingAssumption` (updates are numbered, scenes make known requests and say yes or no
to what they switch on), `ChatAssumption` (finitely many updates, each scene sends a
sequence of known kinds of them), `ActivityAssumption` (finitely many callers).

*Only model-checked:* the liveness properties `ApprovedFinishes`, `CyclesEnd`,
`TasksEnd`, `FreshSettles`, `CuriosityNotStarved`, `PromotedIsTried`, `RequestsEnd`,
`UpdatesHandled` and `EngineResumes`, because liveness under fairness, which needs
ENABLED, is beyond the provers. Every other property of a run that passes is the
statement of a theorem. What the three runs refute is of course not proved.

## Seen in the model

Three disagreements are kept as runs that must find a violation, and are listed
under "findings" in `PROJECT.json`: an exception near the gate synthesises unasked;
after an error answer a question is not stored; the housekeeping of a cycle keeps its
failed requests from being evolved. The others were read off the same actions. Evolution and authorization:

- The cap is passed by one for every extra thread (`evolution_hook.py:36`, against
  "evolution can only proceed when state == RUNNING and iterations < cap",
  `evolution_state.py:11`). `CapOvershootBounded` is the
  bound that holds.
- An approval starts its synthesis while evolution is stopped
  (`evolution_hook.py:221`, against `evolution_state.py:11-12`).
- A skill that was already installed, or a directory left by a clone that was
  killed, counts as an acquisition (`evolution_hook.py:54`, `evolver.py:281`,
  `code_synthesizer.py:382`, against `evolution_state.py:111-112`).
- `resume()` adds 20 to the cap (`evolution_state.py:156`), its docstring says 10
  (`:150`).
- The trigger route reads the state and starts the machine in two steps, so that
  a stop in between is undone (`api/routers/evolution.py:123-127`); and it then
  refers to names its module does not have (`:118`, `:134`), so the cycle it is
  for never runs.
- An approved synthesis is lost with the process (`evolution_hook.py:221-252`,
  against `docs/ADR-021-tier2-approval-gate.md:59`). `GatePhase` calls it lost.
- The cloud loops clear neither grant nor denials nor stop when a task starts
  (`provider.py:587`, against `auth_gate.py:295-296` and `tools.py:632-633`).
- Two tasks of a chat share the denial counter, which is read and written without
  a lock (`auth_gate.py:229`, against `:38-40`).
- `request_auth` never returns "timeout", which its docstring lists
  (`auth_gate.py:108`).
- The provider's name at the Tier 2 gate is that of its class, so the setting
  that skips the question for local models never applies (`evolution_hook.py:290`,
  `:192`).
- `synthesize_with_fallback` hands the provider the task instead of the prompt it
  built (`code_synthesizer.py:165`).
- A save of the state machine that is cut short undoes a stop: `_load_persisted`
  takes the file for none, and the machine starts RUNNING if the environment says so
  (`evolution_state.py:49`, `:34-42`, against "Pause/stop state persists across
  restarts", `:13`). `DurableControl` is what holds when the last save completed.
- The cloud loops never look at the stop; only `exec_shell` does (`provider.py:587`,
  against `auth_gate.py:47-48`).
- The server runs up to eight calls of a reply, and its two-stage loop any number, with
  no look at the stop in between (`handlers/tools.py:811`, `:244`, against
  `auth_gate.py:45`, "to halt a running tool loop"). `StopBoundsCalls` is the bound that holds.
- `_pending` belongs to the process: for a loop in the model server no tap ever finds
  its request, and every approval times out as a denial (`auth_gate.py:196`, against
  `:4-6`). `TasksEnd` is checked under exactly this.
- A second message of the chat clears the stop the first was to see (`model.py:168`,
  against `telegram_maintenance.py:80`).
- The patterns with which /stop kills the model server match no command line that
  starts it (`telegram_maintenance.py:91-92`); only its socket goes.
- The buttons of a question carry an identifier its parser splits at the wrong
  place (`ask_questions_gate.py:68`, `telegram_callbacks.py:73`).

Think-at-Rest and goal discovery:

- A request whose answer waits for the user's confirmation is listed and evolved
  again, and closed as abandoned at the third attempt
  (`failed_requests.py:75`, `thought_engine.py:1368-1370`, against
  `docs/ADR-020-user-request-anchored-evolution.md:157`, "do not mark resolved, do
  not retry automatically").
- A cycle works on the list it read: a request closed meanwhile is evolved once more
  and its reward may be overwritten. `LateBounded` and `ConfirmedLostOnlyInRace` are
  the bounds that hold.
- Idle detector and manual trigger run cycles at the same time on one engine; both
  engine and user bump the retry counter, so a request may be given up after fewer
  than three attempts or cost more (`AttemptsBounded`).
- The confirmation buttons stay active; a yes and then a no flips the reward. The
  callback calls `record_resolution`, which the evolution log does not have
  (`telegram_callbacks.py:228`, `:247`), so the cleanup that the comment at
  `thought_engine.py:756` promises does not happen.
- Asking whether there is a performance signal consumes it, whether or not a cycle
  starts then.
- The memory seeker calls the model at the start of every cycle (`thought_engine.py:1238`,
  `:923`), and the yield gate then skips every failed request of that cycle
  (`:1337`, `:77-79`): with the server up and a message of the user in the chat, none is
  ever evolved while it is fresh. Run `chatted`; `FreshSettles` has the case where the
  housekeeping makes no call, and even then the evolution of one request puts off those
  listed after it.
- Goal discovery looks for its successes in the 500 newest rows of a table that all
  activity is logged in, and `get_gaps` lists one of the gaps that start alike
  (`goal_discovery.py:261`, `:298`, `:369`, `evolution_log.py:106-112`): a pattern whose
  row is out of view is evolved again. `NoRework` speaks of the rows in view.
- `_last_model_call_ts` is set by goal discovery only, so its idle check does not see
  the model calls of others; `record_unhandled` has no caller.
- A deferred pattern is taken off the list before it is known whether it may run;
  an exception while seeding ends the discovery thread (`goal_discovery.py:393`,
  `:409`).
- The counter of proactive messages is not kept across a restart and is raced
  (`thought_engine.py:825`, `:866`; `ProactiveBounded`).

Chat and polling:

- `append_messages` counts stored rows and uses the number as a position in a list
  that load deduplicates, sanitises and trims (`chat_history.py:197-201`): beyond
  `error_answer`, repeated texts and a trimmed history shift it as well.
- Two turns at once work on copies; the later save wins the window, and the count may
  skip the other's turn. `PlainChatIsKept` asks for one turn at a time.
- The auto-rotation stores the whole list into the new session, which then is long
  enough to rotate again at the next save (`memory.py:325-332`).
- /new clears the session whose id is the chat's, which after a rotation is not the
  active one (`telegram_commands.py:100`, `memory.py:365`). A turn in flight during
  /new or /fresh writes the erased turns back.
- The window written before the inference is read only when SQLite raises
  (`agent.py:453-457`, `memory.py:7`, against `memory.py:231-260`).
- A crash between the write of the offset and the start of the thread loses the
  update; a torn or failed write replays handled ones. `HandledOnce` names both.

The model server:

- A swap on the transformers backend answers ok and serves the old model, since the
  loader returns at once when one is resident (`loaders.py:50`, `handlers/slots.py:118-123`);
  the multimodal slot may then alias it (`slots.py:208`). `SwapServes` and
  `ImagesAreStt` say when this cannot happen.
- `is_nemotron` is cleared while the Nemotron stays: its answers are errors from then on.
- A swap takes no lock: beside a first request both load, and one of them replaces the
  other's engine (`EngineKept`).
- `from model_slots import` does not resolve when the server is run as a module, so
  `slot_registry` stays unset, and `load_slot` and `unload_slot` answer that there is
  no registry.
- `unload` clears names among the globals of a module that does not have them: the model
  of the multimodal slot, and the main model of the transformers backend, stay resident
  (`handlers/slots.py:57-72`, against `:48`, `:64-66`).
- Two images may both load the multimodal slot; one that fails drops the other's.
- Updates of the activity file by two writers are lost, or found torn and taken for
  a blank one (`activity.py:29`); and the engine resets the counter under a call of
  more than 120 s, whose end then counts below the others (`thought_engine.py:68`). `IdleMeansQuiet`
  asks that this has not happened.

## What is not modelled

Within the modelled components: prompts, scores, verdicts and other model output
are choices; the evolution log beyond what goal discovery reads of it, the control
log and all texts are left out; a session without a chat is not gated, by design,
and not modelled; two chats are two independent instances of `AuthGate`, except for
the module-global current chat (`agent.py:132`), which the plan has; the
classification of a command as safe, blocked or risky is taken as given. A handler
in `tools.py:637` runs the command if the gate raises anything but an ImportError;
no step of the gate raises in the model, so the handler is not there.

Of Think-at-Rest: what the memory seeker and the identity consolidator write (their
model calls are there), deferred drafts and the exploration data. The bot is taken to be configured (`ALLOWED_CHAT_ID`), and the
updates that button handlers and `mark_pending_confirm` make to the table do not
fail. The ring buffer of goal discovery does not overflow.

Of chat and server: one chat; one request per caller at a time, and at most one
thread of the server for it; the two reads of the database that a load makes are one
step; the long-term memory mirror, attachments, the critic's markers in a retried message and the relabelling of voice messages;
Janus and omni models, cloud vision, audio, drafts, the tool-calling slot; the death
of the server, and the ways it is started (`/models load`, `_ensure_local_server`).
The configuration file is not edited while the server runs, so its path is `Disk`.

Not modelled yet: everything in the inventory that the table of modules does not
name. The share of the program's lines that the modules stand for stays small for a
reason: of the 48 thousand lines most are prompts, text and command formatting, task generators,
computer-use drivers, dashboards and device code, which keep no state another part depends on. Not to be modelled: the updater, backup and bootstrap scripts, discovery on
the network, audio, vision and sensors, the dashboard and its queries (input and
output without a protocol), the skill ranking and the routine executor
(sequential code on data), and the older copies of modules directly under
`src/src`, which only scripts and manual tests import.

## The plan

Done: `EvolutionState`, `ApprovalGate`, `Evolution`, `AuthGate`, `GoalDiscovery`,
`ThinkAtRest`, `ModelActivity`, `ModelServer`, `Conversation`, `ChatTurns`, `Serving`, and the proofs
named above. `SlotRegistry`, which an earlier plan had, is not built by the running
server and dropped. Left, in this order:

1. `ConfirmGates`: the question and computer-use gates as instances of one abstract
   gate; a second refinement of `ApprovalGate`, if its phases fit.
2. `AuthGate` with two chats and the module-global current chat.
3. Lemmas under the liveness properties: that each wait has a step that ends it and that
   each retry lowers a measure, as invariants the provers can show.
4. `Replicas`, the providers' fallback, the rest of the probe store.

A new run takes the place of one it contains: `control` can be folded into `cap` with failing saves
switched on. Each new module comes with its type invariant; invariants are conjunctions of
named parts and no module under proof declares a RECURSIVE operator.
