----------------------------- MODULE ModelServer -----------------------------
(***************************************************************************)
(* The model server, src/src/core/inference: a socket server with one      *)
(* thread per request over module globals.  Inference loads the main model *)
(* on first use, under load_lock; an image loads the multimodal slot, and  *)
(* swap_model loads without any lock.  unload and swap_model mean to free  *)
(* what is resident and reset the vLLM engine only.                        *)
(*                                                                         *)
(* The client side is model_client._call: mark the activity, connect, wait *)
(* for the answer or give up, unmark.  What a load or a generation yields  *)
(* is a choice; a load fails at most FaultBound times.                     *)
(***************************************************************************)
EXTENDS ModelActivity

CONSTANTS
    Models, NoModel,
    NoCaller,      \* holds load_lock when nobody does
    Nemotron,      \* models with their own loader and their own generate
    Hears,         \* models that take audio and images themselves
    Stt,           \* stt_model.path
    Disk,          \* model.path of config.yaml
    FaultBound     \* bound: loads that fail, calls that time out

ASSUME ServerAssumption ==
    /\ NoModel \notin Models /\ NoCaller \notin Callers /\ {Stt, Disk} \subseteq Models
    /\ Nemotron \subseteq Models /\ Hears \subseteq Models /\ FaultBound \in Nat

VARIABLES
    engine,    \* the model of the vLLM engine
    main,      \* server_state.model
    nemo,      \* server_state.is_nemotron
    hears,     \* server_state.audio_capable
    mm, mmProc,   \* server_state.mm_model, and whether mm_processor is set
    path,      \* model.path of server_state.config, read from config.yaml by main
    vllm,      \* inference.backend is vllm
    lock,      \* the thread that holds load_lock
    sv,        \* the server thread of each call
    call,      \* the client of each call
    faults,
    \* history
    crossed,   \* requests that ran at the same time as a swap or an unload
    kept       \* a swap found an HF model resident, which it could not free

residentVars == <<engine, main, nemo, hears, mm, mmProc>>
serverVars == <<residentVars, path, vllm, lock, sv, call, faults, crossed, kept>>

Requests == [op : {"infer", "image", "unload", "swap"}, model : Models]
Answers == {"none", "ok", "error"}
Loading == {"engine", "hf", "hfLoads"}

ServerTypeOK ==
    /\ {engine, main, mm} \subseteq Models \cup {NoModel} /\ path \in Models
    /\ {nemo, hears, mmProc, vllm, kept} \subseteq BOOLEAN
    /\ lock \in Callers \cup {NoCaller}
    /\ sv \in [Callers -> [at : {"out", "begin", "ensure", "slot", "slotLoads", "see", "main", "route",
                                 "generate", "marked", "configure", "reply"} \cup Loading,
                           use : Models \cup {NoModel}, answer : Answers]]
    /\ call \in [Callers -> [at : {"out", "todo", "wait", "done"}, req : Requests, answer : Answers]]
    /\ faults \in 0..FaultBound /\ crossed \subseteq Callers

AtRest == [at |-> "out", use |-> NoModel, answer |-> "none"]

\* main: with --lazy nothing is loaded yet
ServerInit(lazy, backend) ==
    /\ engine = (IF lazy \/ ~backend \/ Disk \in Nemotron THEN NoModel ELSE Disk)
    /\ main = (IF lazy \/ engine = Disk THEN NoModel ELSE Disk)
    /\ nemo = (main \in Nemotron) /\ hears = (~lazy /\ Disk \in Hears)
    /\ mm = NoModel /\ mmProc = FALSE
    /\ path = Disk /\ vllm = backend /\ lock = NoCaller
    /\ sv = [c \in Callers |-> AtRest]
    /\ faults = 0 /\ crossed = {} /\ kept = FALSE

Op(c) == call[c].req.op
InServer == {c \in Callers : sv[c].at # "out"}
Changes(c) == Op(c) \in {"swap", "unload"}
Goto(c, at) == sv' = [sv EXCEPT ![c].at = at]
Reply(c, answer, model) == sv' = [sv EXCEPT ![c] = [at |-> "reply", use |-> model, answer |-> answer]]
MayFail == faults < FaultBound
Resident == engine # NoModel \/ main # NoModel
-----------------------------------------------------------------------------
(* The client.                                                             *)

\* s.connect, s.sendall: the server starts a thread.
Connect(c) ==
    /\ call[c].at = "todo" /\ Marked(<<c, "client">>)
    /\ call' = [call EXCEPT ![c].at = "wait"]
    /\ sv' = [sv EXCEPT ![c].at = "begin"]
    /\ crossed' = crossed \cup (IF Changes(c) \/ \E d \in InServer : Changes(d)
                                THEN IF InServer = {} THEN {} ELSE InServer \cup {c} ELSE {})
    /\ UNCHANGED <<residentVars, path, vllm, lock, faults, kept>>

\* The answer line is read; the thread of the server is done with it.
Answered(c) ==
    /\ call[c].at = "wait" /\ sv[c].at = "reply" /\ Unmarked(<<c, "server">>)
    /\ call' = [call EXCEPT ![c].at = "done", ![c].answer = sv[c].answer]
    /\ sv' = [sv EXCEPT ![c] = AtRest]
    /\ UNCHANGED <<residentVars, path, vllm, lock, faults, crossed, kept>>

\* socket.timeout: the request goes on in the server.
GiveUp(c) ==
    /\ call[c].at = "wait" /\ sv[c].at # "reply" /\ MayFail
    /\ call' = [call EXCEPT ![c].at = "done", ![c].answer = "error"]
    /\ faults' = faults + 1
    /\ UNCHANGED <<residentVars, path, vllm, lock, sv, crossed, kept>>

\* send_line to a client that has gone: BrokenPipeError
Unread(c) ==
    /\ call[c].at # "wait" /\ sv[c].at = "reply" /\ Unmarked(<<c, "server">>)
    /\ sv' = [sv EXCEPT ![c] = AtRest]
    /\ UNCHANGED <<residentVars, path, vllm, lock, call, faults, crossed, kept>>
-----------------------------------------------------------------------------
(* The threads of the server.                                              *)

\* The dispatch of HANDLERS; _handle_infer starts with _ensure_model.
Dispatch(c) ==
    /\ sv[c].at = "begin"
    /\ CASE Op(c) = "infer" -> Goto(c, IF Resident THEN "route" ELSE "ensure") /\ UNCHANGED residentVars
         [] Op(c) = "image" -> Goto(c, IF hears THEN "see" ELSE "slot") /\ UNCHANGED residentVars
         [] OTHER -> \* _vllm.reset(); the globals unload goes through do not hold the models
              /\ engine' = NoModel /\ nemo' = FALSE
              /\ IF Op(c) = "swap" THEN Goto(c, "configure") ELSE Reply(c, "ok", NoModel)
              /\ UNCHANGED <<main, hears, mm, mmProc>>
    /\ kept' = (kept \/ (Op(c) = "swap" /\ main # NoModel))
    /\ UNCHANGED <<path, vllm, lock, call, faults, crossed>>

\* What a request does once a model is there, and where it looks without one.
AfterLoad(c) == IF Op(c) = "image" THEN "main" ELSE "route"

\* Mutant: no second check under the lock.
TakeLockBlind(c) ==
    /\ sv[c].at = "ensure" /\ lock = NoCaller
    /\ path' = Disk /\ lock' = c
    /\ Goto(c, IF vllm /\ Disk \notin Nemotron THEN "engine" ELSE "hf")
    /\ UNCHANGED <<residentVars, vllm, call, faults, crossed, kept>>

\* _load_model: load_lock, the check again, config.yaml
TakeLock(c) ==
    /\ sv[c].at = "ensure" /\ lock = NoCaller
    /\ IF Resident
       THEN Goto(c, AfterLoad(c)) /\ UNCHANGED <<path, lock>>
       ELSE /\ path' = Disk /\ lock' = c
            /\ Goto(c, IF vllm /\ Disk \notin Nemotron THEN "engine" ELSE "hf")
    /\ UNCHANGED <<residentVars, vllm, call, faults, crossed, kept>>

\* swap_model writes the new path into the configuration, if it was read, and loads.
SwapConfigures(c) ==
    /\ sv[c].at = "configure"
    /\ path' = call[c].req.model
    /\ Goto(c, IF vllm /\ call[c].req.model \notin Nemotron THEN "engine" ELSE "hf")
    /\ UNCHANGED <<residentVars, vllm, lock, call, faults, crossed, kept>>

\* Mutant: a swap loads what config.yaml says.
WantedOnDisk(c) == Disk

\* model_path_override of a swap; an inference loads what it has read from config.yaml
Wanted(c) == IF Op(c) = "swap" THEN call[c].req.model ELSE Disk

Unlocked(c) == IF lock = c THEN NoCaller ELSE lock

\* _resolve_loaded_model_name
ResolvedName(e, m) == IF e # NoModel THEN e ELSE IF m # NoModel THEN m ELSE path

LoadDone(c) ==
    /\ lock' = Unlocked(c)
    /\ IF Op(c) = "swap" THEN Reply(c, "ok", ResolvedName(engine', main')) ELSE Goto(c, AfterLoad(c))

LoadRefusedLocked(c) ==      \* mutant: the lock is not released
    /\ UNCHANGED lock
    /\ Reply(c, "error", NoModel)

LoadRefused(c) ==
    /\ lock' = Unlocked(c)
    /\ Reply(c, "error", NoModel)

\* load_engine, and the fall-back to HF when it fails
LoadEngine(c) ==
    /\ sv[c].at = "engine"
    /\ \/ /\ engine' = Wanted(c) /\ hears' = (Wanted(c) \in Hears)
          /\ UNCHANGED <<main, nemo, mm, mmProc, faults>>
          /\ LoadDone(c)
       \/ /\ MayFail /\ faults' = faults + 1
          /\ engine' = NoModel
          /\ Goto(c, "hf")
          /\ UNCHANGED <<main, nemo, hears, mm, mmProc, lock>>
    /\ UNCHANGED <<path, vllm, call, crossed, kept>>

\* _load_hf_model and _load_nemotron return at once when a model is resident; without an
\* override the path is the one the configuration holds by now.
HfBegins(c) ==
    /\ sv[c].at = "hf"
    /\ UNCHANGED <<residentVars, path, vllm, call, faults, crossed, kept>>
    /\ IF main # NoModel THEN LoadDone(c)
       ELSE /\ sv' = [sv EXCEPT ![c].at = "hfLoads",
                                ![c].use = IF Op(c) = "swap" THEN call[c].req.model ELSE path]
            /\ UNCHANGED lock

HfLoads(c) ==
    /\ sv[c].at = "hfLoads"
    /\ \/ /\ main' = sv[c].use /\ nemo' = (nemo \/ Wanted(c) \in Nemotron)
          /\ hears' = (sv[c].use \in Hears)
          /\ UNCHANGED <<engine, mm, mmProc, faults>>
          /\ LoadDone(c)
       \/ /\ MayFail /\ faults' = faults + 1     \* the VRAM guard, a download
          /\ UNCHANGED residentVars
          /\ LoadRefused(c)
    /\ UNCHANGED <<path, vllm, call, crossed, kept>>

\* The way to a model, and the generation: a Nemotron is called through its own API only.
RouteOf(m, n) ==
    IF n THEN IF m \in Nemotron THEN "main" ELSE "error"
    ELSE IF engine # NoModel THEN "engine"
    ELSE IF m # NoModel /\ m \notin Nemotron THEN "main" ELSE "error"

Route(c) ==
    /\ sv[c].at = "route"
    /\ IF RouteOf(main, nemo) = "error" THEN Reply(c, "error", NoModel)
       ELSE sv' = [sv EXCEPT ![c].at = "generate",
                             ![c].use = IF RouteOf(main, nemo) = "engine" THEN engine ELSE main]
    /\ UNCHANGED <<residentVars, path, vllm, lock, call, faults, crossed, kept>>

\* The multimodal slot's generation is marked by the server too.  An engine that was reset meanwhile may
\* fail; then the HF model answers, if there is one.
Generate(c) ==
    /\ \/ sv[c].at = "generate"
       \/ sv[c].at = "marked" /\ Marked(<<c, "server">>)
    /\ \/ Reply(c, "ok", sv[c].use)
       \/ /\ Op(c) = "infer" /\ sv[c].use # engine /\ sv[c].use # main
          /\ IF main # NoModel THEN Reply(c, "ok", main) ELSE Reply(c, "error", NoModel)
    /\ UNCHANGED <<residentVars, path, vllm, lock, call, faults, crossed, kept>>

IsAliasAnyway == main # NoModel     \* mutant: the paths are not compared
IsAlias == path = Stt /\ main # NoModel

\* _ensure_multimodal_slot: resident, the main model again, or a load of its own
Slot(c) ==
    /\ sv[c].at = "slot"
    /\ IF mm # NoModel THEN Goto(c, "see") /\ UNCHANGED residentVars
       ELSE IF IsAlias
       THEN mm' = main /\ mmProc' = TRUE /\ Goto(c, "see") /\ UNCHANGED <<engine, main, nemo, hears>>
       ELSE mmProc' = TRUE /\ Goto(c, "slotLoads") /\ UNCHANGED <<engine, main, nemo, hears, mm>>
    /\ UNCHANGED <<path, vllm, lock, call, faults, crossed, kept>>

SlotLoads(c) ==
    /\ sv[c].at = "slotLoads" /\ Goto(c, "see")
    /\ \/ mm' = Stt /\ UNCHANGED <<mmProc, faults>>
       \/ /\ MayFail /\ faults' = faults + 1
          /\ mm' = NoModel /\ mmProc' = FALSE
    /\ UNCHANGED <<engine, main, nemo, hears, path, vllm, lock, call, crossed, kept>>

\* _handle_infer_with_image past the slot: the slot, else the main model, loaded if need be
See(c) ==
    /\ sv[c].at = "see"
    /\ IF mm # NoModel /\ mmProc
       THEN sv' = [sv EXCEPT ![c].at = "marked", ![c].use = mm]
       ELSE Goto(c, IF Resident THEN "main" ELSE "ensure")
    /\ UNCHANGED <<residentVars, path, vllm, lock, call, faults, crossed, kept>>

UseMain(c) ==
    /\ sv[c].at = "main"
    /\ IF main # NoModel THEN sv' = [sv EXCEPT ![c].at = "generate", ![c].use = main]
       ELSE Reply(c, "error", NoModel)
    /\ UNCHANGED <<residentVars, path, vllm, lock, call, faults, crossed, kept>>

ServerStep(c) ==
    \/ Dispatch(c) \/ TakeLock(c) \/ SwapConfigures(c) \/ LoadEngine(c) \/ HfBegins(c) \/ HfLoads(c)
    \/ Route(c) \/ Generate(c) \/ Slot(c) \/ SlotLoads(c) \/ See(c)
    \/ UseMain(c) \/ Unread(c)
-----------------------------------------------------------------------------
(* A load on demand replaces an engine in use only when a swap or an       *)
(* unload ran at the same time: two first requests load the model once.    *)
EngineKept ==
    [][engine # NoModel /\ engine' # engine =>
         \E c \in InServer : Changes(c) \/ c \in crossed]_engine

(* A swap that nothing ran beside, with no HF model resident when it       *)
(* began, and that answers ok, serves the model it was asked for.          *)
SwapServes ==
    \A c \in Callers : sv[c].at = "reply" /\ Op(c) = "swap" /\ sv[c].answer = "ok"
                       /\ c \notin crossed /\ ~kept
                       => sv[c].use = call[c].req.model

(* What answers images is the multimodal model, unless a swap could not    *)
(* free the HF model it found, or ran beside a load: then the slot may     *)
(* alias that other model.                                                 *)
ImagesAreStt == mm \in {NoModel, Stt} \/ kept \/ crossed # {}

(* Every request ends: no thread of the server waits for ever, whatever    *)
(* loads fail and whichever clients give up.                               *)
RequestsEnd == []<>(InServer = {})
=============================================================================
