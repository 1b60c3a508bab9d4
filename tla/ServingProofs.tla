---------------------------- MODULE ServingProofs ----------------------------
(* Proofs about Serving, for every chat, server and scene.                 *)
EXTENDS Serving, TLAPS

(* Updates are handled once because the offset file is written before the  *)
(* thread starts: what is handled lies below the file, what is being       *)
(* persisted or started is not handled yet, and the poll loop starts and   *)
(* restarts from the file.                                                 *)
OffsetType ==
    /\ handled \in [Turns -> Nat] /\ poll.offset \in Int /\ offsetFile \in Int /\ confirmed \in Int
    /\ poll.at \in {"down", "fetch", "persist", "write", "spawn"}
    /\ poll = [at |-> poll.at, offset |-> poll.offset, last |-> poll.last]

OffsetOrder ==
    ~slipped =>
         /\ \A u \in Turns : handled[u] <= 1
         /\ poll.at # "write" => \A u \in Turns : handled[u] > 0 => u < offsetFile
         /\ poll.at \in {"persist", "write", "spawn"} => \A u \in Turns : u >= poll.offset - 1 => handled[u] = 0
         /\ poll.at \in {"fetch", "spawn"} => poll.offset = offsetFile

OffsetInv == OffsetType /\ OffsetOrder

offsetVars == <<confirmed, poll, offsetFile, handled, slipped>>

(* Only the poll loop and a crash touch what the offset depends on.        *)
LEMMA OffsetKept == OffsetInv /\ UNCHANGED offsetVars => OffsetInv'
  BY DEF OffsetInv, OffsetType, OffsetOrder, offsetVars

(* Every turn step leaves the poll loop alone.                             *)
LEMMA TurnStepKeeps == ASSUME NEW u \in Turns, TurnStep(u) PROVE UNCHANGED offsetVars
  <1> USE DEF offsetVars, pollVars, chatHistory
  <1>1. CASE Load(u) BY <1>1 DEF Load
  <1>2. CASE InferCloud(u) BY <1>2 DEF InferCloud, Inferred
  <1>3. CASE Save(u) BY <1>3 DEF Save
  <1>4. CASE Rotate(u) BY <1>4 DEF Rotate
  <1>5. CASE Open(u) BY <1>5 DEF Open
  <1>6. CASE Count(u) BY <1>6 DEF Count
  <1>7. CASE Insert(u) BY <1>7 DEF Insert
  <1>8. CASE Command(u) BY <1>8 DEF Command
  <1> QED BY <1>1, <1>2, <1>3, <1>4, <1>5, <1>6, <1>7, <1>8 DEF TurnStep

(* The poll loop keeps the offset invariant.                               *)
LEMMA PollKeeps == ASSUME OffsetInv, PollStep PROVE OffsetInv'
  <1> USE ServingAssumption DEF OffsetInv, OffsetType, OffsetOrder, chatHistory, Update, Confirms, Spend
  <1>1. CASE Fetch BY <1>1 DEF Fetch
  <1>2. CASE Persist
    <2>1. /\ poll.at = "persist" /\ offsetFile' = 0
          /\ poll' = [at |-> "write", offset |-> poll.offset, last |-> poll.last]
          /\ UNCHANGED <<confirmed, handled, slipped>>
      BY <1>2 DEF Persist
    <2> QED BY <2>1
  <1>3. CASE PersistFails
    <2>1. /\ poll' = [at |-> "spawn", offset |-> poll.offset, last |-> poll.last]
          /\ UNCHANGED <<confirmed, handled, offsetFile>> /\ slipped'
      BY <1>3 DEF PersistFails
    <2>2. OffsetType' BY <2>1
    <2>3. OffsetOrder' BY <2>1
    <2> QED BY <2>2, <2>3
  <1>4. CASE WriteOffset
    <2>1. /\ poll.at = "write" /\ offsetFile' = poll.offset
          /\ poll' = [at |-> "spawn", offset |-> poll.offset, last |-> poll.last]
          /\ UNCHANGED <<confirmed, handled, slipped>>
      BY <1>4 DEF WriteOffset
    <2>2. OffsetType' BY <2>1
    <2>3. ASSUME ~slipped, NEW u \in Turns, handled[u] > 0 PROVE u < poll.offset
      <3>1. handled[u] \in Nat /\ u \in Int /\ poll.offset \in Int OBVIOUS
      <3>2. ~(u >= poll.offset - 1) BY <2>1, <2>3
      <3> QED BY <3>1, <3>2
    <2>4. OffsetOrder' BY <2>1, <2>3
    <2> QED BY <2>2, <2>4
  <1>5. CASE Spawn
    <2>1. /\ poll.at = "spawn" /\ UNCHANGED <<confirmed, offsetFile, slipped>>
          /\ handled' = [handled EXCEPT ![poll.offset - 1] = @ + 1]
      BY <1>5 DEF Spawn
    <2>2. \/ poll' = [poll EXCEPT !.at = "persist", !.offset = @ + 1]
          \/ poll' = [poll EXCEPT !.at = "fetch"]
      BY <1>5, Zenon DEF Spawn
    <2>3. \/ poll' = [at |-> "persist", offset |-> poll.offset + 1, last |-> poll.last]
          \/ poll' = [at |-> "fetch", offset |-> poll.offset, last |-> poll.last]
      BY <2>2
    <2>4. handled \in [Turns -> Nat] OBVIOUS
    <2>5. \A i \in Turns : [handled EXCEPT ![i] = @ + 1] \in [Turns -> Nat] BY ONLY <2>4
    <2>6. \A i : i \notin Turns => [handled EXCEPT ![i] = @ + 1] = handled BY ONLY <2>4
    <2>7. handled' \in [Turns -> Nat] BY ONLY <2>1, <2>4, <2>5, <2>6
    <2>8. \A u \in Turns : handled'[u] = IF u = poll.offset - 1 THEN handled[u] + 1 ELSE handled[u]
      BY ONLY <2>1, <2>4
    <2>9. OffsetType' BY <2>1, <2>3, <2>7
    <2>10. OffsetOrder' BY <2>1, <2>3, <2>7, <2>8
    <2> QED BY <2>9, <2>10
  <1>6. CASE Restart BY <1>6 DEF Restart
  <1> QED BY <1>1, <1>2, <1>3, <1>4, <1>5, <1>6 DEF PollStep

(* A crash between the truncation and the write slips; any other leaves a  *)
(* file that covers what was handled.                                      *)
LEMMA CrashKeeps == ASSUME OffsetInv, Crash PROVE OffsetInv'
  <1>1. /\ poll' = [at |-> "down", offset |-> 0, last |-> 0]
        /\ confirmed' = confirmed /\ handled' = handled /\ offsetFile' = offsetFile
    BY DEF Crash, ChatCrash
  <1>2. slipped' = (slipped \/ poll.at = "write") BY DEF Crash, ChatCrash
  <1>3. ~slipped' => ~slipped /\ poll.at # "write" BY <1>2
  <1> QED BY <1>1, <1>3 DEF OffsetInv, OffsetType, OffsetOrder

(* Every step of the system keeps the offset invariant.                    *)
LEMMA OffsetStep == ASSUME OffsetInv, [Next]_vars PROVE OffsetInv'
  <1>1. CASE Polls BY <1>1, PollKeeps DEF Polls
  <1>2. CASE Sends
    <2>1. UNCHANGED offsetVars BY <1>2 DEF Sends, Send, offsetVars, chatHistory
    <2> QED BY <2>1, OffsetKept
  <1>3. CASE Crash BY <1>3, CrashKeeps
  <1>4. ASSUME NEW u \in Turns, Chat(u) \/ CallServer(u) \/ Returned(u) PROVE OffsetInv'
    <2>1. CASE Chat(u) BY <2>1, TurnStepKeeps, OffsetKept DEF Chat
    <2>2. CASE CallServer(u)
      <3>1. UNCHANGED offsetVars BY <2>2 DEF CallServer, offsetVars, pollVars, chatHistory
      <3> QED BY <3>1, OffsetKept
    <2>3. CASE Returned(u)
      <3>1. UNCHANGED offsetVars BY <2>3 DEF Returned, Inferred, offsetVars, pollVars, chatHistory
      <3> QED BY <3>1, OffsetKept
    <2> QED BY <1>4, <2>1, <2>2, <2>3
  <1>5. ASSUME UNCHANGED chatVars PROVE OffsetInv'
    <2>1. UNCHANGED offsetVars BY <1>5 DEF chatVars, pollVars, chatHistory, offsetVars
    <2> QED BY <2>1, OffsetKept
  <1>6. ASSUME NEW p \in Peers, Marking(p) PROVE UNCHANGED chatVars BY <1>6 DEF Marking
  <1>7. ASSUME NEW c \in Callers, Serves(c) \/ TimesOut(c) PROVE UNCHANGED chatVars
    BY <1>7 DEF Serves, TimesOut
  <1>8. CASE Engine \/ TimePasses BY <1>8, <1>5 DEF Engine, TimePasses
  <1>9. CASE UNCHANGED vars BY <1>9, <1>5 DEF vars
  <1> QED BY <1>1, <1>2, <1>3, <1>4, <1>5, <1>6, <1>7, <1>8, <1>9 DEF Next, Proceeds

(* Whatever the chat, the crashes and the server do, an update is handled  *)
(* once unless a write of the offset failed or was cut (HandledOnce).      *)
THEOREM HandledOnceHolds == FairSpec => []HandledOnce
  <1>1. Init => OffsetInv BY DEF Init, ChatInit, OffsetInv, OffsetType, OffsetOrder
  <1>2. OffsetInv /\ [Next]_vars => OffsetInv' BY OffsetStep
  <1>3. OffsetInv => HandledOnce BY DEF OffsetInv, OffsetOrder, HandledOnce
  <1> QED BY <1>1, <1>2, <1>3, PTL DEF FairSpec
-----------------------------------------------------------------------------
(* A load on demand finds no engine: the thread that loads looked under the *)
(* lock, and only a swap loads without it; whoever runs beside a swap or an *)
(* unload is crossed.                                                      *)
CallShape ==
    /\ DOMAIN call = Callers
    /\ \A c \in Callers : {"at", "req", "answer"} \subseteq DOMAIN call[c] /\ call[c].req \in Requests
ServerShape == DOMAIN sv = Callers /\ \A c \in Callers : {"at", "use", "answer"} \subseteq DOMAIN sv[c]

EngineInv ==
    /\ CallShape /\ ServerShape
    /\ \A c \in Callers : sv[c].at = "configure" => Op(c) = "swap"
    /\ \A c \in Callers : sv[c].at \in Loading /\ ~Changes(c) => lock = c
    /\ \A c, d \in InServer : c # d /\ Changes(d) => c \in crossed /\ d \in crossed
    /\ \A c \in Callers : sv[c].at = "engine" /\ ~Changes(c) /\ c \notin crossed => engine = NoModel

(* What a step of a thread of the server is to the engine and the lock.    *)
Leaves(c) ==
    /\ engine' = engine /\ lock' \in {lock, Unlocked(c)}
    /\ sv'[c].at \notin Loading \cup {"configure"}
Takes(c) ==
    /\ engine = NoModel /\ engine' = engine /\ lock = NoCaller /\ lock' = c
    /\ sv'[c].at \in {"engine", "hf"}
GoesOn(c) ==
    /\ engine' = engine /\ lock' = lock
    /\ \/ sv[c].at = "configure" /\ sv'[c].at \in {"engine", "hf"}
       \/ sv[c].at = "hf" /\ sv'[c].at = "hfLoads"
Resets(c) ==
    /\ Changes(c) /\ engine' = NoModel /\ lock' = lock /\ sv'[c].at \notin Loading
    /\ sv'[c].at = "configure" => Op(c) = "swap"
LoadsAModel(c) ==
    /\ sv[c].at = "engine"
    /\ \/ lock' = lock /\ sv'[c].at = "hf"
       \/ lock' = Unlocked(c) /\ sv'[c].at \notin Loading \cup {"configure"}

Moves(c) ==
    /\ ServerShape' /\ \A d \in Callers \ {c} : sv'[d] = sv[d]
    /\ sv[c].at # "out" /\ crossed' = crossed

LEMMA ServerKinds ==
  ASSUME CallShape, ServerShape, NEW c \in Callers, ServerStep(c)
  PROVE  /\ Moves(c) /\ call' = call
         /\ Leaves(c) \/ Takes(c) \/ GoesOn(c) \/ Resets(c) \/ LoadsAModel(c)
  <1> USE DEF Moves, CallShape, ServerShape, Goto, Reply, AtRest, Loading, residentVars
  <1>1. CASE Dispatch(c)
    <2>1. CASE Op(c) = "infer" BY <1>1, <2>1 DEF Dispatch, Leaves
    <2>2. CASE Op(c) = "image" BY <1>1, <2>2 DEF Dispatch, Leaves
    <2>3. CASE Op(c) \notin {"infer", "image"} BY <1>1, <2>3 DEF Dispatch, Resets, Changes, Op, Requests
    <2> QED BY <2>1, <2>2, <2>3
  <1>2. CASE TakeLock(c) BY <1>2 DEF TakeLock, Takes, Leaves, Resident, AfterLoad
  <1>3. CASE SwapConfigures(c) BY <1>3 DEF SwapConfigures, GoesOn
  <1>4. CASE LoadEngine(c) BY <1>4 DEF LoadEngine, LoadDone, LoadsAModel, AfterLoad
  <1>5. CASE HfBegins(c) BY <1>5 DEF HfBegins, LoadDone, GoesOn, Leaves, AfterLoad
  <1>6. CASE HfLoads(c) BY <1>6 DEF HfLoads, LoadDone, LoadRefused, Leaves, AfterLoad
  <1>7. CASE Route(c) BY <1>7 DEF Route, Leaves
  <1>8. CASE Generate(c) BY <1>8 DEF Generate, Leaves
  <1>9. CASE Slot(c) BY <1>9 DEF Slot, Leaves
  <1>10. CASE SlotLoads(c) BY <1>10 DEF SlotLoads, Leaves
  <1>11. CASE See(c) BY <1>11 DEF See, Leaves
  <1>12. CASE UseMain(c) BY <1>12 DEF UseMain, Leaves
  <1>13. CASE Unread(c) BY <1>13 DEF Unread, Leaves
  <1> QED BY <1>1, <1>2, <1>3, <1>4, <1>5, <1>6, <1>7, <1>8, <1>9, <1>10, <1>11, <1>12, <1>13 DEF ServerStep

(* Each kind keeps the invariant.                                          *)
LEMMA KindsKeepEngine ==
  ASSUME EngineInv, NEW c \in Callers, Moves(c), CallShape', \A d \in Callers : call'[d].req = call[d].req,
         Leaves(c) \/ Takes(c) \/ GoesOn(c) \/ Resets(c) \/ LoadsAModel(c)
  PROVE  EngineInv'
  <1>1. \A d \in Callers : Op(d)' = Op(d) /\ Changes(d)' = Changes(d) BY DEF Op, Changes
  <1>2. InServer' \subseteq InServer BY DEF InServer, Moves
  <1>3. NoCaller \notin Callers BY ServerAssumption
  <1>4. \A d \in Callers : sv'[d].at = "configure" => Op(d)' = "swap"
    BY <1>1 DEF EngineInv, Moves, Leaves, Takes, GoesOn, Resets, LoadsAModel, Loading
  <1>5. \A d \in Callers : sv'[d].at \in Loading /\ ~Changes(d)' => lock' = d
    <2> SUFFICES ASSUME NEW d \in Callers, sv'[d].at \in Loading, ~Changes(d) PROVE lock' = d
      BY <1>1
    <2> USE DEF EngineInv, Moves, Leaves, Takes, GoesOn, Resets, LoadsAModel, Unlocked, Loading, Changes
    <2>1. CASE d = c BY <2>1
    <2>2. CASE d # c
      <3>1. lock = d BY <2>2
      <3> QED BY <1>3, <2>2, <3>1
    <2> QED BY <2>1, <2>2
  <1>6. \A d, e \in InServer' : d # e /\ Changes(e)' => d \in crossed' /\ e \in crossed'
    BY <1>1, <1>2 DEF EngineInv, Moves, InServer
  <1>7. ASSUME NEW d \in Callers, sv'[d].at = "engine", ~Changes(d)', d \notin crossed'
        PROVE  engine' = NoModel
    <2>1. ~Changes(d) /\ d \notin crossed BY <1>1, <1>7 DEF Moves
    <2>2. CASE LoadsAModel(c)
      <3>1. d # c /\ sv[d].at = "engine" /\ sv[c].at = "engine" BY <1>7, <2>2 DEF LoadsAModel, Moves, Loading
      <3>2. lock = d BY <2>1, <3>1 DEF EngineInv, Loading
      <3>3. ~Changes(c) BY <2>1, <3>1 DEF EngineInv, InServer
      <3>4. lock = c BY <3>1, <3>3 DEF EngineInv, Loading
      <3> QED BY <3>1, <3>2, <3>4
    <2>3. CASE Resets(c) BY <2>3 DEF Resets
    <2>4. CASE Leaves(c)
      <3>1. d # c /\ sv[d].at = "engine" BY <1>7, <2>4 DEF Leaves, Moves, Loading
      <3> QED BY <2>1, <2>4, <3>1 DEF EngineInv, Leaves
    <2>5. CASE Takes(c) BY <2>5 DEF Takes
    <2>6. CASE GoesOn(c)
      <3>1. sv[d].at = "engine" \/ (d = c /\ Changes(d))
        BY <1>7, <2>6 DEF GoesOn, Moves, EngineInv, Changes
      <3> QED BY <2>1, <2>6, <3>1 DEF EngineInv, GoesOn
    <2> QED BY <2>2, <2>3, <2>4, <2>5, <2>6
  <1> QED BY <1>4, <1>5, <1>6, <1>7 DEF EngineInv, Moves

(* A client connects: whoever is in the server with a swap is crossed.     *)
LEMMA ConnectKeepsEngine == ASSUME EngineInv, NEW c \in Callers, Connect(c) PROVE EngineInv'
  <1>1. /\ CallShape' /\ ServerShape' /\ sv'[c].at = "begin"
        /\ \A d \in Callers \ {c} : sv'[d] = sv[d]
        /\ \A d \in Callers : call'[d].req = call[d].req
    BY DEF EngineInv, CallShape, ServerShape, Connect
  <1>2. engine' = engine /\ lock' = lock BY DEF Connect, residentVars
  <1>3. \A d \in Callers : Op(d)' = Op(d) /\ Changes(d)' = Changes(d) BY <1>1 DEF Op, Changes
  <1>4. InServer' = InServer \cup {c} BY <1>1 DEF InServer
  <1>5. crossed \subseteq crossed' BY DEF Connect
  <1>6. \A d, e \in InServer' : d # e /\ Changes(e)' => d \in crossed' /\ e \in crossed'
    <2> SUFFICES ASSUME NEW d \in InServer', NEW e \in InServer', d # e, Changes(e)
                 PROVE  d \in crossed' /\ e \in crossed'
      BY <1>3 DEF InServer
    <2>1. CASE d # c /\ e # c BY <1>4, <1>5, <2>1 DEF EngineInv
    <2>2. CASE d = c \/ e = c
      <3>1. InServer # {} /\ (Changes(c) \/ \E f \in InServer : Changes(f)) BY <1>4, <2>2
      <3>2. crossed' = crossed \cup InServer \cup {c} BY <3>1 DEF Connect
      <3> QED BY <1>4, <3>2
    <2> QED BY <2>1, <2>2
  <1> QED BY <1>1, <1>2, <1>3, <1>5, <1>6 DEF EngineInv, Loading

(* What only changes what a client waits for keeps it.                     *)
LEMMA ClientKeepsEngine ==
  ASSUME EngineInv, CallShape', UNCHANGED <<engine, lock, sv, crossed>>,
         \A d \in Callers : call'[d].req = call[d].req \/ sv[d].at = "out"
  PROVE  EngineInv'
  <1>1. \A d \in InServer : Op(d)' = Op(d) /\ Changes(d)' = Changes(d) BY DEF Op, Changes, InServer
  <1>2. InServer' = InServer BY DEF InServer
  <1>3. \A d \in Callers : sv[d].at \in Loading \cup {"configure"} => d \in InServer BY DEF InServer, Loading
  <1> QED BY <1>1, <1>2, <1>3 DEF EngineInv, ServerShape, Loading

(* EngineInv holds throughout, and a step that breaks EngineKept breaks it. *)
LEMMA EngineStep ==
  ASSUME EngineInv, [Next]_vars
  PROVE  /\ EngineInv'
         /\ engine # NoModel /\ engine' # engine => \E c \in InServer : Changes(c) \/ c \in crossed
  <1> DEFINE Kept == engine # NoModel /\ engine' # engine => \E c \in InServer : Changes(c) \/ c \in crossed
  <1>1. ASSUME NEW c \in Callers, ServerStep(c) PROVE EngineInv' /\ Kept
    <2>1. /\ Moves(c) /\ call' = call
          /\ Leaves(c) \/ Takes(c) \/ GoesOn(c) \/ Resets(c) \/ LoadsAModel(c)
      BY <1>1, ServerKinds DEF EngineInv
    <2>2. CallShape' BY <2>1 DEF EngineInv, CallShape
    <2>3. EngineInv' BY <2>1, <2>2, KindsKeepEngine
    <2>4. c \in InServer BY <2>1 DEF Moves, InServer
    <2>5. Kept BY <2>1, <2>4 DEF EngineInv, Leaves, Takes, GoesOn, Resets, LoadsAModel
    <2> QED BY <2>3, <2>5
  <1>2. ASSUME NEW c \in Callers, Answered(c) PROVE EngineInv' /\ Kept
    <2>1. /\ CallShape' /\ Moves(c) /\ Leaves(c)
          /\ \A d \in Callers : call'[d].req = call[d].req
      BY <1>2 DEF Answered, EngineInv, CallShape, ServerShape, Moves, Leaves, AtRest, Loading, residentVars
    <2> QED BY <2>1, KindsKeepEngine DEF Leaves
  <1>3. ASSUME NEW c \in Callers, Connect(c) PROVE EngineInv' /\ Kept
    BY <1>3, ConnectKeepsEngine DEF Connect, residentVars
  <1>4. ASSUME NEW c \in Callers, Serves(c) PROVE EngineInv' /\ Kept
    BY <1>1, <1>2, <1>3, <1>4 DEF Serves
  <1>5. ASSUME NEW c \in Callers, TimesOut(c) PROVE EngineInv' /\ Kept
    <2>1. /\ CallShape' /\ UNCHANGED <<engine, lock, sv, crossed>>
          /\ \A d \in Callers : call'[d].req = call[d].req
      BY <1>5 DEF TimesOut, GiveUp, EngineInv, CallShape, residentVars
    <2> QED BY <2>1, ClientKeepsEngine
  <1>6. CASE Crash
    <2>1. /\ CallShape' /\ UNCHANGED <<engine, lock, sv, crossed>>
          /\ \A d \in Callers : call'[d].req = call[d].req
      BY <1>6 DEF Crash, EngineInv, CallShape, residentVars
    <2> QED BY <2>1, ClientKeepsEngine
  <1>7. ASSUME NEW u \in Turns, CallServer(u) PROVE EngineInv' /\ Kept
    <2>1. /\ CallShape' /\ UNCHANGED <<engine, lock, sv, crossed>>
          /\ \A d \in Callers : call'[d].req = call[d].req \/ sv[d].at = "out"
      BY <1>7, ServerAssumption DEF CallServer, EngineInv, CallShape, residentVars, Asks, Requests
    <2> QED BY <2>1, ClientKeepsEngine
  <1>8. ASSUME UNCHANGED serverVars PROVE EngineInv' /\ Kept
    <2>1. UNCHANGED <<engine, lock, sv, crossed, call>> BY <1>8 DEF serverVars, residentVars
    <2>2. CallShape' BY <2>1 DEF EngineInv, CallShape
    <2> QED BY <2>1, <2>2, ClientKeepsEngine
  <1>9. CASE Polls \/ Sends \/ Engine \/ TimePasses \/ UNCHANGED vars
    BY <1>8, <1>9 DEF Polls, Sends, Engine, TimePasses, vars
  <1>10. ASSUME NEW u \in Turns, Chat(u) \/ Returned(u) PROVE EngineInv' /\ Kept
    BY <1>8, <1>10 DEF Chat, Returned
  <1>11. ASSUME NEW p \in Peers, Marking(p) PROVE EngineInv' /\ Kept BY <1>8, <1>11 DEF Marking
  <1> QED BY <1>4, <1>5, <1>6, <1>7, <1>9, <1>10, <1>11 DEF Next, Proceeds

LEMMA EngineInit == Init => EngineInv
  <1> SUFFICES ASSUME Init PROVE EngineInv OBVIOUS
  <1>1. sv = [c \in Callers |-> AtRest] BY DEF Init, ServerInit
  <1>2. CallShape
    <2>1. \A c \in DOMAIN scene.calls : Asks(c) \in Requests
      BY ServingAssumption, ServerAssumption DEF Init, ChatInit, Asks, Requests
    <2> QED BY <2>1, ServerAssumption DEF Init, CallShape, Requests
  <1>3. ServerShape /\ \A c \in Callers : sv[c].at = "out" BY <1>1 DEF AtRest, ServerShape
  <1> QED BY <1>2, <1>3 DEF EngineInv, InServer, Loading

(* An engine in use is replaced by a load on demand only beside a swap or  *)
(* an unload, for any number of clients and models (EngineKept).           *)
THEOREM EngineKeptHolds == FairSpec => EngineKept
  <1>1. Init => EngineInv BY EngineInit
  <1>2. EngineInv /\ [Next]_vars => EngineInv' BY EngineStep
  <1>3. EngineInv /\ [Next]_vars
        => [engine # NoModel /\ engine' # engine =>
              \E c \in InServer : Changes(c) \/ c \in crossed]_engine
    BY EngineStep
  <1> QED BY <1>1, <1>2, <1>3, PTL DEF FairSpec, EngineKept
-----------------------------------------------------------------------------
(* A swap that nothing runs beside finds and leaves no other model; while  *)
(* there was no other kind of swap, the HF model is the one the path names. *)
Alone(c) == Op(c) = "swap" /\ c \notin crossed /\ ~kept
SwapPlaces == {"out", "begin", "configure", "reply"} \cup Loading

SwapInv ==
    /\ \A c \in Callers : Op(c) = "swap" => sv[c].at \in SwapPlaces
    /\ \A c \in Callers : Alone(c) =>
          /\ sv[c].at \in Loading \cup {"configure"} => engine = NoModel /\ main = NoModel
          /\ sv[c].at \in Loading => path = call[c].req.model
          /\ sv[c].at = "hfLoads" => sv[c].use = call[c].req.model
          /\ sv[c].at = "reply" /\ sv[c].answer = "ok" => sv[c].use = call[c].req.model
    /\ crossed = {} /\ ~kept =>
          /\ main \in {NoModel, path} /\ mm \in {NoModel, Stt}
          /\ \A c \in Callers : sv[c].at = "hfLoads" => sv[c].use = path /\ main = NoModel

(* A step of the server keeps it if it keeps it for its own request and,   *)
(* nothing being crossed, for the models; whoever else runs a swap or      *)
(* loads is then not there.                                                *)
LEMMA OneKeepsSwap ==
  ASSUME EngineInv, SwapInv, NEW c \in Callers, Moves(c),
         \A d \in Callers : call'[d].req = call[d].req, kept => kept',
         Op(c) = "swap" => sv'[c].at \in SwapPlaces,
         Alone(c)' =>
            /\ sv'[c].at \in Loading \cup {"configure"} => engine' = NoModel /\ main' = NoModel
            /\ sv'[c].at \in Loading => path' = call[c].req.model
            /\ sv'[c].at = "hfLoads" => sv'[c].use = call[c].req.model
            /\ sv'[c].at = "reply" /\ sv'[c].answer = "ok" => sv'[c].use = call[c].req.model,
         crossed = {} /\ ~kept' =>
            /\ main' \in {NoModel, path'} /\ mm' \in {NoModel, Stt}
            /\ sv'[c].at = "hfLoads" => sv'[c].use = path' /\ main' = NoModel
            /\ \/ path' = path /\ main' = main
               \/ \A d \in Callers \ {c} : sv[d].at # "hfLoads"
  PROVE  SwapInv'
  <1>1. \A d \in Callers : Op(d)' = Op(d) BY DEF Op
  <1>2. c \in InServer BY DEF Moves, InServer
  <1>3. ASSUME NEW d \in Callers, d # c, Alone(d)' PROVE sv'[d].at = "out"
    <2>1. d \notin crossed /\ Changes(d) BY <1>1, <1>3 DEF Alone, Moves, Changes
    <2>2. d \notin InServer BY <1>2, <1>3, <2>1 DEF EngineInv
    <2> QED BY <1>3, <2>2 DEF InServer, Moves
  <1>4. \A d \in Callers : Alone(d)' =>
          /\ sv'[d].at \in Loading \cup {"configure"} => engine' = NoModel /\ main' = NoModel
          /\ sv'[d].at \in Loading => path' = call'[d].req.model
          /\ sv'[d].at = "hfLoads" => sv'[d].use = call'[d].req.model
          /\ sv'[d].at = "reply" /\ sv'[d].answer = "ok" => sv'[d].use = call'[d].req.model
    <2> TAKE d \in Callers
    <2>1. CASE d = c BY <2>1
    <2>2. CASE d # c BY <1>3, <2>2 DEF Loading
    <2> QED BY <2>1, <2>2
  <1>5. crossed' = {} /\ ~kept' =>
          /\ main' \in {NoModel, path'} /\ mm' \in {NoModel, Stt}
          /\ \A d \in Callers : sv'[d].at = "hfLoads" => sv'[d].use = path' /\ main' = NoModel
    BY DEF Moves, SwapInv
  <1>6. \A d \in Callers : Op(d)' = "swap" => sv'[d].at \in SwapPlaces BY <1>1 DEF SwapInv, Moves
  <1> QED BY <1>4, <1>5, <1>6 DEF SwapInv, SwapPlaces, Loading

(* Loads on demand exclude each other, and a load excludes a swap.         *)
LEMMA LoadsAlone ==
  ASSUME EngineInv, crossed = {}, NEW c \in InServer,
         lock = NoCaller \/ sv[c].at \in Loading \cup {"configure"}
  PROVE  \A d \in Callers \ {c} : sv[d].at # "hfLoads"
  <1> SUFFICES ASSUME NEW d \in Callers \ {c}, sv[d].at = "hfLoads" PROVE FALSE OBVIOUS
  <1>1. d \in InServer /\ ~Changes(d) /\ ~Changes(c) BY DEF EngineInv, InServer
  <1>2. lock = d BY <1>1 DEF EngineInv, Loading
  <1>3. sv[c].at \in Loading \cup {"configure"} BY <1>2, ServerAssumption
  <1>4. sv[c].at \in Loading BY <1>1, <1>3 DEF EngineInv, InServer, Changes
  <1>5. lock = c BY <1>1, <1>4 DEF EngineInv, InServer
  <1> QED BY <1>2, <1>5

LEMMA ServerKeepsSwap ==
  ASSUME EngineInv, SwapInv, NEW c \in Callers, ServerStep(c)
  PROVE  SwapInv'
  <1>1. Moves(c) /\ call' = call BY ServerKinds DEF EngineInv
  <1>2. c \in InServer BY <1>1 DEF Moves, InServer
  <1>3. /\ Op(c)' = Op(c) /\ \A d \in Callers : call'[d].req = call[d].req
        /\ call[c].req.model \in Models /\ call[c].req.op \in {"infer", "image", "unload", "swap"}
        /\ Disk \in Models /\ NoModel \notin Models
    BY <1>1, ServerAssumption DEF EngineInv, CallShape, Requests, Op
  <1>4. ServerShape /\ crossed' = crossed BY <1>1 DEF EngineInv, Moves
  <1>5. Op(c) = "swap" => sv[c].at \in SwapPlaces BY DEF SwapInv
  <1> USE DEF ServerShape, Goto, Reply, Loading, residentVars, SwapPlaces
  <1>6. CASE Dispatch(c)
    <2>1. /\ main' = main /\ path' = path /\ mm' = mm
          /\ Op(c) = "swap" => sv'[c].at = "configure" /\ engine' = NoModel
          /\ sv'[c].at \notin Loading
      BY <1>4, <1>6 DEF Dispatch, Op
    <2>2. (kept => kept') /\ (Op(c) = "swap" /\ ~kept' => main = NoModel) BY <1>6, Zenon DEF Dispatch
    <2>3. Alone(c)' => Op(c) = "swap" /\ sv'[c].at = "configure" /\ engine' = NoModel /\ main' = NoModel
      BY <1>3, <2>1, <2>2 DEF Alone
    <2>4. crossed = {} /\ ~kept' => main' \in {NoModel, path'} /\ mm' \in {NoModel, Stt}
      BY <2>1, <2>2 DEF SwapInv
    <2> QED BY <1>1, <1>3, <2>1, <2>2, <2>3, <2>4, OneKeepsSwap
  <1>7. CASE TakeLock(c)
    <2>1. /\ engine' = engine /\ main' = main /\ mm' = mm /\ kept' = kept
          /\ sv'[c].at \notin {"configure", "hfLoads", "reply"}
          /\ path' = path \/ (path' = Disk /\ main = NoModel /\ lock = NoCaller)
      BY <1>4, <1>7 DEF TakeLock, Resident, AfterLoad
    <2>2. Op(c) # "swap" BY <1>5, <1>7 DEF TakeLock
    <2>3. crossed = {} => path' = path \/ \A d \in Callers \ {c} : sv[d].at # "hfLoads"
      BY <1>2, <2>1, LoadsAlone
    <2> QED BY <1>1, <1>3, <2>1, <2>2, <2>3, OneKeepsSwap DEF SwapInv, Alone
  <1>8. CASE SwapConfigures(c)
    <2>1. /\ engine' = engine /\ main' = main /\ mm' = mm /\ kept' = kept
          /\ sv[c].at = "configure" /\ sv'[c].at \in {"engine", "hf"} /\ path' = call[c].req.model
      BY <1>4, <1>8 DEF SwapConfigures
    <2>2. Op(c) = "swap" BY <2>1 DEF EngineInv
    <2>3. crossed = {} => \A d \in Callers \ {c} : sv[d].at # "hfLoads" BY <1>2, <2>1, LoadsAlone
    <2>4. Alone(c)' => Alone(c) BY <1>3, <1>4, <2>1 DEF Alone
    <2>5. crossed = {} /\ ~kept => Alone(c) BY <2>2 DEF Alone
    <2> QED BY <1>1, <1>3, <2>1, <2>2, <2>3, <2>4, <2>5, OneKeepsSwap DEF SwapInv
  <1>9. CASE LoadEngine(c)
    <2>1. /\ main' = main /\ path' = path /\ mm' = mm /\ kept' = kept /\ sv[c].at = "engine"
          /\ \/ engine' = NoModel /\ sv'[c].at = "hf"
             \/ /\ engine' = Wanted(c) /\ sv'[c].at \notin Loading \cup {"configure"}
                /\ Op(c) = "swap" => /\ sv'[c].at = "reply"
                                     /\ sv'[c].use = ResolvedName(Wanted(c), main)
      BY <1>4, <1>9 DEF LoadEngine, LoadDone, AfterLoad
    <2>2. Op(c) = "swap" => ResolvedName(Wanted(c), main) = call[c].req.model
      BY <1>3 DEF ResolvedName, Wanted
    <2>3. Alone(c)' => Alone(c) BY <1>3, <1>4, <2>1 DEF Alone
    <2> QED BY <1>1, <1>3, <2>1, <2>2, <2>3, OneKeepsSwap DEF SwapInv, Alone
  <1>10. CASE HfBegins(c)
    <2>1. /\ engine' = engine /\ main' = main /\ path' = path /\ mm' = mm /\ kept' = kept /\ sv[c].at = "hf"
          /\ \/ main = NoModel /\ sv'[c].at = "hfLoads"
                /\ sv'[c].use = IF Op(c) = "swap" THEN call[c].req.model ELSE path
             \/ main # NoModel /\ sv'[c].at \notin Loading \cup {"configure"} /\ (Op(c) # "swap" => sv'[c].at # "reply")
                /\ (Op(c) = "swap" => sv'[c].at = "reply")
      BY <1>4, <1>10 DEF HfBegins, LoadDone, AfterLoad
    <2>2. Alone(c)' => Alone(c) /\ main = NoModel BY <1>3, <1>4, <2>1 DEF Alone, SwapInv
    <2>3. crossed = {} /\ ~kept /\ Op(c) = "swap" => path = call[c].req.model BY <2>1 DEF Alone, SwapInv
    <2> QED BY <1>1, <1>3, <2>1, <2>2, <2>3, OneKeepsSwap DEF SwapInv, Alone
  <1>11. CASE HfLoads(c)
    <2>1. /\ engine' = engine /\ path' = path /\ mm' = mm /\ kept' = kept /\ sv[c].at = "hfLoads"
          /\ sv'[c].at \notin Loading \cup {"configure"} /\ (Op(c) = "swap" => sv'[c].at = "reply")
          /\ \/ main' = sv[c].use /\ (Op(c) = "swap" => sv'[c].use = ResolvedName(engine, sv[c].use))
             \/ main' = main /\ sv'[c].answer = "error"
      BY <1>4, <1>11 DEF HfLoads, LoadDone, LoadRefused, AfterLoad
    <2>2. Alone(c)' => Alone(c) /\ engine = NoModel /\ sv[c].use = call[c].req.model
      BY <1>3, <1>4, <2>1 DEF Alone, SwapInv
    <2>3. Alone(c) => ResolvedName(NoModel, call[c].req.model) = call[c].req.model
      BY <1>3 DEF ResolvedName
    <2>4. crossed = {} => \A d \in Callers \ {c} : sv[d].at # "hfLoads" BY <1>2, <2>1, LoadsAlone
    <2> QED BY <1>1, <1>3, <2>1, <2>2, <2>3, <2>4, OneKeepsSwap DEF SwapInv, Alone
  <1>12. CASE Slot(c) \/ SlotLoads(c)
    <2>1. /\ main' = main /\ path' = path /\ engine' = engine /\ kept' = kept
          /\ sv[c].at \in {"slot", "slotLoads"} /\ sv'[c].at \in {"see", "slotLoads"}
          /\ mm' \in {mm, NoModel, Stt} \/ (mm' = main /\ path = Stt /\ main # NoModel)
      BY <1>4, <1>12 DEF Slot, SlotLoads, IsAlias
    <2>2. Op(c) # "swap" BY <1>5, <2>1
    <2> QED BY <1>1, <1>3, <2>1, <2>2, OneKeepsSwap DEF SwapInv, Alone
  <1>13. CASE Route(c) \/ Generate(c) \/ See(c) \/ UseMain(c) \/ Unread(c)
    <2>1. /\ main' = main /\ path' = path /\ engine' = engine /\ mm' = mm /\ kept' = kept
          /\ sv'[c].at \notin Loading \cup {"configure"}
          /\ Op(c) = "swap" => sv'[c].at = "out"
      BY <1>4, <1>5, <1>13 DEF Route, Generate, See, UseMain, Unread, AtRest
    <2> QED BY <1>1, <1>3, <2>1, OneKeepsSwap DEF SwapInv, Alone
  <1> QED BY <1>6, <1>7, <1>8, <1>9, <1>10, <1>11, <1>12, <1>13 DEF ServerStep

(* What leaves the models alone keeps it, a request that begins or ends too. *)
LEMMA RestKeepsSwap ==
  ASSUME EngineInv, SwapInv, UNCHANGED <<engine, main, mm, path, kept>>, crossed \subseteq crossed',
         \A d \in Callers : /\ call'[d].req = call[d].req \/ sv'[d].at \in {"out", "begin"}
                            /\ sv'[d] = sv[d] \/ sv'[d].at \in {"out", "begin"}
  PROVE  SwapInv'
  <1>1. \A d \in Callers : Op(d)' = Op(d) \/ sv'[d].at \in {"out", "begin"} BY DEF Op
  <1> QED BY <1>1 DEF SwapInv, Alone, SwapPlaces, Loading

(* SwapInv holds throughout.                                               *)
LEMMA SwapStep == ASSUME EngineInv, SwapInv, [Next]_vars PROVE SwapInv'
  <1> DEFINE Same == UNCHANGED <<engine, main, mm, path, kept>> /\ crossed \subseteq crossed'
  <1> DEFINE Apart == \A d \in Callers : /\ call'[d].req = call[d].req \/ sv'[d].at \in {"out", "begin"}
                                         /\ sv'[d] = sv[d] \/ sv'[d].at \in {"out", "begin"}
  <1> USE DEF residentVars
  <1>1. CallShape /\ ServerShape BY DEF EngineInv
  <1>2. Same /\ Apart => SwapInv' BY RestKeepsSwap
  <1>3. ASSUME NEW c \in Callers, Serves(c) PROVE SwapInv'
    <2>1. CASE ServerStep(c) BY <2>1, ServerKeepsSwap
    <2>2. CASE Answered(c)
      <3>1. Same BY <2>2 DEF Answered
      <3>2. Apart BY <1>1, <2>2 DEF Answered, CallShape, ServerShape, AtRest
      <3> QED BY <1>2, <3>1, <3>2
    <2>3. CASE Connect(c)
      <3>1. Same BY <2>3 DEF Connect
      <3>2. Apart BY <1>1, <2>3 DEF Connect, CallShape, ServerShape
      <3> QED BY <1>2, <3>1, <3>2
    <2> QED BY <1>3, <2>1, <2>2, <2>3 DEF Serves
  <1>4. ASSUME NEW c \in Callers, TimesOut(c) PROVE SwapInv'
    <2>1. Same /\ Apart BY <1>1, <1>4 DEF TimesOut, GiveUp, CallShape, ServerShape
    <2> QED BY <1>2, <2>1
  <1>5. CASE Crash
    <2>1. Same /\ Apart BY <1>1, <1>5 DEF Crash, CallShape, ServerShape
    <2> QED BY <1>2, <2>1
  <1>6. ASSUME NEW u \in Turns, CallServer(u) PROVE SwapInv'
    <2>1. Same /\ Apart BY <1>1, <1>6 DEF CallServer, CallShape, ServerShape
    <2> QED BY <1>2, <2>1
  <1>7. ASSUME UNCHANGED serverVars PROVE SwapInv'
    <2>1. Same /\ Apart BY <1>7 DEF serverVars
    <2> QED BY <1>2, <2>1
  <1>8. CASE Polls \/ Sends \/ Engine \/ TimePasses \/ UNCHANGED vars
    BY <1>7, <1>8 DEF Polls, Sends, Engine, TimePasses, vars
  <1>9. ASSUME NEW u \in Turns, Chat(u) \/ Returned(u) PROVE SwapInv'
    BY <1>7, <1>9 DEF Chat, Returned
  <1>10. ASSUME NEW p \in Peers, Marking(p) PROVE SwapInv' BY <1>7, <1>10 DEF Marking
  <1> QED BY <1>3, <1>4, <1>5, <1>6, <1>8, <1>9, <1>10 DEF Next, Proceeds

LEMMA SwapInit == Init => SwapInv
  <1> SUFFICES ASSUME Init PROVE SwapInv OBVIOUS
  <1>1. \A c \in Callers : sv[c].at = "out" BY DEF Init, ServerInit, AtRest
  <1>2. main \in {NoModel, path} /\ mm = NoModel BY DEF Init, ServerInit
  <1> QED BY <1>1, <1>2 DEF SwapInv, SwapPlaces, Loading

(* A swap that had the server to itself serves the model it was asked for  *)
(* (SwapServes).                                                           *)
THEOREM SwapServesHolds == FairSpec => []SwapServes
  <1>1. SwapInv => SwapServes BY DEF SwapInv, SwapServes, Alone
  <1> QED BY <1>1, EngineInit, SwapInit, EngineStep, SwapStep, PTL DEF FairSpec

(* Images are answered by the multimodal model as long as no swap found an *)
(* HF model or ran beside another request (ImagesAreStt).                  *)
THEOREM ImagesAreSttHolds == FairSpec => []ImagesAreStt
  <1>1. SwapInv => ImagesAreStt BY DEF SwapInv, ImagesAreStt
  <1> QED BY <1>1, EngineInit, SwapInit, EngineStep, SwapStep, PTL DEF FairSpec
=============================================================================
