------------------------------- MODULE Serving -------------------------------
(***************************************************************************)
(* A chat, the model server and the activity marker together.  A turn that *)
(* infers locally is a client of the model server: it marks its call,      *)
(* sends it and makes an error answer of whatever goes wrong; other        *)
(* processes (Clients) call the server too, and change the model.  The     *)
(* bot's crash takes its turns and its clients with it and leaves the      *)
(* threads of the server and the marker behind.                            *)
(***************************************************************************)
EXTENDS ChatTurns, ModelServer

CONSTANT Clients

ASSUME ServingAssumption ==
    /\ Turns \subseteq Nat
    /\ \A s \in Scenes : /\ \A c \in DOMAIN s.calls : s.calls[c] \in Requests
                         /\ {s.lazy, s.vllm, s.watched} \subseteq BOOLEAN

vars == <<chatVars, serverVars, activityVars>>

\* scene: local: inference is local; calls: the request of each client that makes one;
\* lazy, vllm: how the server was started; watched: Think-at-Rest is enabled
Asks(c) == IF c \in Turns THEN [op |-> IF Kind(c) = "photo" THEN "image" ELSE "infer", model |-> Disk]
           ELSE scene.calls[c]

ServingTypeOK == ChatTypeOK /\ ServerTypeOK /\ ActivityTypeOK

Init ==
    /\ ChatInit /\ ActivityInit(scene.watched) /\ ServerInit(scene.lazy, scene.vllm)
    /\ call = [c \in Callers |->
                 IF c \in DOMAIN scene.calls THEN [at |-> "todo", req |-> Asks(c), answer |-> "none"]
                 ELSE [at |-> "out", req |-> [op |-> "infer", model |-> Disk], answer |-> "none"]]
-----------------------------------------------------------------------------
(* infer and infer_with_image of model_client: a call, and the text made   *)
(* of its outcome.                                                         *)
CallServer(u) ==
    /\ turn[u].at = "infer" /\ scene.local /\ sv[u].at = "out"
    /\ turn' = [turn EXCEPT ![u].at = "calling"]
    /\ call' = [call EXCEPT ![u] = [at |-> "todo", req |-> Asks(u), answer |-> "none"]]
    /\ UNCHANGED <<scene, pollVars, storeVars, chatHistory, activityVars, residentVars, path, vllm,
                   lock, sv, faults, crossed, kept>>

Returned(u) ==
    /\ turn[u].at = "calling" /\ call[u].at = "done" /\ Unmarked(<<u, "client">>)
    /\ Inferred(u, IF call[u].answer = "ok" THEN "answer" ELSE "error")
    /\ UNCHANGED <<serverVars, activityVars>>

\* When the marks of a call are due: around the whole call, and around some generations.
Begins(p) == IF p[2] = "client" THEN call[p[1]].at = "todo" ELSE sv[p[1]].at = "marked"
Ends(p) == IF p[2] = "client" THEN call[p[1]].at = "done" ELSE sv[p[1]].at = "reply"

Marking(p) ==
    /\ \/ MarkStart(p) /\ Begins(p)
       \/ MarkEnd(p) /\ Ends(p)
       \/ Truncate(p)
       \/ WriteStart(p)
       \/ WriteEnd(p)
    /\ UNCHANGED <<chatVars, serverVars>>

Serves(c) == (Connect(c) \/ Answered(c) \/ ServerStep(c)) /\ UNCHANGED <<chatVars, activityVars>>
TimesOut(c) == GiveUp(c) /\ UNCHANGED <<chatVars, activityVars>>

Engine ==
    /\ HealRead \/ HealOpen \/ HealWrite
    /\ UNCHANGED <<chatVars, serverVars>>

TimePasses ==
    /\ QuietPause \/ LongPause
    /\ UNCHANGED <<chatVars, serverVars>>

\* The calls of the clients that run in the process of the bot die with it.
Inside == Turns \cup scene.inside

Crash ==
    /\ ChatCrash /\ Cut(Inside)
    /\ call' = [c \in Callers |-> IF c \in Inside /\ call[c].at # "out"
                                  THEN [call[c] EXCEPT !.at = "done", !.answer = "error"] ELSE call[c]]
    /\ UNCHANGED <<residentVars, path, vllm, lock, sv, faults, crossed, kept>>

Chat(u) == TurnStep(u) /\ UNCHANGED <<serverVars, activityVars>>
Polls == PollStep /\ UNCHANGED <<serverVars, activityVars>>
Sends == Send /\ UNCHANGED <<serverVars, activityVars>>

Proceeds ==
    \/ Polls
    \/ \E u \in Turns : Chat(u) \/ CallServer(u) \/ Returned(u)
    \/ \E p \in Peers : Marking(p)
    \/ \E c \in Callers : Serves(c)
    \/ Engine \/ TimePasses

Next == Proceeds \/ Sends \/ Crash \/ \E c \in Callers : TimesOut(c)

\* As long as a thread can go on, one does; the bot is restarted after a crash.  The user owes
\* no message, and no call need time out.
FairSpec == Init /\ [][Next]_vars /\ WF_vars(Proceeds)
=============================================================================
