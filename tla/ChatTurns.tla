------------------------------ MODULE ChatTurns ------------------------------
(***************************************************************************)
(* The turns of one Telegram chat: the poll loop that hands updates to     *)
(* threads (src/src/services/channels/telegram_poll.py), a text or photo   *)
(* turn from load to save (src/src/core/agent.py, telegram_media.py), the  *)
(* commands that erase or split the conversation (telegram_commands.py),   *)
(* and the memory they share: the SQLite tables of chat_history.py and the *)
(* JSON window of src/src/core/memory/memory.py.                           *)
(*                                                                         *)
(* Updates are numbered as they are sent.  A message is its role, the turn *)
(* that wrote it and its text; texts are numbers, ErrorText is any text    *)
(* with an error marker.  Each SQLite call that reads outside the          *)
(* transaction it writes in is two steps.  What a turn does between two    *)
(* writes of the window is one.                                            *)
(***************************************************************************)
EXTENDS Integers, SequencesExt

CONSTANTS
    Turns,        \* updates of the chat, 1..n
    Split,        \* SESSION_SPLIT_TURNS: messages after which a save rotates the session
    ErrorText,
    Scenes        \* what may happen in a behaviour, one chosen at the start

ASSUME ChatAssumption ==
    /\ IsFiniteSet(Turns) /\ Turns \subseteq Nat \ {0}
    /\ {Split, ErrorText} \subseteq Nat
    /\ \A s \in Scenes :
         /\ s.chat \in Seq([kind : {"text", "photo", "session", "new", "fresh"}, text : Nat, reply : Nat])
         /\ 1..Len(s.chat) \subseteq Turns
         /\ {s.keeps, s.crashes, s.faults, s.slips} \subseteq Nat

VARIABLES
    scene,        \* the member of Scenes; chat: what the user sends, [kind, text, reply] each;
                  \* patient: waits for the answer; keeps: messages the context budget has room
                  \* for; outcomes of an inference; crashes; faults of SQLite; slips of the offset file
    sent,         \* updates sent
    confirmed,    \* updates the Bot API has dropped
    poll,         \* the poll loop: where it is, its offset, the last update of its batch
    offsetFile,   \* OFFSET_FILE, 0 when it does not parse
    turn,         \* the thread of each update
    rows,         \* the table messages
    sessions,     \* the table sessions
    window,       \* the JSON window
    \* history
    handled,      \* threads started for each update
    slipped,      \* a write of the offset failed, or was cut
    plain,        \* no two turns overlapped, every load returned all that is stored, SQLite worked,
                  \* no crash came between a rotation and the save that made it
    told,         \* turns saved since the conversation was last begun anew
    forgotten,    \* turns a /fresh erased with no other turn in flight
    strayed,      \* an erasing command ran while a turn was in flight
    spent         \* crashes, faults and slips so far

pollVars == <<sent, confirmed, poll, offsetFile>>
storeVars == <<rows, sessions, window>>
chatHistory == <<handled, slipped, plain, told, forgotten, strayed, spent>>
chatVars == <<scene, pollVars, turn, storeVars, chatHistory>>

Chats == 0                         \* the session whose id is the chat id
NoSession == -1
Message == [role : {"user", "assistant"}, turn : Turns, text : Nat]
Places == {"none", "load", "infer", "calling", "save", "rotate", "open", "count", "insert",
           "command", "done", "cut"}

ChatTypeOK ==
    /\ sent \in 0..Len(scene.chat) /\ confirmed \in 0..sent
    /\ poll \in [at : {"down", "fetch", "persist", "write", "spawn"}, offset : 0..sent + 1, last : 0..sent]
    /\ offsetFile \in 0..sent + 1
    /\ \A u \in Turns : /\ turn[u].at \in Places
                        /\ turn[u].hist \in Seq(Message)
                        /\ turn[u].sess \in Nat \cup {NoSession}
                        /\ {turn[u].base, turn[u].reply} \subseteq Nat
    /\ rows \in Seq([sess : Nat, msg : Message]) /\ window \in Seq(Message)
    /\ \A s \in sessions : s \in [id : Nat, num : Nat \ {0}, open : BOOLEAN, count : Nat]

NoTurn == [at |-> "none", hist |-> <<>>, sess |-> NoSession, base |-> 0, reply |-> 0]
Kind(u) == scene.chat[u].kind
Sent(u) == [role |-> "user", turn |-> u, text |-> scene.chat[u].text]
Running == {u \in Turns : turn[u].at \notin {"none", "done", "cut"}}
\* SelectSeq, as a fold: there is nothing to prove about the built-in one
Only(s, S) == FoldLeft(LAMBDA acc, e : acc \o (IF e \in S THEN <<e>> ELSE <<>>), <<>>, s)
RowsOf(id) == Only(rows, [sess : {id}, msg : Message])
\* turns that store into a session they have opened, which is empty still
Starting == {u \in Running : /\ turn[u].at \in {"count", "insert"} /\ turn[u].sess # Chats
                             /\ RowsOf(turn[u].sess) = <<>>}
Settled(u) == turn[u].at \in {"done", "cut"}
May(what) == spent[what] < scene[what]
Spend(what) == spent' = [spent EXCEPT ![what] = @ + 1]

ChatInit ==
    /\ scene \in Scenes
    /\ sent = 0 /\ confirmed = 0 /\ offsetFile = 0
    /\ poll = [at |-> "fetch", offset |-> 0, last |-> 0]
    /\ turn = [u \in Turns |-> NoTurn]
    /\ rows = <<>> /\ sessions = {} /\ window = <<>>
    /\ handled = [u \in Turns |-> 0] /\ slipped = FALSE
    /\ plain = TRUE /\ told = <<>> /\ forgotten = {} /\ strayed = FALSE
    /\ spent = [crashes |-> 0, faults |-> 0, slips |-> 0]
-----------------------------------------------------------------------------
(* The poll loop.                                                          *)

Send ==
    /\ sent < Len(scene.chat)
    /\ scene.patient => \A u \in 1..sent : Settled(u)
    /\ sent' = sent + 1
    /\ UNCHANGED <<scene, confirmed, poll, offsetFile, turn, storeVars, chatHistory>>

\* getUpdates: an offset confirms what comes before it
Confirms == IF poll.offset > 0 THEN poll.offset - 1 ELSE confirmed

Fetch ==
    /\ poll.at = "fetch" /\ Confirms < sent
    /\ confirmed' = Confirms
    /\ poll' = [at |-> "persist", offset |-> Confirms + 2, last |-> sent]
    /\ UNCHANGED <<scene, sent, offsetFile, turn, storeVars, chatHistory>>

Update == poll.offset - 1

\* open(OFFSET_FILE, "w")
Persist ==
    /\ poll.at = "persist"
    /\ offsetFile' = 0 /\ poll' = [poll EXCEPT !.at = "write"]
    /\ UNCHANGED <<scene, sent, confirmed, turn, storeVars, chatHistory>>

\* open or write raises: the exception is passed over.
PersistFails ==
    /\ poll.at \in {"persist", "write"} /\ May("slips") /\ Spend("slips")
    /\ poll' = [poll EXCEPT !.at = "spawn"] /\ slipped' = TRUE
    /\ UNCHANGED <<scene, sent, confirmed, offsetFile, turn, storeVars, handled, plain, told,
                   forgotten, strayed>>

\* Mutant: the offset of the whole batch at once.
WriteLastOffset ==
    /\ poll.at = "write"
    /\ poll' = [poll EXCEPT !.at = "spawn"]
    /\ offsetFile' = poll.last + 1
    /\ UNCHANGED <<scene, sent, confirmed, turn, storeVars, chatHistory>>

WriteOffset ==
    /\ poll.at = "write"
    /\ poll' = [poll EXCEPT !.at = "spawn"]
    /\ offsetFile' = poll.offset
    /\ UNCHANGED <<scene, sent, confirmed, turn, storeVars, chatHistory>>

FirstPlace(kind) == CASE kind = "text" -> "load" [] kind = "photo" -> "infer"
                      [] kind = "session" -> "rotate" [] OTHER -> "command"

\* threading.Thread(target=handle_message).start()
Spawn ==
    /\ poll.at = "spawn"
    /\ turn' = [turn EXCEPT ![Update] = [NoTurn EXCEPT !.at = FirstPlace(Kind(Update))]]
    /\ poll' = IF Update < poll.last THEN [poll EXCEPT !.at = "persist", !.offset = @ + 1]
               ELSE [poll EXCEPT !.at = "fetch"]
    /\ handled' = [handled EXCEPT ![Update] = @ + 1]
    /\ plain' = (plain /\ Running = {})
    /\ forgotten' = forgotten \ {Update}
    /\ UNCHANGED <<scene, sent, confirmed, offsetFile, storeVars, slipped, told, strayed, spent>>

\* The process dies with its threads; an update between its offset and its thread is gone.
ChatCrash ==
    /\ May("crashes") /\ poll.at # "down" /\ Spend("crashes")
    /\ turn' = [u \in Turns |->
                  IF u \in Running \/ (poll.at = "spawn" /\ u = Update /\ offsetFile = poll.offset)
                  THEN [NoTurn EXCEPT !.at = "cut"] ELSE turn[u]]
    /\ poll' = [at |-> "down", offset |-> 0, last |-> 0]
    /\ slipped' = (slipped \/ poll.at = "write")
    /\ plain' = (plain /\ Starting = {})
    /\ UNCHANGED <<scene, sent, confirmed, offsetFile, storeVars, handled, told, forgotten, strayed>>

\* Mutant: the offset file is not read.
RestartBlank ==
    /\ poll.at = "down"
    /\ poll' = [at |-> "fetch", offset |-> 0, last |-> 0]
    /\ UNCHANGED <<scene, sent, confirmed, offsetFile, turn, storeVars, chatHistory>>

Restart ==
    /\ poll.at = "down"
    /\ poll' = [at |-> "fetch", offset |-> offsetFile, last |-> 0]
    /\ UNCHANGED <<scene, sent, confirmed, offsetFile, turn, storeVars, chatHistory>>
-----------------------------------------------------------------------------
(* Loading.                                                                *)

Messages(rs) == [i \in 1..Len(rs) |-> rs[i].msg]

\* get_active_session: the open session with the highest number, else the one of the chat id
Active ==
    LET open == {s \in sessions : s.open} IN
    IF open = {} THEN {s \in sessions : s.id = Chats}
    ELSE {s \in open : \A t \in open : t.num <= s.num}

\* get_history_by_chat_id: the rows of every session of the chat, each text of a role once
Deduplicated(ms) ==
    FoldLeft(LAMBDA acc, m : IF \E i \in 1..Len(acc) : acc[i].role = m.role /\ acc[i].text = m.text
                             THEN acc ELSE Append(acc, m),
             <<>>, ms)

AllRows == Only(rows, [sess : {s.id : s \in sessions}, msg : Message])

Stored(s) == IF s.id # Chats /\ s.num > 1 THEN Messages(RowsOf(s.id)) ELSE Deduplicated(Messages(AllRows))

\* _sanitise: error answers go, and of consecutive user turns all but the last; the text that the agent
\* appends to a user's turn when a tool is retried, and that goes here too, is not in the model's messages
Sanitised(ms) ==
    FoldLeft(LAMBDA acc, m : IF m.role = "user" /\ acc # <<>> /\ Last(acc).role = "user"
                             THEN Append(Front(acc), m) ELSE Append(acc, m),
             <<>>, Only(ms, {m \in Message : m.role = "user" \/ m.text # ErrorText}))

Loads == IF Active = {} THEN {<<>>} ELSE {Sanitised(ms) : ms \in {Stored(s) : s \in Active}}

\* the history window of triage: the oldest messages go until the budget holds
Trimmed(ms) == IF Len(ms) <= scene.keeps THEN ms ELSE SubSeq(ms, Len(ms) - scene.keeps + 1, Len(ms))

\* load, and what follows: triage trims and writes the window before it infers
Load(u) ==
    /\ turn[u].at = "load"
    /\ \E loaded \in IF May("faults") THEN Loads \cup {Sanitised(window)} ELSE Loads :
         LET text == Kind(u) = "text"
             hist == IF text THEN Trimmed(loaded) ELSE loaded IN
         /\ turn' = [turn EXCEPT ![u].at = IF text THEN "infer" ELSE "save", ![u].hist = hist]
         /\ window' = IF text THEN Append(hist, Sent(u)) ELSE IF loaded = <<>> THEN window ELSE loaded
         /\ plain' = (plain /\ loaded \in Loads /\ \A s \in Active : hist = Messages(RowsOf(s.id)))
         /\ IF loaded \in Loads THEN UNCHANGED spent ELSE Spend("faults")
    /\ UNCHANGED <<scene, pollVars, rows, sessions, handled, slipped, told, forgotten, strayed>>
-----------------------------------------------------------------------------
(* Inference and saving.                                                   *)

\* What triage makes of an answer; a photo turn that fails saves nothing.
Inferred(u, outcome) ==
    /\ turn' = [turn EXCEPT
         ![u].at = IF outcome = "refusal" \/ (outcome = "error" /\ Kind(u) = "photo") THEN "done"
                   ELSE IF Kind(u) = "photo" THEN "load" ELSE "save",
         ![u].reply = IF outcome = "error" THEN ErrorText ELSE scene.chat[u].reply]
    /\ UNCHANGED <<scene, pollVars, storeVars, chatHistory>>

\* A cloud provider answers.
InferCloud(u) == turn[u].at = "infer" /\ ~scene.local /\ \E o \in scene.outcomes : Inferred(u, o)

Pair(u) == <<Sent(u), [role |-> "assistant", turn |-> u, text |-> turn[u].reply]>>

\* save: the window, then the session to append to
Save(u) ==
    /\ turn[u].at = "save"
    /\ LET messages == turn[u].hist \o Pair(u) IN
       /\ window' = messages
       /\ \/ /\ May("faults") /\ Spend("faults")   \* "SQLite write failed"
             /\ turn' = [turn EXCEPT ![u] = [NoTurn EXCEPT !.at = "done"]]
             /\ plain' = FALSE /\ UNCHANGED sessions
          \/ /\ \/ /\ Active = {}                  \* touch_session
                   /\ sessions' = sessions \cup {[id |-> Chats, num |-> 1, open |-> TRUE, count |-> 0]}
                   /\ turn' = [turn EXCEPT ![u].at = "count", ![u].hist = messages, ![u].sess = Chats]
                \/ \E s \in Active :
                   /\ turn' = [turn EXCEPT ![u].at = IF s.count >= Split THEN "rotate" ELSE "count",
                                           ![u].hist = messages, ![u].sess = s.id]
                   /\ UNCHANGED sessions
             /\ UNCHANGED <<plain, spent>>
    /\ UNCHANGED <<scene, pollVars, rows, handled, slipped, told, forgotten, strayed>>

\* rotate_session reads the session to close, outside its transaction
Rotate(u) ==
    /\ turn[u].at = "rotate"
    /\ \E prev \in IF Active = {} THEN {[id |-> NoSession, num |-> 0]} ELSE Active :
         turn' = [turn EXCEPT ![u].at = "open", ![u].sess = prev.id, ![u].base = prev.num]
    /\ UNCHANGED <<scene, pollVars, storeVars, chatHistory>>

\* and then closes it and opens the next one, under a new id; the window is unlinked.
UsedIds == {s.id : s \in sessions} \cup {rows[i].sess : i \in 1..Len(rows)} \cup {turn[u].sess : u \in Turns}
NewId == CHOOSE n \in 1..Cardinality(UsedIds) + 1 : n \notin UsedIds

Open(u) ==
    /\ turn[u].at = "open"
    /\ sessions' = {IF s.id = turn[u].sess THEN [s EXCEPT !.open = FALSE] ELSE s : s \in sessions}
                   \cup {[id |-> NewId, num |-> turn[u].base + 1, open |-> TRUE, count |-> 0]}
    /\ window' = <<>>
    /\ IF Kind(u) = "session"
       THEN turn' = [turn EXCEPT ![u] = [NoTurn EXCEPT !.at = "done"]] /\ told' = <<>>
       ELSE turn' = [turn EXCEPT ![u].at = "count", ![u].sess = NewId] /\ UNCHANGED told
    /\ UNCHANGED <<scene, pollVars, rows, handled, slipped, plain, forgotten, strayed, spent>>

\* Mutant: the messages of the whole chat are counted.
CountAll(u) ==
    /\ turn[u].at = "count"
    /\ turn' = [turn EXCEPT ![u].at = "insert", ![u].base = Len(rows)]
    /\ UNCHANGED <<scene, pollVars, storeVars, chatHistory>>

\* append_messages: SELECT COUNT(*)
Count(u) ==
    /\ turn[u].at = "count"
    /\ turn' = [turn EXCEPT ![u].at = "insert", ![u].base = Len(RowsOf(turn[u].sess))]
    /\ UNCHANGED <<scene, pollVars, storeVars, chatHistory>>

\* Mutant: only the question and the answer are new.
NewPair(u) == SubSeq(turn[u].hist, Len(turn[u].hist) - 1, Len(turn[u].hist))

\* INSERT messages[existing:], UPDATE message_count
New(u) == SubSeq(turn[u].hist, turn[u].base + 1, Len(turn[u].hist))

Insert(u) ==
    /\ turn[u].at = "insert"
    /\ rows' = rows \o [i \in 1..Len(New(u)) |-> [sess |-> turn[u].sess, msg |-> New(u)[i]]]
    /\ sessions' = {IF s.id = turn[u].sess THEN [s EXCEPT !.count = Len(RowsOf(s.id)) + Len(New(u))] ELSE s
                      : s \in sessions}
    /\ turn' = [turn EXCEPT ![u] = [NoTurn EXCEPT !.at = "done"]]
    /\ told' = Append(told, u)
    /\ UNCHANGED <<scene, pollVars, window, handled, slipped, plain, forgotten, strayed, spent>>
-----------------------------------------------------------------------------
(* /new clears the session of the chat id, /fresh those of every row of    *)
(* the chat.  /session new is Rotate and Open.                             *)
ErasedActive(kind) == IF kind = "new" THEN {Chats} ELSE {s.id : s \in Active}   \* mutant
Erased(kind) == IF kind = "new" THEN {Chats} ELSE {s.id : s \in sessions}

Command(u) ==
    /\ turn[u].at = "command"
    /\ rows' = Only(rows, [sess : Nat \ Erased(Kind(u)), msg : Message])
    /\ sessions' = {s \in sessions : s.id \notin Erased(Kind(u))}
    /\ window' = <<>>
    /\ turn' = [turn EXCEPT ![u] = [NoTurn EXCEPT !.at = "done"]]
    /\ strayed' = (strayed \/ Running # {u})
    /\ forgotten' = IF Kind(u) = "fresh" /\ Running = {u} THEN 1..sent \ {u} ELSE forgotten
    /\ told' = <<>>
    /\ plain' = (plain /\ (Kind(u) = "fresh" \/ \A s \in Active : s.id = Chats))
    /\ UNCHANGED <<scene, pollVars, handled, slipped, spent>>

TurnStep(u) ==
    \/ Load(u) \/ InferCloud(u) \/ Save(u) \/ Rotate(u) \/ Open(u) \/ Count(u) \/ Insert(u) \/ Command(u)

PollStep == Fetch \/ Persist \/ PersistFails \/ WriteOffset \/ Spawn \/ Restart
-----------------------------------------------------------------------------
Said(us) == FoldLeft(LAMBDA acc, u : acc \o <<<<"user", u>>, <<"assistant", u>>>>, <<>>, us)
Told(ms) == [i \in 1..Len(ms) |-> <<ms[i].role, ms[i].turn>>]
Holds(id) == Told(Messages(RowsOf(id)))

(* As long as turns come one at a time and loads drop nothing, the active  *)
(* session holds every turn that was saved since the conversation began,   *)
(* question and answer, in order: whatever turns a crash cuts, whatever    *)
(* answers are withheld, and across the rotations of the session, except   *)
(* one that a crash cut off from the save that made it.                    *)
PlainChatIsKept ==
    plain /\ Running = {} => \A s \in Active : Holds(s.id) = Said(told)

\* The conversation, seen from outside: what the active session holds, or, while a save has begun
\* a new one, what that save brings along.
Log ==
    IF Starting # {}
    THEN LET hist == turn[CHOOSE u \in Starting : TRUE].hist IN Told(SubSeq(hist, 1, Len(hist) - 2))
    ELSE IF Active = {} THEN <<>> ELSE Holds((CHOOSE s \in Active : TRUE).id)

Outside == INSTANCE Conversation WITH log <- Log

(* As long as turns come one at a time, loads drop nothing and the offset  *)
(* file works, the chat is a conversation: its five writes of a turn, with *)
(* the session they may rotate, are one addition at the end, no turn is    *)
(* added twice, and only a command takes anything away.                    *)
ImplementsConversation ==
    /\ Outside!ConversationInit
    /\ [][plain' /\ ~slipped' => Outside!ConversationNext \/ UNCHANGED Log]_chatVars

(* A turn saved to the end has its question and its answer in the active   *)
(* session.                                                                *)
SavedTurnsKept ==
    Running = {} => \A s \in Active : \A i \in 1..Len(told) : \A role \in {"user", "assistant"} :
        \E k \in 1..Len(Holds(s.id)) : Holds(s.id)[k] = <<role, told[i]>>

(* What /fresh erased stays erased, in whichever session it was, as long   *)
(* as no turn was in flight during an erasing command.                     *)
ErasedStaysErased ==
    ~strayed => \A i \in 1..Len(rows) : rows[i].msg.turn \notin forgotten

(* An update is handled once, across crashes and restarts, unless a write  *)
(* of the offset failed or was cut by a crash.                             *)
HandledOnce == slipped \/ \A u \in Turns : handled[u] <= 1

(* Every update that is sent is handled to the end, or cut by a crash.     *)
UpdatesHandled == []<>(\A u \in 1..sent : Settled(u))
=============================================================================
