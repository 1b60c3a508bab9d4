--------------------------- MODULE AuthGateProofs ---------------------------
(***************************************************************************)
(* Proofs about the shell-authorization gate, for any number of tasks and  *)
(* any limits.  GateInv holds on every host and with any number of tasks   *)
(* running at once; SoleInv is what the local hosts add when the chat runs *)
(* one task at a time.                                                     *)
(***************************************************************************)
EXTENDS AuthGate, FiniteSetTheorems, TLAPS

-----------------------------------------------------------------------------
(* The inductive invariant.  The answer in an entry was tapped on it; only *)
(* a task that waits has an entry, and it waits for a risky command.  A    *)
(* tap in the hands of a thread of the bot belongs to the current request  *)
(* of its task or to an earlier one, never to one that is still to come,   *)
(* because every call has its own reply and place in it (Later).           *)
StepLeft ==
    \A t \in Tasks :
        /\ pc[t] = "model" => step[t] < MaxSteps
        /\ pc[t] = "next" => left[t] > 0

Later(x) == x.step > step[x.task] \/ (x.step = step[x.task] /\ x.left < left[x.task])

EntryIsHeard ==
    \A t \in Tasks :
        /\ entry[t] # "absent" => pc[t] = "wait"
        /\ entry[t] \in Choices => entry[t] \in heard[t]
        /\ pc[t] = "wait" => kind[t] = "risky"

TapsAreHeard ==
    \A x \in taps :
        /\ ~Later(x)
        /\ OfCall(x) => pc[x.task] \notin {"call", "gate"}
        /\ Current(x) => x.choice \in heard[x.task]
        /\ x.choice = "allow_all" => x.task \in allowed
        /\ x.stage = "set" => x.choice = "allow_all"

GrantIsAllowed == grant # NoTap => grant.by \in allowed

(* Nothing is tapped before the request is there.  A tap on an open request *)
(* is still to be delivered; one that was delivered left an answer.         *)
TapsArrive ==
    /\ \A t \in Tasks : heard[t] # {} => pc[t] \in {"wait", "refused", "counting", "run"}
    /\ \A x \in taps : x.stage = "set" /\ Current(x) => entry[x.task] \in Choices
    /\ Host # "server" => \A t \in Tasks : entry[t] = "open" /\ heard[t] # {} =>
           \E x \in taps : x.task = t /\ OfCall(x) /\ x.stage = "found"

GateInv ==
    /\ TypeOK
    /\ StepLeft
    /\ EntryIsHeard
    /\ TapsAreHeard
    /\ GrantIsAllowed
    /\ TapsArrive
    /\ RunsOnlyAuthorised

(* A call starts at the check of exec_shell, or runs as an ungated tool.   *)
LEMMA CallStarts ==
    ASSUME TypeOK, NEW t \in Tasks, StartsCall(t)
    PROVE  /\ pc' \in [Tasks -> Stages] /\ pc'[t] \in {"call", "run"}
           /\ \A u \in Tasks : u # t => pc'[u] = pc[u] /\ kind'[u] = kind[u]
           /\ kind' \in [Tasks -> Kinds] /\ auth' \in [Tasks -> Auths]
           /\ \A u \in Tasks : u # t => auth'[u] = auth[u]
           /\ pc'[t] = "run" => kind'[t] = "other"
<1>1. PICK k \in Kinds :
        /\ kind' = [kind EXCEPT ![t] = k]
        /\ IF k = "other" THEN Runs(t, "ungated") ELSE Goto(t, "call") /\ UNCHANGED auth
  BY DEF StartsCall
<1> USE DEF TypeOK, Stages, Kinds, Auths, Runs, Goto
<1>2. CASE k = "other"
  <2>1. pc' = [pc EXCEPT ![t] = "run"] /\ auth' = [auth EXCEPT ![t] = "ungated"]
    BY <1>1, <1>2
  <2> QED
    BY <1>1, <1>2, <2>1
<1>3. CASE k # "other"
  <2>1. pc' = [pc EXCEPT ![t] = "call"] /\ auth' = auth
    BY <1>1, <1>3
  <2> QED
    BY <1>1, <1>3, <2>1
<1> QED
  BY <1>2, <1>3

(* Where no tap moves and no call begins, TapsArrive asks little. *)
LEMMA ArriveKept ==
    ASSUME TapsArrive, UNCHANGED <<taps, step, left>>,
           \A u \in Tasks : heard'[u] # {} =>
               /\ heard[u] # {} /\ entry'[u] = entry[u]
               /\ pc'[u] \in {"wait", "refused", "counting", "run"},
           \A x \in taps : Current(x)' => entry'[x.task] = entry[x.task]
    PROVE  TapsArrive'
<1> USE DEF TapsArrive, Current, OfCall
<1>1. \A u \in Tasks : heard'[u] # {} => pc'[u] \in {"wait", "refused", "counting", "run"}
  OBVIOUS
<1>2. \A x \in taps' : x.stage = "set" /\ Current(x)' => entry'[x.task] \in Choices
  OBVIOUS
<1>3. Host # "server" => \A u \in Tasks : entry'[u] = "open" /\ heard'[u] # {} =>
          \E x \in taps' : x.task = u /\ OfCall(x)' /\ x.stage = "found"
  OBVIOUS
<1> QED
  BY <1>1, <1>2, <1>3

(* Every action keeps GateInv, on every host. *)
LEMMA GateInvStep == GateInv /\ [Next]_vars => GateInv'
<1> SUFFICES ASSUME GateInv, [Next]_vars PROVE GateInv'
  OBVIOUS
<1> USE StepsAssumption
    DEF GateInv, TypeOK, StepLeft, EntryIsHeard, TapsAreHeard, GrantIsAllowed,
        TapsArrive, RunsOnlyAuthorised, Grants, Kinds, Choices, Stages, Auths, Tap,
        OfCall, Later, taskVars, gateVars, userVars, historyVars
<1>1. ASSUME NEW t \in Tasks, StartTask(t) PROVE GateInv'
  <2>1. /\ pc[t] = "new" /\ Goto(t, "top")
        /\ UNCHANGED <<step, left, kind, auth, entry, seen, userVars, historyVars>>
    BY <1>1 DEF StartTask
  <2>2. (grant' = grant /\ deny' = deny /\ stop' = stop)
          \/ (grant' = NoTap /\ deny' = 0 /\ stop' = FALSE)
    BY <1>1 DEF StartTask
  <2>3. pc' \in [Tasks -> Stages]
    BY <2>1 DEF Goto
  <2>4. deny' \in Nat /\ grant' \in Grants \union {NoTap}
    BY <2>2
  <2>5. stop' \in BOOLEAN
    BY <2>2
  <2>6. TypeOK'
    BY <2>1, <2>3, <2>4, <2>5
  <2>7. (StepLeft /\ EntryIsHeard /\ TapsAreHeard /\ TapsArrive)'
    BY <2>1 DEF Goto, Current
  <2>8. (GrantIsAllowed /\ RunsOnlyAuthorised)'
    BY <2>1, <2>2 DEF Goto
  <2> QED
    BY <2>6, <2>7, <2>8
<1>2. ASSUME NEW t \in Tasks, StopsLoop(t) PROVE GateInv'
  <2>1. (TypeOK /\ StepLeft)'
    BY <1>2 DEF StopsLoop, Goto, Current
  <2>2. (EntryIsHeard /\ GrantIsAllowed /\ RunsOnlyAuthorised)'
    BY <1>2 DEF StopsLoop, Goto, Current
  <2>3. TapsAreHeard'
    BY <1>2 DEF StopsLoop, Goto, Current
  <2>4. TapsArrive'
    BY <1>2 DEF StopsLoop, Goto, Current
  <2> QED
    BY <2>1, <2>2, <2>3, <2>4
<1>3. ASSUME NEW t \in Tasks, NextStep(t) PROVE GateInv'
  <2>1. (TypeOK /\ StepLeft)'
    BY <1>3 DEF NextStep, Goto, Current
  <2>2. (EntryIsHeard /\ GrantIsAllowed /\ RunsOnlyAuthorised)'
    BY <1>3 DEF NextStep, Goto, Current
  <2>3. TapsAreHeard'
    BY <1>3 DEF NextStep, Goto, Current
  <2>4. TapsArrive'
    BY <1>3 DEF NextStep, Goto, Current
  <2> QED
    BY <2>1, <2>2, <2>3, <2>4
<1>4. ASSUME NEW t \in Tasks, ModelAnswers(t) PROVE GateInv'
  <2>1. (TypeOK /\ StepLeft)'
    BY <1>4 DEF ModelAnswers, Goto
  <2>2. (EntryIsHeard /\ GrantIsAllowed /\ RunsOnlyAuthorised)'
    BY <1>4 DEF ModelAnswers, Goto
  <2>3. TapsAreHeard'
    BY <1>4 DEF ModelAnswers, Goto, Current
  <2>4. TapsArrive'
    BY <1>4 DEF ModelAnswers, Goto, Current
  <2> QED
    BY <2>1, <2>2, <2>3, <2>4
<1>5. ASSUME NEW t \in Tasks, ModelCallsTool(t) PROVE GateInv'
  <2>1. /\ pc[t] = "model" /\ step' = [step EXCEPT ![t] = step[t] + 1]
        /\ UNCHANGED <<entry, seen, gateVars, userVars, historyVars>>
    BY <1>5 DEF ModelCallsTool
  <2>2. PICK n \in 0..MaxCalls :
          IF n = 0
          THEN left' = [left EXCEPT ![t] = 0] /\ Goto(t, "top") /\ UNCHANGED <<kind, auth>>
          ELSE left' = [left EXCEPT ![t] = n - 1] /\ StartsCall(t)
    BY <1>5 DEF ModelCallsTool, Replies
  <2>3. /\ pc' \in [Tasks -> Stages] /\ pc'[t] \in {"top", "call", "run"}
        /\ \A u \in Tasks : u # t => pc'[u] = pc[u] /\ kind'[u] = kind[u] /\ auth'[u] = auth[u]
        /\ kind' \in [Tasks -> Kinds] /\ auth' \in [Tasks -> Auths]
        /\ pc'[t] = "run" => kind'[t] = "other"
    <3>1. CASE n = 0
      BY <2>2, <3>1 DEF Goto
    <3>2. CASE n # 0
      BY <2>2, <3>2, CallStarts
    <3> QED
      BY <3>1, <3>2
  <2>4. /\ left' \in [Tasks -> 0..MaxCalls]
        /\ \A u \in Tasks : u # t => left'[u] = left[u]
    <3>1. CASE n = 0
      BY <2>2, <3>1
    <3>2. CASE n # 0
      <4>1. left' = [left EXCEPT ![t] = n - 1] /\ n - 1 \in 0..MaxCalls
        BY <2>2, <3>2
      <4> QED
        BY <4>1
    <3> QED
      BY <3>1, <3>2
  <2>5. /\ step' \in [Tasks -> 0..MaxSteps] /\ step'[t] = step[t] + 1
        /\ \A u \in Tasks : u # t => step'[u] = step[u]
    BY <2>1
  <2>6. (TypeOK /\ StepLeft)'
    BY <2>1, <2>3, <2>4, <2>5
  <2>7. (EntryIsHeard /\ GrantIsAllowed /\ RunsOnlyAuthorised)'
    BY <2>1, <2>3
  <2>8. TapsAreHeard'
    BY <2>1, <2>3, <2>4, <2>5 DEF Current
  <2>9. TapsArrive'
    <3>1. /\ \A u \in Tasks : heard'[u] # {} => pc'[u] \in {"wait", "refused", "counting", "run"}
          /\ \A x \in taps' : x.stage = "set" /\ Current(x)' => entry'[x.task] \in Choices
      BY <2>1, <2>3, <2>4, <2>5 DEF Current
    <3>2. ASSUME Host # "server", NEW u \in Tasks, entry'[u] = "open" /\ heard'[u] # {}
          PROVE  \E x \in taps' : x.task = u /\ OfCall(x)' /\ x.stage = "found"
      <4>1. u # t /\ entry[u] = "open" /\ heard[u] # {}
        BY <2>1, <3>2
      <4>2. PICK x \in taps : x.task = u /\ OfCall(x) /\ x.stage = "found"
        BY <3>2, <4>1
      <4>3. x \in taps' /\ step'[u] = step[u] /\ left'[u] = left[u]
        BY <2>1, <2>4, <2>5, <4>1, <4>2
      <4> QED
        BY <4>2, <4>3
    <3> QED
      BY <3>1, <3>2
  <2> QED
    BY <2>6, <2>7, <2>8, <2>9
<1>30. ASSUME NEW t \in Tasks, NextCall(t) PROVE GateInv'
  <2>1. /\ pc[t] = "next" /\ left' = [left EXCEPT ![t] = left[t] - 1]
        /\ UNCHANGED <<step, entry, seen, gateVars, userVars, historyVars>>
        /\ StartsCall(t)
    BY <1>30 DEF NextCall
  <2>2. /\ pc' \in [Tasks -> Stages] /\ pc'[t] \in {"call", "run"}
        /\ \A u \in Tasks : u # t => pc'[u] = pc[u] /\ kind'[u] = kind[u] /\ auth'[u] = auth[u]
        /\ kind' \in [Tasks -> Kinds] /\ auth' \in [Tasks -> Auths]
        /\ pc'[t] = "run" => kind'[t] = "other"
    BY <2>1, CallStarts
  <2>3. /\ left' \in [Tasks -> 0..MaxCalls] /\ left'[t] = left[t] - 1
        /\ \A u \in Tasks : u # t => left'[u] = left[u]
    BY <2>1
  <2>4. (TypeOK /\ StepLeft)'
    BY <2>1, <2>2, <2>3
  <2>5. (EntryIsHeard /\ GrantIsAllowed /\ RunsOnlyAuthorised)'
    BY <2>1, <2>2
  <2>6. TapsAreHeard'
    BY <2>1, <2>2, <2>3 DEF Current
  <2>7. TapsArrive'
    <3>1. /\ \A u \in Tasks : heard'[u] # {} => pc'[u] \in {"wait", "refused", "counting", "run"}
          /\ \A x \in taps' : x.stage = "set" /\ Current(x)' => entry'[x.task] \in Choices
      BY <2>1, <2>2, <2>3 DEF Current
    <3>2. ASSUME Host # "server", NEW u \in Tasks, entry'[u] = "open" /\ heard'[u] # {}
          PROVE  \E x \in taps' : x.task = u /\ OfCall(x)' /\ x.stage = "found"
      <4>1. u # t /\ entry[u] = "open" /\ heard[u] # {}
        BY <2>1, <3>2
      <4>2. PICK x \in taps : x.task = u /\ OfCall(x) /\ x.stage = "found"
        BY <3>2, <4>1
      <4> QED
        BY <2>1, <2>2, <2>3, <4>1, <4>2
    <3> QED
      BY <3>1, <3>2
  <2> QED
    BY <2>4, <2>5, <2>6, <2>7
<1>31. ASSUME NEW t \in Tasks, GivesUp(t) PROVE GateInv'
  <2>1. (TypeOK /\ StepLeft)'
    BY <1>31 DEF GivesUp, Goto
  <2>2. (EntryIsHeard /\ GrantIsAllowed /\ RunsOnlyAuthorised)'
    BY <1>31 DEF GivesUp, Goto
  <2>3. TapsAreHeard'
    BY <1>31 DEF GivesUp, Goto, Current
  <2>4. TapsArrive'
    BY <1>31 DEF GivesUp, Goto, Current
  <2> QED
    BY <2>1, <2>2, <2>3, <2>4
<1>6. ASSUME NEW t \in Tasks, ProceedsToGate(t) PROVE GateInv'
  <2>1. (TypeOK /\ StepLeft)'
    BY <1>6 DEF ProceedsToGate, Goto
  <2>2. (EntryIsHeard /\ GrantIsAllowed /\ RunsOnlyAuthorised)'
    BY <1>6 DEF ProceedsToGate, Goto
  <2>3. TapsAreHeard'
    BY <1>6 DEF ProceedsToGate, Goto, Current
  <2>4. TapsArrive'
    BY <1>6 DEF ProceedsToGate, Goto, Current
  <2> QED
    BY <2>1, <2>2, <2>3, <2>4
<1>7. ASSUME NEW t \in Tasks, StoppedByUser(t) PROVE GateInv'
  <2>1. (TypeOK /\ StepLeft)'
    BY <1>7 DEF StoppedByUser, EndsCall, After, Goto
  <2>2. (EntryIsHeard /\ GrantIsAllowed /\ RunsOnlyAuthorised)'
    BY <1>7 DEF StoppedByUser, EndsCall, After, Goto
  <2>3. TapsAreHeard'
    BY <1>7 DEF StoppedByUser, EndsCall, After, Goto, Current
  <2>4. TapsArrive'
    BY <1>7 DEF StoppedByUser, EndsCall, After, Goto, Current
  <2> QED
    BY <2>1, <2>2, <2>3, <2>4
<1>8. ASSUME NEW t \in Tasks, RunsTool(t) PROVE GateInv'
  <2>1. (TypeOK /\ StepLeft)'
    BY <1>8 DEF RunsTool, EndsCall, After, Counted, Goto
  <2>2. (EntryIsHeard /\ GrantIsAllowed /\ RunsOnlyAuthorised)'
    BY <1>8 DEF RunsTool, EndsCall, After, Counted, Goto
  <2>3. TapsAreHeard'
    BY <1>8 DEF RunsTool, EndsCall, After, Counted, Goto, Current
  <2>4. TapsArrive'
    BY <1>8 DEF RunsTool, EndsCall, After, Counted, Goto, Current
  <2> QED
    BY <2>1, <2>2, <2>3, <2>4
<1>9. ASSUME NEW t \in Tasks, Blocked(t) PROVE GateInv'
  <2>1. (TypeOK /\ StepLeft)'
    BY <1>9 DEF Blocked, EndsCall, After, Goto
  <2>2. (EntryIsHeard /\ GrantIsAllowed /\ RunsOnlyAuthorised)'
    BY <1>9 DEF Blocked, EndsCall, After, Goto
  <2>3. TapsAreHeard'
    BY <1>9 DEF Blocked, EndsCall, After, Goto, Current
  <2>4. TapsArrive'
    <3>1. /\ pc[t] = "gate" /\ heard' = [heard EXCEPT ![t] = {}]
          /\ \A u \in Tasks : u # t => pc'[u] = pc[u]
          /\ UNCHANGED <<step, left, entry, taps>>
      BY <1>9 DEF Blocked, EndsCall, Goto
    <3>2. \A u \in Tasks : heard'[u] # {} =>
              /\ heard[u] # {} /\ entry'[u] = entry[u]
              /\ pc'[u] \in {"wait", "refused", "counting", "run"}
      BY <3>1
    <3> QED
      BY <3>1, <3>2, ArriveKept
  <2> QED
    BY <2>1, <2>2, <2>3, <2>4
<1>10. ASSUME NEW t \in Tasks, Safe(t) PROVE GateInv'
  <2>1. (TypeOK /\ StepLeft)'
    BY <1>10 DEF Safe, Runs, Goto, Current
  <2>2. (EntryIsHeard /\ GrantIsAllowed /\ RunsOnlyAuthorised)'
    BY <1>10 DEF Safe, Runs, Goto, Current
  <2>3. TapsAreHeard'
    BY <1>10 DEF Safe, Runs, Goto, Current
  <2>4. TapsArrive'
    BY <1>10 DEF Safe, Runs, Goto, Current
  <2> QED
    BY <2>1, <2>2, <2>3, <2>4
<1>11. ASSUME NEW t \in Tasks, Granted(t) PROVE GateInv'
  <2>1. (TypeOK /\ StepLeft)'
    BY <1>11 DEF Granted, Runs, Goto, HasGrant
  <2>2. (EntryIsHeard /\ GrantIsAllowed /\ RunsOnlyAuthorised)'
    BY <1>11 DEF Granted, Runs, Goto, HasGrant
  <2>3. TapsAreHeard'
    BY <1>11 DEF Granted, Runs, Goto, HasGrant, Current
  <2>4. TapsArrive'
    BY <1>11 DEF Granted, Runs, Goto, HasGrant, Current
  <2> QED
    BY <2>1, <2>2, <2>3, <2>4
<1>12. ASSUME NEW t \in Tasks, Asks(t) PROVE GateInv'
  <2>1. (TypeOK /\ StepLeft)'
    BY <1>12 DEF Asks, Goto, NeedsTap, HasGrant, Current
  <2>2. (EntryIsHeard /\ GrantIsAllowed /\ RunsOnlyAuthorised)'
    BY <1>12 DEF Asks, Goto, NeedsTap, HasGrant, Current
  <2>3. TapsAreHeard'
    BY <1>12 DEF Asks, Goto, NeedsTap, HasGrant, Current
  <2>4. TapsArrive'
    <3>1. /\ pc[t] = "gate" /\ entry' = [entry EXCEPT ![t] = "open"]
          /\ \A u \in Tasks : u # t => pc'[u] = pc[u]
          /\ UNCHANGED <<step, left, taps, heard>>
      BY <1>12 DEF Asks, NeedsTap, Goto
    <3>2. heard[t] = {}
      BY <3>1
    <3>3. \A u \in Tasks : heard'[u] # {} =>
              /\ heard[u] # {} /\ entry'[u] = entry[u]
              /\ pc'[u] \in {"wait", "refused", "counting", "run"}
      BY <3>1, <3>2
    <3>4. \A x \in taps : OfCall(x) => x.task # t
      BY <3>1
    <3>5. \A x \in taps : x.task \in Tasks
      OBVIOUS
    <3>6. \A x \in taps : Current(x)' => entry'[x.task] = entry[x.task]
      BY <3>1, <3>4, <3>5 DEF Current
    <3> QED
      BY <3>1, <3>3, <3>6, ArriveKept
  <2> QED
    BY <2>1, <2>2, <2>3, <2>4
<1>13. ASSUME NEW t \in Tasks, NoBot(t) PROVE GateInv'
  <2>1. (TypeOK /\ StepLeft)'
    BY <1>13 DEF NoBot, Goto, Misses, NeedsTap, HasGrant, Current
  <2>2. (EntryIsHeard /\ GrantIsAllowed /\ RunsOnlyAuthorised)'
    BY <1>13 DEF NoBot, Goto, Misses, NeedsTap, HasGrant, Current
  <2>3. TapsAreHeard'
    BY <1>13 DEF NoBot, Goto, Misses, NeedsTap, HasGrant, Current
  <2>4. TapsArrive'
    BY <1>13 DEF NoBot, Goto, Misses, NeedsTap, HasGrant, Current
  <2> QED
    BY <2>1, <2>2, <2>3, <2>4
<1>14. ASSUME NEW t \in Tasks, SendFails(t) PROVE GateInv'
  <2>1. (TypeOK /\ StepLeft)'
    BY <1>14 DEF SendFails, EndsCall, After, Goto, NeedsTap, HasGrant, Current
  <2>2. (EntryIsHeard /\ GrantIsAllowed /\ RunsOnlyAuthorised)'
    BY <1>14 DEF SendFails, EndsCall, After, Goto, NeedsTap, HasGrant, Current
  <2>3. TapsAreHeard'
    BY <1>14 DEF SendFails, EndsCall, After, Goto, NeedsTap, HasGrant, Current
  <2>4. TapsArrive'
    <3>1. /\ pc[t] = "gate" /\ heard' = [heard EXCEPT ![t] = {}]
          /\ \A u \in Tasks : u # t => pc'[u] = pc[u]
          /\ UNCHANGED <<step, left, entry, taps>>
      BY <1>14 DEF SendFails, EndsCall, NeedsTap, Goto
    <3>2. \A u \in Tasks : heard'[u] # {} =>
              /\ heard[u] # {} /\ entry'[u] = entry[u]
              /\ pc'[u] \in {"wait", "refused", "counting", "run"}
      BY <3>1
    <3> QED
      BY <3>1, <3>2, ArriveKept
  <2> QED
    BY <2>1, <2>2, <2>3, <2>4
<1>15. ASSUME NEW t \in Tasks, Approved(t) PROVE GateInv'
  <2>1. (TypeOK /\ StepLeft)'
    BY <1>15 DEF Approved, Runs, Goto, Pops, Current
  <2>2. (EntryIsHeard /\ GrantIsAllowed /\ RunsOnlyAuthorised)'
    BY <1>15 DEF Approved, Runs, Goto, Pops, Current
  <2>3. TapsAreHeard'
    BY <1>15 DEF Approved, Runs, Goto, Pops, Current
  <2>4. TapsArrive'
    BY <1>15 DEF Approved, Runs, Goto, Pops, Current
  <2> QED
    BY <2>1, <2>2, <2>3, <2>4
<1>16. ASSUME NEW t \in Tasks, Refused(t) PROVE GateInv'
  <2>1. (TypeOK /\ StepLeft)'
    BY <1>16 DEF Refused, Goto, Misses, Pops
  <2>2. (EntryIsHeard /\ GrantIsAllowed /\ RunsOnlyAuthorised)'
    BY <1>16 DEF Refused, Goto, Misses, Pops
  <2>3. TapsAreHeard'
    BY <1>16 DEF Refused, Goto, Misses, Pops, Current
  <2>4. TapsArrive'
    BY <1>16 DEF Refused, Goto, Misses, Pops, Current
  <2> QED
    BY <2>1, <2>2, <2>3, <2>4
<1>17. ASSUME NEW t \in Tasks, ReadsDenials(t) PROVE GateInv'
  <2>1. (TypeOK /\ StepLeft)'
    BY <1>17 DEF ReadsDenials, Goto
  <2>2. (EntryIsHeard /\ GrantIsAllowed /\ RunsOnlyAuthorised)'
    BY <1>17 DEF ReadsDenials, Goto
  <2>3. TapsAreHeard'
    BY <1>17 DEF ReadsDenials, Goto, Current
  <2>4. TapsArrive'
    BY <1>17 DEF ReadsDenials, Goto, Current
  <2> QED
    BY <2>1, <2>2, <2>3, <2>4
<1>18. ASSUME NEW t \in Tasks, WritesDenials(t) PROVE GateInv'
  <2>1. (TypeOK /\ StepLeft)'
    BY <1>18 DEF WritesDenials, EndsCall, After, Goto
  <2>2. (EntryIsHeard /\ GrantIsAllowed /\ RunsOnlyAuthorised)'
    BY <1>18 DEF WritesDenials, EndsCall, After, Goto
  <2>3. TapsAreHeard'
    BY <1>18 DEF WritesDenials, EndsCall, After, Goto, Current
  <2>4. TapsArrive'
    BY <1>18 DEF WritesDenials, EndsCall, After, Goto, Current
  <2> QED
    BY <2>1, <2>2, <2>3, <2>4
<1>19. ASSUME NEW t \in Tasks, StopsAfterDenials(t) PROVE GateInv'
  <2>1. (TypeOK /\ StepLeft)'
    BY <1>19 DEF StopsAfterDenials, After, Goto, RequestStop, Running, Current
  <2>2. (EntryIsHeard /\ GrantIsAllowed /\ RunsOnlyAuthorised)'
    BY <1>19 DEF StopsAfterDenials, After, Goto, RequestStop, Running, Current
  <2>3. TapsAreHeard'
    BY <1>19 DEF StopsAfterDenials, After, Goto, RequestStop, Running, Current
  <2>4. TapsArrive'
    BY <1>19 DEF StopsAfterDenials, After, Goto, RequestStop, Running, Current
  <2> QED
    BY <2>1, <2>2, <2>3, <2>4
<1>20. ASSUME NEW t \in Tasks, NEW choice \in Choices, TapFinds(t, choice)
      PROVE GateInv'
  <2> DEFINE new == [task |-> t, step |-> step[t], left |-> left[t], choice |-> choice, stage |-> "found"]
  <2>1. /\ Host # "server" /\ entry[t] # "absent"
        /\ taps' = taps \union {new}
        /\ Hears(t, choice)
        /\ UNCHANGED <<taskVars, gateVars, misses, owed, late>>
    BY <1>20 DEF TapFinds
  <2>2. TypeOK'
    BY <2>1 DEF Hears
  <2>3. (StepLeft /\ EntryIsHeard)'
    BY <2>1 DEF Hears
  <2>4. TapsAreHeard'
    BY <2>1 DEF Hears, Current
  <2>5. TapsArrive'
    <3>1. \A u \in Tasks : heard'[u] # {} => pc'[u] \in {"wait", "refused", "counting", "run"}
      BY <2>1 DEF Hears
    <3>2. \A x \in taps' : x.stage = "set" /\ Current(x)' => entry'[x.task] \in Choices
      BY <2>1 DEF Hears, Current
    <3>3. ASSUME NEW u \in Tasks, entry'[u] = "open" /\ heard'[u] # {}
          PROVE  \E x \in taps' : x.task = u /\ OfCall(x)' /\ x.stage = "found"
      <4>1. CASE u = t
        <5>1. step'[t] = step[t] /\ left'[t] = left[t] /\ new \in taps'
          BY <2>1
        <5>2. new.task = t /\ OfCall(new)' /\ new.stage = "found"
          BY <5>1
        <5> QED
          BY <4>1, <5>1, <5>2
      <4>2. CASE u # t
        BY <2>1, <3>3, <4>2 DEF Hears
      <4> QED
        BY <4>1, <4>2
    <3> QED
      BY <3>1, <3>2, <3>3
  <2>6. (GrantIsAllowed /\ RunsOnlyAuthorised)'
    BY <2>1 DEF Hears
  <2> QED
    BY <2>2, <2>3, <2>4, <2>5, <2>6
<1>21. ASSUME NEW t \in Tasks, NEW choice \in Choices, TapMisses(t, choice)
      PROVE GateInv'
  <2>1. (TypeOK /\ StepLeft)'
    BY <1>21 DEF TapMisses, Hears
  <2>2. (EntryIsHeard /\ GrantIsAllowed /\ RunsOnlyAuthorised)'
    BY <1>21 DEF TapMisses, Hears
  <2>3. (TapsAreHeard /\ TapsArrive)'
    BY <1>21 DEF TapMisses, Hears, Current
  <2> QED
    BY <2>1, <2>2, <2>3
<1>22. ASSUME NEW x \in taps, TapAnswers(x) PROVE GateInv'
  <2> DEFINE y == [x EXCEPT !.stage = "set"]
  <2>1. /\ x \in Tap /\ x.task \in Tasks /\ x.choice \in Choices /\ x.stage = "found"
        /\ y \in Tap /\ y.task = x.task /\ y.step = x.step /\ y.left = x.left
        /\ y.choice = x.choice /\ y.stage = "set"
    <3>1. x \in Tap /\ x.stage = "found"
      BY <1>22 DEF TapAnswers
    <3> HIDE DEF GateInv, TypeOK, StepLeft, EntryIsHeard, TapsAreHeard, GrantIsAllowed,
                 TapsArrive, RunsOnlyAuthorised
    <3> QED
      BY <3>1
  <2>0. taps \subseteq Tap /\ entry \in [Tasks -> {"absent", "open"} \union Choices]
    OBVIOUS
  <2>2. /\ \A z \in taps' : z \in taps \/ (z = y /\ x.choice = "allow_all")
        /\ \A z \in taps : z # x => z \in taps'
        /\ taps' \subseteq Tap
    <3>1. taps' = IF x.choice = "allow_all" THEN (taps \ {x}) \union {y} ELSE taps \ {x}
      BY <1>22 DEF TapAnswers
    <3> HIDE DEF y, Tap
    <3> HIDE DEF GateInv, TypeOK, StepLeft, EntryIsHeard, TapsAreHeard, GrantIsAllowed,
                 TapsArrive, RunsOnlyAuthorised
    <3> QED
      BY <2>0, <2>1, <3>1
  <2>3. UNCHANGED <<pc, step, left, kind, auth, seen, gateVars, heard, historyVars>>
    BY <1>22 DEF TapAnswers
  <2>4. /\ Current(x) => entry' = [entry EXCEPT ![x.task] = x.choice]
        /\ ~Current(x) => entry' = entry
    BY <1>22 DEF TapAnswers
  <2>5. /\ entry' \in [Tasks -> {"absent", "open"} \union Choices]
        /\ \A u \in Tasks :
              entry'[u] = entry[u] \/ (u = x.task /\ Current(x) /\ entry'[u] = x.choice)
    <3> HIDE DEF GateInv, TypeOK, StepLeft, EntryIsHeard, TapsAreHeard, GrantIsAllowed,
                 TapsArrive, RunsOnlyAuthorised
    <3>1. CASE Current(x)
      BY <2>0, <2>1, <2>4, <3>1
    <3>2. CASE ~Current(x)
      BY <2>0, <2>4, <3>2
    <3> QED
      BY <3>1, <3>2
  <2> HIDE DEF y
  <2>6. (TypeOK /\ StepLeft)'
    BY <2>2, <2>3, <2>5
  <2>7. (GrantIsAllowed /\ RunsOnlyAuthorised)'
    BY <2>3
  <2>8. EntryIsHeard'
    BY <2>1, <2>3, <2>5 DEF Current
  <2>9. TapsAreHeard'
    BY <2>1, <2>2, <2>3, <2>5 DEF Current
  <2>10. TapsArrive'
    <3>1. \A u \in Tasks : heard'[u] # {} => pc'[u] \in {"wait", "refused", "counting", "run"}
      BY <2>3
    <3>2. \A z \in taps' : z.stage = "set" /\ Current(z)' => entry'[z.task] \in Choices
      BY <2>1, <2>2, <2>3, <2>4, <2>5 DEF Current
    <3>3. ASSUME Host # "server", NEW u \in Tasks, entry'[u] = "open" /\ heard'[u] # {}
          PROVE  \E z \in taps' : z.task = u /\ OfCall(z)' /\ z.stage = "found"
      <4>1. entry[u] = "open" /\ heard[u] # {}
        BY <2>1, <2>3, <2>5, <3>3
      <4>2. PICK z \in taps : z.task = u /\ OfCall(z) /\ z.stage = "found"
        BY <3>3, <4>1
      <4>3. z # x
        BY <2>1, <2>4, <3>3, <4>1, <4>2 DEF Current
      <4> QED
        BY <2>2, <2>3, <4>2, <4>3
    <3> QED
      BY <3>1, <3>2, <3>3
  <2> QED
    BY <2>6, <2>7, <2>8, <2>9, <2>10
<1>23. ASSUME NEW x \in taps, TapGrants(x) PROVE GateInv'
  <2>1. (TypeOK /\ StepLeft)'
    BY <1>23 DEF TapGrants, Current
  <2>2. (EntryIsHeard /\ GrantIsAllowed /\ RunsOnlyAuthorised)'
    BY <1>23 DEF TapGrants
  <2>3. TapsAreHeard'
    BY <1>23 DEF TapGrants, Current
  <2>4. TapsArrive'
    BY <1>23 DEF TapGrants, Current
  <2> QED
    BY <2>1, <2>2, <2>3, <2>4
<1>24. CASE GrantExpires
  <2>1. grant' = [by |-> grant.by, raced |-> grant.raced, expired |-> TRUE]
    BY <1>24 DEF GrantExpires, HasGrant
  <2>2. grant \in Grants /\ grant' \in Grants
    BY <1>24, <2>1 DEF GrantExpires, HasGrant
  <2>3. grant'.by = grant.by /\ UNCHANGED <<taskVars, deny, stop, userVars, historyVars>>
    BY <1>24, <2>1 DEF GrantExpires
  <2> QED
    BY <1>24, <2>2, <2>3 DEF GrantExpires, HasGrant, Current
<1>25. CASE UserStops
  BY <1>25 DEF UserStops, RequestStop, Running, Current
<1>26. CASE UNCHANGED vars
  BY <1>26 DEF vars, Current
<1> HIDE DEF GateInv, TypeOK, StepLeft, EntryIsHeard, TapsAreHeard, GrantIsAllowed,
             TapsArrive, RunsOnlyAuthorised
<1>27. ASSUME NEW t \in Tasks, RequestAuth(t) PROVE GateInv'
  BY <1>9, <1>10, <1>11, <1>12, <1>13, <1>14, <1>15, <1>16, <1>17, <1>18, <1>19,
     <1>27 DEF RequestAuth
<1>28. ASSUME NEW t \in Tasks, TaskStep(t) PROVE GateInv'
  BY <1>2, <1>3, <1>4, <1>5, <1>6, <1>7, <1>8, <1>27, <1>28, <1>30, <1>31 DEF TaskStep
<1>29. CASE BotStep
  BY <1>20, <1>21, <1>22, <1>23, <1>24, <1>25, <1>29 DEF BotStep
<1> QED
  BY <1>1, <1>26, <1>28, <1>29 DEF Next

(* GateInv holds on every host, whatever runs at once. *)
THEOREM GateInvariant == Spec => []GateInv
<1>1. Init => GateInv
  <2> SUFFICES ASSUME Init PROVE GateInv
    OBVIOUS
  <2> USE StepsAssumption DEF Init, Grants, Kinds, Choices, Stages, Auths, Tap
  <2>1. /\ pc \in [Tasks -> Stages] /\ step \in [Tasks -> 0..MaxSteps]
        /\ left \in [Tasks -> 0..MaxCalls]
        /\ kind \in [Tasks -> Kinds] /\ auth \in [Tasks -> Auths]
        /\ entry \in [Tasks -> {"absent", "open"} \union Choices] /\ seen \in [Tasks -> Nat]
    OBVIOUS
  <2>2. /\ deny \in Nat /\ grant \in Grants \union {NoTap} /\ stop \in BOOLEAN
        /\ taps \subseteq Tap /\ heard \in [Tasks -> SUBSET Choices] /\ allowed \subseteq Tasks
    OBVIOUS
  <2>3. /\ misses \in [Tasks -> Nat] /\ owed \in [Tasks -> BOOLEAN]
        /\ late \in [Tasks -> [calls : Nat, shell : Nat]]
    OBVIOUS
  <2>4. TypeOK
    BY <2>1, <2>2, <2>3 DEF TypeOK
  <2>5. StepLeft /\ EntryIsHeard /\ RunsOnlyAuthorised
    BY DEF Init, StepLeft, EntryIsHeard, RunsOnlyAuthorised, Choices
  <2>6. TapsAreHeard /\ TapsArrive /\ GrantIsAllowed
    BY DEF Init, TapsAreHeard, TapsArrive, GrantIsAllowed
  <2> QED
    BY <2>4, <2>5, <2>6 DEF GateInv
<1> QED
  BY <1>1, GateInvStep, PTL DEF Spec

(* The gate's state has its types on every host. *)
THEOREM TypeCorrect == Spec => []TypeOK
<1>1. GateInv => TypeOK
  BY DEF GateInv
<1> QED
  BY <1>1, GateInvariant, PTL

(* No command runs that the user did not authorise. *)
THEOREM AuthorisationCorrect == Spec => []RunsOnlyAuthorised
<1>1. GateInv => RunsOnlyAuthorised
  BY DEF GateInv
<1> QED
  BY <1>1, GateInvariant, PTL
(* No tap is swallowed where the bot and the loop share one gate. *)
THEOREM TapIsAnswerCorrect == ASSUME Host # "server" PROVE Spec => []TapIsAnswer
<1>1. GateInv => TapIsAnswer
  BY DEF GateInv, TapsArrive, TapIsAnswer, OfCall
<1> QED
  BY <1>1, GateInvariant, PTL

-----------------------------------------------------------------------------
(* One task at a time on a local host.  Then the counter of the chat is    *)
(* the task's own, a stop is cleared by nobody while the task runs, and    *)
(* the task that saw one is at the end of its loop.                        *)
Sole == Host # "cloud" /\ MaxRunning = 1

OneRuns == \A t, u \in Tasks : Running(t) /\ Running(u) => t = u

StopStays ==
    \A t \in Tasks :
        /\ pc[t] = "new" => ~owed[t]
        /\ owed[t] /\ Running(t) => stop

(* Calls that the reply a task is at may still run.                        *)
ToCome(t) ==
    IF pc[t] \in {"call", "gate", "wait", "refused", "counting", "run"} THEN left[t] + 1
    ELSE IF pc[t] \in {"next", "stopping"} THEN left[t] ELSE 0

(* Once a call counts as late there is no other reply; once a shell call   *)
(* does, no other gets past the check of exec_shell.                       *)
LateCalls ==
    \A t \in Tasks :
        /\ pc[t] \in {"new", "model"} => late[t].calls = 0
        /\ late[t].calls + ToCome(t) <= PerReply
        /\ late[t].calls # 0 => owed[t]
        /\ late[t].shell <= late[t].calls
        /\ late[t].shell # 0 =>
              /\ late[t].shell = 1
              /\ \/ pc[t] \in {"top", "next", "call", "done"}
                 \/ pc[t] = "run" /\ kind[t] = "other"

DenialsCounted ==
    \A t \in Tasks :
        /\ pc[t] = "new" => misses[t] = 0
        /\ pc[t] \in {"refused", "counting"} => misses[t] = deny + 1
        /\ pc[t] = "counting" => seen[t] = deny
        /\ Running(t) /\ pc[t] \notin {"refused", "counting"} => misses[t] = deny

SoleInv ==
    /\ OneRuns
    /\ StopStays
    /\ DenialsCounted
    /\ ThreeDenialsStop
    /\ GrantScoped

(* The guard of StartTask: with MaxRunning = 1, no task runs. *)
LEMMA StartsAlone ==
    ASSUME Sole, NEW t \in Tasks, StartTask(t) PROVE \A u \in Tasks : ~Running(u)
<1> DEFINE R == {u \in Tasks : Running(u)}
<1>1. IsFiniteSet(R)
  BY TasksAssumption, FS_Subset
<1>2. Cardinality(R) \in Nat /\ Cardinality(R) < 1
  BY <1>1, FS_CardinalityType DEF StartTask, Sole
<1>3. R = {}
  BY <1>1, <1>2, FS_EmptySet
<1> QED
  BY <1>3

(* Every action keeps SoleInv. *)
LEMMA SoleInvStep == ASSUME Sole PROVE GateInv /\ SoleInv /\ [Next]_vars => SoleInv'
<1> SUFFICES ASSUME GateInv, SoleInv, [Next]_vars PROVE SoleInv'
  OBVIOUS
<1> USE StepsAssumption
    DEF GateInv, TypeOK, EntryIsHeard, SoleInv, OneRuns, StopStays, DenialsCounted,
        ThreeDenialsStop, GrantScoped, Running, HasGrant, Grants, Kinds, Choices,
        Stages, Auths, Tap, taskVars, gateVars, userVars, historyVars
<1>1. ASSUME NEW t \in Tasks, StartTask(t) PROVE SoleInv'
  <2>1. \A u \in Tasks : ~Running(u)
    BY <1>1, StartsAlone
  <2>2. pc' = [pc EXCEPT ![t] = "top"] /\ grant' = NoTap /\ deny' = 0 /\ stop' = FALSE
        /\ UNCHANGED <<misses, owed, late, seen, entry, step, left, kind, taps>>
        /\ pc[t] = "new"
    BY <1>1 DEF StartTask, Goto, Sole
  <2> QED
    BY <2>1, <2>2
<1>2. ASSUME NEW t \in Tasks, StopsLoop(t) PROVE SoleInv'
  BY <1>2, Sole DEF StopsLoop, Goto, Sole
<1>3. ASSUME NEW t \in Tasks, NextStep(t) PROVE SoleInv'
  BY <1>3, Sole DEF NextStep, Goto, Sole
<1>4. ASSUME NEW t \in Tasks, ModelAnswers(t) PROVE SoleInv'
  <2>1. (OneRuns /\ StopStays)'
    BY <1>4, Sole DEF ModelAnswers, Goto, Sole
  <2>2. (DenialsCounted /\ ThreeDenialsStop /\ GrantScoped)'
    BY <1>4, Sole DEF ModelAnswers, Goto, Sole
  <2> QED
    BY <2>1, <2>2
<1>5. ASSUME NEW t \in Tasks, ModelCallsTool(t) PROVE SoleInv'
  <2>1. /\ pc[t] = "model"
        /\ UNCHANGED <<entry, seen, gateVars, userVars, historyVars>>
    BY <1>5 DEF ModelCallsTool
  <2>2. /\ pc'[t] \in {"top", "call", "run"}
        /\ \A u \in Tasks : u # t => pc'[u] = pc[u]
    <3>1. PICK n \in 0..MaxCalls : IF n = 0 THEN Goto(t, "top") ELSE StartsCall(t)
      BY <1>5 DEF ModelCallsTool, Replies
    <3>2. CASE n = 0
      BY <3>1, <3>2 DEF Goto
    <3>3. CASE n # 0
      BY <3>1, <3>3, CallStarts
    <3> QED
      BY <3>2, <3>3
  <2> QED
    BY <2>1, <2>2
<1>30. ASSUME NEW t \in Tasks, NextCall(t) PROVE SoleInv'
  <2>1. /\ pc[t] = "next" /\ StartsCall(t)
        /\ UNCHANGED <<entry, seen, gateVars, userVars, historyVars>>
    BY <1>30 DEF NextCall
  <2>2. /\ pc'[t] \in {"call", "run"}
        /\ \A u \in Tasks : u # t => pc'[u] = pc[u]
    BY <2>1, CallStarts
  <2> QED
    BY <2>1, <2>2
<1>31. ASSUME NEW t \in Tasks, GivesUp(t) PROVE SoleInv'
  BY <1>31, Sole DEF GivesUp, Goto, Sole
<1>6. ASSUME NEW t \in Tasks, ProceedsToGate(t) PROVE SoleInv'
  BY <1>6, Sole DEF ProceedsToGate, Goto, Sole
<1>7. ASSUME NEW t \in Tasks, StoppedByUser(t) PROVE SoleInv'
  BY <1>7, Sole DEF StoppedByUser, EndsCall, After, Goto, Sole
<1>8. ASSUME NEW t \in Tasks, RunsTool(t) PROVE SoleInv'
  BY <1>8, Sole DEF RunsTool, EndsCall, After, Counted, Goto, Sole
<1>9. ASSUME NEW t \in Tasks, Blocked(t) PROVE SoleInv'
  BY <1>9, Sole DEF Blocked, EndsCall, After, Goto, Sole
<1>10. ASSUME NEW t \in Tasks, Safe(t) PROVE SoleInv'
  BY <1>10, Sole DEF Safe, Runs, Goto, Sole
<1>11. ASSUME NEW t \in Tasks, Granted(t) PROVE SoleInv'
  BY <1>11, Sole DEF Granted, Runs, Goto, HasGrant, Sole
<1>12. ASSUME NEW t \in Tasks, Asks(t) PROVE SoleInv'
  BY <1>12, Sole DEF Asks, Goto, NeedsTap, HasGrant, Sole
<1>13. ASSUME NEW t \in Tasks, NoBot(t) PROVE SoleInv'
  BY <1>13, Sole DEF NoBot, Goto, Misses, NeedsTap, HasGrant, Sole
<1>14. ASSUME NEW t \in Tasks, SendFails(t) PROVE SoleInv'
  BY <1>14, Sole DEF SendFails, EndsCall, After, Goto, NeedsTap, HasGrant, Sole
<1>15. ASSUME NEW t \in Tasks, Approved(t) PROVE SoleInv'
  BY <1>15, Sole DEF Approved, Runs, Goto, Pops, Sole
<1>16. ASSUME NEW t \in Tasks, Refused(t) PROVE SoleInv'
  BY <1>16, Sole DEF Refused, Goto, Misses, Pops, Sole
<1>17. ASSUME NEW t \in Tasks, ReadsDenials(t) PROVE SoleInv'
  BY <1>17, Sole DEF ReadsDenials, Goto, Sole
<1>18. ASSUME NEW t \in Tasks, WritesDenials(t) PROVE SoleInv'
  BY <1>18, Sole DEF WritesDenials, EndsCall, After, Goto, Sole
<1>19. ASSUME NEW t \in Tasks, StopsAfterDenials(t) PROVE SoleInv'
  BY <1>19, Sole DEF StopsAfterDenials, After, Goto, RequestStop, Running, Sole
<1>20. ASSUME NEW t \in Tasks, NEW choice \in Choices, TapFinds(t, choice)
      PROVE SoleInv'
  BY <1>20, Sole DEF TapFinds, Hears, Sole
<1>21. ASSUME NEW t \in Tasks, NEW choice \in Choices, TapMisses(t, choice)
      PROVE SoleInv'
  BY <1>21, Sole DEF TapMisses, Hears, Sole
<1>22. ASSUME NEW x \in taps, TapAnswers(x) PROVE SoleInv'
  BY <1>22, Sole DEF TapAnswers, Current, Sole
<1>23. ASSUME NEW x \in taps, TapGrants(x) PROVE SoleInv'
  BY <1>23, Sole DEF TapGrants, Current, Sole
<1>24. CASE GrantExpires
  BY <1>24, Sole DEF GrantExpires, HasGrant, Sole
<1>25. CASE UserStops
  BY <1>25, Sole DEF UserStops, RequestStop, Running, Sole
<1>26. CASE UNCHANGED vars
  BY <1>26, Sole DEF vars, Sole
<1> HIDE DEF GateInv, TypeOK, EntryIsHeard, SoleInv, OneRuns, StopStays, DenialsCounted,
             ThreeDenialsStop, GrantScoped
<1>27. ASSUME NEW t \in Tasks, RequestAuth(t) PROVE SoleInv'
  BY <1>9, <1>10, <1>11, <1>12, <1>13, <1>14, <1>15, <1>16, <1>17, <1>18, <1>19,
     <1>27 DEF RequestAuth
<1>28. ASSUME NEW t \in Tasks, TaskStep(t) PROVE SoleInv'
  BY <1>2, <1>3, <1>4, <1>5, <1>6, <1>7, <1>8, <1>27, <1>28, <1>30, <1>31 DEF TaskStep
<1>29. CASE BotStep
  BY <1>20, <1>21, <1>22, <1>23, <1>24, <1>25, <1>29 DEF BotStep
<1> QED
  BY <1>1, <1>26, <1>28, <1>29 DEF Next

(* SoleInv holds on a local host with one task at a time. *)
THEOREM SoleInvariant == ASSUME Sole PROVE Spec => []SoleInv
<1>1. Init => SoleInv
  BY StepsAssumption
     DEF Init, SoleInv, OneRuns, StopStays, DenialsCounted, ThreeDenialsStop,
         GrantScoped, Running, HasGrant
<1>2. GateInv /\ SoleInv /\ [Next]_vars => SoleInv'
  BY SoleInvStep
<1> QED
  BY <1>1, <1>2, GateInvariant, PTL DEF Spec

(* The calls of a task after a stop.  Once one counts as late there is no  *)
(* other reply; once a shell call does, no other passes exec_shell.        *)
LEMMA LateCallsStep ==
    ASSUME Sole PROVE GateInv /\ SoleInv /\ LateCalls /\ [Next]_vars => LateCalls'
<1> SUFFICES ASSUME TypeOK, StepLeft, StopStays, LateCalls, [Next]_vars PROVE LateCalls'
  BY DEF GateInv, SoleInv
<1> USE StepsAssumption
    DEF TypeOK, StepLeft, StopStays, LateCalls, ToCome, PerReply, Running, Stages, Kinds,
        taskVars, gateVars, userVars, historyVars
<1>1. ASSUME NEW t \in Tasks, StartTask(t) PROVE LateCalls'
  BY <1>1 DEF StartTask, Goto
<1>2. ASSUME NEW t \in Tasks, StopsLoop(t) PROVE LateCalls'
  BY <1>2 DEF StopsLoop, Goto
<1>3. ASSUME NEW t \in Tasks, NextStep(t) PROVE LateCalls'
  BY <1>3, Sole DEF NextStep, Goto, Sole
<1>4. ASSUME NEW t \in Tasks, ModelAnswers(t) PROVE LateCalls'
  BY <1>4 DEF ModelAnswers, Goto
<1>5. ASSUME NEW t \in Tasks, ModelCallsTool(t) PROVE LateCalls'
  <2>1. pc[t] = "model" /\ late' = late /\ owed' = owed
    BY <1>5 DEF ModelCallsTool
  <2>2. PICK n \in Replies :
          IF n = 0
          THEN left' = [left EXCEPT ![t] = 0] /\ Goto(t, "top") /\ UNCHANGED <<kind, auth>>
          ELSE left' = [left EXCEPT ![t] = n - 1] /\ StartsCall(t)
    BY <1>5 DEF ModelCallsTool
  <2>3. n \in 0..MaxCalls /\ n <= PerReply
    BY <2>2 DEF Replies
  <2>4. CASE n = 0
    BY <2>1, <2>2, <2>4 DEF Goto
  <2>5. CASE n # 0
    <3>1. left' = [left EXCEPT ![t] = n - 1] /\ StartsCall(t)
      BY <2>2, <2>5
    <3>2. /\ pc'[t] \in {"call", "run"}
          /\ \A u \in Tasks : u # t => pc'[u] = pc[u] /\ kind'[u] = kind[u]
      BY <3>1, CallStarts
    <3> QED
      BY <2>1, <2>3, <2>5, <3>1, <3>2
  <2> QED
    BY <2>4, <2>5
<1>6. ASSUME NEW t \in Tasks, NextCall(t) PROVE LateCalls'
  <2>1. /\ pc[t] = "next" /\ left' = [left EXCEPT ![t] = left[t] - 1]
        /\ late' = late /\ owed' = owed /\ StartsCall(t)
    BY <1>6 DEF NextCall
  <2>2. /\ pc'[t] \in {"call", "run"}
        /\ \A u \in Tasks : u # t => pc'[u] = pc[u] /\ kind'[u] = kind[u]
        /\ pc'[t] = "run" => kind'[t] = "other"
    BY <2>1, CallStarts
  <2> QED
    BY <2>1, <2>2
<1>7. ASSUME NEW t \in Tasks, GivesUp(t) PROVE LateCalls'
  BY <1>7 DEF GivesUp, Goto
<1>8. ASSUME NEW t \in Tasks, ProceedsToGate(t) PROVE LateCalls'
  BY <1>8 DEF ProceedsToGate, Goto
<1>9. ASSUME NEW t \in Tasks, StoppedByUser(t) PROVE LateCalls'
  BY <1>9 DEF StoppedByUser, EndsCall, After, Goto
<1>10. ASSUME NEW t \in Tasks, RunsTool(t) PROVE LateCalls'
  BY <1>10 DEF RunsTool, EndsCall, After, Counted, Goto
<1>11. ASSUME NEW t \in Tasks, Blocked(t) PROVE LateCalls'
  BY <1>11 DEF Blocked, EndsCall, After, Goto
<1>12. ASSUME NEW t \in Tasks, Safe(t) PROVE LateCalls'
  BY <1>12 DEF Safe, Runs, Goto
<1>13. ASSUME NEW t \in Tasks, Granted(t) PROVE LateCalls'
  BY <1>13 DEF Granted, Runs, Goto
<1>14. ASSUME NEW t \in Tasks, Asks(t) PROVE LateCalls'
  BY <1>14 DEF Asks, Goto, NeedsTap
<1>15. ASSUME NEW t \in Tasks, NoBot(t) PROVE LateCalls'
  BY <1>15 DEF NoBot, Goto, NeedsTap
<1>16. ASSUME NEW t \in Tasks, SendFails(t) PROVE LateCalls'
  BY <1>16 DEF SendFails, EndsCall, After, Goto, NeedsTap
<1>17. ASSUME NEW t \in Tasks, Approved(t) PROVE LateCalls'
  BY <1>17 DEF Approved, Runs, Goto
<1>18. ASSUME NEW t \in Tasks, Refused(t) PROVE LateCalls'
  BY <1>18 DEF Refused, Goto
<1>19. ASSUME NEW t \in Tasks, ReadsDenials(t) PROVE LateCalls'
  BY <1>19 DEF ReadsDenials, Goto
<1>20. ASSUME NEW t \in Tasks, WritesDenials(t) PROVE LateCalls'
  BY <1>20 DEF WritesDenials, EndsCall, After, Goto
<1>21. ASSUME NEW t \in Tasks, StopsAfterDenials(t) PROVE LateCalls'
  BY <1>21 DEF StopsAfterDenials, After, Goto, RequestStop
<1>22. ASSUME BotStep PROVE LateCalls'
  <2>1. UNCHANGED <<pc, left, kind, late>> /\ \A u \in Tasks : owed[u] => owed'[u]
    BY <1>22 DEF BotStep, TapFinds, TapMisses, TapAnswers, TapGrants, GrantExpires, UserStops,
                 RequestStop
  <2> QED
    BY <2>1
<1>23. CASE UNCHANGED vars
  BY <1>23 DEF vars
<1> HIDE DEF LateCalls
<1>24. ASSUME NEW t \in Tasks, RequestAuth(t) PROVE LateCalls'
  BY <1>11, <1>12, <1>13, <1>14, <1>15, <1>16, <1>17, <1>18, <1>19, <1>20, <1>21,
     <1>24 DEF RequestAuth
<1>25. ASSUME NEW t \in Tasks, TaskStep(t) PROVE LateCalls'
  BY <1>2, <1>3, <1>4, <1>5, <1>6, <1>7, <1>8, <1>9, <1>10, <1>24, <1>25 DEF TaskStep
<1> QED
  BY <1>1, <1>22, <1>23, <1>25 DEF Next

(* LateCalls holds on a local host with one task at a time. *)
THEOREM LateCallsInvariant == ASSUME Sole PROVE Spec => []LateCalls
<1>1. Init => LateCalls
  BY StepsAssumption DEF Init, LateCalls, ToCome, PerReply
<1>2. GateInv /\ SoleInv /\ LateCalls /\ [Next]_vars => LateCalls'
  BY LateCallsStep
<1> QED
  BY <1>1, <1>2, GateInvariant, SoleInvariant, PTL DEF Spec

(* Three consecutive denials stop a task that runs alone. *)
THEOREM ThreeDenialsCorrect == ASSUME Sole PROVE Spec => []ThreeDenialsStop
<1>1. SoleInv => ThreeDenialsStop
  BY DEF SoleInv
<1> QED
  BY <1>1, SoleInvariant, PTL

(* A stop leaves a task that runs alone the shell command that was past its *)
(* check and the other calls of the reply it is at.                         *)
THEOREM StopBoundsCallsCorrect == ASSUME Sole PROVE Spec => []StopBoundsCalls
<1>1. TypeOK /\ LateCalls => StopBoundsCalls
  BY StepsAssumption DEF TypeOK, LateCalls, ToCome, PerReply, StopBoundsCalls
<1> QED
  BY <1>1, TypeCorrect, LateCallsInvariant, PTL

(* A grant is that of the task that runs, unless its tap raced a timeout. *)
THEOREM GrantScopedCorrect == ASSUME Sole PROVE Spec => []GrantScoped
<1>1. SoleInv => GrantScoped
  BY DEF SoleInv
<1> QED
  BY <1>1, SoleInvariant, PTL
-----------------------------------------------------------------------------
(* Only StartTask takes a task out of "new": the steps of a task need it   *)
(* under way, and the threads of the bot move no task.                     *)
LEMMA OnlyStartStarts ==
    ASSUME TypeOK, [Next]_vars, NEW t \in Tasks, pc[t] = "new", pc'[t] = "top"
    PROVE  StartTask(t)
<1>1. ASSUME NEW u \in Tasks, TaskStep(u)
      PROVE  pc[u] # "new" /\ \E at \in Stages : pc' = [pc EXCEPT ![u] = at]
  <2>1. CASE \/ StopsLoop(u) \/ NextStep(u) \/ ModelAnswers(u) \/ ModelCallsTool(u)
             \/ NextCall(u) \/ GivesUp(u) \/ ProceedsToGate(u) \/ StoppedByUser(u) \/ RunsTool(u)
    BY <2>1 DEF StopsLoop, NextStep, ModelAnswers, ModelCallsTool, NextCall, GivesUp,
                StartsCall, ProceedsToGate, StoppedByUser, RunsTool, EndsCall, After, Runs, Goto, Stages
  <2>2. CASE RequestAuth(u)
    BY <2>2 DEF RequestAuth, Blocked, Safe, Granted, Asks, NoBot, SendFails, Approved,
                Refused, ReadsDenials, WritesDenials, StopsAfterDenials, NeedsTap,
                EndsCall, After, Runs, Goto, Stages
  <2> QED
    BY <1>1, <2>1, <2>2 DEF TaskStep
<1>2. ASSUME NEW u \in Tasks, TaskStep(u) PROVE FALSE
  BY <1>1, <1>2 DEF TypeOK
<1>3. ASSUME NEW u \in Tasks, StartTask(u) PROVE u = t
  BY <1>3 DEF StartTask, Goto, TypeOK
<1>4. BotStep => UNCHANGED pc
  BY DEF BotStep, TapFinds, TapMisses, TapAnswers, TapGrants, GrantExpires, UserStops,
         taskVars
<1> QED
  BY <1>2, <1>3, <1>4 DEF Next, vars, taskVars

(* On a local host a task starts with no grant, no denials and no stop of  *)
(* an earlier one, however many tasks run at once (clear_task_state).      *)
THEOREM TaskStartsCleanHolds == ASSUME Host # "cloud" PROVE Spec => TaskStartsClean
<1>1. ASSUME TypeOK, [Next]_vars, NEW t \in Tasks, pc[t] = "new", pc'[t] = "top"
      PROVE  grant' = NoTap /\ deny' = 0 /\ ~stop'
  <2>1. StartTask(t)
    BY <1>1, OnlyStartStarts
  <2>2. grant' = NoTap /\ deny' = 0 /\ stop' = FALSE
    BY <2>1 DEF StartTask
  <2> QED
    BY <2>2
<1> DEFINE Clean == \A t \in Tasks : pc[t] = "new" /\ pc'[t] = "top"
                                         => grant' = NoTap /\ deny' = 0 /\ ~stop'
<1>2. TypeOK /\ [Next]_vars => Clean
  BY <1>1
<1>3. TypeOK /\ [Next]_vars => [Clean]_vars
  BY <1>2
<1> QED
  BY <1>3, TypeCorrect, PTL DEF Spec, TaskStartsClean
=============================================================================
