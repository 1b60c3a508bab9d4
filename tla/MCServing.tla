------------------------------ MODULE MCServing ------------------------------
(* Instances of Serving for TLC: what is sent and called in each scene.    *)
EXTENDS Serving

CONSTANTS a, b, n, c1, c2, c3

MCTurns == 1..3
MCClients == {c1, c2, c3}
MCCallers == MCTurns \cup MCClients
MCModels == {a, b, n}
MCNemotron == {n}
MCHears == {b}

Text(text, reply) == [kind |-> "text", text |-> text, reply |-> reply]
Photo(text, reply) == [kind |-> "photo", text |-> text, reply |-> reply]
Command_(kind) == [kind |-> kind, text |-> 1, reply |-> 1]

Nothing == [c \in {} |-> c]
Call(op, model) == [op |-> op, model |-> model]
Calls(r1, r2, r3) == (c1 :> r1) @@ (c2 :> r2) @@ (c3 :> r3)

Quiet == [chat |-> <<>>, patient |-> TRUE, keeps |-> 99, outcomes |-> {"answer"}, crashes |-> 0,
          faults |-> 0, slips |-> 0, local |-> FALSE, calls |-> Nothing, inside |-> {},
          lazy |-> TRUE, vllm |-> TRUE, watched |-> FALSE]

ChatScenes ==
    {[Quiet EXCEPT !.chat = <<Text(1, 1), Photo(2, 2), Text(3, 3)>>, !.crashes = 2,
                   !.outcomes = {"answer", "refusal"}],
     [Quiet EXCEPT !.chat = <<Text(1, 1), Text(2, 2), Command_("fresh")>>, !.crashes = 1, !.slips = 1],
     [Quiet EXCEPT !.chat = <<Text(1, 1), Text(2, 2), Command_("fresh")>>, !.patient = FALSE],
     [Quiet EXCEPT !.chat = <<Text(1, 1), Command_("session"), Text(1, 2)>>, !.patient = FALSE],
     [Quiet EXCEPT !.chat = <<Text(1, 1), Text(2, 2)>>, !.patient = FALSE, !.crashes = 1],
     [Quiet EXCEPT !.chat = <<Text(1, 1), Text(2, 2), Text(3, 3)>>, !.patient = FALSE],
     [Quiet EXCEPT !.chat = <<Text(1, 1), Command_("session"), Command_("fresh")>>],
     [Quiet EXCEPT !.chat = <<Text(1, 1), Text(2, 2), Command_("new")>>],
     [Quiet EXCEPT !.chat = <<Text(1, 1), Text(2, 2), Text(1, 2)>>, !.keeps = 3, !.faults = 1,
                   !.outcomes = {"answer", "error"}]}

\* Three requests at once, on either backend: some inference, and not thrice the same.
Menu == <<Call("infer", a), Call("image", a), Call("swap", b), Call("swap", n), Call("unload", a)>>

ServerScenes ==
    {[Quiet EXCEPT !.calls = Calls(Menu[t[1]], Menu[t[2]], Menu[t[3]]), !.vllm = v]
       : t \in {t \in (1..2) \X (1..5) \X (2..5) : t[1] <= t[2] /\ t[2] <= t[3] /\ t[1] < t[3]},
         v \in BOOLEAN}

MarkerScenes ==
    {[Quiet EXCEPT !.calls = (c1 :> Call("infer", a)) @@ (c2 :> Call("infer", a)), !.inside = {c1},
                   !.lazy = FALSE, !.crashes = 1, !.watched = TRUE],
     [Quiet EXCEPT !.calls = (c1 :> Call("image", a)), !.inside = {c1}, !.crashes = 1,
                   !.watched = TRUE, !.vllm = FALSE]}

TogetherScenes ==
    {[Quiet EXCEPT !.chat = <<Text(1, 1), Text(2, 2)>>, !.local = TRUE,
                   !.calls = (c1 :> Call("unload", a)), !.lazy = FALSE],
     [Quiet EXCEPT !.chat = <<Text(1, 1), Text(2, 2)>>, !.local = TRUE,
                   !.lazy = FALSE, !.crashes = 1, !.watched = TRUE]}

\* One error answer.
MCErrorScene == {[Quiet EXCEPT !.chat = <<Text(1, 1), Text(2, 2), Text(3, 3)>>, !.outcomes = {"answer", "error"}]}

MCScenes == ChatScenes \cup ServerScenes \cup MarkerScenes \cup TogetherScenes
=============================================================================
