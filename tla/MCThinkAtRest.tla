--------------------------- MODULE MCThinkAtRest ---------------------------
(* Instances of ThinkAtRest for TLC. *)
EXTENDS ThinkAtRest

CONSTANTS p1, p2, m1

MCManual == {m1}
MCPatterns == {p1, p2}
MCAsked == [p \in MCPatterns |-> IF p = p1 THEN 2 ELSE 1]

Scenario(requests, manual, critique, thoughts, restarts_, calls, varies) ==
    [requests |-> requests, manual |-> manual, critique |-> critique, thoughts |-> thoughts,
     restarts |-> restarts_, calls |-> calls, varies |-> varies]

Never == {FALSE}
Always == {TRUE}

MCLoads ==
    {Scenario({1, 2}, {}, FALSE, {}, 0, Never, {"attention", "age"}),
     Scenario({1}, {m1}, TRUE, {}, 0, BOOLEAN, {}),
     Scenario({1}, {}, TRUE, {}, 1, Never, {"running"}),
     Scenario({1}, {}, FALSE, {"probe"}, 0, BOOLEAN, {"attention"}),
     Scenario({}, {m1}, TRUE, {"message"}, 1, Never, {"attention", "day"}),
     Scenario({}, {}, FALSE, {"idea"}, 0, Never, {"running"}),
     Scenario({}, {}, FALSE, {"idea"}, 0, Never, {"replicas"}),
     Scenario({}, {}, FALSE, {"idea"}, 0, Never, {"log"}),
     Scenario({}, {}, TRUE, {"idea"}, 1, Never, {})}

(* The server is up and the user has said something.                       *)
MCChatted == {Scenario({1, 2}, {m1}, TRUE, {"probe"}, 0, Always, {"attention"})}
=============================================================================
