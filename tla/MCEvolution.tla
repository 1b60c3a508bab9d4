----------------------------- MODULE MCEvolution ----------------------------
(* Small instances of the evolution cycle. *)
EXTENDS Evolution

CONSTANTS rest, goals, s1, s2, r1, r2

MCCallers == {rest, goals}
(* Think-at-Rest knows the chat of the request it works for. *)
MCChatCallers == {rest}
MCSkills == {s1, s2}
MCIds == {r1, r2}
(* max(1, cap) is met on both sides. *)
MCEvolutionCaps == {-1, 2}
=============================================================================
