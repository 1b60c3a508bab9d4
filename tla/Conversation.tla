---------------------------- MODULE Conversation ----------------------------
(***************************************************************************)
(* What the memory of a chat promises, without saying how it is stored: a  *)
(* log of turns, to which a turn that is saved is added at its end, the    *)
(* question and the answer in one step and no turn twice, and which a      *)
(* command empties.  Nothing else changes it.                              *)
(***************************************************************************)
EXTENDS Sequences, Integers

CONSTANT Turns

VARIABLE log     \* who spoke, and in which turn

BothOf(u) == <<<<"user", u>>, <<"assistant", u>>>>

ConversationInit == log = <<>>

Add(u) ==
    /\ \A i \in 1..Len(log) : log[i][2] # u
    /\ log' = log \o BothOf(u)

Empty == log' = <<>>

ConversationNext == Empty \/ \E u \in Turns : Add(u)

ConversationSpec == ConversationInit /\ [][ConversationNext]_log
=============================================================================
