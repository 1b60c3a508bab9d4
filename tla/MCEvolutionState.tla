-------------------------- MODULE MCEvolutionState --------------------------
(* EvolutionState with small caps, for the runs of the control alone. *)
EXTENDS EvolutionState

(* max(1, cap) is met on both sides: 0 and 1 give 1, 3 stays. *)
MCCaps == {0, 1, 3}
=============================================================================
