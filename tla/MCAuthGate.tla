----------------------------- MODULE MCAuthGate -----------------------------
(* Small instances of the shell-authorization gate. *)
EXTENDS AuthGate

CONSTANTS first, second

MCTasks == {first, second}
=============================================================================
