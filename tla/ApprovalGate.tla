---------------------------- MODULE ApprovalGate ----------------------------
(***************************************************************************)
(* What a human-approval gate promises (ADR-021), without saying how: a    *)
(* request is put to the user once, the user decides it at most once, only *)
(* an approved request is acted upon, and it is acted upon at most once.   *)
(* A request may also be lost, by a crash or by a store that is damaged,   *)
(* and a lost request is never acted upon afterwards.                      *)
(***************************************************************************)
CONSTANT Requests

VARIABLE phase     \* the phase of every request

Phases == {"new", "asked", "approved", "rejected", "finished", "lost"}

GateTypeOK == phase \in [Requests -> Phases]

GateInit == phase = [r \in Requests |-> "new"]

Moves(r, from, to) ==
    phase[r] = from /\ phase' = [phase EXCEPT ![r] = to]

Ask(r) == Moves(r, "new", "asked")
Approve(r) == Moves(r, "asked", "approved")
Reject(r) == Moves(r, "asked", "rejected")
Finish(r) == Moves(r, "approved", "finished")

(* Any number of open requests are lost at once. *)
Lose(S) ==
    /\ \A r \in S : phase[r] \in {"asked", "approved"}
    /\ phase' = [r \in Requests |-> IF r \in S THEN "lost" ELSE phase[r]]

GateNext ==
    \/ \E r \in Requests : Ask(r) \/ Approve(r) \/ Reject(r) \/ Finish(r)
    \/ \E S \in SUBSET Requests : Lose(S)

GateSpec == GateInit /\ [][GateNext]_phase
=============================================================================
