----------------------- MODULE MCRotationParticipant ------------------------
(* Finite instances of RotationParticipant.                                *)
EXTENDS RotationParticipant, TLC

CONSTANT Grain   \* clock ticks per stored unit

Truncate(t) == t - (t % Grain)

\* What a client was told matters only until it has acted on it.
Awaited(p) ==
    IF p = Admin THEN outcome[p] = "running"
    ELSE IF attempt[p].pc \in {"created", "activated", "aborted", "mutated"}
         THEN outcome[p] ELSE "none"

SessionView == <<rows, dest, txn, attempt, [p \in Clients |-> Awaited(p)]>>

RecordSymmetry == Permutations(Records)
=============================================================================
