-------------------------- MODULE MCTokenLifecycle --------------------------
(* A finite instance of TokenLifecycle, with the attempts its rows hold.   *)
EXTENDS RotationAttempt, TLC

CONSTANT Grain   \* clock ticks per stored unit

Truncate(t) == t - (t % Grain)

\* No guard and no property below reads what an idle caller was last told.
RunningView == <<rows, dest, txn, {p \in Clients : outcome[p] = "running"}>>

RecordSymmetry == Permutations(Records)
=============================================================================
