----------------------- MODULE MCDestinationResolver ------------------------
(* Finite instances of DestinationResolver: a key being rotated, with      *)
(* records of both keys.                                                   *)
EXTENDS DestinationResolver, TLC

CONSTANTS
    Grain,              \* clock ticks per stored unit
    r1, r2, k1, k2

Truncate(t) == t - (t % Grain)

NewKeyFirst == <<k2, k1>>

OneKeyEach == (r1 :> k1) @@ (r2 :> k2)

\* The token 1 that is presented belongs to the record of either key, or, after a
\* token source repeated it, to both.
MCTokenings == {(r1 :> 1) @@ (r2 :> 2), (r1 :> 2) @@ (r2 :> 1), (r1 :> 1) @@ (r2 :> 1)}
=============================================================================
