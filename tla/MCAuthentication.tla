-------------------------- MODULE MCAuthentication --------------------------
(***************************************************************************)
(* Instances of Authentication for TLC: one credential, a request signed   *)
(* in second 2, another that reuses its nonce, one whose MAC is wrong and  *)
(* one that does not parse.                                                *)
(***************************************************************************)
EXTENDS Authentication

CONSTANTS c1, n1

Signed(at, genuine) ==
    [credential |-> c1, nonce |-> n1, signedAt |-> at, parses |-> TRUE, genuine |-> genuine]

Malformed == [Signed(2, FALSE) EXCEPT !.parses = FALSE]

MCRequests == {Signed(2, TRUE), Signed(3, TRUE), Signed(2, FALSE), Malformed}
=============================================================================
