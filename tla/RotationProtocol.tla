-------------------------- MODULE RotationProtocol --------------------------
(***************************************************************************)
(* What the destination-token lifecycle promises, without clocks, rows,    *)
(* transactions or failures: at every instant a destination has at most    *)
(* one pending, one active and one retiring token, and they change in six  *)
(* atomic ways.  Once a token is active the destination always has one.    *)
(***************************************************************************)
CONSTANT Records

VARIABLE state    \* state[r]: the lifecycle state of record r

(* Each way is a relation between the states s before and t after it.      *)

None(s, kind) == \A r \in Records : s[r] # kind

\* A new token is prepared beside at most an active one.
Stage(s, t, r) ==
    /\ s[r] = "absent"
    /\ None(s, "staged") /\ None(s, "retiring")
    /\ t = [s EXCEPT ![r] = "staged"]

ActivateFirst(s, t, r) ==
    /\ s[r] = "staged"
    /\ None(s, "active") /\ None(s, "retiring")
    /\ t = [s EXCEPT ![r] = "active"]

Abort(s, t, r) ==
    /\ s[r] = "staged"
    /\ None(s, "retiring")
    /\ t = [s EXCEPT ![r] = "revoked"]

\* The prepared token takes over; the old one is honoured for a while.
Rotate(s, t, new, old) ==
    /\ s[new] = "staged" /\ s[old] = "active"
    /\ None(s, "retiring")
    /\ t = [s EXCEPT ![new] = "active", ![old] = "retiring"]

Restore(s, t, new, old) ==
    /\ s[new] = "active" /\ s[old] = "retiring"
    /\ None(s, "staged")
    /\ t = [s EXCEPT ![new] = "revoked", ![old] = "active"]

Complete(s, t, new, old) ==
    /\ s[new] = "active" /\ s[old] = "retiring"
    /\ None(s, "staged")
    /\ t = [s EXCEPT ![old] = "revoked"]

ProtocolStep(s, t) ==
    \/ \E r \in Records : Stage(s, t, r) \/ ActivateFirst(s, t, r) \/ Abort(s, t, r)
    \/ \E new, old \in Records :
          Rotate(s, t, new, old) \/ Restore(s, t, new, old) \/ Complete(s, t, new, old)

ProtocolInit == state = [r \in Records |-> "absent"]

ProtocolSpec == ProtocolInit /\ [][ProtocolStep(state, state')]_state
=============================================================================
