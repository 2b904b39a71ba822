---------------------------- MODULE SchemaHistory ----------------------------
(***************************************************************************)
(* What the migration runner promises: the recorded migrations only ever   *)
(* grow, by the next migration of a release whose own list they follow so  *)
(* far, and an instance serves only on a schema that holds its whole list. *)
(***************************************************************************)
EXTENDS Naturals, Sequences

CONSTANTS Instances, Release

VARIABLES
    history,       \* the recorded migrations, in version order
    serving        \* the instances that have been let through to HTTP

\* The recorded migrations are the first n of instance i's release.
Follows(h, i, n) ==
    /\ Len(h) = n /\ n <= Len(Release[i])
    /\ \A k \in 1..n : h[k] = [version |-> k, checksum |-> Release[i][k]]

\* The recorded migrations start with the whole release of instance i.
Holds(h, i) ==
    /\ Len(Release[i]) <= Len(h)
    /\ \A k \in 1..Len(Release[i]) : h[k] = [version |-> k, checksum |-> Release[i][k]]

Advance(i) ==
    /\ \E n \in 0..(Len(Release[i]) - 1) :
          /\ Follows(history, i, n)
          /\ history' = Append(history,
                [version |-> n + 1, checksum |-> Release[i][n + 1]])
    /\ UNCHANGED serving

Admit(i) ==
    /\ i \notin serving
    /\ Holds(history, i)
    /\ serving' = serving \cup {i}
    /\ UNCHANGED history

Leave(i) ==
    /\ serving' = serving \ {i}
    /\ UNCHANGED history

Next == \E i \in Instances : Advance(i) \/ Admit(i) \/ Leave(i)

Spec == serving = {} /\ [][Next]_<<history, serving>>
=============================================================================
