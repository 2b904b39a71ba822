-------------------------- MODULE RotationAttempt ---------------------------
(***************************************************************************)
(* What the rows prove about a rotation attempt, the handle that names its *)
(* new and its old record: InspectRotationAttempt of the lifecycle store   *)
(* and the classification the participant makes of its answer              *)
(* (securitystate/destination_rotation_participant.go).  Checks that the   *)
(* row validator or AttemptReadable already made on the same rows are not  *)
(* repeated.                                                               *)
(***************************************************************************)
EXTENDS TokenLifecycle

\* InspectRotationAttempt and NewDestinationTokenRotationAttemptSnapshot find
\* both records, valid and not dated after now.
AttemptReadable(new, old, now) ==
    /\ ~Unreadable(rows, dest, now)
    /\ new # old
    /\ \A r \in {new, old} :
          /\ rows[r].state # "absent"
          /\ ValidToken(rows[r])
          /\ rows[r].stateChangedAt <= now

\* validActivatedRotationHistory
ActivatedHistory(n, o) ==
    /\ o.activatedAt <= n.createdAt
    /\ o.activatedAt <= n.activatedAt
    /\ n.activatedAt < n.cleanupDeadline

\* validRotationPairViews
PairViews(n, o, now) ==
    /\ n.state = "active" /\ o.state = "retiring"
    /\ ActivatedHistory(n, o)
    /\ now < n.expiresAt
    /\ n.stateChangedAt <= now /\ o.stateChangedAt <= now
    /\ SameActivation(n, o)
    /\ o.retirementDeadline < n.expiresAt
    /\ o.retirementDeadline < o.expiresAt

\* Mutant: a rollback in the same stored instant as its activation is refused.
ExactRolledBackStrict(n, o) ==
    /\ n.state = "revoked" /\ o.state = "active"
    /\ n.revokedAt = n.stateChangedAt
    /\ n.retirementStartedAt = 0
    /\ \/ n.activatedAt = 0 /\ o.stateChangedAt <= n.createdAt
       \/ /\ n.activatedAt > 0
          /\ ActivatedHistory(n, o)
          /\ n.activatedAt < n.revokedAt
          /\ n.revokedAt = o.stateChangedAt

\* exactRolledBackAttempt
ExactRolledBack(n, o) ==
    /\ n.state = "revoked" /\ o.state = "active"
    /\ n.revokedAt = n.stateChangedAt
    /\ n.retirementStartedAt = 0
    /\ \/ n.activatedAt = 0 /\ o.stateChangedAt <= n.createdAt
       \/ /\ n.activatedAt > 0
          /\ ActivatedHistory(n, o)
          /\ n.activatedAt <= n.revokedAt
          /\ n.revokedAt < n.activatedAt + MaxOverlap
          /\ n.revokedAt < n.expiresAt
          /\ n.revokedAt = o.stateChangedAt

\* exactCompletedAttempt
ExactCompleted(n, o) ==
    /\ n.state = "active" /\ o.state = "revoked"
    /\ ActivatedHistory(n, o)
    /\ o.revokedAt = o.stateChangedAt
    /\ o.activatedAt > 0 /\ o.retirementStartedAt > 0
    /\ o.retirementDeadline <= o.revokedAt
    /\ o.retirementDeadline < n.expiresAt
    /\ o.retirementDeadline < o.expiresAt
    /\ n.activatedAt = n.stateChangedAt
    /\ n.activatedAt = o.retirementStartedAt

\* Mutant: a missing new record is taken for a rollback.
ClassifyMissing(new, old, now) ==
    IF /\ rows[new].state \in {"absent", "revoked"} /\ rows[old].state = "active"
       /\ Status(rows, dest, now) = "active"
    THEN "rolledBack" ELSE "unproven"

\* classifyRotationSnapshot; "unproven" stands for its two errors.
Classify(new, old, now) ==
    LET n == rows[new]
        o == rows[old]
        status == Status(rows, dest, now)
    IN  IF ~(AttemptReadable(new, old, now) /\ dest.enabled) THEN "unproven"
        ELSE IF /\ PairViews(n, o, now)
                /\ \/ status = "activeWithRetiring"
                   \/ status = "reconciliationRequired" /\ o.retirementDeadline <= now
             THEN "activeWithRetiring"
        ELSE IF status = "active" /\ ExactRolledBack(n, o) THEN "rolledBack"
        ELSE IF status = "active" /\ ExactCompleted(n, o) THEN "completed"
        ELSE "unproven"

-----------------------------------------------------------------------------
\* Every way an attempt can end is recognised: when a staged record is
\* aborted beside the old active one, or a live pair is rolled back, or
\* completed at or after its deadline, an observation not dated before that
\* reports that terminal while the destination is in its stable state.
EndingRecognised ==
    [][\A n, o \in Records :
          \/ rows[n].state = "active" /\ rows[o].state = "retiring"
          \/ rows[n].state = "staged" /\ rows[o].state = "active"
          => \/ rows'[o].revokedAt < rows'[o].retirementDeadline
             \/ \A now \in Clock :
                   /\ \A r \in {n, o} : rows'[r].stateChangedAt <= now
                   /\ Status(rows, dest, now)' = "active"
                   => Classify(n, o, now)' = IF rows'[n].state = "revoked"
                                             THEN "rolledBack" ELSE "completed"]_rows

-----------------------------------------------------------------------------
(* The inductive invariant behind EndingRecognised.                        *)

\* A mutation writes a row only to move it to another state, dates all that it
\* writes alike, and a revocation adds its date to a row and erases nothing.
Dated(rs, ss) ==
    \E at \in ColumnTimes : \A r \in Records : ss[r] # rs[r] =>
        /\ ss[r].state # rs[r].state
        /\ ss[r].stateChangedAt = at
        /\ ss[r].state = "revoked" => ss[r] = Revoked(rs[r], at)

\* So does the transaction that holds the lock.
PendingDated == txn.phase \in {"open", "inDoubt"} => Dated(rows, txn.after)

AttemptInv == Inv /\ PendingDated
=============================================================================
