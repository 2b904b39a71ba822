-------------------------- MODULE DestinationToken --------------------------
(***************************************************************************)
(* The destination-token rows of one destination and what the code reads   *)
(* out of them: the row validator (securitystate/types.go, the CHECKs of   *)
(* migration 000002) and the lifecycle snapshot                            *)
(* (securitystate/destination_lifecycle.go).                               *)
(*                                                                         *)
(* Instants are naturals and 0 is Go's zero time, stored as NULL.  A clock *)
(* reading is finer than what PostgreSQL stores: Stored(t) is the column   *)
(* value pgx writes for t (truncation to the microsecond).                 *)
(***************************************************************************)
EXTENDS Naturals

CONSTANTS
    Records,          \* destination-token record identities
    Epoch, MaxTime,   \* clock readings are Epoch..MaxTime (a model bound)
    Lifetime,         \* config TokenLifetime
    Cleanup,          \* config StagedCleanupDuration
    Overlap,          \* config RetiringOverlap
    MaxLifetime,      \* tokenMaxLifetime, 90 days
    MaxCleanup,       \* tokenMaxCleanup, 24 hours
    MaxOverlap,       \* tokenMaxOverlap, 24 hours
    Stored(_)         \* a time.Time as the timestamptz column keeps it

Clock == Epoch..MaxTime

Instants == 0..(MaxTime + Lifetime + Cleanup + Overlap)

\* NewDestinationTokenLifecycleService accepts exactly such durations.
ASSUME DurationAssumption ==
    /\ Epoch \in Nat \ {0}
    /\ MaxTime \in Nat /\ Epoch <= MaxTime
    /\ \A d \in {Lifetime, Cleanup, Overlap, MaxLifetime, MaxCleanup, MaxOverlap} :
           d \in Nat \ {0}
    /\ Lifetime <= MaxLifetime
    /\ Cleanup <= MaxCleanup
    /\ Overlap <= MaxOverlap
    /\ Overlap < Lifetime

\* Storing a time truncates it, and every configured duration is at least one
\* stored unit long and is not stretched past its maximum by the truncation.
ASSUME StoredAssumption ==
    /\ \A t \in Instants : Stored(t) \in 0..t /\ Stored(Stored(t)) = Stored(t)
    /\ \A s, t \in Instants : s <= t => Stored(s) <= Stored(t)
    /\ \A t \in Clock :
          /\ 0 < Stored(t)
          /\ Stored(t) < Stored(t + Lifetime)
          /\ Stored(t + Lifetime) <= Stored(t) + MaxLifetime
          /\ Stored(t) < Stored(t + Cleanup)
          /\ Stored(t + Cleanup) <= Stored(t) + MaxCleanup
          /\ Stored(t) < Stored(t + Overlap)
          /\ Stored(t + Overlap) <= Stored(t) + MaxOverlap

-----------------------------------------------------------------------------
(* Rows.  A record identity that has no row is "absent".                   *)

TokenStates == {"absent", "staged", "active", "retiring", "revoked"}
LiveStates == {"staged", "active", "retiring"}

ColumnTimes == {t \in Instants : Stored(t) = t}

Row == [state : TokenStates,
        createdAt : ColumnTimes, expiresAt : ColumnTimes,
        cleanupDeadline : ColumnTimes, activatedAt : ColumnTimes,
        retirementStartedAt : ColumnTimes, retirementDeadline : ColumnTimes,
        revokedAt : ColumnTimes, stateChangedAt : ColumnTimes]

NoRow == [state |-> "absent", createdAt |-> 0, expiresAt |-> 0,
          cleanupDeadline |-> 0, activatedAt |-> 0, retirementStartedAt |-> 0,
          retirementDeadline |-> 0, revokedAt |-> 0, stateChangedAt |-> 0]

\* validateLifecycleHistory; also gateway_destination_tokens_state_time_order
\* and gateway_destination_tokens_retirement_bound.
ValidHistory(row) ==
    /\ row.createdAt > 0
    /\ row.createdAt <= row.stateChangedAt
    /\ row.activatedAt > 0 =>
          row.createdAt <= row.activatedAt /\ row.activatedAt <= row.stateChangedAt
    /\ (row.retirementStartedAt = 0) <=> (row.retirementDeadline = 0)
    /\ row.retirementStartedAt > 0 =>
          /\ row.activatedAt > 0
          /\ row.activatedAt <= row.retirementStartedAt
          /\ row.retirementStartedAt <= row.stateChangedAt
          /\ row.retirementStartedAt < row.retirementDeadline
          /\ row.retirementDeadline <= row.retirementStartedAt + MaxOverlap
    /\ row.revokedAt > 0 =>
          row.createdAt <= row.revokedAt /\ row.revokedAt <= row.stateChangedAt

\* validateDestinationTokenSpec: the same conditions as the table's CHECKs.
ValidToken(row) ==
    /\ row.createdAt < row.expiresAt
    /\ row.expiresAt <= row.createdAt + MaxLifetime
    /\ row.createdAt < row.cleanupDeadline
    /\ row.cleanupDeadline <= row.createdAt + MaxCleanup
    /\ ValidHistory(row)
    /\ row.state \in {"staged", "active", "retiring", "revoked"}
    /\ row.state = "staged" =>
          row.activatedAt = 0 /\ row.retirementStartedAt = 0 /\ row.revokedAt = 0
    /\ row.state = "active" =>
          row.activatedAt > 0 /\ row.retirementStartedAt = 0 /\ row.revokedAt = 0
    /\ row.state = "retiring" =>
          row.activatedAt > 0 /\ row.retirementStartedAt > 0 /\ row.revokedAt = 0
    /\ row.state = "revoked" => row.revokedAt > 0

\* DestinationToken.UsableAt, given whether the destination is enabled.
UsableAt(row, enabled, now) ==
    /\ enabled
    /\ row.state \in {"active", "retiring"}
    /\ row.activatedAt <= now
    /\ now < row.expiresAt
    /\ row.state = "retiring" => now < row.retirementDeadline

-----------------------------------------------------------------------------
(* The lifecycle snapshot of a set of rows rs, loaded with the destination *)
(* row d at the caller's time now.  Only live rows are selected.           *)

Has(rs, s) == \E r \in Records : rs[r].state = s

Unique(rs, s) ==
    \A r1, r2 \in Records : rs[r1].state = s /\ rs[r2].state = s => r1 = r2

\* The stamps an activation leaves on the new active and the old retiring row.
SameActivation(active, retiring) ==
    /\ active.activatedAt = retiring.retirementStartedAt
    /\ active.stateChangedAt = active.activatedAt
    /\ retiring.stateChangedAt = retiring.retirementStartedAt

\* loadDestinationLifecycleState or NewDestinationLifecycleSnapshot fails.
Unreadable(rs, d, now) ==
    \/ d.stateChangedAt > now
    \/ \E r \in Records : rs[r].state \in LiveStates /\ ~ValidToken(rs[r])
    \/ \E s \in LiveStates : ~Unique(rs, s)
    \/ Has(rs, "retiring") /\ (Has(rs, "staged") \/ ~Has(rs, "active"))
    \/ \E a, b \in Records :
          /\ rs[a].state = "active" /\ rs[b].state = "retiring"
          /\ ~SameActivation(rs[a], rs[b])

StaleRow(row, enabled, now) ==
    \/ row.createdAt > now
    \/ row.stateChangedAt > now
    \/ row.state = "staged" /\ (row.expiresAt <= now \/ row.cleanupDeadline <= now)
    \/ row.state \in {"active", "retiring"} /\ ~UsableAt(row, enabled, now)

Stale(rs, d, now) ==
    \/ ~d.enabled
    \/ \E r \in Records :
          rs[r].state \in LiveStates /\ StaleRow(rs[r], d.enabled, now)

\* NewDestinationLifecycleSnapshot's status.
Status(rs, d, now) ==
    IF Unreadable(rs, d, now) THEN "unreadable"
    ELSE IF Stale(rs, d, now) THEN "reconciliationRequired"
    ELSE IF Has(rs, "retiring") THEN "activeWithRetiring"
    ELSE IF Has(rs, "staged")
         THEN IF Has(rs, "active") THEN "activeWithStaged" ELSE "stagedInitial"
    ELSE IF Has(rs, "active") THEN "active"
    ELSE "unprovisioned"
=============================================================================
