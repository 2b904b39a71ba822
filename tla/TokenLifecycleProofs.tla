------------------------ MODULE TokenLifecycleProofs ------------------------
(***************************************************************************)
(* Proofs about TokenLifecycle for every set of records and callers, every *)
(* clock range and every configuration the service accepts.                *)
(***************************************************************************)
EXTENDS TokenLifecycle, TLAPS

\* One step of a mutation that decided to proceed: from sound rows rs to sound
\* rows ss, with everything the action properties ask of the step.
SoundStep(rs, ss, enabled) ==
    /\ ss \in [Records -> Row]
    /\ Sound(ss)
    /\ HistoryKept(rs, ss)
    /\ ServiceKept(rs, ss, enabled)
    /\ RetirementEnds(rs, ss)
    /\ Protocol!ProtocolStep(StatesOf(rs), StatesOf(ss))

\* What a clock reading becomes in a column: a positive column value that is
\* not later than the reading, and not earlier than any column value that the
\* reading had already reached.
LEMMA StoredClock ==
    ASSUME NEW now \in Clock
    PROVE  /\ now \in Nat
           /\ Stored(now) \in ColumnTimes
           /\ Stored(now) \in Nat
           /\ 0 < Stored(now)
           /\ Stored(now) <= now
           /\ \A t \in ColumnTimes : t <= now => t <= Stored(now)
<1>1. now \in Instants /\ now \in Nat
  BY DurationAssumption DEF Clock, Instants
<1>2. Stored(now) \in 0..now /\ Stored(Stored(now)) = Stored(now)
  BY <1>1, StoredAssumption
<1>3. Stored(now) \in Instants
  BY <1>1, <1>2, DurationAssumption DEF Instants
<1>4. \A t \in ColumnTimes : t <= now => t <= Stored(now)
  BY <1>1, StoredAssumption DEF ColumnTimes
<1>5. 0 < Stored(now)
  BY StoredAssumption
<1> QED
  BY <1>1, <1>2, <1>3, <1>4, <1>5 DEF ColumnTimes

\* Column values are naturals, and 0 (no value) is one of them.
LEMMA ColumnNat == ColumnTimes \subseteq Nat /\ 0 \in ColumnTimes
<1>1. Instants \subseteq Nat /\ 0 \in Instants
  BY DurationAssumption DEF Instants
<1>2. Stored(0) = 0
  BY <1>1, StoredAssumption
<1> QED
  BY <1>1, <1>2 DEF ColumnTimes

\* The three deadlines a mutation computes from its clock reading.
LEMMA StoredDeadlines ==
    ASSUME NEW now \in Clock
    PROVE  /\ Stored(now + Lifetime) \in ColumnTimes
           /\ Stored(now) < Stored(now + Lifetime)
           /\ Stored(now + Lifetime) <= Stored(now) + MaxLifetime
           /\ Stored(now + Cleanup) \in ColumnTimes
           /\ Stored(now) < Stored(now + Cleanup)
           /\ Stored(now + Cleanup) <= Stored(now) + MaxCleanup
           /\ Stored(now + Overlap) \in ColumnTimes
           /\ Stored(now) < Stored(now + Overlap)
           /\ Stored(now + Overlap) <= Stored(now) + MaxOverlap
<1>1. now + Lifetime \in Instants /\ now + Cleanup \in Instants /\ now + Overlap \in Instants
  BY DurationAssumption DEF Clock, Instants
<1>2. ASSUME NEW t \in Instants PROVE Stored(t) \in ColumnTimes
  <2>1. Stored(t) \in 0..t /\ Stored(Stored(t)) = Stored(t)
    BY StoredAssumption
  <2> QED BY <2>1, DurationAssumption DEF ColumnTimes, Instants
<1> QED
  BY <1>1, <1>2, StoredAssumption

\* The row of a record that does not exist has the type of a row.
LEMMA NoRowType == NoRow \in Row
  BY ColumnNat DEF NoRow, Row, TokenStates

\* An inserted row passes the table's CHECKs and the reader's validation.
LEMMA StagedRowValid ==
    ASSUME NEW now \in Clock
    PROVE  StagedRow(now) \in Row /\ ValidToken(StagedRow(now))
<1>1. StagedRow(now) \in Row
  BY StoredClock, StoredDeadlines, ColumnNat DEF StagedRow, Row, TokenStates
<1>2. ValidToken(StagedRow(now))
  BY StoredClock, StoredDeadlines, ColumnNat, DurationAssumption
  DEF StagedRow, ValidToken, ValidHistory
<1> QED BY <1>1, <1>2

\* The columns an activating UPDATE sets, and those it leaves alone.
LEMMA ActivatedFields ==
    ASSUME NEW row \in Row, NEW at \in ColumnTimes
    PROVE  /\ Activated(row, at) \in Row
           /\ Activated(row, at).state = "active"
           /\ Activated(row, at).createdAt = row.createdAt
           /\ Activated(row, at).expiresAt = row.expiresAt
           /\ Activated(row, at).cleanupDeadline = row.cleanupDeadline
           /\ Activated(row, at).activatedAt = at
           /\ Activated(row, at).retirementStartedAt = row.retirementStartedAt
           /\ Activated(row, at).retirementDeadline = row.retirementDeadline
           /\ Activated(row, at).revokedAt = row.revokedAt
           /\ Activated(row, at).stateChangedAt = at
<1>1. Activated(row, at) \in Row
  BY DEF Activated, Row, TokenStates
<1>2. Activated(row, at).state = "active"
  BY DEF Activated, Row
<1>3. Activated(row, at).createdAt = row.createdAt
  BY DEF Activated, Row
<1>4. Activated(row, at).expiresAt = row.expiresAt
  BY DEF Activated, Row
<1>5. Activated(row, at).cleanupDeadline = row.cleanupDeadline
  BY DEF Activated, Row
<1>6. Activated(row, at).activatedAt = at
  BY DEF Activated, Row
<1>7. Activated(row, at).retirementStartedAt = row.retirementStartedAt
  BY DEF Activated, Row
<1>8. Activated(row, at).retirementDeadline = row.retirementDeadline
  BY DEF Activated, Row
<1>9. Activated(row, at).revokedAt = row.revokedAt
  BY DEF Activated, Row
<1>10. Activated(row, at).stateChangedAt = at
  BY DEF Activated, Row
<1> QED BY <1>1, <1>2, <1>3, <1>4, <1>5, <1>6, <1>7, <1>8, <1>9, <1>10

\* The same for the UPDATE that retires the old active row.
LEMMA RetiringFields ==
    ASSUME NEW row \in Row, NEW at \in ColumnTimes, NEW deadline \in ColumnTimes
    PROVE  /\ Retiring(row, at, deadline) \in Row
           /\ Retiring(row, at, deadline).state = "retiring"
           /\ Retiring(row, at, deadline).createdAt = row.createdAt
           /\ Retiring(row, at, deadline).expiresAt = row.expiresAt
           /\ Retiring(row, at, deadline).cleanupDeadline = row.cleanupDeadline
           /\ Retiring(row, at, deadline).activatedAt = row.activatedAt
           /\ Retiring(row, at, deadline).retirementStartedAt = at
           /\ Retiring(row, at, deadline).retirementDeadline = deadline
           /\ Retiring(row, at, deadline).revokedAt = row.revokedAt
           /\ Retiring(row, at, deadline).stateChangedAt = at
<1>1. Retiring(row, at, deadline) \in Row
  BY DEF Retiring, Row, TokenStates
<1>2. Retiring(row, at, deadline).state = "retiring"
  BY DEF Retiring, Row
<1>3. Retiring(row, at, deadline).createdAt = row.createdAt
  BY DEF Retiring, Row
<1>4. Retiring(row, at, deadline).expiresAt = row.expiresAt
  BY DEF Retiring, Row
<1>5. Retiring(row, at, deadline).cleanupDeadline = row.cleanupDeadline
  BY DEF Retiring, Row
<1>6. Retiring(row, at, deadline).activatedAt = row.activatedAt
  BY DEF Retiring, Row
<1>7. Retiring(row, at, deadline).retirementStartedAt = at
  BY DEF Retiring, Row
<1>8. Retiring(row, at, deadline).retirementDeadline = deadline
  BY DEF Retiring, Row
<1>9. Retiring(row, at, deadline).revokedAt = row.revokedAt
  BY DEF Retiring, Row
<1>10. Retiring(row, at, deadline).stateChangedAt = at
  BY DEF Retiring, Row
<1> QED BY <1>1, <1>2, <1>3, <1>4, <1>5, <1>6, <1>7, <1>8, <1>9, <1>10

\* The same for the three revoking UPDATEs.
LEMMA RevokedFields ==
    ASSUME NEW row \in Row, NEW at \in ColumnTimes
    PROVE  /\ Revoked(row, at) \in Row
           /\ Revoked(row, at).state = "revoked"
           /\ Revoked(row, at).createdAt = row.createdAt
           /\ Revoked(row, at).expiresAt = row.expiresAt
           /\ Revoked(row, at).cleanupDeadline = row.cleanupDeadline
           /\ Revoked(row, at).activatedAt = row.activatedAt
           /\ Revoked(row, at).retirementStartedAt = row.retirementStartedAt
           /\ Revoked(row, at).retirementDeadline = row.retirementDeadline
           /\ Revoked(row, at).revokedAt = at
           /\ Revoked(row, at).stateChangedAt = at
<1>1. Revoked(row, at) \in Row
  BY DEF Revoked, Row, TokenStates
<1>2. Revoked(row, at).state = "revoked"
  BY DEF Revoked, Row
<1>3. Revoked(row, at).createdAt = row.createdAt
  BY DEF Revoked, Row
<1>4. Revoked(row, at).expiresAt = row.expiresAt
  BY DEF Revoked, Row
<1>5. Revoked(row, at).cleanupDeadline = row.cleanupDeadline
  BY DEF Revoked, Row
<1>6. Revoked(row, at).activatedAt = row.activatedAt
  BY DEF Revoked, Row
<1>7. Revoked(row, at).retirementStartedAt = row.retirementStartedAt
  BY DEF Revoked, Row
<1>8. Revoked(row, at).retirementDeadline = row.retirementDeadline
  BY DEF Revoked, Row
<1>9. Revoked(row, at).revokedAt = at
  BY DEF Revoked, Row
<1>10. Revoked(row, at).stateChangedAt = at
  BY DEF Revoked, Row
<1> QED BY <1>1, <1>2, <1>3, <1>4, <1>5, <1>6, <1>7, <1>8, <1>9, <1>10

\* The same for the UPDATE that restores a retiring row.
LEMMA RestoredFields ==
    ASSUME NEW row \in Row, NEW at \in ColumnTimes
    PROVE  /\ Restored(row, at) \in Row
           /\ Restored(row, at).state = "active"
           /\ Restored(row, at).createdAt = row.createdAt
           /\ Restored(row, at).expiresAt = row.expiresAt
           /\ Restored(row, at).cleanupDeadline = row.cleanupDeadline
           /\ Restored(row, at).activatedAt = row.activatedAt
           /\ Restored(row, at).retirementStartedAt = 0
           /\ Restored(row, at).retirementDeadline = 0
           /\ Restored(row, at).revokedAt = row.revokedAt
           /\ Restored(row, at).stateChangedAt = at
<1>1. Restored(row, at) \in Row
  BY ColumnNat DEF Restored, Row, TokenStates
<1>2. Restored(row, at).state = "active"
  BY DEF Restored, Row
<1>3. Restored(row, at).createdAt = row.createdAt
  BY DEF Restored, Row
<1>4. Restored(row, at).expiresAt = row.expiresAt
  BY DEF Restored, Row
<1>5. Restored(row, at).cleanupDeadline = row.cleanupDeadline
  BY DEF Restored, Row
<1>6. Restored(row, at).activatedAt = row.activatedAt
  BY DEF Restored, Row
<1>7. Restored(row, at).retirementStartedAt = 0
  BY DEF Restored, Row
<1>8. Restored(row, at).retirementDeadline = 0
  BY DEF Restored, Row
<1>9. Restored(row, at).revokedAt = row.revokedAt
  BY DEF Restored, Row
<1>10. Restored(row, at).stateChangedAt = at
  BY DEF Restored, Row
<1> QED BY <1>1, <1>2, <1>3, <1>4, <1>5, <1>6, <1>7, <1>8, <1>9, <1>10

\* The columns of a row are naturals.
LEMMA RowNat ==
    ASSUME NEW row \in Row
    PROVE  /\ row.createdAt \in Nat /\ row.expiresAt \in Nat
           /\ row.cleanupDeadline \in Nat /\ row.activatedAt \in Nat
           /\ row.retirementStartedAt \in Nat /\ row.retirementDeadline \in Nat
           /\ row.revokedAt \in Nat /\ row.stateChangedAt \in Nat
  BY ColumnNat DEF Row

\* Each UPDATE leaves a row that passes the CHECKs and the validator, provided
\* it is not dated before the row's last change.
LEMMA ActivatedValid ==
    ASSUME NEW row \in Row, NEW at \in ColumnTimes, ValidToken(row),
           row.state = "staged", row.stateChangedAt <= at
    PROVE  ValidToken(Activated(row, at))
<1> DEFINE updated == Activated(row, at)
<1>1. /\ MaxLifetime \in Nat /\ MaxCleanup \in Nat /\ MaxOverlap \in Nat
      /\ at \in Nat
  BY DurationAssumption, ColumnNat
<1>2. /\ updated.state = "active"
      /\ updated.createdAt = row.createdAt
      /\ updated.expiresAt = row.expiresAt
      /\ updated.cleanupDeadline = row.cleanupDeadline
      /\ updated.activatedAt = at
      /\ updated.retirementStartedAt = row.retirementStartedAt
      /\ updated.retirementDeadline = row.retirementDeadline
      /\ updated.revokedAt = row.revokedAt
      /\ updated.stateChangedAt = at
  BY ActivatedFields
<1> HIDE DEF updated
<1>3. ValidToken(updated)
  BY <1>1, <1>2, RowNat DEF ValidToken, ValidHistory
<1> QED BY <1>3 DEF updated

\* The UPDATE that starts a retirement leaves a valid row.
LEMMA RetiringValid ==
    ASSUME NEW row \in Row, NEW at \in ColumnTimes, NEW deadline \in ColumnTimes,
           ValidToken(row), row.state = "active", row.stateChangedAt <= at,
           at < deadline, deadline <= at + MaxOverlap
    PROVE  ValidToken(Retiring(row, at, deadline))
<1> DEFINE updated == Retiring(row, at, deadline)
<1>1. /\ MaxLifetime \in Nat /\ MaxCleanup \in Nat /\ MaxOverlap \in Nat
      /\ at \in Nat
  BY DurationAssumption, ColumnNat
<1>2. /\ updated.state = "retiring"
      /\ updated.createdAt = row.createdAt
      /\ updated.expiresAt = row.expiresAt
      /\ updated.cleanupDeadline = row.cleanupDeadline
      /\ updated.activatedAt = row.activatedAt
      /\ updated.retirementStartedAt = at
      /\ updated.retirementDeadline = deadline
      /\ updated.revokedAt = row.revokedAt
      /\ updated.stateChangedAt = at
  BY RetiringFields
<1> HIDE DEF updated
<1>3. ValidToken(updated)
  BY <1>1, <1>2, RowNat, ColumnNat DEF ValidToken, ValidHistory
<1> QED BY <1>3 DEF updated

\* The UPDATEs that revoke leave a valid row.
LEMMA RevokedValid ==
    ASSUME NEW row \in Row, NEW at \in ColumnTimes, ValidToken(row),
           row.stateChangedAt <= at
    PROVE  ValidToken(Revoked(row, at))
<1> DEFINE updated == Revoked(row, at)
<1>1. /\ MaxLifetime \in Nat /\ MaxCleanup \in Nat /\ MaxOverlap \in Nat
      /\ at \in Nat
  BY DurationAssumption, ColumnNat
<1>2. /\ updated.state = "revoked"
      /\ updated.createdAt = row.createdAt
      /\ updated.expiresAt = row.expiresAt
      /\ updated.cleanupDeadline = row.cleanupDeadline
      /\ updated.activatedAt = row.activatedAt
      /\ updated.retirementStartedAt = row.retirementStartedAt
      /\ updated.retirementDeadline = row.retirementDeadline
      /\ updated.revokedAt = at
      /\ updated.stateChangedAt = at
  BY RevokedFields
<1> HIDE DEF updated
<1>3. ValidToken(updated)
  BY <1>1, <1>2, RowNat DEF ValidToken, ValidHistory
<1> QED BY <1>3 DEF updated

\* The UPDATE that a rollback makes of the retiring row leaves a valid row.
LEMMA RestoredValid ==
    ASSUME NEW row \in Row, NEW at \in ColumnTimes, ValidToken(row),
           row.state = "retiring", row.stateChangedAt <= at
    PROVE  ValidToken(Restored(row, at))
<1> DEFINE updated == Restored(row, at)
<1>1. /\ MaxLifetime \in Nat /\ MaxCleanup \in Nat /\ MaxOverlap \in Nat
      /\ at \in Nat
  BY DurationAssumption, ColumnNat
<1>2. /\ updated.state = "active"
      /\ updated.createdAt = row.createdAt
      /\ updated.expiresAt = row.expiresAt
      /\ updated.cleanupDeadline = row.cleanupDeadline
      /\ updated.activatedAt = row.activatedAt
      /\ updated.retirementStartedAt = 0
      /\ updated.retirementDeadline = 0
      /\ updated.revokedAt = row.revokedAt
      /\ updated.stateChangedAt = at
  BY RestoredFields
<1> HIDE DEF updated
<1>3. ValidToken(updated)
  BY <1>1, <1>2, RowNat DEF ValidToken, ValidHistory
<1> QED BY <1>3 DEF updated

-----------------------------------------------------------------------------
(* Every statement list takes sound rows to sound rows.                    *)

\* The insert of CreateStagedToken and CreateRotationStagedToken.
LEMMA CreateStep ==
    ASSUME TypeOK, Sound(rows),
           NEW new \in Records, NEW now \in Clock,
           rows[new].state = "absent",
           ~Has(rows, "staged"), ~Has(rows, "retiring"),
           \A a \in Records : rows[a].state = "active" => rows[a].stateChangedAt <= now
    PROVE  SoundStep(rows, [rows EXCEPT ![new] = StagedRow(now)], dest.enabled)
<1> DEFINE after == [rows EXCEPT ![new] = StagedRow(now)]
<1>1. after \in [Records -> Row]
  BY StagedRowValid DEF TypeOK
<1>2. \A r \in Records : r # new => after[r] = rows[r]
  BY DEF TypeOK
<1>3. after[new] = StagedRow(now)
  BY DEF TypeOK
<1>4. /\ StagedRow(now).state = "staged"
      /\ StagedRow(now).createdAt = Stored(now)
      /\ StagedRow(now).stateChangedAt = Stored(now)
  BY DEF StagedRow
<1> HIDE DEF after
<1>5. \A r \in Records : /\ after[r].state = "active" <=> rows[r].state = "active"
                         /\ after[r].state = "retiring" <=> rows[r].state = "retiring"
                         /\ after[r].state = "staged" <=> r = new
                         /\ after[r].state = "active" => after[r] = rows[r]
  BY <1>2, <1>3, <1>4 DEF Has
<1>6. Readable(after)
  <2>1. \A r \in Records : after[r].state # "absent" => ValidToken(after[r])
    BY <1>2, <1>3, StagedRowValid DEF Sound, Readable
  <2>2. \A t \in LiveStates : Unique(after, t)
    BY <1>5 DEF Sound, Readable, Unique, LiveStates
  <2>3. ~Has(after, "retiring")
    BY <1>5 DEF Has
  <2> QED BY <2>1, <2>2, <2>3 DEF Readable, Has
<1>7. Sound(after)
  <2>1. StagedFollowsActive(after)
    <3> SUFFICES ASSUME NEW a \in Records, after[a].state = "active"
                 PROVE  after[a].stateChangedAt <= after[new].createdAt
      BY <1>5 DEF StagedFollowsActive
    <3>1. rows[a].stateChangedAt <= now /\ rows[a].stateChangedAt \in ColumnTimes
      BY <1>5 DEF TypeOK, Row
    <3> QED BY <3>1, <1>3, <1>4, <1>5, StoredClock
  <2> QED BY <1>5, <1>6, <2>1 DEF Sound, Has
<1>8. HistoryKept(rows, after)
  <2> SUFFICES ASSUME NEW r \in Records, rows[r].state # "absent"
               PROVE  after[r] = rows[r] /\ rows[r].stateChangedAt <= rows[r].stateChangedAt
    BY DEF HistoryKept
  <2>1. rows[r].stateChangedAt \in Nat
    BY ColumnNat DEF TypeOK, Row
  <2>2. after[r] = rows[r]
    BY <1>2
  <2> QED BY <2>1, <2>2
<1>9. ServiceKept(rows, after, dest.enabled)
  BY <1>2, <1>5 DEF ServiceKept, Has, UsableAt
<1>10. RetirementEnds(rows, after)
  BY <1>2 DEF RetirementEnds
<1>11. Protocol!ProtocolStep(StatesOf(rows), StatesOf(after))
  <2>1. Protocol!Stage(StatesOf(rows), StatesOf(after), new)
    BY <1>2, <1>3, <1>4
    DEF Protocol!Stage, Protocol!None, StatesOf, Has, Sound, Readable, TypeOK, Row
  <2> QED BY <2>1 DEF Protocol!ProtocolStep
<1> QED BY <1>1, <1>7, <1>8, <1>9, <1>10, <1>11 DEF SoundStep, after

\* The UPDATE of ActivateInitialToken.
LEMMA ActivateInitialStep ==
    ASSUME TypeOK, Sound(rows),
           NEW staged \in Records, NEW now \in Clock,
           rows[staged].state = "staged",
           ~Has(rows, "active"), ~Has(rows, "retiring"),
           rows[staged].stateChangedAt <= now
    PROVE  SoundStep(rows, [rows EXCEPT ![staged] = Activated(@, Stored(now))], dest.enabled)
<1> DEFINE at == Stored(now)
           after == [rows EXCEPT ![staged] = Activated(@, at)]
<1>1. rows[staged] \in Row /\ at \in ColumnTimes /\ at \in Nat
  BY StoredClock DEF TypeOK
<1>2. rows[staged].stateChangedAt <= at
  BY StoredClock DEF TypeOK, Row
<1>3. after[staged] = Activated(rows[staged], at)
  BY DEF TypeOK
<1>4. \A r \in Records : r # staged => after[r] = rows[r]
  BY DEF TypeOK
<1>5. after \in [Records -> Row]
  BY <1>1, ActivatedFields DEF TypeOK
<1> HIDE DEF after, at
<1>6. /\ after[staged].state = "active"
      /\ after[staged].createdAt = rows[staged].createdAt
      /\ after[staged].expiresAt = rows[staged].expiresAt
      /\ after[staged].cleanupDeadline = rows[staged].cleanupDeadline
      /\ after[staged].stateChangedAt = at
  BY <1>1, <1>3, ActivatedFields
<1>7. \A r \in Records : /\ after[r].state = "active" <=> r = staged
                         /\ after[r].state # "retiring"
                         /\ after[r].state # "staged"
  BY <1>4, <1>6 DEF Has, Sound, Readable, Unique, LiveStates
<1>8. Sound(after)
  <2>1. ValidToken(after[staged])
    BY <1>1, <1>2, <1>3, ActivatedValid DEF Sound, Readable
  <2>2. \A r \in Records : after[r].state # "absent" => ValidToken(after[r])
    BY <1>4, <2>1 DEF Sound, Readable
  <2>3. \A t \in LiveStates : Unique(after, t)
    BY <1>7 DEF Unique, LiveStates
  <2> QED BY <1>7, <2>2, <2>3 DEF Sound, Readable, StagedFollowsActive, Has
<1>9. HistoryKept(rows, after)
  <2> SUFFICES ASSUME NEW r \in Records, rows[r].state # "absent", r # staged
               PROVE  rows[r].stateChangedAt <= rows[r].stateChangedAt
    BY <1>2, <1>4, <1>6 DEF HistoryKept, Sound, Readable, ValidToken
  <2> QED BY RowNat DEF TypeOK
<1>10. ServiceKept(rows, after, dest.enabled)
  BY <1>4, <1>7 DEF ServiceKept, Has, UsableAt
<1>11. RetirementEnds(rows, after)
  BY <1>4 DEF RetirementEnds
<1>12. Protocol!ProtocolStep(StatesOf(rows), StatesOf(after))
  <2>1. Protocol!ActivateFirst(StatesOf(rows), StatesOf(after), staged)
    BY <1>4, <1>6
    DEF Protocol!ActivateFirst, Protocol!None, StatesOf, Has, Sound, Readable, TypeOK,
        Row
  <2> QED BY <2>1 DEF Protocol!ProtocolStep
<1> QED BY <1>5, <1>8, <1>9, <1>10, <1>11, <1>12 DEF SoundStep, after, at

\* The UPDATE of AbortStagedToken.
LEMMA AbortStep ==
    ASSUME TypeOK, Sound(rows),
           NEW staged \in Records, NEW now \in Clock,
           rows[staged].state = "staged",
           rows[staged].stateChangedAt <= now
    PROVE  SoundStep(rows, [rows EXCEPT ![staged] = Revoked(@, Stored(now))], dest.enabled)
<1> DEFINE at == Stored(now)
           after == [rows EXCEPT ![staged] = Revoked(@, at)]
<1>1. rows[staged] \in Row /\ at \in ColumnTimes /\ at \in Nat
  BY StoredClock DEF TypeOK
<1>2. rows[staged].stateChangedAt <= at
  BY StoredClock DEF TypeOK, Row
<1>3. after[staged] = Revoked(rows[staged], at)
  BY DEF TypeOK
<1>4. \A r \in Records : r # staged => after[r] = rows[r]
  BY DEF TypeOK
<1>5. after \in [Records -> Row]
  BY <1>1, RevokedFields DEF TypeOK
<1> HIDE DEF after, at
<1>6. /\ after[staged].state = "revoked"
      /\ after[staged].createdAt = rows[staged].createdAt
      /\ after[staged].expiresAt = rows[staged].expiresAt
      /\ after[staged].cleanupDeadline = rows[staged].cleanupDeadline
      /\ after[staged].activatedAt = rows[staged].activatedAt
      /\ after[staged].stateChangedAt = at
  BY <1>1, <1>3, RevokedFields
<1>7. \A r \in Records : /\ after[r].state = "active" <=> rows[r].state = "active"
                         /\ after[r].state = "retiring" <=> rows[r].state = "retiring"
                         /\ after[r].state # "staged"
                         /\ after[r].state \in LiveStates => after[r] = rows[r]
  BY <1>4, <1>6 DEF Sound, Readable, Unique, LiveStates
<1>8. Sound(after)
  <2>1. ValidToken(after[staged])
    BY <1>1, <1>2, <1>3, RevokedValid DEF Sound, Readable
  <2>2. \A r \in Records : after[r].state # "absent" => ValidToken(after[r])
    BY <1>4, <2>1 DEF Sound, Readable
  <2>3. \A t \in LiveStates : Unique(after, t)
    BY <1>7 DEF Sound, Readable, Unique, LiveStates
  <2>4. ~Has(after, "retiring")
    BY <1>7 DEF Sound, Readable, Has
  <2> QED BY <1>7, <2>2, <2>3, <2>4 DEF Sound, Readable, StagedFollowsActive, Has
<1>9. HistoryKept(rows, after)
  <2> SUFFICES ASSUME NEW r \in Records, rows[r].state # "absent", r # staged
               PROVE  rows[r].stateChangedAt <= rows[r].stateChangedAt
    BY <1>2, <1>4, <1>6 DEF HistoryKept
  <2> QED BY RowNat DEF TypeOK
<1>10. ServiceKept(rows, after, dest.enabled)
  BY <1>4, <1>6, <1>7 DEF ServiceKept, Has, UsableAt
<1>11. RetirementEnds(rows, after)
  BY <1>4 DEF RetirementEnds
<1>12. Protocol!ProtocolStep(StatesOf(rows), StatesOf(after))
  <2>1. Protocol!Abort(StatesOf(rows), StatesOf(after), staged)
    BY <1>4, <1>6
    DEF Protocol!Abort, Protocol!None, StatesOf, Has, Sound, Readable, TypeOK, Row
  <2> QED BY <2>1 DEF Protocol!ProtocolStep
<1> QED BY <1>5, <1>8, <1>9, <1>10, <1>11, <1>12 DEF SoundStep, after, at

\* The two UPDATEs of ActivateRotation.
LEMMA ActivateRotationStep ==
    ASSUME TypeOK, Sound(rows),
           NEW staged \in Records, NEW active \in Records, NEW now \in Clock,
           rows[staged].state = "staged", rows[active].state = "active",
           rows[staged].stateChangedAt <= Stored(now),
           rows[active].stateChangedAt <= Stored(now),
           Stored(now) < rows[staged].cleanupDeadline,
           Stored(now + Overlap) < rows[staged].expiresAt,
           Stored(now + Overlap) < rows[active].expiresAt
    PROVE  SoundStep(rows,
               [rows EXCEPT ![active] = Retiring(@, Stored(now), Stored(now + Overlap)),
                            ![staged] = Activated(@, Stored(now))], dest.enabled)
<1> DEFINE at == Stored(now)
           deadline == Stored(now + Overlap)
           after == [rows EXCEPT ![active] = Retiring(@, at, deadline),
                                 ![staged] = Activated(@, at)]
<1>1. /\ rows[staged] \in Row /\ rows[active] \in Row
      /\ at \in ColumnTimes /\ at \in Nat
      /\ deadline \in ColumnTimes /\ deadline \in Nat
      /\ at < deadline /\ deadline <= at + MaxOverlap
  BY StoredClock, StoredDeadlines, ColumnNat DEF TypeOK
<1>2. staged # active
  OBVIOUS
<1>3. /\ after[staged] = Activated(rows[staged], at)
      /\ after[active] = Retiring(rows[active], at, deadline)
  BY <1>2 DEF TypeOK
<1>4. \A r \in Records : r # staged /\ r # active => after[r] = rows[r]
  BY DEF TypeOK
<1>5. after \in [Records -> Row]
  <2>1. Activated(rows[staged], at) \in Row /\ Retiring(rows[active], at, deadline) \in Row
    BY <1>1, ActivatedFields, RetiringFields
  <2> QED BY <2>1, <1>2 DEF TypeOK
<1>6. /\ rows[staged].stateChangedAt <= at /\ rows[active].stateChangedAt <= at
      /\ at < rows[staged].cleanupDeadline
      /\ deadline < rows[staged].expiresAt /\ deadline < rows[active].expiresAt
  OBVIOUS
<1> HIDE DEF after, at, deadline
<1>7. /\ after[staged].state = "active"
      /\ after[staged].createdAt = rows[staged].createdAt
      /\ after[staged].expiresAt = rows[staged].expiresAt
      /\ after[staged].cleanupDeadline = rows[staged].cleanupDeadline
      /\ after[staged].activatedAt = at
      /\ after[staged].stateChangedAt = at
  BY <1>1, <1>3, ActivatedFields
<1>8. /\ after[active].state = "retiring"
      /\ after[active].createdAt = rows[active].createdAt
      /\ after[active].expiresAt = rows[active].expiresAt
      /\ after[active].cleanupDeadline = rows[active].cleanupDeadline
      /\ after[active].activatedAt = rows[active].activatedAt
      /\ after[active].retirementStartedAt = at
      /\ after[active].retirementDeadline = deadline
      /\ after[active].stateChangedAt = at
  BY SMTT(20), <1>1, <1>3, RetiringFields
<1>9. \A r \in Records : /\ after[r].state = "active" <=> r = staged
                         /\ after[r].state = "retiring" <=> r = active
                         /\ after[r].state # "staged"
  BY <1>4, <1>7, <1>8 DEF Sound, Readable, Unique, LiveStates, Has
<1>10. Sound(after)
  <2>1. ValidToken(rows[staged]) /\ ValidToken(rows[active])
    BY DEF Sound, Readable
  <2>2. ValidToken(after[staged]) /\ ValidToken(after[active])
    BY <1>1, <1>3, <1>6, <2>1, ActivatedValid, RetiringValid
  <2>3. \A r \in Records : after[r].state # "absent" => ValidToken(after[r])
    BY <1>4, <2>2 DEF Sound, Readable
  <2>4. \A t \in LiveStates : Unique(after, t)
    BY <1>9 DEF Unique, LiveStates
  <2>5. rows[active].activatedAt <= rows[staged].createdAt
    <3>1. rows[active].stateChangedAt <= rows[staged].createdAt
      BY DEF Sound, StagedFollowsActive
    <3> QED BY SMTT(20), <1>1, <2>1, <3>1, RowNat DEF ValidToken, ValidHistory
  <2>6. SameActivation(after[staged], after[active]) /\ PairHistory(after[staged], after[active])
    BY <1>6, <1>7, <1>8, <2>5 DEF SameActivation, PairHistory
  <2> QED BY <1>9, <2>3, <2>4, <2>6 DEF Sound, Readable, StagedFollowsActive, Has
<1>11. HistoryKept(rows, after)
  <2>1. rows[staged].activatedAt = 0
    BY DEF Sound, Readable, ValidToken
  <2> SUFFICES ASSUME NEW r \in Records, rows[r].state # "absent", r # staged, r # active
               PROVE  rows[r].stateChangedAt <= rows[r].stateChangedAt
    BY <1>4, <1>6, <1>7, <1>8, <2>1 DEF HistoryKept
  <2> QED BY RowNat DEF TypeOK
<1>12. ServiceKept(rows, after, dest.enabled)
  <2>1. Has(after, "active")
    BY <1>9 DEF Has
  <2>2. \A c \in Records : after[c] # rows[c] => after[c].stateChangedAt = at
    BY <1>4, <1>7, <1>8
  <2>3. dest.enabled => UsableAt(after[staged], dest.enabled, at)
    BY <1>1, <1>6, <1>7, RowNat DEF UsableAt
  <2> QED BY <2>1, <2>2, <2>3 DEF ServiceKept, UsableAt
<1>13. RetirementEnds(rows, after)
  BY <1>4 DEF RetirementEnds
<1>14. Protocol!ProtocolStep(StatesOf(rows), StatesOf(after))
  <2>1. Protocol!Rotate(StatesOf(rows), StatesOf(after), staged, active)
    BY <1>4, <1>7, <1>8
    DEF Protocol!Rotate, Protocol!None, StatesOf, Has, Sound, Readable, TypeOK, Row
  <2> QED BY <2>1 DEF Protocol!ProtocolStep
<1> QED BY <1>5, <1>10, <1>11, <1>12, <1>13, <1>14 DEF SoundStep, after, at, deadline

\* The two UPDATEs of RollbackRotation.
LEMMA RollbackStep ==
    ASSUME TypeOK, Sound(rows),
           NEW new \in Records, NEW old \in Records, NEW now \in Clock,
           rows[new].state = "active", rows[old].state = "retiring",
           rows[new].activatedAt <= now, now < rows[old].retirementDeadline,
           now < rows[old].expiresAt
    PROVE  SoundStep(rows, [rows EXCEPT ![new] = Revoked(@, Stored(now)),
                                        ![old] = Restored(@, Stored(now))], dest.enabled)
<1> DEFINE at == Stored(now)
           after == [rows EXCEPT ![new] = Revoked(@, at), ![old] = Restored(@, at)]
<1>1. /\ rows[new] \in Row /\ rows[old] \in Row
      /\ at \in ColumnTimes /\ at \in Nat /\ at <= now /\ now \in Nat
  BY StoredClock DEF TypeOK
<1>2. new # old
  OBVIOUS
<1>3. /\ after[new] = Revoked(rows[new], at)
      /\ after[old] = Restored(rows[old], at)
  BY <1>2 DEF TypeOK
<1>4. \A r \in Records : r # new /\ r # old => after[r] = rows[r]
  BY DEF TypeOK
<1>5. after \in [Records -> Row]
  <2>1. Revoked(rows[new], at) \in Row /\ Restored(rows[old], at) \in Row
    BY <1>1, RevokedFields, RestoredFields
  <2> QED BY <2>1, <1>2 DEF TypeOK
<1>6. rows[new].activatedAt <= at
  BY StoredClock DEF TypeOK, Row
<1> HIDE DEF after, at
<1>7. /\ after[new].state = "revoked"
      /\ after[new].createdAt = rows[new].createdAt
      /\ after[new].expiresAt = rows[new].expiresAt
      /\ after[new].cleanupDeadline = rows[new].cleanupDeadline
      /\ after[new].activatedAt = rows[new].activatedAt
      /\ after[new].stateChangedAt = at
  BY SMTT(20), <1>1, <1>3, RevokedFields
<1>8. /\ after[old].state = "active"
      /\ after[old].createdAt = rows[old].createdAt
      /\ after[old].expiresAt = rows[old].expiresAt
      /\ after[old].cleanupDeadline = rows[old].cleanupDeadline
      /\ after[old].activatedAt = rows[old].activatedAt
      /\ after[old].stateChangedAt = at
  BY <1>1, <1>3, RestoredFields
<1>9. \A r \in Records : /\ after[r].state = "active" <=> r = old
                         /\ after[r].state # "retiring"
                         /\ after[r].state # "staged"
  BY <1>4, <1>7, <1>8 DEF Sound, Readable, Unique, LiveStates, Has
<1>10. /\ ValidToken(rows[new]) /\ ValidToken(rows[old])
       /\ rows[new].stateChangedAt <= at /\ rows[old].stateChangedAt <= at
       /\ rows[old].activatedAt <= at
  <2>1. ValidToken(rows[new]) /\ ValidToken(rows[old])
    BY DEF Sound, Readable
  <2>2. SameActivation(rows[new], rows[old])
    BY DEF Sound, Readable
  <2>3. rows[old].activatedAt <= rows[old].stateChangedAt
    BY <2>1, <1>1, RowNat DEF ValidToken, ValidHistory
  <2> QED BY <1>1, <1>6, <2>1, <2>2, <2>3, RowNat DEF SameActivation
<1>11. Sound(after)
  <2>1. ValidToken(after[new]) /\ ValidToken(after[old])
    BY <1>1, <1>3, <1>10, RevokedValid, RestoredValid
  <2>2. \A r \in Records : after[r].state # "absent" => ValidToken(after[r])
    BY <1>4, <2>1 DEF Sound, Readable
  <2>3. \A t \in LiveStates : Unique(after, t)
    BY <1>9 DEF Unique, LiveStates
  <2> QED BY <1>9, <2>2, <2>3 DEF Sound, Readable, StagedFollowsActive, Has
<1>12. HistoryKept(rows, after)
  <2> SUFFICES ASSUME NEW r \in Records, rows[r].state # "absent", r # new, r # old
               PROVE  rows[r].stateChangedAt <= rows[r].stateChangedAt
    BY <1>4, <1>7, <1>8, <1>10 DEF HistoryKept
  <2> QED BY RowNat DEF TypeOK
<1>13. ServiceKept(rows, after, dest.enabled)
  <2>1. Has(after, "active")
    BY <1>9 DEF Has
  <2>2. \A c \in Records : after[c] # rows[c] => after[c].stateChangedAt = at
    BY <1>4, <1>7, <1>8
  <2>3. dest.enabled => UsableAt(after[old], dest.enabled, at)
    BY <1>1, <1>8, <1>10, RowNat DEF UsableAt
  <2> QED BY <2>1, <2>2, <2>3 DEF ServiceKept, UsableAt
<1>14. RetirementEnds(rows, after)
  <2>1. at < rows[old].retirementDeadline
    BY <1>1, RowNat
  <2> QED BY <1>4, <1>8, <2>1 DEF RetirementEnds
<1>15. Protocol!ProtocolStep(StatesOf(rows), StatesOf(after))
  <2>1. Protocol!Restore(StatesOf(rows), StatesOf(after), new, old)
    BY <1>4, <1>7, <1>8
    DEF Protocol!Restore, Protocol!None, StatesOf, Has, Sound, Readable, TypeOK, Row
  <2> QED BY <2>1 DEF Protocol!ProtocolStep
<1> QED BY <1>5, <1>11, <1>12, <1>13, <1>14, <1>15 DEF SoundStep, after, at

\* The UPDATE of FinalizeRotation.
LEMMA FinalizeStep ==
    ASSUME TypeOK, Sound(rows),
           NEW new \in Records, NEW old \in Records, NEW now \in Clock,
           rows[new].state = "active", rows[old].state = "retiring",
           rows[new].activatedAt <= now, now < rows[new].expiresAt
    PROVE  SoundStep(rows, [rows EXCEPT ![old] = Revoked(@, Stored(now))], dest.enabled)
<1> DEFINE at == Stored(now)
           after == [rows EXCEPT ![old] = Revoked(@, at)]
<1>1. /\ rows[new] \in Row /\ rows[old] \in Row
      /\ at \in ColumnTimes /\ at \in Nat /\ at <= now /\ now \in Nat
  BY StoredClock DEF TypeOK
<1>2. after[old] = Revoked(rows[old], at)
  BY DEF TypeOK
<1>3. \A r \in Records : r # old => after[r] = rows[r]
  BY DEF TypeOK
<1>4. after \in [Records -> Row]
  BY <1>1, RevokedFields DEF TypeOK
<1>5. rows[new].activatedAt <= at
  BY StoredClock DEF TypeOK, Row
<1> HIDE DEF after, at
<1>6. /\ after[old].state = "revoked"
      /\ after[old].createdAt = rows[old].createdAt
      /\ after[old].expiresAt = rows[old].expiresAt
      /\ after[old].cleanupDeadline = rows[old].cleanupDeadline
      /\ after[old].activatedAt = rows[old].activatedAt
      /\ after[old].stateChangedAt = at
  BY <1>1, <1>2, RevokedFields
<1>7. \A r \in Records : /\ after[r].state = "active" <=> r = new
                         /\ after[r].state # "retiring"
                         /\ after[r].state # "staged"
  BY <1>3, <1>6 DEF Sound, Readable, Unique, LiveStates, Has
<1>8. ValidToken(rows[old]) /\ rows[old].stateChangedAt <= at
  <2>1. ValidToken(rows[old]) /\ SameActivation(rows[new], rows[old])
    BY DEF Sound, Readable
  <2> QED BY <1>1, <1>5, <2>1, RowNat DEF SameActivation
<1>9. Sound(after)
  <2>1. ValidToken(after[old])
    BY <1>1, <1>2, <1>8, RevokedValid
  <2>2. \A r \in Records : after[r].state # "absent" => ValidToken(after[r])
    BY <1>3, <2>1 DEF Sound, Readable
  <2>3. \A t \in LiveStates : Unique(after, t)
    BY <1>7 DEF Unique, LiveStates
  <2> QED BY <1>7, <2>2, <2>3 DEF Sound, Readable, StagedFollowsActive, Has
<1>10. HistoryKept(rows, after)
  <2> SUFFICES ASSUME NEW r \in Records, rows[r].state # "absent", r # old
               PROVE  rows[r].stateChangedAt <= rows[r].stateChangedAt
    BY <1>3, <1>6, <1>8 DEF HistoryKept
  <2> QED BY RowNat DEF TypeOK
<1>11. ServiceKept(rows, after, dest.enabled)
  <2>1. Has(after, "active")
    BY <1>7 DEF Has
  <2>2. \A c \in Records : after[c] # rows[c] => after[c].stateChangedAt = at
    BY <1>3, <1>6
  <2>3. dest.enabled => UsableAt(after[new], dest.enabled, at)
    BY <1>1, <1>3, <1>5, RowNat DEF UsableAt
  <2> QED BY <2>1, <2>2, <2>3 DEF ServiceKept, UsableAt
<1>12. RetirementEnds(rows, after)
  BY <1>3, <1>6 DEF RetirementEnds
<1>13. Protocol!ProtocolStep(StatesOf(rows), StatesOf(after))
  <2>1. Protocol!Complete(StatesOf(rows), StatesOf(after), new, old)
    BY <1>3, <1>6
    DEF Protocol!Complete, Protocol!None, StatesOf, Has, Sound, Readable, TypeOK, Row
  <2> QED BY <2>1 DEF Protocol!ProtocolStep
<1> QED BY <1>4, <1>9, <1>10, <1>11, <1>12, <1>13 DEF SoundStep, after, at

-----------------------------------------------------------------------------
(* What a verdict of "proceed" guarantees.                                 *)

\* A status other than the two refusing ones: no live row is stale.
LEMMA StatusFresh ==
    ASSUME TypeOK, NEW now \in Nat,
           Status(rows, dest, now) \in {"unprovisioned", "stagedInitial", "active",
                                        "activeWithStaged", "activeWithRetiring"}
    PROVE  /\ \A r \in Records : rows[r].state \in LiveStates =>
                 rows[r].stateChangedAt <= now
           /\ \A r \in Records : rows[r].state = "staged" =>
                 now < rows[r].expiresAt /\ now < rows[r].cleanupDeadline
<1>1. ~Stale(rows, dest, now)
  BY DEF Status
<1>2. \A r \in Records : rows[r].state \in LiveStates =>
          ~StaleRow(rows[r], dest.enabled, now)
  BY <1>1 DEF Stale
<1> QED BY <1>2, RowNat DEF StaleRow, TypeOK, LiveStates

\* Which slots each status says are taken.
LEMMA StatusSlots ==
    ASSUME NEW now
    PROVE  /\ Status(rows, dest, now) = "unprovisioned" =>
                 ~Has(rows, "staged") /\ ~Has(rows, "active") /\ ~Has(rows, "retiring")
           /\ Status(rows, dest, now) = "stagedInitial" =>
                 ~Has(rows, "active") /\ ~Has(rows, "retiring")
           /\ Status(rows, dest, now) = "active" =>
                 ~Has(rows, "staged") /\ ~Has(rows, "retiring")
  BY DEF Status

\* CreateStagedToken, when it proceeds, makes a sound step.
LEMMA CreateStagedProceeds ==
    ASSUME TypeOK, Sound(rows), NEW new \in Records, NEW now \in Clock,
           rows[new].state = "absent", CreateStagedVerdict(now) = "proceed"
    PROVE  SoundStep(rows, [rows EXCEPT ![new] = StagedRow(now)], dest.enabled)
<1>1. Status(rows, dest, now) = "unprovisioned"
  BY DEF CreateStagedVerdict
<1>2. ~Has(rows, "staged") /\ ~Has(rows, "retiring") /\ ~Has(rows, "active")
  BY <1>1, StatusSlots
<1> QED BY <1>2, CreateStep DEF Has

\* CreateRotationStagedToken, when it proceeds, makes a sound step.
LEMMA CreateRotationProceeds ==
    ASSUME TypeOK, Sound(rows), NEW new \in Records, NEW active \in Records,
           NEW now \in Clock,
           rows[new].state = "absent", CreateRotationVerdict(active, now) = "proceed"
    PROVE  SoundStep(rows, [rows EXCEPT ![new] = StagedRow(now)], dest.enabled)
<1>1. Status(rows, dest, now) = "active"
  BY DEF CreateRotationVerdict
<1>2. ~Has(rows, "staged") /\ ~Has(rows, "retiring")
  BY <1>1, StatusSlots
<1>3. \A a \in Records : rows[a].state = "active" => rows[a].stateChangedAt <= now
  BY <1>1, StatusFresh, StoredClock DEF LiveStates
<1> QED BY <1>2, <1>3, CreateStep

\* ActivateInitialToken, when it proceeds, makes a sound step.
LEMMA ActivateInitialProceeds ==
    ASSUME TypeOK, Sound(rows), NEW staged \in Records, NEW now \in Clock,
           ActivateInitialVerdict(staged, now) = "proceed"
    PROVE  SoundStep(rows, [rows EXCEPT ![staged] = Activated(@, Stored(now))], dest.enabled)
<1>1. Status(rows, dest, now) = "stagedInitial" /\ rows[staged].state = "staged"
  BY DEF ActivateInitialVerdict
<1>2. ~Has(rows, "active") /\ ~Has(rows, "retiring")
  BY <1>1, StatusSlots
<1>3. rows[staged].stateChangedAt <= now
  BY <1>1, StatusFresh, StoredClock DEF LiveStates
<1> QED BY <1>1, <1>2, <1>3, ActivateInitialStep

\* ActivateRotation, when it proceeds, makes a sound step of its two UPDATEs.
LEMMA ActivateRotationProceeds ==
    ASSUME TypeOK, Sound(rows), NEW staged \in Records, NEW active \in Records,
           NEW now \in Clock,
           ActivateRotationVerdict(staged, active, Stored(now), Stored(now + Overlap))
               = "proceed"
    PROVE  SoundStep(rows,
               [rows EXCEPT ![active] = Retiring(@, Stored(now), Stored(now + Overlap)),
                            ![staged] = Activated(@, Stored(now))], dest.enabled)
<1>1. /\ Status(rows, dest, Stored(now)) = "activeWithStaged"
      /\ rows[staged].state = "staged" /\ rows[active].state = "active"
      /\ Stored(now + Overlap) < rows[staged].expiresAt
      /\ Stored(now + Overlap) < rows[active].expiresAt
  BY DEF ActivateRotationVerdict
<1>2. /\ rows[staged].stateChangedAt <= Stored(now)
      /\ rows[active].stateChangedAt <= Stored(now)
      /\ Stored(now) < rows[staged].cleanupDeadline
  BY <1>1, StatusFresh, StoredClock DEF LiveStates
<1> QED BY <1>1, <1>2, ActivateRotationStep

\* AbortStagedToken, when it proceeds, makes a sound step.
LEMMA AbortProceeds ==
    ASSUME TypeOK, Sound(rows), NEW staged \in Records, NEW now \in Clock,
           AbortStagedVerdict(staged, now) = "proceed"
    PROVE  SoundStep(rows, [rows EXCEPT ![staged] = Revoked(@, Stored(now))], dest.enabled)
<1>1. /\ rows[staged].state = "staged"
      /\ \/ Status(rows, dest, now) \in {"stagedInitial", "activeWithStaged"}
         \/ OverdueCleanupAllowed(staged, now)
  BY DEF AbortStagedVerdict
<1>2. rows[staged].stateChangedAt <= now
  BY <1>1, StatusFresh, StoredClock DEF LiveStates, OverdueCleanupAllowed
<1> QED BY <1>1, <1>2, AbortStep

\* RollbackRotation, when it proceeds, makes a sound step of its two UPDATEs.
LEMMA RollbackProceeds ==
    ASSUME TypeOK, Sound(rows), NEW new \in Records, NEW old \in Records,
           NEW now \in Clock, RollbackVerdict(new, old, now) = "proceed"
    PROVE  SoundStep(rows, [rows EXCEPT ![new] = Revoked(@, Stored(now)),
                                        ![old] = Restored(@, Stored(now))], dest.enabled)
<1>1. /\ RotationPairVerdict(new, old, now, FALSE) = "proceed"
      /\ ~(rows[old].retirementDeadline <= now)
  BY DEF RollbackVerdict
<1>2. now < rows[old].retirementDeadline
  BY <1>1, StoredClock, RowNat DEF TypeOK
<1>3. /\ rows[new].state = "active" /\ rows[old].state = "retiring"
      /\ rows[new].activatedAt <= now /\ now < rows[old].expiresAt
  BY <1>1 DEF RotationPairVerdict
<1> QED BY <1>2, <1>3, RollbackStep

\* FinalizeRotation, when it proceeds, makes a sound step.
LEMMA FinalizeProceeds ==
    ASSUME TypeOK, Sound(rows), NEW new \in Records, NEW old \in Records,
           NEW now \in Clock, NEW reason, FinalizeVerdict(new, old, now, reason) = "proceed"
    PROVE  SoundStep(rows, [rows EXCEPT ![old] = Revoked(@, Stored(now))], dest.enabled)
<1>1. RotationPairVerdict(new, old, now, TRUE) = "proceed"
  BY DEF FinalizeVerdict
<1>2. /\ rows[new].state = "active" /\ rows[old].state = "retiring"
      /\ rows[new].activatedAt <= now /\ now < rows[new].expiresAt
  BY <1>1 DEF RotationPairVerdict
<1> QED BY <1>2, FinalizeStep

-----------------------------------------------------------------------------
(* The invariant.                                                          *)

\* Every answer a mutation can decide on is an outcome.
Verdicts == {"proceed", "conflict", "reconciliation"}

\* A mutation that is refused changes no row; one that proceeds takes the lock
\* with a sound step pending.
LEMMA RunPreserves ==
    ASSUME Inv, NEW p \in Clients, NEW verdict \in Verdicts, NEW after,
           verdict = "proceed" => SoundStep(rows, after, dest.enabled),
           Run(p, verdict, after)
    PROVE  Inv'
<1>1. rows' = rows /\ dest' = dest
  BY DEF Run
<1>2. CASE /\ verdict = "proceed"
           /\ txn' = [phase |-> "open", owner |-> p, after |-> after]
           /\ outcome' = [outcome EXCEPT ![p] = "running"]
  <2>1. TypeOK'
    BY <1>1, <1>2 DEF Inv, TypeOK, SoundStep, Phases, Outcomes
  <2>2. Pending'
    BY <1>1, <1>2 DEF Pending, SoundStep, StatesOf
  <2>3. Sound(rows)'
    BY <1>1 DEF Inv, Sound, Readable, StagedFollowsActive, Has, Unique
  <2> QED BY <2>1, <2>2, <2>3 DEF Inv
<1>3. CASE txn' = txn /\ outcome' = [outcome EXCEPT ![p] = verdict] /\ verdict # "proceed"
  <2>1. TypeOK'
    BY <1>1, <1>3 DEF Inv, TypeOK, Verdicts, Outcomes, Definite
  <2>2. Pending'
    BY <1>3 DEF Run, Inv, Pending
  <2>3. Sound(rows)'
    BY <1>1 DEF Inv
  <2> QED BY <2>1, <2>2, <2>3 DEF Inv
<1>4. CASE /\ txn' = [phase |-> "doomed", owner |-> p, after |-> rows]
           /\ outcome' = [outcome EXCEPT ![p] = "unknown"]
  <2>1. TypeOK'
    BY <1>1, <1>4 DEF Inv, TypeOK, Phases, Outcomes
  <2>2. Pending'
    BY <1>4 DEF Pending
  <2>3. Sound(rows)'
    BY <1>1 DEF Inv
  <2> QED BY <2>1, <2>2, <2>3 DEF Inv
<1> QED BY <1>2, <1>3, <1>4 DEF Run

\* Each mutation, as a whole, preserves the invariant.
LEMMA OperationPreserves ==
    ASSUME Inv, NEW p \in Clients, NEW now \in Clock, Operation(p, now)
    PROVE  Inv'
<1> USE DEF Verdicts
<1>0. TypeOK /\ Sound(rows)
  BY DEF Inv
<1>1. ASSUME NEW r \in Records, CreateStagedToken(p, r, now) PROVE Inv'
  <2>1. CreateStagedVerdict(now) \in Verdicts
    BY DEF CreateStagedVerdict
  <2> QED BY <1>0, <1>1, <2>1, CreateStagedProceeds, RunPreserves DEF CreateStagedToken
<1>2. ASSUME NEW r \in Records, ActivateInitialToken(p, r, now) PROVE Inv'
  <2>1. ActivateInitialVerdict(r, now) \in Verdicts
    BY DEF ActivateInitialVerdict
  <2> QED BY <1>0, <1>2, <2>1, ActivateInitialProceeds, RunPreserves DEF ActivateInitialToken
<1>3. ASSUME NEW r \in Records, AbortStagedToken(p, r, now) PROVE Inv'
  <2>1. AbortStagedVerdict(r, now) \in Verdicts
    BY DEF AbortStagedVerdict
  <2> QED BY <1>0, <1>3, <2>1, AbortProceeds, RunPreserves DEF AbortStagedToken
<1>4. ASSUME NEW r \in Records, NEW q \in Records, CreateRotationStagedToken(p, r, q, now)
      PROVE  Inv'
  <2>1. CreateRotationVerdict(q, now) \in Verdicts
    BY DEF CreateRotationVerdict
  <2> QED BY <1>0, <1>4, <2>1, CreateRotationProceeds, RunPreserves
          DEF CreateRotationStagedToken
<1>5. ASSUME NEW r \in Records, NEW q \in Records, ActivateRotation(p, r, q, now)
      PROVE  Inv'
  <2>1. ActivateRotationVerdict(r, q, Stored(now), Stored(now + Overlap)) \in Verdicts
    BY DEF ActivateRotationVerdict
  <2> QED BY <1>0, <1>5, <2>1, ActivateRotationProceeds, RunPreserves DEF ActivateRotation
<1>6. ASSUME NEW r \in Records, NEW q \in Records, RollbackRotation(p, r, q, now)
      PROVE  Inv'
  <2>1. RollbackVerdict(r, q, now) \in Verdicts
    BY DEF RollbackVerdict, RotationPairVerdict
  <2> QED BY <1>0, <1>6, <2>1, RollbackProceeds, RunPreserves DEF RollbackRotation
<1>7. ASSUME NEW r \in Records, NEW q \in Records, NEW reason,
             FinalizeRotation(p, r, q, now, reason)
      PROVE  Inv'
  <2>1. FinalizeVerdict(r, q, now, reason) \in Verdicts
    BY DEF FinalizeVerdict, RotationPairVerdict
  <2> QED BY <1>0, <1>7, <2>1, FinalizeProceeds, RunPreserves DEF FinalizeRotation
<1> QED BY <1>1, <1>2, <1>3, <1>4, <1>5, <1>6, <1>7 DEF Operation

\* The empty table is sound.
LEMMA InitInv == Init => Inv
<1> SUFFICES ASSUME Init PROVE Inv
  OBVIOUS
<1>1. Stored(Epoch) \in ColumnTimes
  <2>1. Epoch \in Instants
    BY DurationAssumption DEF Instants
  <2> QED BY <2>1, DurationAssumption, StoredAssumption DEF ColumnTimes, Instants
<1>2. TypeOK
  BY <1>1, NoRowType DEF Init, TypeOK, NoTxn, Phases, Outcomes
<1>3. \A r \in Records : rows[r].state = "absent"
  BY DEF Init, NoRow
<1>4. Sound(rows)
  BY <1>3 DEF Sound, Readable, StagedFollowsActive, Has, Unique, LiveStates
<1>5. Pending
  BY DEF Init, NoTxn, Pending
<1> QED BY <1>2, <1>4, <1>5 DEF Inv

\* Every step preserves the invariant.
LEMMA NextInv == Inv /\ [Next]_vars => Inv'
<1> SUFFICES ASSUME Inv, [Next]_vars PROVE Inv'
  OBVIOUS
<1>1. ASSUME NEW p \in Clients, NEW now \in Clock, Operation(p, now) PROVE Inv'
  BY <1>1, OperationPreserves
<1>2. ASSUME NEW p \in Clients, FailEarly(p) PROVE Inv'
  <2>1. TypeOK'
    BY <1>2 DEF FailEarly, Inv, TypeOK, Outcomes, Definite
  <2>2. Pending'
    BY <1>2 DEF FailEarly, Inv, Pending
  <2> QED BY <1>2, <2>1, <2>2 DEF FailEarly, Inv
<1>3. NoTxn \in [phase : Phases, owner : Clients \cup {NoClient}, after : [Records -> Row]]
  BY NoRowType DEF NoTxn, Phases
<1>4. ASSUME NEW p \in Clients, Commit(p) PROVE Inv'
  <2>1. TypeOK'
    BY <1>3, <1>4 DEF Commit, Inv, TypeOK, Outcomes
  <2>2. Sound(rows)'
    BY <1>4 DEF Commit, Inv, Pending
  <2>3. Pending'
    BY <1>4 DEF Commit, Pending, NoTxn
  <2> QED BY <2>1, <2>2, <2>3 DEF Inv
<1>5. ASSUME NEW p \in Clients, RollBack(p) PROVE Inv'
  <2>1. TypeOK'
    BY <1>3, <1>5 DEF RollBack, Inv, TypeOK, Outcomes, Definite
  <2>2. Pending'
    BY <1>5 DEF RollBack, Pending, NoTxn
  <2> QED BY <1>5, <2>1, <2>2 DEF RollBack, Inv
<1>6. ASSUME NEW p \in Clients, LoseReply(p) PROVE Inv'
  <2>1. PICK phase \in {"inDoubt", "doomed"} : txn' = [txn EXCEPT !.phase = phase]
    BY <1>6 DEF LoseReply
  <2>2. txn' \in [phase : Phases, owner : Clients \cup {NoClient}, after : [Records -> Row]]
    BY <2>1 DEF Inv, TypeOK, Phases
  <2>3. TypeOK'
    BY <1>6, <2>2 DEF LoseReply, Inv, TypeOK, Outcomes
  <2>4. txn'.after = txn.after /\ txn.phase = "open" /\ rows' = rows /\ dest' = dest
    BY <1>6, <2>1 DEF LoseReply, Inv, TypeOK
  <2>5. Pending'
    BY <2>4 DEF Inv, Pending, StatesOf
  <2> QED BY <1>6, <2>3, <2>5 DEF LoseReply, Inv
<1>7. ASSUME ServerCommits PROVE Inv'
  <2>1. TypeOK'
    BY <1>3, <1>7 DEF ServerCommits, Inv, TypeOK
  <2>2. Sound(rows)'
    BY <1>7 DEF ServerCommits, Inv, Pending
  <2>3. Pending'
    BY <1>7 DEF ServerCommits, Pending, NoTxn
  <2> QED BY <2>1, <2>2, <2>3 DEF Inv
<1>8. ASSUME ServerAborts PROVE Inv'
  <2>1. TypeOK'
    BY <1>3, <1>8 DEF ServerAborts, Inv, TypeOK
  <2>2. Pending'
    BY <1>8 DEF ServerAborts, Pending, NoTxn
  <2> QED BY <1>8, <2>1, <2>2 DEF ServerAborts, Inv
<1>9. ASSUME NEW enabled \in BOOLEAN, NEW now \in Clock, SetDestination(enabled, now)
      PROVE  Inv'
  <2>1. TypeOK'
    BY <1>9, StoredClock DEF SetDestination, Inv, TypeOK
  <2>2. Pending'
    BY <1>9 DEF SetDestination, Pending
  <2> QED BY <1>9, <2>1, <2>2 DEF SetDestination, Inv
<1>10. ASSUME UNCHANGED vars PROVE Inv'
  <2>1. TypeOK'
    BY <1>10 DEF vars, Inv, TypeOK
  <2>2. Pending'
    BY <1>10 DEF vars, Inv, Pending
  <2> QED BY <1>10, <2>1, <2>2 DEF vars, Inv
<1> QED
  BY <1>1, <1>2, <1>4, <1>5, <1>6, <1>7, <1>8, <1>9, <1>10 DEF Next, Settle

-----------------------------------------------------------------------------
(* The theorems.                                                           *)

\* The inductive invariant holds: committed rows are sound, and the transaction
\* that holds the destination row lock leads to sound rows.
THEOREM Invariance == Spec => []Inv
  BY InitInv, NextInv, PTL DEF Spec

\* Type correctness of the lifecycle repository's state.
THEOREM TypeCorrect == Spec => []TypeOK
<1>1. Inv => TypeOK
  BY DEF Inv
<1> QED BY <1>1, Invariance, PTL

\* For every number of callers and records and every clock, the committed rows
\* satisfy the table's constraints and NewDestinationLifecycleSnapshot's.
THEOREM AlwaysReadable == Spec => []RowsReadable
<1>1. Inv => RowsReadable
  BY DEF Inv, Sound, RowsReadable
<1> QED BY <1>1, Invariance, PTL

\* Every active-with-retiring pair has the history ObserveRotation demands.
THEOREM AlwaysObservable == Spec => []PairsObservable
<1>1. Inv => PairsObservable
  BY DEF Inv, Sound, PairsObservable
<1> QED BY <1>1, Invariance, PTL

\* Rows change only when the transaction that holds the lock commits.
LEMMA RowsChangeByCommit ==
    ASSUME Inv, [Next]_vars, rows' # rows
    PROVE  txn.phase \in {"open", "inDoubt"} /\ rows' = txn.after
<1>1. ASSUME NEW p \in Clients, NEW now \in Clock, Operation(p, now) PROVE rows' = rows
  BY SMTT(20), <1>1 DEF Operation, CreateStagedToken, ActivateInitialToken, AbortStagedToken,
     CreateRotationStagedToken, ActivateRotation, RollbackRotation, FinalizeRotation, Run
<1>2. ASSUME NEW p \in Clients, FailEarly(p) \/ RollBack(p) \/ LoseReply(p)
      PROVE  rows' = rows
  BY <1>2 DEF FailEarly, RollBack, LoseReply
<1>3. ASSUME NEW p \in Clients, Commit(p)
      PROVE  txn.phase \in {"open", "inDoubt"} /\ rows' = txn.after
  BY <1>3 DEF Commit
<1>4. ASSUME ServerCommits PROVE txn.phase \in {"open", "inDoubt"} /\ rows' = txn.after
  BY <1>4 DEF ServerCommits
<1>5. ASSUME ServerAborts PROVE rows' = rows
  BY <1>5 DEF ServerAborts
<1>6. ASSUME NEW enabled \in BOOLEAN, NEW now \in Clock, SetDestination(enabled, now)
      PROVE  rows' = rows
  BY <1>6 DEF SetDestination
<1> QED BY <1>1, <1>2, <1>3, <1>4, <1>5, <1>6 DEF Next, Settle, vars

\* No operation rewrites committed history, whatever its caller's clock says.
THEOREM HistoryIsKept == Spec => HistoryNeverRewritten
<1>1. Inv /\ [Next]_vars => [HistoryKept(rows, rows')]_rows
  BY RowsChangeByCommit DEF Inv, Pending
<1> QED BY <1>1, Invariance, PTL DEF Spec, HistoryNeverRewritten

\* No operation interrupts intake.
THEOREM IntakeIsKept == Spec => IntakeUninterrupted
<1>1. Inv /\ [Next]_vars => [ServiceKept(rows, rows', dest.enabled)]_rows
  BY RowsChangeByCommit DEF Inv, Pending
<1> QED BY <1>1, Invariance, PTL DEF Spec, IntakeUninterrupted

\* A rollback is committed with a stamp strictly before the retirement deadline
\* that it erases.
THEOREM RollbackIsEarly == Spec => RollbackBeforeDeadline
<1>1. Inv /\ [Next]_vars => [RetirementEnds(rows, rows')]_rows
  BY RowsChangeByCommit DEF Inv, Pending
<1> QED BY <1>1, Invariance, PTL DEF Spec, RollbackBeforeDeadline

\* The lifecycle implements the abstract rotation protocol.
THEOREM LifecycleImplementsProtocol == Spec => ImplementsProtocol
<1>1. Init => Protocol!ProtocolInit
  BY DEF Init, Protocol!ProtocolInit, StatesOf, NoRow
<1>2. Inv /\ [Next]_vars =>
          [Protocol!ProtocolStep(StatesOf(rows), StatesOf(rows)')]_(StatesOf(rows))
  BY RowsChangeByCommit DEF Inv, Pending, StatesOf
<1> QED BY <1>1, <1>2, Invariance, PTL DEF Spec, ImplementsProtocol, Protocol!ProtocolSpec
=============================================================================
