------------------------ MODULE RotationAttemptProofs -----------------------
(***************************************************************************)
(* Proofs about RotationAttempt, for every set of records, callers and     *)
(* clock readings: whatever way a rotation attempt ends, the rows it       *)
(* leaves prove that it ended that way.                                    *)
(***************************************************************************)
EXTENDS RotationAttempt, TokenLifecycleProofs

-----------------------------------------------------------------------------
(* What a mutation writes.                                                 *)

\* The INSERT of a staged record.
LEMMA CreateDated ==
    ASSUME TypeOK, NEW r \in Records, NEW now \in Clock, rows[r].state = "absent"
    PROVE  Dated(rows, [rows EXCEPT ![r] = StagedRow(now)])
<1> PICK after : after = [rows EXCEPT ![r] = StagedRow(now)]
  OBVIOUS
<1>1. /\ after[r] = StagedRow(now) /\ Stored(now) \in ColumnTimes
      /\ \A n \in Records : n # r => after[n] = rows[n]
  BY StoredClock DEF TypeOK
<1>2. after[r].state = "staged" /\ after[r].stateChangedAt = Stored(now)
  BY <1>1 DEF StagedRow
<1> QED BY <1>1, <1>2 DEF Dated

\* The UPDATE that activates one.
LEMMA ActivationDated ==
    ASSUME TypeOK, NEW r \in Records, NEW now \in Clock, rows[r].state = "staged"
    PROVE  Dated(rows, [rows EXCEPT ![r] = Activated(rows[r], Stored(now))])
<1> PICK row : row = Activated(rows[r], Stored(now))
  OBVIOUS
<1> PICK after : after = [rows EXCEPT ![r] = row]
  OBVIOUS
<1>1. /\ after[r] = row /\ Stored(now) \in ColumnTimes /\ rows[r] \in Row
      /\ \A n \in Records : n # r => after[n] = rows[n]
  BY StoredClock DEF TypeOK
<1>2. row.state = "active" /\ row.stateChangedAt = Stored(now)
  BY <1>1, ActivatedFields
<1> QED BY <1>1, <1>2 DEF Dated

\* The UPDATE that revokes one, when a staged record is aborted or a rotation
\* is finalized.
LEMMA RevocationDated ==
    ASSUME TypeOK, NEW r \in Records, NEW now \in Clock,
           rows[r].state \in {"staged", "retiring"}
    PROVE  Dated(rows, [rows EXCEPT ![r] = Revoked(rows[r], Stored(now))])
<1> PICK row : row = Revoked(rows[r], Stored(now))
  OBVIOUS
<1> PICK after : after = [rows EXCEPT ![r] = row]
  OBVIOUS
<1>1. /\ after[r] = row /\ Stored(now) \in ColumnTimes /\ rows[r] \in Row
      /\ \A n \in Records : n # r => after[n] = rows[n]
  BY StoredClock DEF TypeOK
<1>2. row.state = "revoked" /\ row.stateChangedAt = Stored(now)
  BY <1>1, RevokedFields
<1> QED BY <1>1, <1>2 DEF Dated

\* The two UPDATEs of an activation beside an old token.
LEMMA RotationDated ==
    ASSUME TypeOK, NEW r \in Records, NEW q \in Records, NEW now \in Clock,
           rows[r].state = "staged", rows[q].state = "active"
    PROVE  Dated(rows,
               [rows EXCEPT ![q] = Retiring(rows[q], Stored(now), Stored(now + Overlap)),
                            ![r] = Activated(rows[r], Stored(now))])
<1> PICK x : x = Retiring(rows[q], Stored(now), Stored(now + Overlap))
  OBVIOUS
<1> PICK y : y = Activated(rows[r], Stored(now))
  OBVIOUS
<1> PICK after : after = [rows EXCEPT ![q] = x, ![r] = y]
  OBVIOUS
<1>1. /\ after[q] = x /\ after[r] = y /\ rows[r] \in Row /\ rows[q] \in Row
      /\ \A n \in Records : n # r /\ n # q => after[n] = rows[n]
  BY DEF TypeOK
<1>2. Stored(now) \in ColumnTimes /\ Stored(now + Overlap) \in ColumnTimes
  BY StoredClock, StoredDeadlines
<1>3. x.state = "retiring" /\ x.stateChangedAt = Stored(now)
  BY <1>1, <1>2, RetiringFields
<1>4. y.state = "active" /\ y.stateChangedAt = Stored(now)
  BY <1>1, <1>2, ActivatedFields
<1>5. \A n \in Records : after[n] # rows[n] =>
          /\ after[n].state # rows[n].state /\ after[n].stateChangedAt = Stored(now)
          /\ after[n].state # "revoked"
  BY <1>1, <1>3, <1>4
<1>6. Dated(rows, after)
  BY <1>2, <1>5 DEF Dated
<1> QED BY <1>6

\* The two UPDATEs of a rollback.
LEMMA RollbackDated ==
    ASSUME TypeOK, NEW r \in Records, NEW q \in Records, NEW now \in Clock,
           rows[r].state = "active", rows[q].state = "retiring"
    PROVE  Dated(rows, [rows EXCEPT ![r] = Revoked(rows[r], Stored(now)),
                                    ![q] = Restored(rows[q], Stored(now))])
<1> PICK x : x = Restored(rows[q], Stored(now))
  OBVIOUS
<1> PICK y : y = Revoked(rows[r], Stored(now))
  OBVIOUS
<1> PICK after : after = [rows EXCEPT ![r] = y, ![q] = x]
  OBVIOUS
<1>1. /\ after[q] = x /\ after[r] = y /\ rows[r] \in Row /\ rows[q] \in Row
      /\ \A n \in Records : n # r /\ n # q => after[n] = rows[n]
      /\ Stored(now) \in ColumnTimes
  BY StoredClock DEF TypeOK
<1>2. x.state = "active" /\ x.stateChangedAt = Stored(now)
  BY <1>1, RestoredFields
<1>3. y.state = "revoked" /\ y.stateChangedAt = Stored(now)
  BY <1>1, RevokedFields
<1>4. \A n \in Records : after[n] # rows[n] =>
          /\ after[n].state # rows[n].state /\ after[n].stateChangedAt = Stored(now)
          /\ after[n].state = "revoked" => n = r
  BY <1>1, <1>2, <1>3
<1>5. Dated(rows, after)
  BY <1>1, <1>4 DEF Dated
<1> QED BY <1>5

-----------------------------------------------------------------------------
(* The invariant.                                                          *)

\* A call that proceeds takes the lock with a dated step pending.
LEMMA RunDated ==
    ASSUME TypeOK, NEW p, NEW verdict, NEW after, Run(p, verdict, after),
           verdict = "proceed" => Dated(rows, after)
    PROVE  PendingDated'
<1>1. rows' = rows /\ txn.phase = "none"
  BY DEF Run
<1>2. CASE verdict = "proceed" /\ txn' = [phase |-> "open", owner |-> p, after |-> after]
  BY <1>1, <1>2 DEF PendingDated, Dated
<1>3. CASE txn' = txn \/ txn' = [phase |-> "doomed", owner |-> p, after |-> rows]
  BY <1>1, <1>3 DEF PendingDated
<1> QED BY <1>2, <1>3 DEF Run

\* So does every mutation of the Lifecycle service.
LEMMA OperationDated ==
    ASSUME TypeOK, NEW p \in Clients, NEW now \in Clock, Operation(p, now)
    PROVE  PendingDated'
<1>1. ASSUME NEW r \in Records, NEW q,
             CreateStagedToken(p, r, now) \/ CreateRotationStagedToken(p, r, q, now)
      PROVE  PendingDated'
  BY <1>1, CreateDated, RunDated DEF CreateStagedToken, CreateRotationStagedToken
<1>2. ASSUME NEW r \in Records, ActivateInitialToken(p, r, now) PROVE PendingDated'
  <2>1. ActivateInitialVerdict(r, now) = "proceed" => rows[r].state = "staged"
    BY DEF ActivateInitialVerdict
  <2> QED BY <1>2, <2>1, ActivationDated, RunDated DEF ActivateInitialToken
<1>3. ASSUME NEW r \in Records, AbortStagedToken(p, r, now) PROVE PendingDated'
  <2>1. AbortStagedVerdict(r, now) = "proceed" => rows[r].state = "staged"
    BY DEF AbortStagedVerdict
  <2> QED BY <1>3, <2>1, RevocationDated, RunDated DEF AbortStagedToken
<1>4. ASSUME NEW r \in Records, NEW q \in Records, ActivateRotation(p, r, q, now)
      PROVE  PendingDated'
  <2> PICK verdict :
          verdict = ActivateRotationVerdict(r, q, Stored(now), Stored(now + Overlap))
    OBVIOUS
  <2>1. verdict = "proceed" => rows[r].state = "staged" /\ rows[q].state = "active"
    BY DEF ActivateRotationVerdict
  <2> QED BY <1>4, <2>1, RotationDated, RunDated DEF ActivateRotation
<1>5. ASSUME NEW r \in Records, NEW q \in Records, RollbackRotation(p, r, q, now)
      PROVE  PendingDated'
  <2> PICK verdict : verdict = RollbackVerdict(r, q, now)
    OBVIOUS
  <2>1. verdict = "proceed" => rows[r].state = "active" /\ rows[q].state = "retiring"
    BY DEF RollbackVerdict, RotationPairVerdict
  <2> QED BY <1>5, <2>1, RollbackDated, RunDated DEF RollbackRotation
<1>6. ASSUME NEW r \in Records, NEW q \in Records, NEW reason,
             FinalizeRotation(p, r, q, now, reason)
      PROVE  PendingDated'
  <2> PICK verdict : verdict = FinalizeVerdict(r, q, now, reason)
    OBVIOUS
  <2>1. verdict = "proceed" => rows[q].state = "retiring"
    BY DEF FinalizeVerdict, RotationPairVerdict
  <2> QED BY <1>6, <2>1, RevocationDated, RunDated DEF FinalizeRotation
<1> QED BY <1>1, <1>2, <1>3, <1>4, <1>5, <1>6 DEF Operation

\* Every other step leaves the transaction as it is or ends it.
LEMMA NextDated == AttemptInv /\ [Next]_vars => AttemptInv'
<1> SUFFICES ASSUME AttemptInv, [Next]_vars PROVE AttemptInv'
  OBVIOUS
<1>1. Inv /\ TypeOK /\ PendingDated
  BY DEF AttemptInv, Inv
<1>2. Inv'
  BY <1>1, NextInv
<1>3. ASSUME NEW p \in Clients, NEW now \in Clock, Operation(p, now) PROVE PendingDated'
  BY <1>1, <1>3, OperationDated
<1>4. ASSUME rows' = rows, txn' = txn PROVE PendingDated'
  BY <1>1, <1>4 DEF PendingDated
<1>5. ASSUME txn' = NoTxn PROVE PendingDated'
  BY <1>5 DEF PendingDated, NoTxn
<1>6. ASSUME NEW p \in Clients, LoseReply(p) PROVE PendingDated'
  <2>1. rows' = rows /\ txn'.after = txn.after /\ txn.phase = "open"
    BY <1>1, <1>6 DEF LoseReply, TypeOK
  <2> QED BY <1>1, <2>1 DEF PendingDated
<1>7. ASSUME NEW p \in Clients, FailEarly(p) \/ Settle(p) PROVE PendingDated'
  BY <1>4, <1>5, <1>6, <1>7 DEF FailEarly, Settle, Commit, RollBack
<1>8. PendingDated'
  BY <1>3, <1>4, <1>5, <1>7 DEF Next, ServerCommits, ServerAborts, SetDestination, vars
<1> QED BY <1>2, <1>8 DEF AttemptInv

\* What the lock holder writes is dated, always.
THEOREM AttemptInvariance == Spec => []AttemptInv
<1>1. Init => AttemptInv
  BY InitInv DEF AttemptInv, PendingDated, Init, NoTxn
<1> QED BY <1>1, NextDated, PTL DEF Spec

-----------------------------------------------------------------------------
(* How an attempt ends.                                                    *)

\* From an overlap the protocol leads back to the old token or on to the new one.
LEMMA PairLeads ==
    ASSUME NEW rs, NEW ss, NEW n \in Records, NEW o \in Records,
           Readable(rs), Protocol!ProtocolStep(StatesOf(rs), StatesOf(ss)),
           rs[n].state = "active", rs[o].state = "retiring"
    PROVE  \/ ss[n].state = "revoked" /\ ss[o].state = "active"
           \/ ss[n].state = "active" /\ ss[o].state = "revoked"
<1> PICK s : s = StatesOf(rs)
  OBVIOUS
<1> PICK t : t = StatesOf(ss)
  OBVIOUS
<1>1. \A r \in Records : s[r] = rs[r].state /\ t[r] = ss[r].state
  BY DEF StatesOf
<1>2. /\ \A r \in Records : s[r] = "active" => r = n
      /\ \A r \in Records : s[r] = "retiring" => r = o
  BY <1>1 DEF Readable, Unique, LiveStates
<1>3. ~Protocol!None(s, "retiring") /\ s[n] = "active" /\ s[o] = "retiring"
  BY <1>1 DEF Protocol!None
<1>4. PICK new \in Records, old \in Records :
          Protocol!Restore(s, t, new, old) \/ Protocol!Complete(s, t, new, old)
  BY <1>3 DEF Protocol!ProtocolStep, Protocol!Stage, Protocol!ActivateFirst,
     Protocol!Abort, Protocol!Rotate
<1>5. new = n /\ old = o
  BY <1>2, <1>4 DEF Protocol!Restore, Protocol!Complete
<1>6. s \in [Records -> {rs[r].state : r \in Records}]
  BY DEF StatesOf
<1>7. \/ t[n] = "revoked" /\ t[o] = "active"
      \/ t[n] = "active" /\ t[o] = "revoked"
  BY <1>3, <1>4, <1>5, <1>6 DEF Protocol!Restore, Protocol!Complete
<1> QED BY <1>1, <1>7

\* From a staged token beside an active one it leads to their overlap or back.
LEMMA StagedLeads ==
    ASSUME NEW rs, NEW ss, NEW n \in Records, NEW o \in Records,
           Readable(rs), Protocol!ProtocolStep(StatesOf(rs), StatesOf(ss)),
           rs[n].state = "staged", rs[o].state = "active"
    PROVE  \/ ss[n].state = "revoked" /\ ss[o].state = "active"
           \/ ss[n].state = "active" /\ ss[o].state = "retiring"
<1> PICK s : s = StatesOf(rs)
  OBVIOUS
<1> PICK t : t = StatesOf(ss)
  OBVIOUS
<1>1. \A r \in Records : s[r] = rs[r].state /\ t[r] = ss[r].state
  BY DEF StatesOf
<1>2. /\ \A r \in Records : s[r] = "staged" => r = n
      /\ \A r \in Records : s[r] = "active" => r = o
  BY <1>1 DEF Readable, Unique, LiveStates
<1>3. /\ ~Protocol!None(s, "staged") /\ ~Protocol!None(s, "active")
      /\ s[n] = "staged" /\ s[o] = "active"
  BY <1>1 DEF Protocol!None
<1>4. s \in [Records -> {rs[r].state : r \in Records}]
  BY DEF StatesOf
<1>5. \/ \E r \in Records : Protocol!Abort(s, t, r)
      \/ \E new, old \in Records : Protocol!Rotate(s, t, new, old)
  BY <1>3 DEF Protocol!ProtocolStep, Protocol!Stage, Protocol!ActivateFirst,
     Protocol!Restore, Protocol!Complete
<1>6. ASSUME NEW r \in Records, Protocol!Abort(s, t, r)
      PROVE  t[n] = "revoked" /\ t[o] = "active"
  BY <1>2, <1>3, <1>4, <1>6 DEF Protocol!Abort
<1>7. ASSUME NEW new \in Records, NEW old \in Records, Protocol!Rotate(s, t, new, old)
      PROVE  t[n] = "active" /\ t[o] = "retiring"
  BY <1>2, <1>3, <1>4, <1>7 DEF Protocol!Rotate
<1> QED BY <1>1, <1>5, <1>6, <1>7

\* What is known of the rows before and after a commit.
Ended(rs, ss) ==
    /\ rs \in [Records -> Row] /\ ss \in [Records -> Row]
    /\ Sound(rs) /\ Sound(ss)
    /\ HistoryKept(rs, ss) /\ RetirementEnds(rs, ss) /\ Dated(rs, ss)

\* What is known of the rows of an overlap.
LEMMA PairFacts ==
    ASSUME NEW rs \in [Records -> Row], Sound(rs), NEW n \in Records, NEW o \in Records,
           rs[n].state = "active", rs[o].state = "retiring"
    PROVE  /\ PairHistory(rs[n], rs[o]) /\ SameActivation(rs[n], rs[o])
           /\ ValidToken(rs[n]) /\ ValidToken(rs[o])
  BY DEF Sound, Readable

\* A rollback, strictly before the retirement deadline that it erases, is exact.
LEMMA RollbackEnds ==
    ASSUME NEW rs, NEW ss, Ended(rs, ss), NEW n \in Records, NEW o \in Records,
           rs[n].state = "active", rs[o].state = "retiring",
           ss[n].state = "revoked", ss[o].state = "active"
    PROVE  ExactRolledBack(ss[n], ss[o])
<1>1. /\ rs[n] \in Row /\ rs[o] \in Row /\ ss[n] \in Row /\ ss[o] \in Row
      /\ PairHistory(rs[n], rs[o]) /\ SameActivation(rs[n], rs[o])
      /\ ValidToken(rs[n]) /\ ValidToken(rs[o])
  BY PairFacts DEF Ended
<1>2. PICK at \in ColumnTimes :
          ss[n] = Revoked(rs[n], at) /\ ss[o].stateChangedAt = at
  BY DEF Ended, Dated
<1>3. /\ ss[n].revokedAt = at /\ ss[n].stateChangedAt = at
      /\ ss[n].activatedAt = rs[n].activatedAt /\ ss[n].createdAt = rs[n].createdAt
      /\ ss[n].expiresAt = rs[n].expiresAt
      /\ ss[n].cleanupDeadline = rs[n].cleanupDeadline
      /\ ss[n].retirementStartedAt = rs[n].retirementStartedAt
  BY <1>1, <1>2, RevokedFields
<1>4. rs[o].activatedAt > 0 /\ rs[n].activatedAt > 0 /\ rs[n].retirementStartedAt = 0
  BY <1>1 DEF ValidToken
<1>5. ss[o].activatedAt = rs[o].activatedAt
  BY <1>4 DEF Ended, HistoryKept
<1>6. at < rs[o].retirementDeadline
  BY <1>2 DEF Ended, RetirementEnds
<1>7. rs[n].activatedAt <= at
  <2>1. rs[n].stateChangedAt <= ss[n].stateChangedAt
    BY DEF Ended, HistoryKept
  <2> QED BY <1>1, <1>3, <2>1 DEF SameActivation
<1>8. ActivatedHistory(ss[n], ss[o])
  <2>1. rs[n].createdAt <= rs[n].activatedAt
    BY <1>1, <1>4 DEF ValidToken, ValidHistory
  <2>2. rs[o].activatedAt <= rs[n].createdAt /\ rs[n].activatedAt < rs[n].cleanupDeadline
    BY <1>1 DEF PairHistory
  <2>3. rs[o].activatedAt <= rs[n].activatedAt
    BY <1>1, <2>1, <2>2, RowNat
  <2> QED BY <1>3, <1>5, <2>2, <2>3 DEF ActivatedHistory
<1>9. at < rs[n].activatedAt + MaxOverlap
  <2>1. rs[o].retirementDeadline <= rs[n].activatedAt + MaxOverlap
    BY <1>1 DEF ValidToken, ValidHistory, SameActivation
  <2> QED BY <1>1, <1>2, <1>6, <2>1, RowNat, ColumnNat, DurationAssumption
<1>10. at < rs[n].expiresAt
  <2>1. rs[o].retirementDeadline < rs[n].expiresAt
    BY <1>1 DEF PairHistory
  <2> QED BY <1>1, <1>2, <1>6, <2>1, RowNat, ColumnNat
<1> QED BY <1>2, <1>3, <1>4, <1>7, <1>8, <1>9, <1>10 DEF ExactRolledBack

\* The abort of a staged record beside the active one that it follows is exact.
LEMMA AbortEnds ==
    ASSUME NEW rs, NEW ss, Ended(rs, ss), NEW n \in Records, NEW o \in Records,
           rs[n].state = "staged", rs[o].state = "active",
           ss[n].state = "revoked", ss[o].state = "active"
    PROVE  ExactRolledBack(ss[n], ss[o])
<1>1. rs[n] \in Row /\ ValidToken(rs[n]) /\ rs[o].stateChangedAt <= rs[n].createdAt
  BY DEF Ended, Sound, Readable, StagedFollowsActive
<1>2. PICK at \in ColumnTimes : ss[n] = Revoked(rs[n], at) /\ ss[o] = rs[o]
  BY DEF Ended, Dated
<1>3. /\ ss[n].revokedAt = at /\ ss[n].stateChangedAt = at
      /\ ss[n].activatedAt = rs[n].activatedAt /\ ss[n].createdAt = rs[n].createdAt
      /\ ss[n].retirementStartedAt = rs[n].retirementStartedAt
  BY <1>1, <1>2, RevokedFields
<1>4. rs[n].activatedAt = 0 /\ rs[n].retirementStartedAt = 0
  BY <1>1 DEF ValidToken
<1> QED BY <1>1, <1>2, <1>3, <1>4 DEF ExactRolledBack

\* A finalization at or after the retirement deadline is exact.
LEMMA CompletionEnds ==
    ASSUME NEW rs, NEW ss, Ended(rs, ss), NEW n \in Records, NEW o \in Records,
           rs[n].state = "active", rs[o].state = "retiring",
           ss[n].state = "active", ss[o].state = "revoked",
           ss[o].retirementDeadline <= ss[o].revokedAt
    PROVE  ExactCompleted(ss[n], ss[o])
<1>1. /\ rs[n] \in Row /\ rs[o] \in Row
      /\ PairHistory(rs[n], rs[o]) /\ SameActivation(rs[n], rs[o])
      /\ ValidToken(rs[n]) /\ ValidToken(rs[o])
  BY PairFacts DEF Ended
<1>2. PICK at \in ColumnTimes : ss[o] = Revoked(rs[o], at) /\ ss[n] = rs[n]
  BY DEF Ended, Dated
<1>3. /\ ss[o].revokedAt = at /\ ss[o].stateChangedAt = at
      /\ ss[o].activatedAt = rs[o].activatedAt /\ ss[o].expiresAt = rs[o].expiresAt
      /\ ss[o].retirementStartedAt = rs[o].retirementStartedAt
      /\ ss[o].retirementDeadline = rs[o].retirementDeadline
  BY <1>1, <1>2, RevokedFields
<1>4. /\ rs[o].activatedAt > 0 /\ rs[o].retirementStartedAt > 0 /\ rs[n].activatedAt > 0
  BY <1>1 DEF ValidToken
<1>5. ActivatedHistory(ss[n], ss[o])
  <2>1. rs[n].createdAt <= rs[n].activatedAt
    BY <1>1, <1>4 DEF ValidToken, ValidHistory
  <2>2. rs[o].activatedAt <= rs[n].createdAt /\ rs[n].activatedAt < rs[n].cleanupDeadline
    BY <1>1 DEF PairHistory
  <2>3. rs[o].activatedAt <= rs[n].activatedAt
    BY <1>1, <2>1, <2>2, RowNat
  <2> QED BY <1>2, <1>3, <2>2, <2>3 DEF ActivatedHistory
<1>6. /\ rs[o].retirementDeadline < rs[n].expiresAt
      /\ rs[o].retirementDeadline < rs[o].expiresAt
  BY <1>1 DEF PairHistory
<1>7. rs[n].activatedAt = rs[n].stateChangedAt /\ rs[n].activatedAt = rs[o].retirementStartedAt
  BY <1>1 DEF SameActivation
<1> QED BY <1>2, <1>3, <1>4, <1>5, <1>6, <1>7 DEF ExactCompleted

\* classifyRotationSnapshot recognises an exact ending in the next state, while
\* the destination is in its stable state and the observer's clock is not
\* behind the two rows.
LEMMA EndingClassified ==
    ASSUME NEW n \in Records, NEW o \in Records, n # o, NEW now,
           Status(rows', dest', now) = "active",
           \A r \in {n, o} : /\ rows'[r].state # "absent" /\ ValidToken(rows'[r])
                             /\ rows'[r].stateChangedAt <= now
    PROVE  /\ ExactRolledBack(rows'[n], rows'[o]) => Classify(n, o, now)' = "rolledBack"
           /\ ExactCompleted(rows'[n], rows'[o]) => Classify(n, o, now)' = "completed"
<1>1. ~Unreadable(rows', dest', now) /\ dest'.enabled
  BY DEF Status, Stale
<1>2. AttemptReadable(n, o, now)'
  BY <1>1 DEF AttemptReadable
<1>3. ExactRolledBack(rows'[n], rows'[o]) =>
          rows'[n].state = "revoked" /\ rows'[o].state = "active"
  BY DEF ExactRolledBack
<1>4. ExactCompleted(rows'[n], rows'[o]) =>
          rows'[n].state = "active" /\ rows'[o].state = "revoked"
  BY DEF ExactCompleted
<1>5. PairViews(rows'[n], rows'[o], now) => rows'[o].state = "retiring"
  BY DEF PairViews
<1> QED BY <1>1, <1>2, <1>3, <1>4, <1>5 DEF Classify

\* A commit that moves a staged or an overlapping pair leaves a recognisable end.
LEMMA StepRecognised ==
    ASSUME AttemptInv, [Next]_vars, rows' # rows, NEW n \in Records, NEW o \in Records,
           \/ rows[n].state = "active" /\ rows[o].state = "retiring"
           \/ rows[n].state = "staged" /\ rows[o].state = "active",
           ~(rows'[o].revokedAt < rows'[o].retirementDeadline),
           NEW now \in Clock,
           \A r \in {n, o} : rows'[r].stateChangedAt <= now,
           Status(rows', dest', now) = "active"
    PROVE  Classify(n, o, now)' = IF rows'[n].state = "revoked"
                                  THEN "rolledBack" ELSE "completed"
<1> PICK ss : ss = rows'
  OBVIOUS
<1>1. Ended(rows, ss) /\ Protocol!ProtocolStep(StatesOf(rows), StatesOf(ss))
  BY RowsChangeByCommit DEF AttemptInv, PendingDated, Inv, TypeOK, Pending, Ended
<1>2. Readable(rows) /\ Readable(ss) /\ ss[o] \in Row /\ n # o
  BY <1>1 DEF Ended, Sound
<1>3. ss[o].retirementDeadline <= ss[o].revokedAt
  BY <1>2, RowNat
<1>4. ASSUME ss[n].state \in TokenStates \ {"absent"}, ss[o].state \in TokenStates \ {"absent"}
      PROVE  \A r \in {n, o} : rows'[r].state # "absent" /\ ValidToken(rows'[r])
  BY <1>2, <1>4 DEF Readable
<1>5. CASE ss[n].state = "revoked" /\ ss[o].state = "active"
  <2>1. ExactRolledBack(ss[n], ss[o])
    BY <1>1, <1>5, RollbackEnds, AbortEnds
  <2> QED BY <1>2, <1>4, <1>5, <2>1, EndingClassified DEF TokenStates
<1>6. CASE rows[n].state = "active" /\ ss[n].state = "active" /\ ss[o].state = "revoked"
  <2>1. ExactCompleted(ss[n], ss[o])
    BY <1>1, <1>3, <1>6, CompletionEnds
  <2> QED BY <1>2, <1>4, <1>6, <2>1, EndingClassified DEF TokenStates
<1>7. CASE ss[n].state = "active" /\ ss[o].state = "retiring"
  <2>1. Has(ss, "retiring")
    BY <1>7 DEF Has
  <2> QED BY <2>1 DEF Status
<1> QED BY <1>1, <1>2, <1>5, <1>6, <1>7, PairLeads, StagedLeads

\* ObserveRotation recognises every way an attempt can end: what a commit leaves
\* of an aborted, rolled back or completed attempt passes exactRolledBackAttempt
\* or exactCompletedAttempt, for every clock reading of the observer that is not
\* behind it.
THEOREM EndingsAreRecognised == Spec => EndingRecognised
<1>1. AttemptInv /\ [Next]_vars =>
      [\A n, o \in Records :
          \/ rows[n].state = "active" /\ rows[o].state = "retiring"
          \/ rows[n].state = "staged" /\ rows[o].state = "active"
          => \/ rows'[o].revokedAt < rows'[o].retirementDeadline
             \/ \A now \in Clock :
                   /\ \A r \in {n, o} : rows'[r].stateChangedAt <= now
                   /\ Status(rows, dest, now)' = "active"
                   => Classify(n, o, now)' = IF rows'[n].state = "revoked"
                                             THEN "rolledBack" ELSE "completed"]_rows
  BY StepRecognised
<1> QED BY <1>1, AttemptInvariance, PTL DEF Spec, EndingRecognised
=============================================================================
