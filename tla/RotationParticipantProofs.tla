--------------------- MODULE RotationParticipantProofs ----------------------
(***************************************************************************)
(* Proofs about RotationParticipant, for every number of sessions, records *)
(* and clock readings: each step of the participant is a step of the       *)
(* lifecycle, and what BeginRotation and ObserveRotation tell their caller *)
(* stays true.                                                             *)
(***************************************************************************)
EXTENDS RotationParticipant, TokenLifecycleProofs

\* What a transaction in flight does to the rows when it lands.
SoundMove(rs, ss) ==
    /\ rs \in [Records -> Row] /\ ss \in [Records -> Row]
    /\ Sound(rs) /\ Sound(ss)
    /\ HistoryKept(rs, ss)
    /\ Protocol!ProtocolStep(StatesOf(rs), StatesOf(ss))

\* The invariant of the lifecycle says so of the transaction in flight.
LEMMA InFlightMove ==
    ASSUME Inv, InFlight(txn)
    PROVE  SoundMove(rows, txn.after)
  BY DEF Inv, TypeOK, Pending, InFlight, SoundMove

\* Every move changes the staged and the retiring record: a record is staged
\* after it only if the move created it, and a pair is there after it only if
\* the move activated the new record.
LEMMA MoveFrom ==
    ASSUME NEW rs, NEW ss, SoundMove(rs, ss), NEW n \in Records, NEW o \in Records
    PROVE  /\ ss[n].state = "staged" => rs[n].state = "absent"
           /\ ss[n].state = "active" /\ ss[o].state = "retiring" => rs[n].state = "staged"
<1> PICK s : s = StatesOf(rs)
  OBVIOUS
<1> PICK t : t = StatesOf(ss)
  OBVIOUS
<1>1. /\ s \in [Records -> TokenStates] /\ t \in [Records -> TokenStates]
      /\ \A r \in Records : s[r] = rs[r].state /\ t[r] = ss[r].state
  BY DEF SoundMove, StatesOf, Row
<1>2. \A k \in LiveStates : \A x, y \in Records :
         /\ s[x] = k /\ s[y] = k => x = y
         /\ t[x] = k /\ t[y] = k => x = y
  BY <1>1 DEF SoundMove, Sound, Readable, Unique
<1>3. Protocol!ProtocolStep(s, t)
  BY DEF SoundMove
<1>4. /\ t[n] = "staged" => s[n] = "absent"
      /\ t[n] = "active" /\ t[o] = "retiring" => s[n] = "staged"
  <2>1. ASSUME NEW r \in Records, Protocol!Stage(s, t, r) PROVE <1>4!:
    BY <1>1, <2>1 DEF Protocol!Stage, Protocol!None, TokenStates
  <2>2. ASSUME NEW r \in Records, Protocol!ActivateFirst(s, t, r) PROVE <1>4!:
    BY <1>1, <1>2, <2>2 DEF Protocol!ActivateFirst, Protocol!None, TokenStates, LiveStates
  <2>3. ASSUME NEW r \in Records, Protocol!Abort(s, t, r) PROVE <1>4!:
    BY <1>1, <1>2, <2>3 DEF Protocol!Abort, Protocol!None, TokenStates, LiveStates
  <2>4. ASSUME NEW x \in Records, NEW y \in Records, Protocol!Rotate(s, t, x, y)
        PROVE  <1>4!:
    BY <1>1, <1>2, <2>4 DEF Protocol!Rotate, Protocol!None, TokenStates, LiveStates
  <2>5. ASSUME NEW x \in Records, NEW y \in Records, Protocol!Restore(s, t, x, y)
        PROVE  <1>4!:
    BY <1>1, <1>2, <2>5 DEF Protocol!Restore, Protocol!None, TokenStates, LiveStates
  <2>6. ASSUME NEW x \in Records, NEW y \in Records, Protocol!Complete(s, t, x, y)
        PROVE  <1>4!:
    BY <1>1, <1>2, <2>6 DEF Protocol!Complete, Protocol!None, TokenStates, LiveStates
  <2> QED BY <1>3, <2>1, <2>2, <2>3, <2>4, <2>5, <2>6 DEF Protocol!ProtocolStep
<1> QED BY <1>1, <1>4

-----------------------------------------------------------------------------
(* What a move keeps of what a session relies on.                          *)

\* A handle stays bound.
LEMMA BoundKept ==
    ASSUME NEW rs, NEW ss, SoundMove(rs, ss), NEW a,
           a.new \in Records, a.old \in Records, rs[a.new].state # "absent",
           rs[a.old].state # "absent", rs[a.old].activatedAt > 0, BoundIn(rs, a)
    PROVE  BoundIn(ss, a)
<1>1. ss[a.new].state # "staged"
  BY MoveFrom
<1>2. /\ ss[a.old].activatedAt = rs[a.old].activatedAt
      /\ ss[a.new].createdAt = rs[a.new].createdAt
  BY DEF SoundMove, HistoryKept
<1> QED BY <1>1, <1>2 DEF BoundIn

\* A receipt stays true.
LEMMA ReceiptKept ==
    ASSUME NEW rs, NEW ss, SoundMove(rs, ss), NEW a,
           a.new \in Records, a.old \in Records, ReceiptIn(rs, a)
    PROVE  ReceiptIn(ss, a)
<1>1. a.at \in Clock /\ Stored(a.at) > 0
  BY StoredAssumption DEF ReceiptIn
<1>2. ss[a.new].state # "absent" /\ ss[a.new].activatedAt = Stored(a.at)
  BY <1>1 DEF SoundMove, HistoryKept, ReceiptIn
<1>3. ValidToken(rs[a.new]) /\ rs[a.new].activatedAt > 0
  BY <1>1 DEF SoundMove, Sound, Readable, ReceiptIn
<1>4. rs[a.new].state # "staged"
  <2> SUFFICES ASSUME rs[a.new].state = "staged" PROVE FALSE
    OBVIOUS
  <2>1. rs[a.new].activatedAt = 0
    BY <1>3 DEF ValidToken
  <2> QED BY <1>3, <2>1
<1>5. ~(ss[a.new].state = "active" /\ ss[a.old].state = "retiring")
  BY <1>4, MoveFrom
<1> QED BY <1>1, <1>2, <1>5 DEF ReceiptIn

\* A revoked record stays revoked, and an activated one stays activated.
LEMMA RecordKept ==
    ASSUME NEW rs, NEW ss, SoundMove(rs, ss), NEW r \in Records
    PROVE  /\ rs[r].state = "revoked" => ss[r].state = "revoked"
           /\ rs[r].state # "absent" /\ rs[r].activatedAt > 0 =>
                 ss[r].state # "absent" /\ ss[r].activatedAt > 0
  BY DEF SoundMove, HistoryKept

\* A session that does nothing stays coherent while the rows and what is in
\* flight stay, or what was in flight is given up.
LEMMA Unmoved ==
    ASSUME NEW a, NEW out, NEW rs, NEW tx, NEW ux, Coherent(a, out, rs, tx),
           InFlight(ux) => InFlight(tx) /\ ux.after = tx.after,
           out = "running" => ux.after = tx.after
    PROVE  Coherent(a, out, rs, ux)
  BY DEF Coherent, DeadIn

\* It stays coherent when another client's transaction takes the lock.
LEMMA Locked ==
    ASSUME NEW a \in Attempt, NEW out, NEW rs, NEW tx, NEW ux,
           Coherent(a, out, rs, tx), out # "running", SoundMove(rs, ux.after),
           a.new \in Records /\ rs[a.new].state = "absent" =>
               ux.after[a.new].state = "absent"
    PROVE  Coherent(a, out, rs, ux)
<1>1. a.new \in Records => BoundIn(ux.after, a)
  <2> SUFFICES ASSUME a.new \in Records PROVE BoundIn(ux.after, a)
    OBVIOUS
  <2>1. /\ a.old \in Records /\ rs[a.old].state # "absent" /\ rs[a.old].activatedAt > 0
        /\ BoundIn(rs, a)
    BY DEF Coherent, AttemptOK
  <2>2. CASE rs[a.new].state = "absent"
    BY <2>2 DEF BoundIn
  <2>3. CASE rs[a.new].state # "absent"
    BY <2>1, <2>3, BoundKept
  <2> QED BY <2>2, <2>3
<1>2. a.new \in Records /\ DeadIn(rs, tx, a.new) => DeadIn(rs, ux, a.new)
  BY RecordKept DEF DeadIn
<1> QED BY <1>1, <1>2 DEF Coherent

\* It stays coherent when another client's transaction lands.
LEMMA Landed ==
    ASSUME NEW a \in Attempt, NEW out, NEW rs, NEW tx, NEW ux,
           Coherent(a, out, rs, tx), out # "running", InFlight(tx),
           SoundMove(rs, tx.after), ~InFlight(ux)
    PROVE  Coherent(a, out, tx.after, ux)
<1>1. AttemptOK(a, out)
  BY DEF Coherent
<1>2. /\ a.pc \in {"activated", "aborted"} \/ a.confirmed \/ a.told # "none" =>
             a.new \in Records /\ a.old \in Records
      /\ a.new \in Records => a.old \in Records
  BY <1>1 DEF AttemptOK, Holding, HandleSteps
<1>3. a.old \in Records =>
          tx.after[a.old].state # "absent" /\ tx.after[a.old].activatedAt > 0
  BY RecordKept DEF Coherent
<1>4. a.new \in Records /\ DeadIn(rs, tx, a.new) => DeadIn(tx.after, ux, a.new)
  BY DEF DeadIn
<1>5. a.pc = "activated" /\ out = "ok" => ReceiptIn(tx.after, a)
  BY <1>2, ReceiptKept DEF Coherent
<1>6. a.confirmed => ReceiptIn(tx.after, a)
  BY <1>2, ReceiptKept DEF Coherent
<1>7. /\ a.pc = "aborted" /\ out = "ok" => tx.after[a.new].state = "revoked"
      /\ a.told = "rolledBack" => tx.after[a.new].state = "revoked"
      /\ a.told = "completed" => tx.after[a.old].state = "revoked"
  BY <1>2, RecordKept DEF Coherent
<1>8. a.new \in Records => BoundIn(tx.after, a)
  BY DEF Coherent
<1> QED BY <1>1, <1>3, <1>4, <1>5, <1>6, <1>7, <1>8 DEF Coherent

\* A session learns that its own transaction landed.
LEMMA Acknowledged ==
    ASSUME NEW a \in Attempt, NEW rs, NEW tx, NEW ux,
           Coherent(a, "running", rs, tx), InFlight(tx),
           SoundMove(rs, tx.after), ~InFlight(ux)
    PROVE  Coherent(a, "ok", tx.after, ux)
<1>1. AttemptOK(a, "running") /\ a.pc \in Awaiting
  BY DEF Coherent, AttemptOK
<1>2. AttemptOK(a, "ok")
  BY <1>1 DEF AttemptOK, Definite
<1>3. a.new \in Records /\ a.old \in Records
  BY <1>1 DEF AttemptOK, Awaiting, Definite, Attempt
<1>4. tx.after[a.old].state # "absent" /\ tx.after[a.old].activatedAt > 0
  BY <1>3, RecordKept DEF Coherent
<1>5. a.confirmed => ReceiptIn(tx.after, a)
  BY <1>3, ReceiptKept DEF Coherent
<1>6. /\ a.told = "rolledBack" => tx.after[a.new].state = "revoked"
      /\ a.told = "completed" => tx.after[a.old].state = "revoked"
  BY <1>3, RecordKept DEF Coherent
<1>7. BoundIn(tx.after, a)
  BY <1>3 DEF Coherent
<1>8. /\ a.pc = "activated" => ReceiptIn(tx.after, a)
      /\ a.pc = "aborted" => tx.after[a.new].state = "revoked"
      /\ a.pc # "failed"
  BY <1>1 DEF Coherent, Awaiting
<1> QED BY <1>2, <1>4, <1>5, <1>6, <1>7, <1>8 DEF Coherent, Definite

\* A session gets an error for its own transaction.
LEMMA Failed ==
    ASSUME NEW a \in Attempt, NEW rs, NEW tx, NEW ux, Coherent(a, "running", rs, tx),
           NEW out \in {"unavailable", "canceled", "unknown"},
           InFlight(ux) => InFlight(tx) /\ ux.after = tx.after,
           InFlight(ux) => out = "unknown"
    PROVE  Coherent(a, out, rs, ux)
<1>1. AttemptOK(a, "running") /\ a.pc \in Awaiting
  BY DEF Coherent, AttemptOK
<1>2. AttemptOK(a, out)
  BY <1>1 DEF AttemptOK, Definite
<1>3. a.pc = "created" /\ a.new \in Records /\ out \in Definite => DeadIn(rs, ux, a.new)
  BY DEF Coherent, DeadIn, Definite
<1>4. a.pc # "failed"
  BY <1>1 DEF Awaiting
<1> QED BY <1>2, <1>3, <1>4 DEF Coherent

-----------------------------------------------------------------------------
(* The steps of the lifecycle, as the sessions see them.                   *)

\* The same of the next state's transaction.
LEMMA InFlightMoveNext ==
    ASSUME Inv', InFlight(txn')
    PROVE  SoundMove(rows', txn'.after)
  BY DEF Inv, TypeOK, Pending, InFlight, SoundMove

\* A call of client c was refused, or it holds the lock; among the records
\* that have no row it would create those in S only.
Decided(c, S) ==
    /\ rows' = rows
    /\ txn.phase = "none"
    /\ \A q \in Clients : q # c => outcome'[q] = outcome[q]
    /\ \/ /\ outcome'[c] = "running" /\ txn'.phase = "open" /\ txn'.owner = c
          /\ \A n \in Records : rows[n].state = "absent" /\ n \notin S =>
                txn'.after[n].state = "absent"
       \/ /\ outcome'[c] \in {"conflict", "reconciliation", "unknown"}
          /\ txn'.phase \in {"none", "doomed"}

\* A guarded call of the Lifecycle service decides.
LEMMA RunDecides ==
    ASSUME TypeOK, NEW c \in Clients, NEW S, NEW verdict \in Verdicts, NEW after,
           Run(c, verdict, after),
           verdict = "proceed" =>
               \A n \in Records : rows[n].state = "absent" /\ n \notin S =>
                   after[n].state = "absent"
    PROVE  Decided(c, S)
<1>1. /\ rows' = rows /\ txn.phase = "none"
      /\ outcome \in [Clients -> Outcomes]
  BY DEF Run, TypeOK
<1>2. CASE /\ verdict = "proceed"
           /\ txn' = [phase |-> "open", owner |-> c, after |-> after]
           /\ outcome' = [outcome EXCEPT ![c] = "running"]
  BY <1>1, <1>2 DEF Decided
<1>3. CASE /\ verdict # "proceed" /\ txn' = txn
           /\ outcome' = [outcome EXCEPT ![c] = verdict]
  BY <1>1, <1>3 DEF Decided, Verdicts
<1>4. CASE /\ txn' = [phase |-> "doomed", owner |-> c, after |-> rows]
           /\ outcome' = [outcome EXCEPT ![c] = "unknown"]
  BY <1>1, <1>4 DEF Decided
<1> QED BY <1>2, <1>3, <1>4 DEF Run

\* A mutation other than a create proceeds only on records that have rows.
LEMMA ProceedStates ==
    ASSUME NEW r, NEW q, NEW now, NEW deadline, NEW reason
    PROVE  /\ CreateRotationVerdict(q, now) = "proceed" => rows[q].state = "active"
           /\ ActivateInitialVerdict(r, now) = "proceed" => rows[r].state = "staged"
           /\ AbortStagedVerdict(r, now) = "proceed" => rows[r].state = "staged"
           /\ ActivateRotationVerdict(r, q, now, deadline) = "proceed" =>
                 rows[r].state = "staged" /\ rows[q].state = "active"
           /\ RollbackVerdict(r, q, now) = "proceed" =>
                 rows[r].state = "active" /\ rows[q].state = "retiring"
           /\ FinalizeVerdict(r, q, now, reason) = "proceed" =>
                 rows[r].state = "active" /\ rows[q].state = "retiring"
<1>1. CreateRotationVerdict(q, now) = "proceed" => rows[q].state = "active"
  BY DEF CreateRotationVerdict
<1>2. ActivateInitialVerdict(r, now) = "proceed" => rows[r].state = "staged"
  BY DEF ActivateInitialVerdict
<1>3. AbortStagedVerdict(r, now) = "proceed" => rows[r].state = "staged"
  BY DEF AbortStagedVerdict
<1>4. ActivateRotationVerdict(r, q, now, deadline) = "proceed" =>
          rows[r].state = "staged" /\ rows[q].state = "active"
  BY DEF ActivateRotationVerdict
<1>5. RollbackVerdict(r, q, now) = "proceed" =>
          rows[r].state = "active" /\ rows[q].state = "retiring"
  BY DEF RollbackVerdict, RotationPairVerdict
<1>6. FinalizeVerdict(r, q, now, reason) = "proceed" =>
          rows[r].state = "active" /\ rows[q].state = "retiring"
  BY DEF FinalizeVerdict, RotationPairVerdict
<1> QED BY <1>1, <1>2, <1>3, <1>4, <1>5, <1>6

\* The two creates create their record and nothing else.
LEMMA CreateDecides ==
    ASSUME Inv, NEW c \in Clients, NEW r \in Records, NEW q, NEW now,
           \/ CreateStagedToken(c, r, now)
           \/ CreateRotationStagedToken(c, r, q, now)
    PROVE  Decided(c, {r})
<1>1. TypeOK
  BY DEF Inv
<1>2. \A n \in Records : rows[n].state = "absent" /\ n \notin {r} =>
          [rows EXCEPT ![r] = StagedRow(now)][n].state = "absent"
  BY <1>1 DEF TypeOK
<1>3. CASE CreateStagedToken(c, r, now)
  <2>1. CreateStagedVerdict(now) \in Verdicts
    BY DEF CreateStagedVerdict, Verdicts
  <2> QED BY <1>1, <1>2, <1>3, <2>1, RunDecides DEF CreateStagedToken
<1>4. CASE CreateRotationStagedToken(c, r, q, now)
  <2>1. CreateRotationVerdict(q, now) \in Verdicts
    BY DEF CreateRotationVerdict, Verdicts
  <2> QED BY <1>1, <1>2, <1>4, <2>1, RunDecides DEF CreateRotationStagedToken
<1> QED BY <1>3, <1>4

\* The other mutations of one record create nothing.
LEMMA SingleDecides ==
    ASSUME Inv, NEW c \in Clients, NEW r \in Records, NEW now,
           ActivateInitialToken(c, r, now) \/ AbortStagedToken(c, r, now)
    PROVE  Decided(c, {})
<1>1. TypeOK
  BY DEF Inv
<1>2. ASSUME NEW row, rows[r].state # "absent"
      PROVE  \A n \in Records : rows[n].state = "absent" /\ n \notin {} =>
                 [rows EXCEPT ![r] = row][n].state = "absent"
  BY <1>1, <1>2 DEF TypeOK
<1>3. CASE ActivateInitialToken(c, r, now)
  <2>1. ActivateInitialVerdict(r, now) \in Verdicts
    BY DEF ActivateInitialVerdict, Verdicts
  <2>2. ActivateInitialVerdict(r, now) = "proceed" => rows[r].state = "staged"
    BY ProceedStates
  <2> QED BY <1>1, <1>2, <1>3, <2>1, <2>2, RunDecides DEF ActivateInitialToken
<1>4. CASE AbortStagedToken(c, r, now)
  <2>1. AbortStagedVerdict(r, now) \in Verdicts
    BY DEF AbortStagedVerdict, Verdicts
  <2>2. AbortStagedVerdict(r, now) = "proceed" => rows[r].state = "staged"
    BY ProceedStates
  <2> QED BY <1>1, <1>2, <1>4, <2>1, <2>2, RunDecides DEF AbortStagedToken
<1> QED BY <1>3, <1>4

\* Nor do the mutations of two.
LEMMA PairDecides ==
    ASSUME Inv, NEW c \in Clients, NEW r \in Records, NEW q \in Records, NEW now,
           NEW reason,
           \/ ActivateRotation(c, r, q, now)
           \/ RollbackRotation(c, r, q, now)
           \/ FinalizeRotation(c, r, q, now, reason)
    PROVE  Decided(c, {})
<1>1. TypeOK
  BY DEF Inv
<1>2. ASSUME NEW x, rows[q].state # "absent"
      PROVE  \A n \in Records : rows[n].state = "absent" /\ n \notin {} =>
                 [rows EXCEPT ![q] = x][n].state = "absent"
  BY <1>1, <1>2 DEF TypeOK
<1>3. CASE ActivateRotation(c, r, q, now)
  <2>1. ActivateRotationVerdict(r, q, Stored(now), Stored(now + Overlap)) \in Verdicts
    BY DEF ActivateRotationVerdict, Verdicts
  <2>2. ActivateRotationVerdict(r, q, Stored(now), Stored(now + Overlap)) = "proceed" =>
            rows[r].state = "staged" /\ rows[q].state = "active"
    BY DEF ActivateRotationVerdict
  <2> PICK x : x = Retiring(rows[q], Stored(now), Stored(now + Overlap))
    OBVIOUS
  <2> PICK y : y = Activated(rows[r], Stored(now))
    OBVIOUS
  <2> PICK verdict : verdict = ActivateRotationVerdict(r, q, Stored(now), Stored(now + Overlap))
    OBVIOUS
  <2> PICK after : after = [rows EXCEPT ![q] = x, ![r] = y]
    OBVIOUS
  <2>3. Run(c, verdict, after)
    BY <1>3 DEF ActivateRotation
  <2>4. verdict = "proceed" =>
            \A n \in Records : rows[n].state = "absent" /\ n \notin {} =>
                after[n].state = "absent"
    BY <1>1, <2>2 DEF TypeOK
  <2> QED BY <1>1, <2>1, <2>3, <2>4, RunDecides
<1>4. CASE RollbackRotation(c, r, q, now)
  <2>1. RollbackVerdict(r, q, now) \in Verdicts
    BY DEF RollbackVerdict, RotationPairVerdict, Verdicts
  <2>2. RollbackVerdict(r, q, now) = "proceed" =>
            rows[r].state = "active" /\ rows[q].state = "retiring"
    BY DEF RollbackVerdict, RotationPairVerdict
  <2> PICK x : x = Restored(rows[q], Stored(now))
    OBVIOUS
  <2> PICK y : y = Revoked(rows[r], Stored(now))
    OBVIOUS
  <2> PICK verdict : verdict = RollbackVerdict(r, q, now)
    OBVIOUS
  <2> PICK after : after = [rows EXCEPT ![r] = y, ![q] = x]
    OBVIOUS
  <2>3. Run(c, verdict, after)
    BY <1>4 DEF RollbackRotation
  <2>4. verdict = "proceed" =>
            \A n \in Records : rows[n].state = "absent" /\ n \notin {} =>
                after[n].state = "absent"
    BY <1>1, <2>2 DEF TypeOK
  <2> QED BY <1>1, <2>1, <2>3, <2>4, RunDecides
<1>5. CASE FinalizeRotation(c, r, q, now, reason)
  <2>1. FinalizeVerdict(r, q, now, reason) \in Verdicts
    BY DEF FinalizeVerdict, RotationPairVerdict, Verdicts
  <2>2. FinalizeVerdict(r, q, now, reason) = "proceed" =>
            rows[r].state = "active" /\ rows[q].state = "retiring"
    BY DEF FinalizeVerdict, RotationPairVerdict
  <2> QED BY <1>1, <1>2, <1>5, <2>1, <2>2, RunDecides DEF FinalizeRotation
<1> QED BY <1>3, <1>4, <1>5

-----------------------------------------------------------------------------
(* Every step of the participant is a step of the lifecycle.               *)

\* So whatever a session, the administrator or the environment does, the
\* lifecycle has an action for it.
LEMMA StepIsNext ==
    ASSUME PInv, [PNext]_pvars
    PROVE  [Next]_vars
<1>1. Sessions \subseteq Clients /\ Admin \in Clients
  BY ParticipantAssumption DEF Sessions
<1>2. ASSUME NEW p \in Sessions, NEW now \in Clock, SessionStep(p, now)
      PROVE  [Next]_vars
  <2>1. AttemptOK(attempt[p], outcome[p])
    BY DEF PInv, Coherent
  <2>2. p \in Clients
    BY <1>1
  <2>3. ASSUME NEW r \in Records, CallCreate(p, r, now) PROVE Next
    <3>1. attempt[p].old \in Records
      BY <2>1, <2>3 DEF AttemptOK, CallCreate, At
    <3> QED BY <2>2, <2>3, <3>1 DEF CallCreate, Next, Operation
  <2>4. ASSUME attempt[p].pc \in {"activate", "abort", "rollback", "finalize"}
        PROVE  attempt[p].new \in Records /\ attempt[p].old \in Records
    BY <2>1, <2>4 DEF AttemptOK
  <2>5. CASE CallActivate(p, now)
    <3>1. attempt[p].new \in Records /\ attempt[p].old \in Records
      BY <2>4, <2>5 DEF CallActivate, At
    <3> QED BY <2>2, <2>5, <3>1 DEF CallActivate, Next, Operation
  <2>6. CASE CallAbort(p, now)
    <3>1. attempt[p].new \in Records
      BY <2>4, <2>6 DEF CallAbort, At
    <3> QED BY <2>2, <2>6, <3>1 DEF CallAbort, Next, Operation
  <2>7. CASE CallMutation(p, now)
    <3>1. attempt[p].new \in Records /\ attempt[p].old \in Records
      BY <2>4, <2>7 DEF CallMutation, At
    <3> QED BY <2>2, <2>7, <3>1 DEF CallMutation, Next, Operation
  <2>8. CASE CallFails(p)
    BY <2>2, <2>8 DEF CallFails, Next
  <2>9. CASE \/ InspectActive(p, now) \/ GiveUp(p) \/ AfterCreate(p)
             \/ AfterActivate(p, now) \/ AfterAbort(p) \/ AfterMutation(p)
    BY <2>9 DEF InspectActive, GiveUp, AfterCreate, AfterActivate, AfterAbort, AfterMutation
  <2> QED BY <1>2, <2>3, <2>5, <2>6, <2>7, <2>8, <2>9 DEF SessionStep
<1>3. ASSUME NEW p \in Sessions, NEW now \in Clock,
             ResolveToken(p, now) \/ Observe(p, now) \/ CheckPair(p, now)
      PROVE  [Next]_vars
  BY <1>3 DEF ResolveToken, Observe, CheckPair
<1>4. ASSUME NEW now \in Clock, AdminStep(now) PROVE Next
  <2>1. Operation(Admin, now)
    BY <1>4 DEF AdminStep, Repair, Operation
  <2> QED BY <1>1, <2>1 DEF Next
<1>5. ASSUME Environment PROVE Next
  <2>1. Switches \subseteq BOOLEAN
    BY ParticipantAssumption
  <2> QED BY <1>5, <2>1 DEF Environment, Next
<1>6. CASE UNCHANGED pvars
  BY <1>6 DEF pvars, vars
<1> QED BY <1>2, <1>3, <1>4, <1>5, <1>6 DEF PNext

-----------------------------------------------------------------------------
(* Putting the sessions together again.                                    *)

\* A step in which one session moves.
LEMMA OneSession ==
    ASSUME PInv, Inv', Owned', NEW p \in Sessions, NEW b \in Attempt,
           attempt' = [attempt EXCEPT ![p] = b],
           b.new = attempt[p].new \/ \A q \in Sessions : attempt[q].new # b.new,
           Coherent(b, outcome'[p], rows', txn'),
           \A q \in Sessions : q # p => Coherent(attempt[q], outcome'[q], rows', txn')
    PROVE  PInv'
<1>1. attempt \in [Sessions -> Attempt]
  BY DEF PInv
<1>2. attempt' \in [Sessions -> Attempt]
  BY <1>1
<1>3. attempt'[p] = b /\ \A q \in Sessions : q # p => attempt'[q] = attempt[q]
  BY <1>1
<1>4. \A q, r \in Sessions : attempt'[q].new = attempt'[r].new /\ q # r =>
          attempt'[q].new = NoRecord
  BY <1>3 DEF PInv
<1>5. \A q \in Sessions : Coherent(attempt'[q], outcome'[q], rows', txn')
  BY <1>3
<1> QED BY <1>2, <1>4, <1>5 DEF PInv

\* A step in which none does.
LEMMA NoSession ==
    ASSUME PInv, Inv', Owned', attempt' = attempt,
           \A q \in Sessions : Coherent(attempt[q], outcome'[q], rows', txn')
    PROVE  PInv'
  BY DEF PInv

\* A session moves on its own.
LEMMA LocalStep ==
    ASSUME PInv, UNCHANGED vars, NEW p \in Sessions, NEW b \in Attempt,
           attempt' = [attempt EXCEPT ![p] = b], b.new = attempt[p].new,
           Coherent(b, outcome[p], rows, txn)
    PROVE  PInv'
<1>1. rows' = rows /\ txn' = txn /\ outcome' = outcome
  BY DEF vars
<1>2. Inv'
  BY NextInv DEF PInv
<1>3. Owned'
  BY <1>1 DEF PInv, Owned
<1>4. Coherent(b, outcome'[p], rows', txn')
  BY <1>1
<1>5. \A q \in Sessions : q # p => Coherent(attempt[q], outcome'[q], rows', txn')
  BY <1>1 DEF PInv
<1> QED BY <1>2, <1>3, <1>4, <1>5, OneSession

\* Whoever makes a call, what the sessions knew before it stays true.
LEMMA KnownStays ==
    ASSUME PInv, Inv', NEW c \in Clients, NEW S, Decided(c, S),
           NEW p \in Sessions, attempt[p].new \notin S
    PROVE  Coherent(attempt[p], outcome[p], rows', txn')
<1>1. attempt[p] \in Attempt /\ p \in Clients /\ Coherent(attempt[p], outcome[p], rows, txn)
  BY DEF PInv, Sessions
<1>2. outcome[p] # "running" /\ rows' = rows
  BY <1>1 DEF PInv, Owned, Decided
<1>3. CASE txn'.phase = "open" /\ \A n \in Records : rows[n].state = "absent" /\ n \notin S =>
                                      txn'.after[n].state = "absent"
  <2>1. SoundMove(rows, txn'.after)
    BY <1>2, <1>3, InFlightMoveNext DEF InFlight
  <2> QED BY <1>1, <1>2, <1>3, <2>1, Locked
<1>4. CASE txn'.phase \in {"none", "doomed"}
  <2>1. ~InFlight(txn')
    BY <1>4 DEF InFlight
  <2> QED BY <1>1, <1>2, <2>1, Unmoved
<1> QED BY <1>3, <1>4 DEF Decided

\* The lock has its owner.
LEMMA OwnerWaits ==
    ASSUME PInv, NEW c \in Clients, NEW S, Decided(c, S)
    PROVE  Owned'
<1>1. \A q \in Clients : outcome[q] # "running"
  BY DEF PInv, Owned, Decided
<1>2. \A q \in Clients : q # c => outcome'[q] # "running"
  BY <1>1 DEF Decided
<1> QED BY <1>2 DEF Owned, Decided

\* A session makes a call.
LEMMA CallStep ==
    ASSUME PInv, Inv', NEW p \in Sessions, NEW S, Decided(p, S),
           \A q \in Sessions : attempt[q].new \notin S,
           NEW b \in Attempt, attempt' = [attempt EXCEPT ![p] = b],
           b.new = attempt[p].new \/ b.new \in S,
           Coherent(b, outcome'[p], rows', txn')
    PROVE  PInv'
<1>1. p \in Clients /\ \A q \in Sessions : q \in Clients
  BY DEF Sessions
<1>2. Owned'
  BY <1>1, OwnerWaits
<1>3. \A q \in Sessions : q # p => Coherent(attempt[q], outcome'[q], rows', txn')
  <2> SUFFICES ASSUME NEW q \in Sessions, q # p
               PROVE  Coherent(attempt[q], outcome'[q], rows', txn')
    OBVIOUS
  <2>1. outcome'[q] = outcome[q]
    BY <1>1 DEF Decided
  <2> QED BY <1>1, <2>1, KnownStays
<1>4. b.new = attempt[p].new \/ \A q \in Sessions : attempt[q].new # b.new
  OBVIOUS
<1> QED BY <1>2, <1>3, <1>4, OneSession

-----------------------------------------------------------------------------
(* The steps of a session that make no call.                               *)

\* From a session's record only the step changed.
LEMMA MovedFields ==
    ASSUME NEW a \in Attempt,
           NEW pc \in {"idle", "failed", "held"} \cup BeginSteps \cup HandleSteps
    PROVE  LET b == [a EXCEPT !.pc = pc] IN
           /\ b \in Attempt
           /\ b.pc = pc /\ b.new = a.new /\ b.old = a.old /\ b.at = a.at
           /\ b.confirmed = a.confirmed /\ b.told = a.told
  BY DEF Attempt

\* Where a session may go next, given what it knows.
LEMMA MayMove ==
    ASSUME NEW a \in Attempt, NEW out \in Outcomes, NEW rs, NEW tx,
           Coherent(a, out, rs, tx), out # "running", NEW b \in Attempt,
           b.new = a.new, b.old = a.old, b.at = a.at, b.told = a.told,
           b.confirmed = a.confirmed \/ (b.pc \in Holding /\ ReceiptIn(rs, a)),
           \/ a.pc = "idle" /\ b.pc = "inspect"
           \/ a.pc = "inspect" /\ b.pc = "failed"
           \/ a.pc \in {"created", "activated"} /\ b.pc \in {"activate", "abort"}
                 /\ a.new \in Records
           \/ a.pc \in Awaiting \cup Holding /\ b.pc \in Holding /\ b.pc # "mutated"
                 /\ a.new \in Records
           \/ a.pc \in {"created", "aborted"} /\ b.pc = "failed"
                 /\ (a.new \in Records => DeadIn(rs, tx, a.new))
    PROVE  Coherent(b, out, rs, tx)
<1>1. AttemptOK(a, out) /\ NoRecord \notin Records
  BY ParticipantAssumption DEF Coherent
<1>2. AttemptOK(b, out)
  BY <1>1 DEF AttemptOK, Awaiting, Holding, HandleSteps
<1>3. \A xs : BoundIn(xs, b) = BoundIn(xs, a)
  BY DEF BoundIn
<1>4. ReceiptIn(rs, b) = ReceiptIn(rs, a)
  BY DEF ReceiptIn
<1>5. b.confirmed => ReceiptIn(rs, b)
  BY <1>4 DEF Coherent
<1>6. b.pc \notin {"created", "activated", "aborted"}
  BY DEF Holding, HandleSteps
<1>7. b.pc = "failed" /\ b.new \in Records => DeadIn(rs, tx, b.new)
  BY <1>1 DEF AttemptOK, Holding, HandleSteps
<1> QED BY <1>2, <1>3, <1>5, <1>6, <1>7 DEF Coherent

\* A session goes on without learning anything else.
LEMMA Goes ==
    ASSUME PInv, UNCHANGED vars, NEW p \in Sessions, outcome[p] # "running",
           NEW pc \in {"idle", "failed", "held"} \cup BeginSteps \cup HandleSteps,
           Goto(p, pc),
           \/ attempt[p].pc = "idle" /\ pc = "inspect"
           \/ attempt[p].pc = "inspect" /\ pc = "failed"
           \/ attempt[p].pc \in {"created", "activated"} /\ pc \in {"activate", "abort"}
                 /\ attempt[p].new \in Records
           \/ attempt[p].pc \in Awaiting \cup Holding /\ pc \in Holding /\ pc # "mutated"
                 /\ attempt[p].new \in Records
           \/ attempt[p].pc \in {"created", "aborted"} /\ pc = "failed"
                 /\ (attempt[p].new \in Records => DeadIn(rows, txn, attempt[p].new))
    PROVE  PInv'
<1>1. /\ attempt[p] \in Attempt /\ attempt \in [Sessions -> Attempt]
      /\ outcome[p] \in Outcomes /\ Coherent(attempt[p], outcome[p], rows, txn)
  BY DEF PInv, Inv, TypeOK, Sessions
<1> PICK b : b = [attempt[p] EXCEPT !.pc = pc]
  OBVIOUS
<1>2. /\ b \in Attempt
      /\ b.pc = pc /\ b.new = attempt[p].new /\ b.old = attempt[p].old
      /\ b.at = attempt[p].at
      /\ b.confirmed = attempt[p].confirmed /\ b.told = attempt[p].told
  BY <1>1, MovedFields
<1>3. attempt' = [attempt EXCEPT ![p] = b]
  BY <1>1 DEF Goto
<1>4. Coherent(b, outcome[p], rows, txn)
  BY <1>1, <1>2, MayMove
<1> QED BY <1>2, <1>3, <1>4, LocalStep

\* A session that makes no call from where it is has no answer to wait for.
LEMMA NotWaiting ==
    ASSUME PInv, NEW p \in Sessions, attempt[p].pc \notin Awaiting
    PROVE  outcome[p] # "running"
  BY DEF PInv, Coherent, AttemptOK

\* BeginRotation resolves the caller's token, or gives up.
LEMMA BeginMoves ==
    ASSUME PInv, NEW p \in Sessions, NEW now \in Clock,
           ResolveToken(p, now) \/ GiveUp(p)
    PROVE  PInv'
<1>1. outcome[p] # "running"
  BY NotWaiting DEF ResolveToken, GiveUp, At, Awaiting
<1>2. CASE ResolveToken(p, now)
  BY <1>1, <1>2, Goes DEF ResolveToken, At, BeginSteps
<1>3. CASE GiveUp(p)
  BY <1>1, <1>3, Goes DEF GiveUp, At
<1> QED BY <1>2, <1>3

\* It has read which record is active: the old one, which was activated once.
LEMMA InspectMoves ==
    ASSUME PInv, NEW p \in Sessions, NEW now \in Clock, InspectActive(p, now)
    PROVE  PInv'
<1>1. /\ attempt[p] \in Attempt /\ attempt \in [Sessions -> Attempt]
      /\ Coherent(attempt[p], outcome[p], rows, txn)
      /\ attempt[p].pc = "inspect" /\ outcome[p] # "running" /\ UNCHANGED vars
  BY NotWaiting DEF PInv, InspectActive, At, Awaiting
<1>2. PICK r \in Records :
          /\ rows[r].state = "active"
          /\ attempt' = [attempt EXCEPT ![p].pc = "create", ![p].old = r]
  BY DEF InspectActive
<1> PICK b : b = [attempt[p] EXCEPT !.pc = "create", !.old = r]
  OBVIOUS
<1>3. /\ b \in Attempt
      /\ b.pc = "create" /\ b.new = attempt[p].new /\ b.old = r
      /\ b.confirmed = attempt[p].confirmed /\ b.told = attempt[p].told
  BY <1>1 DEF Attempt, BeginSteps
<1>4. attempt' = [attempt EXCEPT ![p] = b]
  BY <1>1, <1>2
<1>5. rows[r].state # "absent" /\ rows[r].activatedAt > 0
  BY <1>2 DEF PInv, Inv, Sound, Readable, ValidToken
<1>6. AttemptOK(attempt[p], outcome[p]) /\ NoRecord \notin Records
  BY <1>1, ParticipantAssumption DEF Coherent
<1>7. AttemptOK(b, outcome[p]) /\ ~b.confirmed /\ b.told = "none" /\ b.new \notin Records
  BY <1>1, <1>3, <1>6 DEF AttemptOK, Awaiting, Holding, HandleSteps
<1>8. Coherent(b, outcome[p], rows, txn)
  BY <1>3, <1>5, <1>7 DEF Coherent
<1> QED BY <1>1, <1>3, <1>4, <1>8, LocalStep

\* It has the answer of the create: go on, abort, or report the failure.
LEMMA AfterCreateMoves ==
    ASSUME PInv, NEW p \in Sessions, AfterCreate(p)
    PROVE  PInv'
<1>1. /\ attempt[p] \in Attempt /\ Coherent(attempt[p], outcome[p], rows, txn)
      /\ attempt[p].pc = "created" /\ outcome[p] # "running" /\ UNCHANGED vars
  BY DEF PInv, AfterCreate, At, Returned
<1>2. attempt[p].new \in Records \/ outcome[p] \in Definite
  BY <1>1 DEF Coherent, AttemptOK, Attempt
<1>3. CASE outcome[p] = "ok" /\ \E pc \in {"activate", "abort"} : Goto(p, pc)
  <2>1. attempt[p].new \in Records
    BY <1>2, <1>3 DEF Definite
  <2> QED BY <1>1, <1>3, <2>1, Goes DEF BeginSteps
<1>4. CASE outcome[p] = "unknown" /\ Goto(p, "held")
  <2>1. attempt[p].new \in Records
    BY <1>2, <1>4 DEF Definite
  <2> QED BY <1>1, <1>4, <2>1, Goes DEF Awaiting, Holding
<1>5. CASE outcome[p] \in Definite /\ Goto(p, "failed")
  <2>1. attempt[p].new \in Records => DeadIn(rows, txn, attempt[p].new)
    BY <1>1, <1>5 DEF Coherent
  <2> QED BY <1>1, <1>5, <2>1, Goes
<1> QED BY <1>3, <1>4, <1>5 DEF AfterCreate

\* It has the answer of the activation: a receipt, or an attempt to recover.
LEMMA AfterActivateMoves ==
    ASSUME PInv, NEW p \in Sessions, NEW now \in Clock, AfterActivate(p, now)
    PROVE  PInv'
<1>1. /\ attempt[p] \in Attempt /\ attempt \in [Sessions -> Attempt]
      /\ outcome[p] \in Outcomes /\ Coherent(attempt[p], outcome[p], rows, txn)
      /\ attempt[p].pc = "activated" /\ outcome[p] # "running" /\ UNCHANGED vars
  BY DEF PInv, Inv, TypeOK, Sessions, AfterActivate, At, Returned
<1>2. attempt[p].new \in Records
  BY <1>1 DEF Coherent, AttemptOK
<1>3. CASE /\ outcome[p] = "ok"
           /\ attempt' = [attempt EXCEPT ![p].pc = "held", ![p].confirmed = TRUE]
  <2> PICK b : b = [attempt[p] EXCEPT !.pc = "held", !.confirmed = TRUE]
    OBVIOUS
  <2>1. /\ b \in Attempt
        /\ b.pc = "held" /\ b.new = attempt[p].new /\ b.old = attempt[p].old
        /\ b.at = attempt[p].at /\ b.told = attempt[p].told
    BY <1>1 DEF Attempt
  <2>2. attempt' = [attempt EXCEPT ![p] = b]
    BY <1>1, <1>3
  <2>3. ReceiptIn(rows, attempt[p])
    BY <1>1, <1>3 DEF Coherent
  <2>4. b.pc \in Holding /\ b.pc # "mutated" /\ attempt[p].pc \in Awaiting
    BY <1>1, <2>1 DEF Holding, Awaiting
  <2>5. Coherent(b, outcome[p], rows, txn)
    BY <1>1, <1>2, <2>1, <2>3, <2>4, MayMove
  <2> QED BY <1>1, <2>1, <2>2, <2>5, LocalStep
<1>4. CASE Goto(p, "held")
  BY <1>1, <1>2, <1>4, Goes DEF Awaiting, Holding
<1>5. CASE Goto(p, "abort")
  BY <1>1, <1>2, <1>5, Goes DEF BeginSteps
<1> QED BY <1>3, <1>4, <1>5 DEF AfterActivate

\* The record of a confirmed abort stays dead: a revoked row is final.
LEMMA RevokedIsDead ==
    ASSUME Inv, NEW r \in Records, rows[r].state = "revoked"
    PROVE  DeadIn(rows, txn, r)
  BY InFlightMove, RecordKept DEF DeadIn

\* It has the answer of the abort, and reports why it had to abort.
LEMMA AfterAbortMoves ==
    ASSUME PInv, NEW p \in Sessions, AfterAbort(p)
    PROVE  PInv'
<1>1. /\ attempt[p] \in Attempt /\ Coherent(attempt[p], outcome[p], rows, txn)
      /\ attempt[p].pc = "aborted" /\ outcome[p] # "running" /\ UNCHANGED vars /\ Inv
  BY DEF PInv, AfterAbort, At, Returned
<1>2. attempt[p].new \in Records
  BY <1>1 DEF Coherent, AttemptOK
<1>3. CASE outcome[p] = "ok" /\ Goto(p, "failed")
  <2>1. rows[attempt[p].new].state = "revoked"
    BY <1>1, <1>3 DEF Coherent
  <2>2. DeadIn(rows, txn, attempt[p].new)
    BY <1>1, <1>2, <2>1, RevokedIsDead
  <2> QED BY <1>1, <1>3, <2>2, Goes
<1>4. CASE Goto(p, "held")
  BY <1>1, <1>2, <1>4, Goes DEF Awaiting, Holding
<1> QED BY <1>3, <1>4 DEF AfterAbort

\* Only revoked rows are reported as rolled back or completed.
LEMMA TerminalRows ==
    ASSUME NEW n, NEW o, NEW now
    PROVE  /\ Classify(n, o, now) = "rolledBack" => rows[n].state = "revoked"
           /\ Classify(n, o, now) = "completed" => rows[o].state = "revoked"
  BY DEF Classify, ExactRolledBack, ExactCompleted

\* ObserveRotation tells the caller what the rows say of its attempt.
LEMMA ObserveMoves ==
    ASSUME PInv, NEW p \in Sessions, NEW now \in Clock, Observe(p, now)
    PROVE  PInv'
<1>1. /\ attempt[p] \in Attempt /\ attempt \in [Sessions -> Attempt]
      /\ Coherent(attempt[p], outcome[p], rows, txn)
      /\ attempt[p].pc = "held" /\ UNCHANGED vars
  BY DEF PInv, Observe, At
<1> PICK told : told = Classify(attempt[p].new, attempt[p].old, now)
  OBVIOUS
<1>2. /\ told \in {"rolledBack", "completed"}
      /\ told = "rolledBack" => rows[attempt[p].new].state = "revoked"
      /\ told = "completed" => rows[attempt[p].old].state = "revoked"
      /\ attempt' = [attempt EXCEPT ![p].told = told]
  BY TerminalRows DEF Observe
<1> PICK b : b = [attempt[p] EXCEPT !.told = told]
  OBVIOUS
<1>3. /\ b \in Attempt
      /\ b.pc = "held" /\ b.new = attempt[p].new /\ b.old = attempt[p].old
      /\ b.at = attempt[p].at /\ b.confirmed = attempt[p].confirmed /\ b.told = told
  BY <1>1, <1>2 DEF Attempt
<1>4. attempt' = [attempt EXCEPT ![p] = b]
  BY <1>1, <1>2
<1>5. AttemptOK(attempt[p], outcome[p])
  BY <1>1 DEF Coherent
<1>6. AttemptOK(b, outcome[p])
  BY <1>1, <1>3, <1>5 DEF AttemptOK, Holding
<1>7. \A xs : BoundIn(xs, b) = BoundIn(xs, attempt[p])
  BY <1>3 DEF BoundIn
<1>8. ReceiptIn(rows, b) = ReceiptIn(rows, attempt[p])
  BY <1>3 DEF ReceiptIn
<1>9. Coherent(b, outcome[p], rows, txn)
  BY <1>1, <1>2, <1>3, <1>6, <1>7, <1>8 DEF Coherent
<1> QED BY <1>1, <1>3, <1>4, <1>9, LocalStep

\* RollbackRotation and FinalizeRotation check the handle, call and return.
LEMMA HandleMoves ==
    ASSUME PInv, NEW p \in Sessions, NEW now \in Clock,
           CheckPair(p, now) \/ AfterMutation(p)
    PROVE  PInv'
<1>1. AttemptOK(attempt[p], outcome[p])
  BY DEF PInv, Coherent
<1>2. attempt[p].pc \in {"held", "mutated"} /\ outcome[p] # "running"
  BY NotWaiting DEF CheckPair, AfterMutation, At, Returned, Awaiting
<1>3. attempt[p].new \in Records /\ attempt[p].pc \in Awaiting \cup Holding
  BY <1>1, <1>2 DEF AttemptOK, Awaiting, Holding
<1>4. PICK pc \in {"rollback", "finalize", "held"} : Goto(p, pc) /\ UNCHANGED vars
  BY DEF CheckPair, AfterMutation
<1> QED BY <1>2, <1>3, <1>4, Goes DEF Holding, HandleSteps

-----------------------------------------------------------------------------
(* The calls a session makes.                                              *)

\* A caller that is left waiting was told to proceed.
LEMMA RunOpens ==
    ASSUME TypeOK, NEW c \in Clients, NEW verdict \in Verdicts, NEW after,
           Run(c, verdict, after), outcome'[c] = "running"
    PROVE  verdict = "proceed" /\ txn'.after = after /\ txn'.phase = "open"
  BY DEF Run, TypeOK, Verdicts

\* A session with a record makes a call and waits, or has its answer already.
LEMMA CallsFrom ==
    ASSUME NEW a \in Attempt, NEW b \in Attempt, NEW out, NEW res, NEW rs, NEW tx,
           Coherent(a, out, rs, tx), res # "ok",
           b.new = a.new, b.old = a.old, b.told = a.told, b.confirmed = a.confirmed,
           \/ a.pc = "activate" /\ b.pc = "activated"
           \/ a.pc = "abort" /\ b.pc = "aborted"
           \/ a.pc \in {"rollback", "finalize"} /\ b.pc = "mutated" /\ b.at = a.at,
           b.pc = "activated" /\ res = "running" => ReceiptIn(tx.after, b),
           b.pc = "aborted" /\ res = "running" => tx.after[b.new].state = "revoked"
    PROVE  Coherent(b, res, rs, tx)
<1>1. AttemptOK(a, out)
  BY DEF Coherent
<1>2. AttemptOK(b, res)
  BY <1>1 DEF AttemptOK, Awaiting, Holding, HandleSteps
<1>3. \A xs : BoundIn(xs, b) = BoundIn(xs, a)
  BY DEF BoundIn
<1>4. b.confirmed => ReceiptIn(rs, b)
  <2> SUFFICES ASSUME b.confirmed PROVE ReceiptIn(rs, b)
    OBVIOUS
  <2>1. a.confirmed /\ b.at = a.at
    BY <1>1 DEF AttemptOK, Holding, HandleSteps
  <2>2. ReceiptIn(rs, a)
    BY <2>1 DEF Coherent
  <2> QED BY <2>1, <2>2 DEF ReceiptIn
<1> QED BY <1>2, <1>3, <1>4 DEF Coherent

\* The create binds the session's two records: once it lands, the new record is
\* created no earlier than the old one was activated.
LEMMA CreateCalls ==
    ASSUME PInv, Inv', NEW p \in Sessions, NEW new \in Records, NEW now \in Clock,
           CallCreate(p, new, now)
    PROVE  PInv'
<1>1. /\ attempt[p] \in Attempt /\ attempt \in [Sessions -> Attempt] /\ p \in Clients
      /\ AttemptOK(attempt[p], outcome[p]) /\ Inv /\ TypeOK /\ attempt[p].pc = "create"
      /\ Coherent(attempt[p], outcome[p], rows, txn)
  BY DEF PInv, Inv, Coherent, Sessions, CallCreate, At
<1>2. /\ attempt[p].old \in Records /\ ~attempt[p].confirmed /\ attempt[p].told = "none"
      /\ rows[attempt[p].old].state # "absent" /\ rows[attempt[p].old].activatedAt > 0
  BY <1>1 DEF AttemptOK, Holding, HandleSteps, Coherent
<1>3. /\ CreateRotationStagedToken(p, new, attempt[p].old, now)
      /\ rows[new].state = "absent" /\ rows' = rows
      /\ \A q \in Sessions : attempt[q].new # new
      /\ attempt' = [attempt EXCEPT ![p].pc = "created", ![p].new = new]
  BY DEF CallCreate, Fresh, CreateRotationStagedToken, Run
<1>4. Decided(p, {new})
  BY <1>1, <1>3, CreateDecides
<1> PICK b : b = [attempt[p] EXCEPT !.pc = "created", !.new = new]
  OBVIOUS
<1>5. /\ b \in Attempt
      /\ b.pc = "created" /\ b.new = new /\ b.old = attempt[p].old
      /\ b.confirmed = attempt[p].confirmed /\ b.told = attempt[p].told
  BY <1>1 DEF Attempt, BeginSteps
<1>6. attempt' = [attempt EXCEPT ![p] = b]
  BY <1>1, <1>3
<1>7. AttemptOK(b, outcome'[p]) /\ NoRecord \notin Records
  BY <1>2, <1>5, ParticipantAssumption DEF AttemptOK, Awaiting
<1>8. InFlight(txn') => BoundIn(txn'.after, b)
  <2> SUFFICES ASSUME InFlight(txn') PROVE BoundIn(txn'.after, b)
    OBVIOUS
  <2>1. outcome'[p] = "running"
    BY <1>4 DEF Decided, InFlight
  <2>2. CreateRotationVerdict(attempt[p].old, now) \in Verdicts
    BY DEF CreateRotationVerdict, Verdicts
  <2>3. /\ CreateRotationVerdict(attempt[p].old, now) = "proceed"
        /\ txn'.after = [rows EXCEPT ![new] = StagedRow(now)]
    BY <1>1, <1>3, <2>1, <2>2, RunOpens DEF CreateRotationStagedToken
  <2>4. rows[attempt[p].old].state = "active"
    BY <2>3, ProceedStates
  <2> PICK after : after = txn'.after
    OBVIOUS
  <2>5. after[attempt[p].old] = rows[attempt[p].old] /\ after[new] = StagedRow(now)
    BY <1>1, <1>2, <1>3, <2>3 DEF TypeOK
  <2>6. after[new].state = "staged" /\ after[attempt[p].old].state = "active"
    BY <2>4, <2>5 DEF StagedRow
  <2>7. Sound(after) /\ after \in [Records -> Row]
    BY InFlightMoveNext DEF SoundMove
  <2>8. after[attempt[p].old].stateChangedAt <= after[new].createdAt
    BY <1>2, <2>6, <2>7 DEF Sound, StagedFollowsActive
  <2>9. after[attempt[p].old].activatedAt <= after[attempt[p].old].stateChangedAt
    BY <1>2, <2>6, <2>7 DEF Sound, Readable, ValidToken, ValidHistory
  <2>10. after[attempt[p].old] \in Row /\ after[new] \in Row
    BY <1>2, <2>7
  <2>11. after[attempt[p].old].activatedAt <= after[new].createdAt
    BY <2>8, <2>9, <2>10, RowNat
  <2> QED BY <1>5, <2>6, <2>11 DEF BoundIn
<1>9. outcome'[p] \in Definite => DeadIn(rows', txn', new)
  <2> SUFFICES ASSUME outcome'[p] \in Definite PROVE DeadIn(rows', txn', new)
    OBVIOUS
  <2>1. ~InFlight(txn')
    BY <1>4 DEF Decided, InFlight, Definite
  <2> QED BY <1>3, <2>1 DEF DeadIn
<1>10. BoundIn(rows', b)
  BY <1>3, <1>5 DEF BoundIn
<1>11. Coherent(b, outcome'[p], rows', txn')
  BY <1>2, <1>3, <1>5, <1>7, <1>8, <1>9, <1>10 DEF Coherent
<1>12. b.new \in {new} /\ \A q \in Sessions : attempt[q].new \notin {new}
  BY <1>3, <1>5
<1> QED BY <1>4, <1>5, <1>6, <1>11, <1>12, CallStep

\* A call on the records a session has.
LEMMA HandleCalls ==
    ASSUME PInv, Inv', NEW p \in Sessions, Decided(p, {}), NEW b \in Attempt,
           attempt' = [attempt EXCEPT ![p] = b],
           b.new = attempt[p].new, b.old = attempt[p].old,
           b.told = attempt[p].told, b.confirmed = attempt[p].confirmed,
           \/ attempt[p].pc = "activate" /\ b.pc = "activated"
           \/ attempt[p].pc = "abort" /\ b.pc = "aborted"
           \/ attempt[p].pc \in {"rollback", "finalize"} /\ b.pc = "mutated"
                 /\ b.at = attempt[p].at,
           b.pc = "activated" /\ outcome'[p] = "running" => ReceiptIn(txn'.after, b),
           b.pc = "aborted" /\ outcome'[p] = "running" =>
               txn'.after[b.new].state = "revoked"
    PROVE  PInv'
<1>1. p \in Clients /\ attempt[p] \in Attempt
  BY DEF PInv, Sessions
<1> PICK S : S = {}
  OBVIOUS
<1>2. Decided(p, S) /\ \A q \in Sessions : attempt[q].new \notin S
  OBVIOUS
<1>3. Coherent(attempt[p], outcome[p], rows', txn')
  BY <1>1, <1>2, KnownStays
<1>4. outcome'[p] # "ok"
  BY DEF Decided
<1>5. Coherent(b, outcome'[p], rows', txn')
  BY <1>1, <1>3, <1>4, CallsFrom
<1> QED BY <1>2, <1>5, CallStep

\* If the activation lands, the receipt built from its clock reading is true.
LEMMA ActivateCalls ==
    ASSUME PInv, Inv', NEW p \in Sessions, NEW now \in Clock, CallActivate(p, now)
    PROVE  PInv'
<1>1. /\ attempt[p] \in Attempt /\ attempt \in [Sessions -> Attempt] /\ p \in Clients
      /\ AttemptOK(attempt[p], outcome[p]) /\ Inv /\ TypeOK /\ attempt[p].pc = "activate"
  BY DEF PInv, Inv, Coherent, Sessions, CallActivate, At
<1> PICK new : new = attempt[p].new
  OBVIOUS
<1> PICK old : old = attempt[p].old
  OBVIOUS
<1>2. new \in Records /\ old \in Records
  BY <1>1 DEF AttemptOK
<1>3. /\ ActivateRotation(p, new, old, now) /\ new # old
      /\ attempt' = [attempt EXCEPT ![p].pc = "activated", ![p].at = now]
  BY DEF CallActivate, ActivateRotation
<1>4. Decided(p, {})
  BY <1>1, <1>2, <1>3, PairDecides
<1> PICK b : b = [attempt[p] EXCEPT !.pc = "activated", !.at = now]
  OBVIOUS
<1>5. /\ b \in Attempt
      /\ b.pc = "activated" /\ b.new = new /\ b.old = old /\ b.at = now
      /\ b.confirmed = attempt[p].confirmed /\ b.told = attempt[p].told
  BY <1>1, StoredClock DEF Attempt, BeginSteps
<1>6. attempt' = [attempt EXCEPT ![p] = b]
  BY <1>1, <1>3
<1>7. outcome'[p] = "running" => ReceiptIn(txn'.after, b)
  <2> SUFFICES ASSUME outcome'[p] = "running" PROVE ReceiptIn(txn'.after, b)
    OBVIOUS
  <2>1. ActivateRotationVerdict(new, old, Stored(now), Stored(now + Overlap)) \in Verdicts
    BY DEF ActivateRotationVerdict, Verdicts
  <2>2. txn'.after = [rows EXCEPT ![old] = Retiring(@, Stored(now), Stored(now + Overlap)),
                                 ![new] = Activated(@, Stored(now))]
    BY <1>1, <1>3, <2>1, RunOpens DEF ActivateRotation
  <2> PICK after : after = txn'.after
    OBVIOUS
  <2>3. /\ after[old] = Retiring(rows[old], Stored(now), Stored(now + Overlap))
        /\ after[new] = Activated(rows[new], Stored(now))
    BY <1>1, <1>2, <1>3, <2>2 DEF TypeOK
  <2>4. rows[old] \in Row /\ rows[new] \in Row
    BY <1>1, <1>2 DEF TypeOK
  <2>5. /\ Stored(now) \in ColumnTimes /\ Stored(now + Overlap) \in ColumnTimes
    BY StoredClock, StoredDeadlines
  <2>6. /\ after[new].state = "active" /\ after[new].activatedAt = Stored(now)
        /\ after[old].retirementDeadline = Stored(now + Overlap)
    <3>1. /\ Activated(rows[new], Stored(now)).state = "active"
          /\ Activated(rows[new], Stored(now)).activatedAt = Stored(now)
      BY <2>4, <2>5, ActivatedFields
    <3>2. Retiring(rows[old], Stored(now), Stored(now + Overlap)).retirementDeadline
              = Stored(now + Overlap)
      BY <2>4, <2>5, RetiringFields
    <3> QED BY <2>3, <3>1, <3>2
  <2> QED BY <1>5, <2>6 DEF ReceiptIn
<1> QED BY <1>1, <1>4, <1>5, <1>6, <1>7, HandleCalls

\* If the abort lands, the staged record is revoked.
LEMMA AbortCalls ==
    ASSUME PInv, Inv', NEW p \in Sessions, NEW now \in Clock, CallAbort(p, now)
    PROVE  PInv'
<1>1. /\ attempt[p] \in Attempt /\ attempt \in [Sessions -> Attempt] /\ p \in Clients
      /\ AttemptOK(attempt[p], outcome[p]) /\ Inv /\ TypeOK /\ attempt[p].pc = "abort"
  BY DEF PInv, Inv, Coherent, Sessions, CallAbort, At
<1> PICK new : new = attempt[p].new
  OBVIOUS
<1>2. new \in Records /\ AbortStagedToken(p, new, now)
  BY <1>1 DEF AttemptOK, CallAbort
<1>3. Decided(p, {})
  BY <1>1, <1>2, SingleDecides
<1> PICK b : b = [attempt[p] EXCEPT !.pc = "aborted"]
  OBVIOUS
<1>4. /\ b \in Attempt
      /\ b.pc = "aborted" /\ b.new = new /\ b.old = attempt[p].old
      /\ b.confirmed = attempt[p].confirmed /\ b.told = attempt[p].told
  BY <1>1, MovedFields DEF BeginSteps
<1>5. attempt' = [attempt EXCEPT ![p] = b]
  BY <1>1 DEF CallAbort, Goto
<1>6. outcome'[p] = "running" => txn'.after[new].state = "revoked"
  <2> SUFFICES ASSUME outcome'[p] = "running" PROVE txn'.after[new].state = "revoked"
    OBVIOUS
  <2>1. AbortStagedVerdict(new, now) \in Verdicts
    BY DEF AbortStagedVerdict, Verdicts
  <2>2. txn'.after = [rows EXCEPT ![new] = Revoked(@, Stored(now))]
    BY <1>1, <1>2, <2>1, RunOpens DEF AbortStagedToken
  <2>3. txn'.after[new] = Revoked(rows[new], Stored(now)) /\ rows[new] \in Row
    BY <1>1, <1>2, <2>2 DEF TypeOK
  <2> QED BY <2>3, StoredClock, RevokedFields
<1> QED BY <1>1, <1>3, <1>4, <1>5, <1>6, HandleCalls

\* Rollback and finalize leave what the session knows as it is.
LEMMA MutationCalls ==
    ASSUME PInv, Inv', NEW p \in Sessions, NEW now \in Clock, CallMutation(p, now)
    PROVE  PInv'
<1>1. /\ attempt[p] \in Attempt /\ attempt \in [Sessions -> Attempt] /\ p \in Clients
      /\ AttemptOK(attempt[p], outcome[p]) /\ Inv
      /\ attempt[p].pc \in {"rollback", "finalize"} /\ Goto(p, "mutated")
  BY DEF PInv, Coherent, Sessions, CallMutation, At
<1>2. attempt[p].new \in Records /\ attempt[p].old \in Records
  BY <1>1 DEF AttemptOK
<1>3. Decided(p, {})
  BY <1>1, <1>2, PairDecides DEF CallMutation
<1> PICK b : b = [attempt[p] EXCEPT !.pc = "mutated"]
  OBVIOUS
<1>4. /\ b \in Attempt
      /\ b.pc = "mutated" /\ b.new = attempt[p].new /\ b.old = attempt[p].old
      /\ b.at = attempt[p].at
      /\ b.confirmed = attempt[p].confirmed /\ b.told = attempt[p].told
  BY <1>1, MovedFields DEF HandleSteps
<1>5. attempt' = [attempt EXCEPT ![p] = b]
  BY <1>1 DEF Goto
<1> QED BY <1>1, <1>3, <1>4, <1>5, HandleCalls

\* A call fails before its statements.
LEMMA FailedCall ==
    ASSUME PInv, Inv', NEW p \in Sessions, FailEarly(p), NEW b \in Attempt,
           attempt' = [attempt EXCEPT ![p] = b],
           b.new = attempt[p].new \/ \A q \in Sessions : attempt[q].new # b.new,
           Coherent(b, outcome'[p], rows, txn)
    PROVE  PInv'
<1>1. /\ rows' = rows /\ txn' = txn /\ outcome[p] # "running" /\ p \in Clients
      /\ \A q \in Sessions : q \in Clients
      /\ outcome \in [Clients -> Outcomes]
  BY DEF FailEarly, Sessions, PInv, Inv, TypeOK
<1>2. PICK error \in {"unavailable", "canceled", "unknown"} :
          outcome' = [outcome EXCEPT ![p] = error]
  BY DEF FailEarly
<1>3. outcome'[p] # "running" /\ \A q \in Clients : q # p => outcome'[q] = outcome[q]
  BY <1>1, <1>2
<1>4. Owned'
  BY <1>1, <1>3 DEF PInv, Owned
<1>5. \A q \in Sessions : q # p => Coherent(attempt[q], outcome'[q], rows', txn')
  BY <1>1, <1>3 DEF PInv
<1>6. Coherent(b, outcome'[p], rows', txn')
  BY <1>1
<1> QED BY <1>4, <1>5, <1>6, OneSession

\* A call that fails before its transaction is open changes no row.
LEMMA FailingCalls ==
    ASSUME PInv, Inv', NEW p \in Sessions, CallFails(p)
    PROVE  PInv'
<1>1. /\ attempt[p] \in Attempt /\ attempt \in [Sessions -> Attempt] /\ p \in Clients
      /\ AttemptOK(attempt[p], outcome[p]) /\ FailEarly(p) /\ NoRecord \notin Records
      /\ Coherent(attempt[p], outcome[p], rows, txn)
  BY ParticipantAssumption DEF PInv, Coherent, Sessions, CallFails
<1>2. outcome'[p] \in {"unavailable", "canceled", "unknown"}
  BY <1>1 DEF FailEarly, PInv, Inv, TypeOK
<1>3. CASE At(p, "create") /\ outcome'[p] # "unknown" /\ Goto(p, "created")
  <2> PICK b : b = [attempt[p] EXCEPT !.pc = "created"]
    OBVIOUS
  <2>1. /\ b \in Attempt
        /\ b.pc = "created" /\ b.new = attempt[p].new /\ b.old = attempt[p].old
        /\ b.confirmed = attempt[p].confirmed /\ b.told = attempt[p].told
    BY <1>1, MovedFields DEF BeginSteps
  <2>2. attempt' = [attempt EXCEPT ![p] = b] /\ attempt[p].pc = "create"
    BY <1>1, <1>3 DEF Goto, At
  <2>3. AttemptOK(b, outcome'[p]) /\ b.new \notin Records /\ ~b.confirmed /\ b.told = "none"
    BY <1>1, <1>2, <1>3, <2>1, <2>2 DEF AttemptOK, Definite, Holding, HandleSteps
  <2>4. b.old \in Records => rows[b.old].state # "absent" /\ rows[b.old].activatedAt > 0
    BY <1>1, <2>1 DEF Coherent
  <2>5. Coherent(b, outcome'[p], rows, txn)
    BY <2>1, <2>3, <2>4 DEF Coherent
  <2> QED BY <1>1, <2>1, <2>2, <2>5, FailedCall
<1>4. ASSUME NEW r \in Records, At(p, "create"), outcome'[p] = "unknown",
             Fresh(r), rows[r].state = "absent",
             attempt' = [attempt EXCEPT ![p].pc = "created", ![p].new = r]
      PROVE  PInv'
  <2> PICK b : b = [attempt[p] EXCEPT !.pc = "created", !.new = r]
    OBVIOUS
  <2>1. /\ b \in Attempt
        /\ b.pc = "created" /\ b.new = r /\ b.old = attempt[p].old
        /\ b.confirmed = attempt[p].confirmed /\ b.told = attempt[p].told
    BY <1>1 DEF Attempt, BeginSteps
  <2>2. attempt' = [attempt EXCEPT ![p] = b] /\ attempt[p].pc = "create"
    BY <1>1, <1>4 DEF At
  <2>3. AttemptOK(b, outcome'[p]) /\ ~b.confirmed /\ b.told = "none"
    BY <1>1, <1>4, <2>1, <2>2 DEF AttemptOK, Holding, HandleSteps
  <2>4. b.old \in Records => rows[b.old].state # "absent" /\ rows[b.old].activatedAt > 0
    BY <1>1, <2>1 DEF Coherent
  <2>5. BoundIn(rows, b) /\ BoundIn(txn.after, b)
    BY <1>4, <2>1 DEF BoundIn, Fresh
  <2>6. Coherent(b, outcome'[p], rows, txn)
    BY <1>4, <2>1, <2>3, <2>4, <2>5 DEF Coherent, Definite
  <2>7. \A q \in Sessions : attempt[q].new # b.new
    BY <1>4, <2>1 DEF Fresh
  <2> QED BY <1>1, <2>1, <2>2, <2>6, <2>7, FailedCall
<1>5. ASSUME NEW pc \in Awaiting, Goto(p, pc),
             \/ attempt[p].pc = "activate" /\ pc = "activated"
             \/ attempt[p].pc = "abort" /\ pc = "aborted"
             \/ attempt[p].pc \in {"rollback", "finalize"} /\ pc = "mutated"
      PROVE  PInv'
  <2> PICK b : b = [attempt[p] EXCEPT !.pc = pc]
    OBVIOUS
  <2>1. /\ b \in Attempt
        /\ b.pc = pc /\ b.new = attempt[p].new /\ b.old = attempt[p].old
        /\ b.at = attempt[p].at
        /\ b.confirmed = attempt[p].confirmed /\ b.told = attempt[p].told
    <3>1. pc \in {"idle", "failed", "held"} \cup BeginSteps \cup HandleSteps
      BY DEF BeginSteps, HandleSteps, Awaiting
    <3> QED BY <1>1, <3>1, MovedFields
  <2>2. attempt' = [attempt EXCEPT ![p] = b]
    BY <1>1, <1>5 DEF Goto
  <2> PICK res : res = outcome'[p]
    OBVIOUS
  <2>3. res # "ok" /\ res # "running"
    BY <1>2
  <2>4. Coherent(b, res, rows, txn)
    <3> PICK a : a = attempt[p]
      OBVIOUS
    <3>1. a \in Attempt /\ Coherent(a, outcome[p], rows, txn)
      BY <1>1
    <3>2. /\ b.new = a.new /\ b.old = a.old /\ b.at = a.at
          /\ b.told = a.told /\ b.confirmed = a.confirmed
      BY <2>1
    <3>3. \/ a.pc = "activate" /\ b.pc = "activated"
          \/ a.pc = "abort" /\ b.pc = "aborted"
          \/ a.pc \in {"rollback", "finalize"} /\ b.pc = "mutated" /\ b.at = a.at
      BY <1>5, <2>1
    <3> QED BY <2>1, <2>3, <3>1, <3>2, <3>3, CallsFrom
  <2> QED BY <1>1, <2>1, <2>2, <2>4, FailedCall
<1>6. CASE At(p, "activate") /\ Goto(p, "activated")
  BY <1>5, <1>6 DEF At, Awaiting
<1>7. CASE At(p, "abort") /\ Goto(p, "aborted")
  BY <1>5, <1>7 DEF At, Awaiting
<1>8. CASE attempt[p].pc \in {"rollback", "finalize"} /\ Goto(p, "mutated")
  BY <1>5, <1>8 DEF Awaiting
<1> QED BY <1>3, <1>4, <1>6, <1>7, <1>8 DEF CallFails

-----------------------------------------------------------------------------
(* The administrator and the environment.                                  *)

\* Only the administrator calls, and what it creates is no session's record.
LEMMA AdminCalls ==
    ASSUME PInv, Inv', NEW now \in Clock, AdminStep(now)
    PROVE  PInv'
<1>1. /\ attempt' = attempt /\ Admin \in Clients /\ Inv
      /\ \A q \in Sessions : q \in Clients /\ q # Admin
  BY ParticipantAssumption DEF AdminStep, Sessions, PInv
<1>2. ASSUME NEW S, Decided(Admin, S), \A q \in Sessions : attempt[q].new \notin S
      PROVE  PInv'
  <2>1. Owned'
    BY <1>1, <1>2, OwnerWaits
  <2>2. \A q \in Sessions : Coherent(attempt[q], outcome'[q], rows', txn')
    <3> SUFFICES ASSUME NEW q \in Sessions
                 PROVE  Coherent(attempt[q], outcome'[q], rows', txn')
      OBVIOUS
    <3>1. outcome'[q] = outcome[q]
      BY <1>1, <1>2 DEF Decided
    <3> QED BY <1>1, <1>2, <3>1, KnownStays
  <2> QED BY <1>1, <2>1, <2>2, NoSession
<1>3. ASSUME NEW r \in Records, NEW q \in Records, Fresh(r),
             CreateStagedToken(Admin, r, now) \/ CreateRotationStagedToken(Admin, r, q, now)
      PROVE  PInv'
  <2>1. Decided(Admin, {r})
    BY <1>1, <1>3, CreateDecides
  <2> QED BY <1>2, <1>3, <2>1 DEF Fresh
<1>4. ASSUME NEW r \in Records,
             ActivateInitialToken(Admin, r, now) \/ AbortStagedToken(Admin, r, now)
      PROVE  PInv'
  <2>1. Decided(Admin, {})
    BY <1>1, <1>4, SingleDecides
  <2> QED BY <1>2, <2>1
<1>5. ASSUME NEW r \in Records, NEW q \in Records, NEW reason,
             \/ ActivateRotation(Admin, r, q, now)
             \/ RollbackRotation(Admin, r, q, now)
             \/ FinalizeRotation(Admin, r, q, now, reason)
      PROVE  PInv'
  <2>1. Decided(Admin, {})
    BY <1>1, <1>5, PairDecides
  <2> QED BY <1>2, <2>1
<1> QED BY <1>3, <1>4, <1>5 DEF AdminStep, Repair

\* A transaction lands, is given up, or is left without its client.
LEMMA EnvironmentSteps ==
    ASSUME PInv, Inv', Environment
    PROVE  PInv'
<1>1. /\ attempt' = attempt /\ Inv /\ TypeOK /\ Owned
      /\ \A q \in Sessions : /\ q \in Clients /\ attempt[q] \in Attempt
                             /\ Coherent(attempt[q], outcome[q], rows, txn)
      /\ outcome \in [Clients -> Outcomes] /\ ~InFlight(NoTxn) /\ NoTxn.phase = "none"
  BY DEF Environment, PInv, Inv, TypeOK, Sessions, InFlight, NoTxn
<1>2. ASSUME NEW c \in Clients, Commit(c) PROVE PInv'
  <2>1. /\ txn.phase = "open" /\ txn.owner = c /\ rows' = txn.after /\ txn' = NoTxn
        /\ InFlight(txn)
        /\ outcome'[c] = "ok" /\ \A q \in Clients : q # c => outcome'[q] = outcome[q]
    BY <1>1, <1>2 DEF Commit, InFlight
  <2>2. SoundMove(rows, txn.after)
    BY <1>1, <2>1, InFlightMove
  <2>3. outcome[c] = "running" /\ \A q \in Clients : q # c => outcome[q] # "running"
    BY <1>1, <2>1 DEF Owned
  <2>4. Owned'
    BY <1>1, <2>1, <2>3 DEF Owned
  <2>5. ASSUME NEW q \in Sessions PROVE Coherent(attempt[q], outcome'[q], rows', txn')
    <3>1. CASE q = c
      <4>1. Coherent(attempt[q], "running", rows, txn)
        BY <1>1, <2>3, <3>1
      <4> QED BY <1>1, <2>1, <2>2, <3>1, <4>1, Acknowledged
    <3>2. CASE q # c
      BY <1>1, <2>1, <2>2, <2>3, <3>2, Landed
    <3> QED BY <3>1, <3>2
  <2> QED BY <1>1, <2>4, <2>5, NoSession
<1>3. ASSUME NEW c \in Clients, RollBack(c) \/ LoseReply(c) PROVE PInv'
  <2>1. /\ txn.phase = "open" /\ txn.owner = c /\ rows' = rows
        /\ outcome'[c] \in {"unavailable", "canceled", "unknown"}
        /\ \A q \in Clients : q # c => outcome'[q] = outcome[q]
    BY <1>1, <1>3 DEF RollBack, LoseReply
  <2>2. /\ txn'.phase # "open" /\ InFlight(txn)
        /\ InFlight(txn') => txn'.after = txn.after /\ outcome'[c] = "unknown"
    <3>1. CASE RollBack(c)
      BY <1>1, <2>1, <3>1 DEF RollBack, InFlight
    <3>2. CASE LoseReply(c)
      <4>1. PICK phase \in {"inDoubt", "doomed"} : txn' = [txn EXCEPT !.phase = phase]
        BY <3>2 DEF LoseReply
      <4>2. txn'.phase = phase /\ txn'.after = txn.after
        BY <1>1, <4>1 DEF TypeOK
      <4> QED BY <1>1, <2>1, <3>2, <4>2 DEF LoseReply, InFlight
    <3> QED BY <1>3, <3>1, <3>2
  <2>3. outcome[c] = "running" /\ \A q \in Clients : q # c => outcome[q] # "running"
    BY <1>1, <2>1 DEF Owned
  <2>4. Owned'
    BY <2>1, <2>2, <2>3 DEF Owned
  <2>5. ASSUME NEW q \in Sessions PROVE Coherent(attempt[q], outcome'[q], rows', txn')
    <3>1. CASE q = c
      <4>1. Coherent(attempt[q], "running", rows, txn)
        BY <1>1, <2>3, <3>1
      <4> QED BY SMTT(20), <1>1, <2>1, <2>2, <3>1, <4>1, Failed
    <3>2. CASE q # c
      BY <1>1, <2>1, <2>2, <2>3, <3>2, Unmoved
    <3> QED BY <3>1, <3>2
  <2> QED BY <1>1, <2>4, <2>5, NoSession
<1>4. ASSUME ServerCommits PROVE PInv'
  <2>1. /\ txn.phase = "inDoubt" /\ rows' = txn.after /\ txn' = NoTxn
        /\ InFlight(txn) /\ outcome' = outcome
    BY <1>4 DEF ServerCommits, InFlight
  <2>2. SoundMove(rows, txn.after)
    BY <1>1, <2>1, InFlightMove
  <2>3. \A q \in Clients : outcome[q] # "running"
    BY <1>1, <2>1 DEF Owned
  <2>4. Owned'
    BY <1>1, <2>1, <2>3 DEF Owned
  <2>5. ASSUME NEW q \in Sessions PROVE Coherent(attempt[q], outcome'[q], rows', txn')
    BY <1>1, <2>1, <2>2, <2>3, Landed
  <2> QED BY <1>1, <2>4, <2>5, NoSession
<1>5. ASSUME ServerAborts PROVE PInv'
  <2>1. /\ txn.phase # "open" /\ rows' = rows /\ txn' = NoTxn /\ outcome' = outcome
    BY <1>5 DEF ServerAborts
  <2>2. \A q \in Clients : outcome[q] # "running"
    BY <1>1, <2>1 DEF Owned
  <2>3. Owned'
    BY <1>1, <2>1, <2>2 DEF Owned
  <2>4. ASSUME NEW q \in Sessions PROVE Coherent(attempt[q], outcome'[q], rows', txn')
    BY <1>1, <2>1, <2>2, Unmoved
  <2> QED BY <1>1, <2>3, <2>4, NoSession
<1>6. ASSUME NEW enabled, NEW now, SetDestination(enabled, now) PROVE PInv'
  <2>1. rows' = rows /\ txn' = txn /\ outcome' = outcome
    BY <1>6 DEF SetDestination
  <2> QED BY <1>1, <2>1, NoSession DEF Owned
<1> QED BY <1>2, <1>3, <1>4, <1>5, <1>6 DEF Environment, Settle

-----------------------------------------------------------------------------
(* The theorems.                                                           *)

\* The invariant holds before anyone calls.
LEMMA PInitInv == PInit => PInv
<1> SUFFICES ASSUME PInit PROVE PInv
  OBVIOUS
<1>1. Init /\ attempt = [p \in Sessions |-> NoAttempt] /\ NoRecord \notin Records
  BY ParticipantAssumption DEF PInit
<1>2. Inv
  BY <1>1, InitInv
<1>3. NoAttempt \in Attempt
  BY DEF NoAttempt, Attempt
<1>4. \A c \in Clients : outcome[c] = "none"
  BY <1>1 DEF Init
<1>5. Owned
  BY <1>1, <1>4 DEF Owned, Init, NoTxn
<1>6. /\ NoAttempt.pc = "idle" /\ NoAttempt.new = NoRecord /\ NoAttempt.old = NoRecord
      /\ NoAttempt.confirmed = FALSE /\ NoAttempt.told = "none"
  BY DEF NoAttempt
<1>7. ASSUME NEW p \in Sessions PROVE Coherent(attempt[p], outcome[p], rows, txn)
  <2>1. attempt[p] = NoAttempt /\ outcome[p] = "none"
    BY <1>1, <1>4 DEF Sessions
  <2>2. AttemptOK(NoAttempt, "none")
    BY <1>1, <1>6 DEF AttemptOK
  <2>3. Coherent(NoAttempt, "none", rows, txn)
    BY <1>1, <1>6, <2>2 DEF Coherent
  <2> QED BY <2>1, <2>3
<1> QED BY <1>1, <1>2, <1>3, <1>5, <1>6, <1>7 DEF PInv

\* Every step of the participant preserves it.
LEMMA PNextInv == PInv /\ [PNext]_pvars => PInv'
<1> SUFFICES ASSUME PInv, [PNext]_pvars PROVE PInv'
  OBVIOUS
<1>1. Inv'
  <2>1. [Next]_vars
    BY StepIsNext
  <2> QED BY <2>1, NextInv DEF PInv
<1>2. ASSUME NEW p \in Sessions, NEW now \in Clock,
             ResolveToken(p, now) \/ SessionStep(p, now)
                \/ Observe(p, now) \/ CheckPair(p, now)
      PROVE  PInv'
  BY <1>1, <1>2, BeginMoves, InspectMoves, CreateCalls, AfterCreateMoves, ActivateCalls,
     AfterActivateMoves, AbortCalls, AfterAbortMoves, MutationCalls, HandleMoves,
     FailingCalls, ObserveMoves
  DEF SessionStep
<1>3. ASSUME NEW now \in Clock, AdminStep(now) PROVE PInv'
  BY <1>1, <1>3, AdminCalls
<1>4. CASE Environment
  BY <1>1, <1>4, EnvironmentSteps
<1>5. CASE UNCHANGED pvars
  <2>1. rows' = rows /\ txn' = txn /\ outcome' = outcome /\ attempt' = attempt
    BY <1>5 DEF pvars
  <2>2. Owned' /\ \A q \in Sessions : Coherent(attempt[q], outcome'[q], rows', txn')
    BY <2>1 DEF PInv, Owned
  <2> QED BY <1>1, <2>1, <2>2, NoSession
<1> QED BY <1>2, <1>3, <1>4, <1>5 DEF PNext

\* The inductive invariant: what each session believes agrees with the
\* committed rows and with whatever commit is still in flight, however many
\* sessions of however many gateway instances and an administrator interleave.
THEOREM ParticipantInvariance == PSpec => []PInv
  BY PInitInv, PNextInv, PTL DEF PSpec

\* Whatever the participant does is something the lifecycle allows, so every
\* theorem about the lifecycle is one about the participant's rows.
THEOREM ParticipantIsLifecycle == PSpec => Spec
<1>1. PInit => Init
  BY DEF PInit
<1>2. PInv /\ [PNext]_pvars => [Next]_vars
  BY StepIsNext
<1> QED BY <1>1, <1>2, ParticipantInvariance, PTL DEF PSpec, Spec

\* A BeginRotation that fails without a handle leaves no record that is live
\* or will be: only definite answers and a confirmed abort lead there.
THEOREM OrphanSafety == PSpec => []NoOrphan
<1>1. PInv => NoOrphan
  BY ParticipantAssumption DEF PInv, Coherent, NoOrphan, NeverLive, At, Attempt
<1> QED BY <1>1, ParticipantInvariance, PTL

\* The timestamps of a confirmed attempt are the committed ones, for as long
\* as the pair lasts.
THEOREM ReceiptSafety == PSpec => []ReceiptTrue
<1>1. PInv => ReceiptTrue
  BY DEF PInv, Coherent, ReceiptIn, ReceiptTrue
<1> QED BY <1>1, ParticipantInvariance, PTL

\* A handle's new record was staged while the handle's old record was active,
\* although the participant read that record without the lock.
THEOREM HandleSafety == PSpec => []HandleBound
<1>1. PInv => HandleBound
  <2> SUFFICES ASSUME PInv, NEW p \in Sessions, At(p, "held"),
                      rows[attempt[p].new].state # "absent"
               PROVE  /\ rows[attempt[p].old].activatedAt > 0
                      /\ rows[attempt[p].old].activatedAt <= rows[attempt[p].new].createdAt
                      /\ rows[attempt[p].new].state = "staged" =>
                            rows[attempt[p].old].state = "active"
    BY DEF HandleBound
  <2>1. Coherent(attempt[p], outcome[p], rows, txn)
    BY DEF PInv
  <2>2. attempt[p].new \in Records /\ attempt[p].old \in Records
    BY <2>1 DEF Coherent, AttemptOK, At
  <2> QED BY <2>1, <2>2 DEF Coherent, BoundIn
<1> QED BY <1>1, ParticipantInvariance, PTL

\* What ObserveRotation reported as rolled back or completed stays so,
\* although it reads without the lock while commits are in flight.
THEOREM TerminalSafety == PSpec => []TerminalFinal
<1>1. PInv => TerminalFinal
  <2> SUFFICES ASSUME PInv, NEW p \in Sessions
               PROVE  /\ attempt[p].told = "rolledBack" => NeverLive(attempt[p].new)
                      /\ attempt[p].told = "completed" => NeverLive(attempt[p].old)
    BY DEF TerminalFinal
  <2>1. Coherent(attempt[p], outcome[p], rows, txn) /\ Inv
    BY DEF PInv
  <2>2. attempt[p].told # "none" => attempt[p].new \in Records /\ attempt[p].old \in Records
    BY <2>1 DEF Coherent, AttemptOK, Holding, HandleSteps
  <2> QED BY <2>1, <2>2, RevokedIsDead DEF Coherent, NeverLive
<1> QED BY <1>1, ParticipantInvariance, PTL
=============================================================================
