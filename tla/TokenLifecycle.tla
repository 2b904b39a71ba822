--------------------------- MODULE TokenLifecycle ---------------------------
(***************************************************************************)
(* The destination-token lifecycle repository and service                  *)
(* (postgres/destination_token_lifecycle.go,                               *)
(* securitystate/destination_lifecycle.go) for one destination.            *)
(*                                                                         *)
(* Every mutation is one transaction: it locks the destination row, loads  *)
(* the live token rows, decides, sends its statements and commits.  The    *)
(* caller's time `now' is read before the lock is requested and instances  *)
(* have clocks of their own, so `now' is an input of the operation and may *)
(* be older than what the rows say.  While the lock is held no other       *)
(* transaction touches the rows, so lock, load, decision and statements    *)
(* are one step; the commit, its loss, and the rollback are others.        *)
(***************************************************************************)
EXTENDS DestinationToken

CONSTANTS
    Clients,    \* concurrent callers of the lifecycle service
    NoClient

ASSUME ClientAssumption == NoClient \notin Clients

VARIABLES
    rows,      \* committed token rows, by record identity
    dest,      \* the destination row: enabled, stateChangedAt
    txn,       \* the server-side transaction holding the destination row lock
    outcome    \* what each caller's last operation returned

vars == <<rows, dest, txn, outcome>>

Phases == {"none", "open", "inDoubt", "doomed"}

\* Errors after which the code claims that nothing was committed.
Definite == {"conflict", "reconciliation", "unavailable", "canceled"}

Outcomes == {"none", "running", "ok", "unknown"} \cup Definite

NoTxn == [phase |-> "none", owner |-> NoClient, after |-> [r \in Records |-> NoRow]]

Init ==
    /\ rows = [r \in Records |-> NoRow]
    /\ dest = [enabled |-> TRUE, stateChangedAt |-> Stored(Epoch)]
    /\ txn = NoTxn
    /\ outcome = [p \in Clients |-> "none"]

-----------------------------------------------------------------------------
(* What each mutation decides once the rows are locked and loaded.  The    *)
(* answer is "proceed" or the error it returns.                           *)

CreateStagedVerdict(now) ==
    LET status == Status(rows, dest, now)
    IN  IF status = "unprovisioned" THEN "proceed"
        ELSE IF status \in {"unreadable", "reconciliationRequired"} THEN "reconciliation"
        ELSE "conflict"

\* Mutant: the expected active record is not compared under the lock.
CreateRotationUnbound(active, now) ==
    IF Status(rows, dest, now) = "active" THEN "proceed" ELSE "conflict"

\* Mutant: a pending staged token does not stop another one.
CreateRotationTwice(active, now) ==
    IF /\ Status(rows, dest, now) \in {"active", "activeWithStaged"}
       /\ rows[active].state = "active"
    THEN "proceed" ELSE "conflict"

CreateRotationVerdict(active, now) ==
    LET status == Status(rows, dest, now)
    IN  IF status \in {"unreadable", "reconciliationRequired"} THEN "reconciliation"
        ELSE IF status = "active" /\ rows[active].state = "active" THEN "proceed"
        ELSE "conflict"

ActivateInitialVerdict(staged, now) ==
    LET status == Status(rows, dest, now)
    IN  IF status \in {"unreadable", "reconciliationRequired"} THEN "reconciliation"
        ELSE IF status = "stagedInitial" /\ rows[staged].state = "staged" THEN "proceed"
        ELSE "conflict"

ActivateRotationVerdict(staged, active, at, deadline) ==
    LET status == Status(rows, dest, at)
    IN  IF status \in {"unreadable", "reconciliationRequired"} THEN "reconciliation"
        ELSE IF /\ status = "activeWithStaged"
                /\ rows[staged].state = "staged"
                /\ rows[active].state = "active"
                /\ deadline < rows[staged].expiresAt
                /\ deadline < rows[active].expiresAt
             THEN "proceed"
        ELSE "conflict"

\* lifecycleStagedAbortAllowed when the snapshot is stale: the staged row
\* itself has run out, and nothing else is wrong.
OverdueCleanupAllowed(staged, now) ==
    /\ dest.enabled
    /\ rows[staged].stateChangedAt <= now
    /\ rows[staged].expiresAt <= now \/ rows[staged].cleanupDeadline <= now
    /\ \A a \in Records : rows[a].state = "active" =>
          /\ rows[a].activatedAt <= now
          /\ rows[a].stateChangedAt <= now
          /\ now < rows[a].expiresAt

\* Mutant: the snapshot's status stands for the state of the given record.
AbortAnyVerdict(staged, now) ==
    IF Status(rows, dest, now) = "activeWithStaged" THEN "proceed" ELSE "conflict"

AbortStagedVerdict(staged, now) ==
    LET status == Status(rows, dest, now)
    IN  IF status = "unreadable" THEN "reconciliation"
        ELSE IF rows[staged].state # "staged" \/ Has(rows, "retiring") THEN "conflict"
        ELSE IF status \in {"stagedInitial", "activeWithStaged"} THEN "proceed"
        ELSE IF OverdueCleanupAllowed(staged, now) THEN "proceed"
        ELSE "reconciliation"

\* Mutant: the caller's clock may be behind the activation.
RotationPairEarly(new, old, now, allowRetiringStale) ==
    IF ~(rows[new].state = "active" /\ rows[old].state = "retiring") THEN "conflict"
    ELSE IF /\ dest.enabled
            /\ now < rows[new].expiresAt
            /\ SameActivation(rows[new], rows[old])
            /\ allowRetiringStale \/ now < rows[old].expiresAt
         THEN "proceed"
    ELSE "reconciliation"

\* lifecycleRotationPair
RotationPairVerdict(new, old, now, allowRetiringStale) ==
    IF Unreadable(rows, dest, now) THEN "reconciliation"
    ELSE IF ~(rows[new].state = "active" /\ rows[old].state = "retiring")
         THEN "conflict"
    ELSE IF /\ dest.enabled
            /\ now < rows[new].expiresAt
            /\ rows[new].activatedAt <= now
            /\ rows[old].activatedAt <= now
            /\ SameActivation(rows[new], rows[old])
            /\ allowRetiringStale \/ now < rows[old].expiresAt
         THEN "proceed"
    ELSE "reconciliation"

\* Mutant: an overdue pair is rolled back the way it is finalized.
RollbackOverdue(new, old, now) == RotationPairVerdict(new, old, now, TRUE)

\* Mutant: off by one at the retirement deadline.
RollbackAtDeadline(new, old, now) ==
    LET pair == RotationPairVerdict(new, old, now, FALSE)
    IN  IF pair = "proceed" /\ rows[old].retirementDeadline < now
        THEN "conflict" ELSE pair

RollbackVerdict(new, old, now) ==
    LET pair == RotationPairVerdict(new, old, now, FALSE)
    IN  IF pair = "proceed" /\ rows[old].retirementDeadline <= now
        THEN "conflict" ELSE pair

FinalizeVerdict(new, old, now, reason) ==
    LET pair == RotationPairVerdict(new, old, now, TRUE)
    IN  IF pair = "proceed" /\ reason = "deadlineElapsed"
               /\ now < rows[old].retirementDeadline
        THEN "conflict" ELSE pair

-----------------------------------------------------------------------------
(* What its statements leave in the rows.                                  *)

StagedRow(now) ==
    [state |-> "staged", createdAt |-> Stored(now),
     expiresAt |-> Stored(now + Lifetime), cleanupDeadline |-> Stored(now + Cleanup),
     activatedAt |-> 0, retirementStartedAt |-> 0, retirementDeadline |-> 0,
     revokedAt |-> 0, stateChangedAt |-> Stored(now)]

Activated(row, at) ==
    [row EXCEPT !.state = "active", !.activatedAt = at, !.stateChangedAt = at]

Retiring(row, at, deadline) ==
    [row EXCEPT !.state = "retiring", !.retirementStartedAt = at,
                !.retirementDeadline = deadline, !.stateChangedAt = at]

Revoked(row, at) ==
    [row EXCEPT !.state = "revoked", !.revokedAt = at, !.stateChangedAt = at]

Restored(row, at) ==
    [row EXCEPT !.state = "active", !.retirementStartedAt = 0,
                !.retirementDeadline = 0, !.stateChangedAt = at]

-----------------------------------------------------------------------------
(* runLifecycleMutation up to the commit.                                  *)

\* A refused mutation rolls back; if that is not confirmed the connection is
\* destroyed and the server keeps the lock until it notices.
Run(p, verdict, after) ==
    /\ txn.phase = "none"
    /\ outcome[p] # "running"
    /\ \/ /\ verdict = "proceed"
          /\ txn' = [phase |-> "open", owner |-> p, after |-> after]
          /\ outcome' = [outcome EXCEPT ![p] = "running"]
       \/ /\ verdict # "proceed"
          /\ txn' = txn
          /\ outcome' = [outcome EXCEPT ![p] = verdict]
       \/ /\ verdict # "proceed"
          /\ txn' = [phase |-> "doomed", owner |-> p, after |-> rows]
          /\ outcome' = [outcome EXCEPT ![p] = "unknown"]
    /\ UNCHANGED <<rows, dest>>

\* The service generates a fresh record identity for a staged token.
CreateStagedToken(p, new, now) ==
    /\ rows[new].state = "absent"
    /\ Run(p, CreateStagedVerdict(now), [rows EXCEPT ![new] = StagedRow(now)])

CreateRotationStagedToken(p, new, active, now) ==
    /\ rows[new].state = "absent"
    /\ Run(p, CreateRotationVerdict(active, now), [rows EXCEPT ![new] = StagedRow(now)])

ActivateInitialToken(p, staged, now) ==
    Run(p, ActivateInitialVerdict(staged, now),
        [rows EXCEPT ![staged] = Activated(@, Stored(now))])

\* The service canonicalises its clock reading before the command is built.
ActivateRotation(p, staged, active, now) ==
    LET at == Stored(now)
        deadline == Stored(now + Overlap)
    IN  /\ staged # active
        /\ Run(p, ActivateRotationVerdict(staged, active, at, deadline),
               [rows EXCEPT ![active] = Retiring(@, at, deadline),
                            ![staged] = Activated(@, at)])

AbortStagedToken(p, staged, now) ==
    Run(p, AbortStagedVerdict(staged, now),
        [rows EXCEPT ![staged] = Revoked(@, Stored(now))])

RollbackRotation(p, new, old, now) ==
    /\ new # old
    /\ Run(p, RollbackVerdict(new, old, now),
           [rows EXCEPT ![new] = Revoked(@, Stored(now)),
                        ![old] = Restored(@, Stored(now))])

FinalizeRotation(p, new, old, now, reason) ==
    /\ new # old
    /\ Run(p, FinalizeVerdict(new, old, now, reason),
           [rows EXCEPT ![old] = Revoked(@, Stored(now))])

\* The connection, the transaction or the load fails, or the caller's context
\* ends first, perhaps while it waits for the lock.  Nothing was sent, but the
\* outcome is called unknown when the rollback is not confirmed.
FailEarly(p) ==
    /\ outcome[p] # "running"
    /\ \E error \in {"unavailable", "canceled", "unknown"} :
          outcome' = [outcome EXCEPT ![p] = error]
    /\ UNCHANGED <<rows, dest, txn>>

-----------------------------------------------------------------------------
(* The end of a transaction.                                               *)

Commit(p) ==
    /\ txn.phase = "open" /\ txn.owner = p
    /\ rows' = txn.after
    /\ txn' = NoTxn
    /\ outcome' = [outcome EXCEPT ![p] = "ok"]
    /\ UNCHANGED dest

\* A statement failed and the rollback is confirmed, or COMMIT was answered
\* with ROLLBACK (pgx.ErrTxCommitRollback).
RollBack(p) ==
    /\ txn.phase = "open" /\ txn.owner = p
    /\ txn' = NoTxn
    /\ \E error \in {"unavailable", "canceled", "unknown"} :
          outcome' = [outcome EXCEPT ![p] = error]
    /\ UNCHANGED <<rows, dest>>

\* COMMIT was sent but not acknowledged ("inDoubt"), or the connection died
\* before COMMIT and the rollback was not acknowledged ("doomed").
LoseReply(p) ==
    /\ txn.phase = "open" /\ txn.owner = p
    /\ \E phase \in {"inDoubt", "doomed"} : txn' = [txn EXCEPT !.phase = phase]
    /\ outcome' = [outcome EXCEPT ![p] = "unknown"]
    /\ UNCHANGED <<rows, dest>>

\* The server completes a COMMIT whose client is gone.
ServerCommits ==
    /\ txn.phase = "inDoubt"
    /\ rows' = txn.after
    /\ txn' = NoTxn
    /\ UNCHANGED <<dest, outcome>>

ServerAborts ==
    /\ txn.phase \in {"inDoubt", "doomed"}
    /\ txn' = NoTxn
    /\ UNCHANGED <<rows, dest, outcome>>

\* No code of the gateway writes the destination row; an operator does.
SetDestination(enabled, now) ==
    /\ txn.phase = "none"
    /\ dest.enabled # enabled
    /\ dest.stateChangedAt <= Stored(now)
    /\ dest' = [enabled |-> enabled, stateChangedAt |-> Stored(now)]
    /\ UNCHANGED <<rows, txn, outcome>>

Operation(p, now) ==
    \/ \E r \in Records :
          \/ CreateStagedToken(p, r, now)
          \/ ActivateInitialToken(p, r, now)
          \/ AbortStagedToken(p, r, now)
    \/ \E r, q \in Records :
          \/ CreateRotationStagedToken(p, r, q, now)
          \/ ActivateRotation(p, r, q, now)
          \/ RollbackRotation(p, r, q, now)
          \/ \E reason \in {"verifiedAndDrained", "deadlineElapsed"} :
                FinalizeRotation(p, r, q, now, reason)

Settle(p) == Commit(p) \/ RollBack(p) \/ LoseReply(p)

Next ==
    \/ \E p \in Clients, now \in Clock : Operation(p, now)
    \/ \E p \in Clients : FailEarly(p) \/ Settle(p)
    \/ ServerCommits
    \/ ServerAborts
    \/ \E enabled \in BOOLEAN, now \in Clock : SetDestination(enabled, now)

Spec == Init /\ [][Next]_vars

-----------------------------------------------------------------------------
(* Properties.                                                             *)

\* Every variable has its type: rows keep column values, the lock is held by
\* at most one transaction, and each caller has one of the known outcomes.
TypeOK ==
    /\ rows \in [Records -> Row]
    /\ dest \in [enabled : BOOLEAN, stateChangedAt : ColumnTimes]
    /\ txn \in [phase : Phases, owner : Clients \cup {NoClient},
                after : [Records -> Row]]
    /\ outcome \in [Clients -> Outcomes]

\* The rows satisfy every CHECK and partial unique index of the table, and
\* NewDestinationLifecycleSnapshot can classify them: one staged, one active
\* and one retiring row at most, a retiring row only beside the active row of
\* the same activation and never beside a staged one.
Readable(rs) ==
    /\ \A r \in Records : rs[r].state # "absent" => ValidToken(rs[r])
    /\ \A s \in LiveStates : Unique(rs, s)
    /\ Has(rs, "retiring") => ~Has(rs, "staged") /\ Has(rs, "active")
    /\ \A a, b \in Records :
          rs[a].state = "active" /\ rs[b].state = "retiring" =>
              SameActivation(rs[a], rs[b])

\* Committed rows can always be loaded and classified, however calls with
\* unsynchronised clocks, lost commits and late commits interleave: the
\* repository never writes itself into a state its own reader rejects.
RowsReadable == Readable(rows)

\* An overlap ends before either token expires, and the new token was created
\* while the old one was active and activated before its cleanup deadline:
\* the history that ObserveRotation demands of an activated pair
\* (validRotationPairViews, validActivatedRotationHistory).
PairHistory(new, old) ==
    /\ old.retirementDeadline < new.expiresAt
    /\ old.retirementDeadline < old.expiresAt
    /\ old.activatedAt <= new.createdAt
    /\ new.activatedAt < new.cleanupDeadline

\* Every active-with-retiring pair that ActivateRotation commits has that
\* history, so observation can recognise it for as long as it lasts.
PairsObservable ==
    \A a, b \in Records :
        rows[a].state = "active" /\ rows[b].state = "retiring" =>
            PairHistory(rows[a], rows[b])

\* A step from the rows rs to the rows ss rewrites no history: a revoked row
\* is final, the creation facts and the activation time never change, and no
\* state change is dated before the one it follows.
HistoryKept(rs, ss) ==
    \A r \in Records : rs[r].state # "absent" =>
        /\ rs[r].state = "revoked" => ss[r] = rs[r]
        /\ ss[r].state # "absent"
        /\ ss[r].createdAt = rs[r].createdAt
        /\ ss[r].expiresAt = rs[r].expiresAt
        /\ ss[r].cleanupDeadline = rs[r].cleanupDeadline
        /\ rs[r].activatedAt > 0 => ss[r].activatedAt = rs[r].activatedAt
        /\ rs[r].stateChangedAt <= ss[r].stateChangedAt

\* Committed history is never rewritten, although callers with older clocks
\* reach the lock after callers with newer ones.
HistoryNeverRewritten == [][HistoryKept(rows, rows')]_rows

\* A step keeps the destination served: an active row stays or is replaced,
\* and if a token was usable at the instant the step is dated then one is
\* usable at that instant afterwards.
ServiceKept(rs, ss, enabled) ==
    /\ Has(rs, "active") => Has(ss, "active")
    /\ \A c, r \in Records :
          ss[c] # rs[c] /\ UsableAt(rs[r], enabled, ss[c].stateChangedAt) =>
              \E q \in Records : UsableAt(ss[q], enabled, ss[c].stateChangedAt)

\* No lifecycle operation interrupts intake: activation, rollback, abort and
\* finalization hand the destination from one usable token to the next.
IntakeUninterrupted == [][ServiceKept(rows, rows', dest.enabled)]_rows

\* A retiring row leaves that state by being restored strictly before its
\* retirement deadline, or by being revoked.
RetirementEnds(rs, ss) ==
    \A r \in Records : rs[r].state = "retiring" /\ ss[r] # rs[r] =>
        \/ /\ ss[r].state = "active"
           /\ ss[r].stateChangedAt < rs[r].retirementDeadline
        \/ ss[r].state = "revoked"

\* The "strict R < G" fact that exactRolledBackAttempt relies on but cannot
\* see, because a rollback erases the deadline it was checked against.
RollbackBeforeDeadline == [][RetirementEnds(rows, rows')]_rows

-----------------------------------------------------------------------------
(* The lifecycle implements RotationProtocol: a commit, acknowledged or    *)
(* not, is one protocol step and every other step is a stutter.            *)

StatesOf(rs) == [r \in Records |-> rs[r].state]

Protocol == INSTANCE RotationProtocol WITH state <- StatesOf(rows)

\* Whatever clocks, lost commits and late commits do, the committed states of
\* the rows only move the way the rotation protocol allows.
ImplementsProtocol == Protocol!ProtocolSpec

-----------------------------------------------------------------------------
(* The inductive invariant behind these properties.                        *)

\* A staged token is created after the last change of the active one.
StagedFollowsActive(rs) ==
    \A a, b \in Records :
        rs[a].state = "active" /\ rs[b].state = "staged" =>
            rs[a].stateChangedAt <= rs[b].createdAt

Sound(rs) ==
    /\ Readable(rs)
    /\ \A a, b \in Records :
          rs[a].state = "active" /\ rs[b].state = "retiring" =>
              PairHistory(rs[a], rs[b])
    /\ StagedFollowsActive(rs)

\* The transaction that holds the lock takes the committed rows, as they are
\* now, one sound step further: nobody changed them since it read them.
Pending ==
    txn.phase \in {"open", "inDoubt"} =>
        /\ Sound(txn.after)
        /\ HistoryKept(rows, txn.after)
        /\ ServiceKept(rows, txn.after, dest.enabled)
        /\ RetirementEnds(rows, txn.after)
        /\ Protocol!ProtocolStep(StatesOf(rows), StatesOf(txn.after))

\* Inductive: committed rows are sound, and so is the pending transaction.
Inv == TypeOK /\ Sound(rows) /\ Pending
=============================================================================
