------------------------ MODULE RotationParticipant -------------------------
(***************************************************************************)
(* The gateway side of a cross-repository rotation                         *)
(* (securitystate/destination_rotation_participant.go) on top of the       *)
(* lifecycle transactions.  A session is one BeginRotation call and, when  *)
(* it returned a handle, the later calls made with that handle.  Sessions  *)
(* of several gateway instances run concurrently with an administrator who *)
(* may call every lifecycle operation.  Each call of a dependency is a     *)
(* step of its own, with its own reading of a clock.                       *)
(***************************************************************************)
EXTENDS RotationAttempt

CONSTANTS
    Admin,       \* the client that provisions and repairs tokens
    Repairs,     \* BOOLEAN: it also aborts, rotates, rolls back and finalizes
    Switches,    \* what an operator sets `enabled' to: BOOLEAN, or {TRUE}
    NoRecord

ASSUME ParticipantAssumption ==
    /\ Admin \in Clients /\ NoRecord \notin Records
    /\ Repairs \in BOOLEAN /\ Switches \subseteq BOOLEAN

VARIABLE attempt     \* attempt[p]: the local state of session p

pvars == <<rows, dest, txn, outcome, attempt>>

Sessions == Clients \ {Admin}

\* Where a session is: about to make the named call, or waiting for it.
BeginSteps == {"inspect", "create", "created", "activate", "activated",
               "abort", "aborted"}
HandleSteps == {"rollback", "finalize", "mutated"}

NoAttempt == [pc |-> "idle", new |-> NoRecord, old |-> NoRecord, at |-> 0,
              confirmed |-> FALSE, told |-> "none"]

PInit == Init /\ attempt = [p \in Sessions |-> NoAttempt]

At(p, pc) == attempt[p].pc = pc

Goto(p, pc) == attempt' = [attempt EXCEPT ![p].pc = pc]

Returned(p) == outcome[p] # "running"

\* Record identities are generated, never reused.
Fresh(r) ==
    /\ \A p \in Sessions : attempt[p].new # r
    /\ txn.after[r].state = "absent"

-----------------------------------------------------------------------------
(* BeginRotation.  A context can be found cancelled at every check.        *)

\* Resolve: the caller presents a token of the destination that is usable.
Resolves(now) == \E r \in Records : UsableAt(rows[r], dest.enabled, now)

ResolveToken(p, now) ==
    /\ At(p, "idle")
    /\ Resolves(now)
    /\ Goto(p, "inspect")
    /\ UNCHANGED vars

\* rotationBeginActive on a lock-free snapshot.
InspectActive(p, now) ==
    /\ At(p, "inspect")
    /\ Status(rows, dest, now) = "active"
    /\ \E r \in Records :
          /\ rows[r].state = "active"
          /\ attempt' = [attempt EXCEPT ![p].pc = "create", ![p].old = r]
    /\ UNCHANGED vars

\* An error or a cancellation before any mutation.
GiveUp(p) ==
    /\ At(p, "inspect")
    /\ Goto(p, "failed")
    /\ UNCHANGED vars

CallCreate(p, new, now) ==
    /\ At(p, "create")
    /\ Fresh(new)
    /\ CreateRotationStagedToken(p, new, attempt[p].old, now)
    /\ attempt' = [attempt EXCEPT ![p].pc = "created", ![p].new = new]

\* Only an unknown outcome comes with the record identity, hence a handle.
AfterCreate(p) ==
    /\ At(p, "created") /\ Returned(p)
    /\ \/ outcome[p] = "ok" /\ \E pc \in {"activate", "abort"} : Goto(p, pc)
       \/ outcome[p] = "unknown" /\ Goto(p, "held")
       \/ outcome[p] \in Definite /\ Goto(p, "failed")
    /\ UNCHANGED vars

CallActivate(p, now) ==
    /\ At(p, "activate")
    /\ ActivateRotation(p, attempt[p].new, attempt[p].old, now)
    /\ attempt' = [attempt EXCEPT ![p].pc = "activated", ![p].at = now]

\* receipt.validAt
OverlapOpen(p, now) ==
    /\ Stored(attempt[p].at) <= now
    /\ now < Stored(attempt[p].at + Overlap)

\* Mutant: an unacknowledged activation is confirmed.
AfterActivateUnknown(p, now) ==
    /\ At(p, "activated") /\ Returned(p)
    /\ \/ /\ outcome[p] \in {"ok", "unknown"} /\ OverlapOpen(p, now)
          /\ attempt' = [attempt EXCEPT ![p].pc = "held", ![p].confirmed = TRUE]
       \/ outcome[p] \in Definite /\ Goto(p, "abort")
    /\ UNCHANGED vars

AfterActivate(p, now) ==
    /\ At(p, "activated") /\ Returned(p)
    /\ \/ /\ outcome[p] = "ok" /\ OverlapOpen(p, now)
          /\ attempt' = [attempt EXCEPT ![p].pc = "held", ![p].confirmed = TRUE]
       \/ outcome[p] \in {"ok", "unknown"} /\ Goto(p, "held")
       \/ outcome[p] \in Definite /\ Goto(p, "abort")
    /\ UNCHANGED vars

\* abortCreatedStaged, under a context detached from the caller's.
CallAbort(p, now) ==
    /\ At(p, "abort")
    /\ AbortStagedToken(p, attempt[p].new, now)
    /\ Goto(p, "aborted")

\* Mutant: the result of the compensating abort is ignored.
AfterAbortIgnored(p) ==
    /\ At(p, "aborted") /\ Returned(p)
    /\ Goto(p, "failed")
    /\ UNCHANGED vars

\* Mutant: only a confirmed abort is handled.
AfterAbortStuck(p) ==
    /\ At(p, "aborted") /\ outcome[p] = "ok"
    /\ Goto(p, "failed")
    /\ UNCHANGED vars

AfterAbort(p) ==
    /\ At(p, "aborted") /\ Returned(p)
    /\ Goto(p, IF outcome[p] = "ok" THEN "failed" ELSE "held")
    /\ UNCHANGED vars

-----------------------------------------------------------------------------
(* Calls with a handle.                                                    *)

Observe(p, now) ==
    /\ At(p, "held")
    /\ Classify(attempt[p].new, attempt[p].old, now) \in {"rolledBack", "completed"}
    /\ attempt' = [attempt EXCEPT
                      ![p].told = Classify(attempt[p].new, attempt[p].old, now)]
    /\ UNCHANGED vars

\* RollbackRotation and FinalizeRotation up to the lifecycle call.
CheckPair(p, now) ==
    /\ At(p, "held")
    /\ Classify(attempt[p].new, attempt[p].old, now) = "activeWithRetiring"
    /\ Goto(p, IF now < rows[attempt[p].old].retirementDeadline
               THEN "rollback" ELSE "finalize")
    /\ UNCHANGED vars

CallMutation(p, now) ==
    LET new == attempt[p].new
        old == attempt[p].old
    IN  /\ \/ At(p, "rollback") /\ RollbackRotation(p, new, old, now)
           \/ At(p, "finalize") /\ FinalizeRotation(p, new, old, now, "deadlineElapsed")
        /\ Goto(p, "mutated")

AfterMutation(p) ==
    /\ At(p, "mutated") /\ Returned(p)
    /\ Goto(p, "held")
    /\ UNCHANGED vars

-----------------------------------------------------------------------------

\* A lifecycle call fails before its statements; a create of unknown outcome
\* still names the record it generated.
CallFails(p) ==
    /\ FailEarly(p)
    /\ \/ At(p, "create") /\ outcome'[p] # "unknown" /\ Goto(p, "created")
       \/ \E r \in Records :
             /\ At(p, "create") /\ outcome'[p] = "unknown"
             /\ Fresh(r) /\ rows[r].state = "absent"
             /\ attempt' = [attempt EXCEPT ![p].pc = "created", ![p].new = r]
       \/ At(p, "activate") /\ Goto(p, "activated")
       \/ At(p, "abort") /\ Goto(p, "aborted")
       \/ attempt[p].pc \in {"rollback", "finalize"} /\ Goto(p, "mutated")

SessionStep(p, now) ==
    \/ InspectActive(p, now) \/ GiveUp(p)
    \/ \E r \in Records : CallCreate(p, r, now)
    \/ AfterCreate(p)
    \/ CallActivate(p, now) \/ AfterActivate(p, now)
    \/ CallAbort(p, now) \/ AfterAbort(p)
    \/ CallMutation(p, now) \/ AfterMutation(p)
    \/ CallFails(p)

Repair(r, q, now) ==
    \/ AbortStagedToken(Admin, r, now)
    \/ Fresh(r) /\ CreateRotationStagedToken(Admin, r, q, now)
    \/ ActivateRotation(Admin, r, q, now)
    \/ RollbackRotation(Admin, r, q, now)
    \/ \E reason \in {"verifiedAndDrained", "deadlineElapsed"} :
          FinalizeRotation(Admin, r, q, now, reason)

AdminStep(now) ==
    /\ \/ \E r \in Records : Fresh(r) /\ CreateStagedToken(Admin, r, now)
       \/ \E r \in Records : ActivateInitialToken(Admin, r, now)
       \/ \E r, q \in Records : Repairs /\ Repair(r, q, now)
    /\ UNCHANGED attempt

Environment ==
    /\ \/ \E p \in Clients : Settle(p)
       \/ ServerCommits
       \/ ServerAborts
       \/ \E enabled \in Switches, now \in Clock : SetDestination(enabled, now)
    /\ UNCHANGED attempt

PNext ==
    \/ \E p \in Sessions, now \in Clock :
          ResolveToken(p, now) \/ SessionStep(p, now)
             \/ Observe(p, now) \/ CheckPair(p, now)
    \/ \E now \in Clock : AdminStep(now)
    \/ Environment

\* Every call a session makes returns: repository calls end with their
\* context, and the server ends a transaction whose client is gone.
PFairness ==
    /\ \A p \in Sessions :
          /\ WF_pvars(\E now \in Clock : SessionStep(p, now))
          /\ WF_pvars(Settle(p) /\ UNCHANGED attempt)
    /\ WF_pvars((ServerCommits \/ ServerAborts) /\ UNCHANGED attempt)

PSpec == PInit /\ [][PNext]_pvars /\ PFairness

-----------------------------------------------------------------------------
(* Properties.                                                             *)

\* A commit may still land: it is under way, or was sent and not acknowledged.
InFlight(tx) == tx.phase \in {"open", "inDoubt"}

\* In the rows rs, with the transaction tx: record r is not live and no commit
\* still in flight will make it live.
DeadIn(rs, tx, r) ==
    /\ rs[r].state \in {"absent", "revoked"}
    /\ InFlight(tx) => tx.after[r].state \in {"absent", "revoked"}

NeverLive(r) == DeadIn(rows, txn, r)

\* A BeginRotation that fails without a handle leaves nothing behind: the
\* caller has no means to find a staged record it left, so there is none,
\* whichever call failed or was cancelled and whatever happens later.
NoOrphan ==
    \A p \in Sessions : At(p, "failed") /\ attempt[p].new # NoRecord =>
        NeverLive(attempt[p].new)

\* The timestamps of a confirmed attempt are the committed ones: the new
\* record was activated at exactly that time, and while the pair lasts its
\* old record retires at exactly that deadline.
ReceiptTrue ==
    \A p \in Sessions : attempt[p].confirmed =>
        LET n == rows[attempt[p].new]
            o == rows[attempt[p].old]
            at == attempt[p].at
        IN  /\ n.activatedAt = Stored(at)
            /\ n.state = "active" /\ o.state = "retiring" =>
                   o.retirementDeadline = Stored(at + Overlap)

\* A handle binds a record to the one it rotates, even when the create was
\* never acknowledged: the record was staged while the handle's old record
\* was active, not beside the successor a concurrent rotation put there.
HandleBound ==
    \A p \in Sessions : At(p, "held") /\ rows[attempt[p].new].state # "absent" =>
        /\ rows[attempt[p].old].activatedAt > 0
        /\ rows[attempt[p].old].activatedAt <= rows[attempt[p].new].createdAt
        /\ rows[attempt[p].new].state = "staged" =>
              rows[attempt[p].old].state = "active"

\* What ObserveRotation reported as terminal stays true, although it reads
\* without the lock while commits are in flight: after "rolledBack" the new
\* record is never accepted again, after "completed" the old one is not.
TerminalFinal ==
    \A p \in Sessions :
        /\ attempt[p].told = "rolledBack" => NeverLive(attempt[p].new)
        /\ attempt[p].told = "completed" => NeverLive(attempt[p].old)

\* "A staged record is aborted at most once, and only when activation has
\* conclusively reported that it did not commit"
\* (docs/destination-token-rotation-participant-v1.md, lines 63-64).
AbortOnlyAfterActivation ==
    [][\A p \in Sessions : At(p, "abort")' => At(p, "activated") \/ At(p, "abort")]_attempt

\* BeginRotation returns, and so do the calls made with a handle.
CallsReturn ==
    \A p \in Sessions :
        attempt[p].pc \in BeginSteps \cup HandleSteps ~>
            attempt[p].pc \in {"failed", "held"}

-----------------------------------------------------------------------------
(* The inductive invariant behind the safety properties.  It is stated of  *)
(* the local state a of a session and the answer out of its last call, in  *)
(* the rows rs with the transaction tx.                                    *)

Awaiting == {"created", "activated", "aborted", "mutated"}
Holding == {"held"} \cup HandleSteps

Attempt == [pc : {"idle", "failed", "held"} \cup BeginSteps \cup HandleSteps,
            new : Records \cup {NoRecord}, old : Records \cup {NoRecord},
            at : Nat, confirmed : BOOLEAN, told : {"none", "rolledBack", "completed"}]

\* What a session knows where: only a definite failure of the create leaves it
\* without the new record.
AttemptOK(a, out) ==
    /\ a.pc \notin {"idle", "inspect", "failed"} => a.old \in Records
    /\ a.pc \in {"idle", "inspect", "create"} => a.new = NoRecord
    /\ a.pc \notin {"idle", "inspect", "create", "created", "failed"} => a.new \in Records
    /\ a.pc = "created" /\ a.new = NoRecord => out \in Definite
    /\ a.new \in Records => a.old \in Records
    /\ a.confirmed \/ a.told # "none" => a.pc \in Holding
    /\ out = "running" => a.pc \in Awaiting

\* HandleBound, of every session that has a new record.
BoundIn(rs, a) ==
    rs[a.new].state # "absent" =>
        /\ rs[a.old].activatedAt <= rs[a.new].createdAt
        /\ rs[a.new].state = "staged" => rs[a.old].state = "active"

\* ReceiptTrue, in given rows.
ReceiptIn(rs, a) ==
    /\ a.at \in Clock
    /\ rs[a.new].state # "absent"
    /\ rs[a.new].activatedAt = Stored(a.at)
    /\ rs[a.new].state = "active" /\ rs[a.old].state = "retiring" =>
          rs[a.old].retirementDeadline = Stored(a.at + Overlap)

\* What the rows, or the transaction the session is waiting for, say where the
\* session is.
Coherent(a, out, rs, tx) ==
    /\ AttemptOK(a, out)
    /\ a.old \in Records => rs[a.old].state # "absent" /\ rs[a.old].activatedAt > 0
    /\ a.new \in Records => BoundIn(rs, a) /\ (InFlight(tx) => BoundIn(tx.after, a))
    /\ a.pc = "created" /\ a.new \in Records =>
          /\ out = "running" => rs[a.new].state = "absent"
          /\ out \in Definite => DeadIn(rs, tx, a.new)
    /\ a.pc = "activated" => /\ out = "running" => ReceiptIn(tx.after, a)
                             /\ out = "ok" => ReceiptIn(rs, a)
    /\ a.pc = "aborted" => /\ out = "running" => tx.after[a.new].state = "revoked"
                           /\ out = "ok" => rs[a.new].state = "revoked"
    /\ a.pc = "failed" /\ a.new \in Records => DeadIn(rs, tx, a.new)
    /\ a.confirmed => ReceiptIn(rs, a)
    /\ a.told = "rolledBack" => rs[a.new].state = "revoked"
    /\ a.told = "completed" => rs[a.old].state = "revoked"

\* A client waits exactly while its transaction holds the lock.
Owned ==
    \A c \in Clients : outcome[c] = "running" <=> (txn.phase = "open" /\ txn.owner = c)

PInv ==
    /\ Inv
    /\ Owned
    /\ attempt \in [Sessions -> Attempt]
    /\ \A p, q \in Sessions : attempt[p].new = attempt[q].new /\ p # q =>
          attempt[p].new = NoRecord
    /\ \A p \in Sessions : Coherent(attempt[p], outcome[p], rows, txn)
=============================================================================
