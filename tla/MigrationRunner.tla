--------------------------- MODULE MigrationRunner ---------------------------
(***************************************************************************)
(* Schema migration at start-up (postgres/startup.go, runner.go,           *)
(* pgbackend.go, inspect.go).  Several gateway instances, possibly of      *)
(* different releases, start, crash and restart against one database.      *)
(* Each runs Runner.Run on one connection under a session-level advisory   *)
(* lock: inspect, apply what is missing one transaction at a time, inspect *)
(* again, unlock.                                                          *)
(*                                                                         *)
(* A session is the server's side of a connection.  It may outlive its     *)
(* client ("orphan"): until the server notices, it keeps its lock and its  *)
(* transaction, and may still execute the statement that was on the wire.  *)
(* It may also end before its client knows ("dead").  An instance has a    *)
(* few sessions, its current one and those of its former processes.        *)
(*                                                                         *)
(* A migration is its checksum; its version is its place in the release's  *)
(* list, which loadMigrations makes contiguous.                            *)
(***************************************************************************)
EXTENDS Naturals, Sequences

CONSTANTS
    Instances,
    Slots,         \* sessions an instance can have on the server at a time
    Release,       \* Release[i]: the checksums of i's embedded migrations
    Checksums,
    Blank,         \* a checksum that is empty
    InitialSchemas,\* what a database may hold when the first instance starts
    MaxFaults,     \* bound on crashes, lost connections and refusals
    NoSession

ASSUME ReleaseAssumption ==
    /\ Release \in [Instances -> Seq(Checksums \ {Blank}) \ {<<>>}]
    /\ MaxFaults \in Nat /\ NoSession \notin Slots \cup (Instances \X Slots)

VARIABLES
    schema,        \* the committed schema
    lock,          \* the session that holds the advisory lock
    session,       \* session[s]: the server's side of a connection
    inst,          \* inst[i]: the local state of an instance's process
    faults         \* how many more faults can happen

vars == <<schema, lock, session, inst, faults>>

Sessions == Instances \X Slots

\* The abstract specification.
History == INSTANCE SchemaHistory WITH
    history <- schema.rows, serving <- {i \in Instances : inst[i].pc = "serving"}

Record == [version : Nat, checksum : Checksums]

\* gateway_schema_migrations: whether it is there with the columns Snapshot
\* wants, its rows in version order, and the migrations whose objects exist.
Schema == {x \in [table : {"absent", "partial", "complete"}, rows : Seq(Record),
                  ddl : SUBSET Record] : x.table = "absent" => x.rows = <<>>}

ASSUME SchemaAssumption == InitialSchemas \subseteq Schema

\* The objects that exist are those of the recorded migrations, or some of the
\* next version, which the migration that would create them runs into.
Accounted(x) ==
    \/ x.ddl = {x.rows[k] : k \in DOMAIN x.rows}
    \/ \E d \in x.ddl : d.version = Len(x.rows) + 1

\* Snapshot reads the records and not the objects, so that a table which was
\* dropped by hand, or made for a version further on, cannot be seen.
ASSUME ObjectsAssumption == \A x \in InitialSchemas : Accounted(x)

Statements == {"lock", "exists", "columns", "rows", "begin", "exec", "record",
               "commit", "rollback", "unlock"}

Running == Statements \cup {"acquire", "close"}

Steps == Running \cup {"down", "serving", "failed"}

Errors == {"none", "ErrConfigInvalid", "ErrConnect", "ErrMigrationLock", "ErrSchemaQuery",
           "ErrSchemaAhead", "ErrSchemaInvalid", "ErrMigration", "ErrMigrationInterrupted"}

Status == {"uninitialized", "behind", "current", "ahead", "invalid"}

Process == [pc : Steps, stage : {"first", "post", "final"}, version : Nat,
            ctx : {"live", "cancelled", "expired"}, err : Errors,
            conn : Slots \cup {NoSession}]

\* What a session is: its transaction has executed the DDL of a migration,
\* recorded it, or neither; todo is what an orphan may still execute that
\* outlasts its transaction.
Session == [state : {"free", "live", "dead", "orphan"}, todo : {"none", "lock", "commit"},
            txn : {"none", "open", "ddl", "recorded"}, version : Nat]

Free == [state |-> "free", todo |-> "none", txn |-> "none", version |-> 0]

Fresh == [Free EXCEPT !.state = "live"]

Down == [pc |-> "down", stage |-> "first", version |-> 0, ctx |-> "live",
         err |-> "none", conn |-> NoSession]

Init ==
    /\ schema \in InitialSchemas
    /\ lock = NoSession
    /\ session = [s \in Sessions |-> Free]
    /\ inst = [i \in Instances |-> Down]
    /\ faults = MaxFaults

At(i, pc) == inst[i].pc = pc

Conn(i) == <<i, inst[i].conn>>

\* Mutant: the lock is waited for without the startup context.
UsableLock(i) ==
    \/ inst[i].ctx = "live"
    \/ At(i, "rollback") /\ inst[i].ctx = "cancelled"
    \/ inst[i].pc \in {"lock", "unlock"}

\* The context a statement is given has not ended: unlocking has one of its
\* own, and a rollback is detached from cancellation but not from the deadline.
Usable(i) ==
    \/ inst[i].ctx = "live"
    \/ At(i, "rollback") /\ inst[i].ctx = "cancelled"
    \/ At(i, "unlock")

\* Instance i is at this statement and can get it to the server and back.
Sends(i, statement) ==
    /\ At(i, statement)
    /\ Usable(i)
    /\ inst[i].conn # NoSession
    /\ session[Conn(i)].state = "live"

Goto(i, pc) == inst' = [inst EXCEPT ![i].pc = pc]

\* The migration that instance i is applying, Migration{Version, Checksum}.
Applying(i) == inst[i].version + 1

MigrationOf(i, v) == [version |-> v, checksum |-> Release[i][v]]

-----------------------------------------------------------------------------
(* What the runner computes.                                               *)

\* The k-th row is not a migration of this release, nor of a later one.
Foreign(rows, k, migrations) ==
    \/ rows[k].version # k
    \/ rows[k].checksum = Blank
    \/ k <= Len(migrations) /\ rows[k].checksum # migrations[k]

\* classifySnapshot of a table that is there and complete.  The version is
\* not used when the status is "invalid".
classifySnapshot(rows, migrations) ==
    LET n == Len(rows)
    IN  IF n = 0 \/ \E k \in 1..n : Foreign(rows, k, migrations)
        THEN [status |-> "invalid", version |-> 0]
        ELSE [status |-> IF n > Len(migrations) THEN "ahead"
                         ELSE IF n < Len(migrations) THEN "behind" ELSE "current",
              version |-> n]

\* migrationFailure
migrationFailure(interrupted) ==
    IF interrupted THEN "ErrMigrationInterrupted" ELSE "ErrMigration"

\* The end of the run under the lock: finishMigrationConnection destroys the
\* connection of an interrupted migration and unlocks every other.
Finish(l, err) ==
    [l EXCEPT !.pc = IF err = "ErrMigrationInterrupted" THEN "close" ELSE "unlock",
              !.err = err]

\* The head of the migration loop.
Loop(l, version, migrations) ==
    IF version < Len(migrations)
    THEN [l EXCEPT !.pc = "begin", !.version = version]
    ELSE [l EXCEPT !.pc = "exists", !.stage = "final", !.version = version]

\* What Run does with an inspection.
AfterInspect(l, seen, migrations) ==
    CASE l.stage = "first" /\ seen.status = "ahead" -> Finish(l, "ErrSchemaAhead")
      [] l.stage = "first" /\ seen.status = "invalid" -> Finish(l, "ErrSchemaInvalid")
      [] l.stage = "first" /\ seen.status \in {"uninitialized", "behind", "current"} ->
            Loop(l, seen.version, migrations)
      [] l.stage = "post" ->
            IF seen.version = l.version + 1 /\ seen.status \in {"behind", "current"}
            THEN Loop(l, seen.version, migrations)
            ELSE Finish(l, "ErrSchemaInvalid")
      [] l.stage = "final" ->
            Finish(l, IF seen.status = "current" THEN "none" ELSE "ErrSchemaInvalid")

\* Mutant: an error of the rollback is dropped.
KeepError(l) == Finish(l, l.err)

\* A rollback that is not confirmed replaces the error it follows.
Unconfirmed(l) == Finish(l, "ErrMigrationInterrupted")

\* What Run and its callees do with the error of a statement.  A deferred
\* rollback after a failed COMMIT finds the transaction closed.
OnError(l, interrupted) ==
    CASE l.pc = "lock" -> [l EXCEPT !.pc = "close", !.err = "ErrMigrationLock"]
      [] l.pc \in {"exists", "columns", "rows"} -> Finish(l, "ErrSchemaQuery")
      [] l.pc \in {"begin", "commit"} -> Finish(l, migrationFailure(interrupted))
      [] l.pc \in {"exec", "record"} ->
            [l EXCEPT !.pc = "rollback", !.err = migrationFailure(interrupted)]
      [] l.pc = "rollback" -> Unconfirmed(l)
      [] l.pc = "unlock" ->
            [l EXCEPT !.pc = "close",
                      !.err = IF l.err = "none" THEN "ErrMigrationLock" ELSE l.err]

\* errors.Is: an interrupted migration is also a failed one.
Is(err, kind) ==
    \/ err = kind
    \/ err = "ErrMigrationInterrupted" /\ kind = "ErrMigration"

\* Mutant: the more general error is matched first.
failureReasonGeneral(err) ==
    IF Is(err, "ErrMigration") THEN "database_migration_failed" ELSE "other"

\* failureReason of the two outcomes of a migration transaction.
failureReason(err) ==
    IF Is(err, "ErrMigrationInterrupted") THEN "database_migration_interrupted"
    ELSE IF Is(err, "ErrMigration") THEN "database_migration_failed"
    ELSE "other"

-----------------------------------------------------------------------------
(* A process and the statements of its run.                                *)

\* Configuration is refused or no writable server answers.
StartFails(i, err) ==
    /\ inst[i].pc \in {"down", "failed"}
    /\ faults > 0
    /\ faults' = faults - 1
    /\ inst' = [inst EXCEPT ![i] = [Down EXCEPT !.pc = "failed", !.err = err]]
    /\ UNCHANGED <<schema, lock, session>>

\* Open connects and pings.
Start(i, slot) ==
    /\ inst[i].pc \in {"down", "failed"}
    /\ session[<<i, slot>>].state = "free"
    /\ session' = [session EXCEPT ![<<i, slot>>] = Fresh]
    /\ inst' = [inst EXCEPT ![i] = [Down EXCEPT !.pc = "acquire", !.conn = slot]]
    /\ UNCHANGED <<schema, lock, faults>>

\* pool.Acquire
Acquire(i) ==
    /\ At(i, "acquire")
    /\ inst' = [inst EXCEPT ![i] =
                  IF @.ctx = "live" THEN [@ EXCEPT !.pc = "lock"]
                  ELSE [@ EXCEPT !.pc = "close", !.err = "ErrMigrationLock"]]
    /\ UNCHANGED <<schema, lock, session, faults>>

\* Mutant: pg_try_advisory_lock, and its result is not looked at.
TryLock(i) ==
    /\ Sends(i, "lock")
    /\ lock' = IF lock = NoSession THEN Conn(i) ELSE lock
    /\ Goto(i, "exists")
    /\ UNCHANGED <<schema, session, faults>>

\* select pg_advisory_lock waits until the lock is free.
Lock(i) ==
    /\ Sends(i, "lock")
    /\ lock = NoSession
    /\ lock' = Conn(i)
    /\ Goto(i, "exists")
    /\ UNCHANGED <<schema, session, faults>>

\* Snapshot is three statements of their own, in no transaction.
ReadExists(i) ==
    /\ Sends(i, "exists")
    /\ inst' = [inst EXCEPT ![i] =
                  IF schema.table = "absent"
                  THEN AfterInspect(@, [status |-> "uninitialized", version |-> 0], Release[i])
                  ELSE [@ EXCEPT !.pc = "columns"]]
    /\ UNCHANGED <<schema, lock, session, faults>>

\* Mutant: the columns are not looked at.
SkipColumns(i) ==
    /\ Sends(i, "columns")
    /\ Goto(i, "rows")
    /\ UNCHANGED <<schema, lock, session, faults>>

ReadColumns(i) ==
    /\ Sends(i, "columns")
    /\ inst' = [inst EXCEPT ![i] =
                  IF schema.table = "partial"
                  THEN AfterInspect(@, [status |-> "invalid", version |-> 0], Release[i])
                  ELSE [@ EXCEPT !.pc = "rows"]]
    /\ UNCHANGED <<schema, lock, session, faults>>

ReadRows(i) ==
    /\ Sends(i, "rows")
    /\ inst' = [inst EXCEPT ![i] =
                  AfterInspect(@, classifySnapshot(schema.rows, Release[i]), Release[i])]
    /\ UNCHANGED <<schema, lock, session, faults>>

Begin(i) ==
    /\ Sends(i, "begin")
    /\ session' = [session EXCEPT ![Conn(i)].txn = "open",
                                  ![Conn(i)].version = Applying(i)]
    /\ Goto(i, "exec")
    /\ UNCHANGED <<schema, lock, faults>>

\* The objects of migration v exist already, or its row does, or there is no
\* table to record it in: the server refuses the statement.
Conflict(i) ==
    LET v == Applying(i)
    IN  \/ At(i, "exec") /\ \E d \in schema.ddl : d.version = v
        \/ /\ At(i, "record")
           /\ \/ schema.table = "absent" /\ v # 1
              \/ \E k \in 1..Len(schema.rows) : schema.rows[k].version = v

\* The migration's SQL; it waits for another transaction that creates the
\* same objects.
Exec(i) ==
    /\ Sends(i, "exec") /\ ~Conflict(i)
    /\ \A s \in Sessions \ {Conn(i)} :
          session[s].version = Applying(i) => session[s].txn \in {"none", "open"}
    /\ session' = [session EXCEPT ![Conn(i)].txn = "ddl"]
    /\ Goto(i, "record")
    /\ UNCHANGED <<schema, lock, faults>>

\* insert into gateway_schema_migrations
InsertRecord(i) ==
    /\ Sends(i, "record") /\ ~Conflict(i)
    /\ session' = [session EXCEPT ![Conn(i)].txn = "recorded"]
    /\ Goto(i, "commit")
    /\ UNCHANGED <<schema, lock, faults>>

\* The effect of the COMMIT of session s.
Committed(s) ==
    LET m == MigrationOf(s[1], session[s].version)
    IN  [table |-> "complete", rows |-> Append(schema.rows, m), ddl |-> schema.ddl \cup {m}]

Ended(s) == [session EXCEPT ![s].txn = "none", ![s].version = 0, ![s].todo = "none"]

Commit(i) ==
    /\ Sends(i, "commit")
    /\ schema' = Committed(Conn(i))
    /\ session' = Ended(Conn(i))
    /\ inst' = [inst EXCEPT ![i].pc = "exists", ![i].stage = "post"]
    /\ UNCHANGED <<lock, faults>>

Rollback(i) ==
    /\ Sends(i, "rollback")
    /\ session' = Ended(Conn(i))
    /\ inst' = [inst EXCEPT ![i] = Finish(@, @.err)]
    /\ UNCHANGED <<schema, lock, faults>>

\* Mutant: the error of the run is lost once the lock is released.
ReleasedAnyway(l) == [Down EXCEPT !.pc = "serving", !.conn = l.conn]

\* The connection is back in the pool: Prepare returns the pool, or closes it
\* after an error.
Released(l) ==
    IF l.err = "none" THEN [Down EXCEPT !.pc = "serving", !.conn = l.conn]
    ELSE [l EXCEPT !.pc = "close"]

\* Mutant: the lock is left to the pooled connection.
ReleaseLocked(i) ==
    /\ Sends(i, "unlock")
    /\ inst' = [inst EXCEPT ![i] = Released(@)]
    /\ UNCHANGED <<schema, lock, session, faults>>

\* select pg_advisory_unlock, release
Unlock(i) ==
    /\ Sends(i, "unlock")
    /\ lock = Conn(i)
    /\ lock' = NoSession
    /\ inst' = [inst EXCEPT ![i] = Released(@)]
    /\ UNCHANGED <<schema, session, faults>>

-----------------------------------------------------------------------------
(* What goes wrong.                                                        *)

\* The session of a client that has closed or lost its connection while this
\* statement was on the wire.
Abandoned(s, pc) ==
    IF session[s].state = "live"
    THEN [session EXCEPT ![s].state = "orphan",
            ![s].todo = IF pc \in {"lock", "commit"} THEN pc ELSE "none"]
    ELSE [session EXCEPT ![s] = Free]

\* The server answers a statement with an error.  A refused COMMIT has ended
\* its transaction.
Refuse(i) ==
    /\ inst[i].pc \in Statements /\ Sends(i, inst[i].pc)
    /\ IF Conflict(i) THEN faults' = faults ELSE faults > 0 /\ faults' = faults - 1
    /\ inst' = [inst EXCEPT ![i] = OnError(@, FALSE)]
    /\ session' = IF At(i, "commit") THEN Ended(Conn(i)) ELSE session
    /\ UNCHANGED <<schema, lock>>

\* The connection ends under a statement, or its context does, which makes
\* pgx close the connection.
Break(i) ==
    /\ inst[i].pc \in Statements /\ inst[i].conn # NoSession
    /\ IF Sends(i, inst[i].pc) THEN faults > 0 /\ faults' = faults - 1 ELSE faults' = faults
    /\ inst' = [inst EXCEPT ![i] = [OnError(@, TRUE) EXCEPT !.conn = NoSession]]
    /\ session' = Abandoned(Conn(i), inst[i].pc)
    /\ UNCHANGED <<schema, lock>>

\* A statement whose context has ended, or whose connection is closed, fails
\* before it is sent.
NotSent(i) ==
    /\ inst[i].pc \in Statements
    /\ ~Usable(i) \/ inst[i].conn = NoSession
    /\ inst' = [inst EXCEPT ![i] = OnError(@, TRUE)]
    /\ UNCHANGED <<schema, lock, session, faults>>

\* destroyPoolConnection, or pool.Close: the run fails and the process exits.
Close(i) ==
    /\ At(i, "close")
    /\ inst' = [inst EXCEPT ![i] = [Down EXCEPT !.pc = "failed", !.err = inst[i].err]]
    /\ session' = IF inst[i].conn = NoSession THEN session ELSE Abandoned(Conn(i), "close")
    /\ UNCHANGED <<schema, lock, faults>>

\* The startup deadline passes, or a signal cancels the start.
EndContext(i, how) ==
    /\ inst[i].pc \in Running /\ inst[i].ctx = "live"
    /\ inst' = [inst EXCEPT ![i].ctx = how]
    /\ UNCHANGED <<schema, lock, session, faults>>

\* The process dies.
Crash(i) ==
    /\ inst[i].pc \in Running \cup {"serving"}
    /\ faults > 0
    /\ faults' = faults - 1
    /\ inst' = [inst EXCEPT ![i] = Down]
    /\ session' = IF inst[i].conn = NoSession THEN session ELSE Abandoned(Conn(i), inst[i].pc)
    /\ UNCHANGED <<schema, lock>>

\* A served instance shuts down: database.Close.
Stop(i) ==
    /\ At(i, "serving")
    /\ inst' = [inst EXCEPT ![i] = Down]
    /\ session' = Abandoned(Conn(i), "serving")
    /\ UNCHANGED <<schema, lock, faults>>

-----------------------------------------------------------------------------
(* PostgreSQL.                                                             *)

Unlocked(s) == IF lock = s THEN NoSession ELSE lock

\* The server ends a session whose client does not know yet.
ServerDrops(s) ==
    /\ session[s].state = "live"
    /\ faults > 0
    /\ faults' = faults - 1
    /\ session' = [session EXCEPT ![s] = [Free EXCEPT !.state = "dead"]]
    /\ lock' = Unlocked(s)
    /\ UNCHANGED <<schema, inst>>

OrphanLocks(s) ==
    /\ session[s].state = "orphan" /\ session[s].todo = "lock" /\ lock = NoSession
    /\ lock' = s
    /\ session' = [session EXCEPT ![s].todo = "none"]
    /\ UNCHANGED <<schema, inst, faults>>

OrphanCommits(s) ==
    /\ session[s].state = "orphan" /\ session[s].todo = "commit"
    /\ schema' = Committed(s)
    /\ session' = Ended(s)
    /\ UNCHANGED <<lock, inst, faults>>

\* The server notices that its client is gone: it aborts, then unlocks.
SessionEnds(s) ==
    /\ session[s].state = "orphan"
    /\ session' = [session EXCEPT ![s] = Free]
    /\ lock' = Unlocked(s)
    /\ UNCHANGED <<schema, inst, faults>>

-----------------------------------------------------------------------------

Succeed(i) ==
    \/ Acquire(i) \/ ReadExists(i) \/ ReadColumns(i) \/ ReadRows(i)
    \/ Begin(i) \/ Exec(i) \/ InsertRecord(i) \/ Commit(i) \/ Rollback(i) \/ Unlock(i)

Fail(i) == Refuse(i) \/ Break(i) \/ NotSent(i) \/ Close(i)

Begins(i) == \E slot \in Slots : Start(i, slot)

Next ==
    \/ \E i \in Instances :
          \/ \E err \in {"ErrConfigInvalid", "ErrConnect"} : StartFails(i, err)
          \/ Begins(i) \/ Lock(i) \/ Succeed(i) \/ Fail(i) \/ Crash(i) \/ Stop(i)
          \/ \E how \in {"cancelled", "expired"} : EndContext(i, how)
    \/ \E s \in Sessions :
          ServerDrops(s) \/ OrphanLocks(s) \/ OrphanCommits(s) \/ SessionEnds(s)

Spec == Init /\ [][Next]_vars

\* A statement that can come back, or fail, does.
FairSpec == Spec /\ \A i \in Instances : WF_vars(Succeed(i) \/ Fail(i))

\* A start has a deadline.
DeadlinesPass == \A i \in Instances : WF_vars(EndContext(i, "expired"))

\* Failed processes are restarted, PostgreSQL grants the lock in turn and ends
\* the sessions of clients that are gone.
ServiceGoesOn ==
    /\ \A i \in Instances : WF_vars(Begins(i)) /\ SF_vars(Lock(i))
    /\ \A s \in Sessions : WF_vars(SessionEnds(s))

-----------------------------------------------------------------------------
(* Properties.                                                             *)

\* Every variable has its type.
TypeOK ==
    /\ schema \in Schema
    /\ lock \in Sessions \cup {NoSession}
    /\ session \in [Sessions -> Session]
    /\ inst \in [Instances -> Process]
    /\ faults \in Nat

\* The session of instance i is there, so that what i sends has an effect.
Connected(i) == inst[i].conn # NoSession /\ session[Conn(i)].state = "live"

\* The steps of a run that holds the lock.
Locked == Statements \ {"lock"}

\* Where a process is in its transaction is what its session has open.
TxnAt(pc) ==
    CASE pc \in {"exec"} -> {"open"}
      [] pc \in {"record"} -> {"ddl"}
      [] pc \in {"commit"} -> {"recorded"}
      [] pc \in {"rollback"} -> {"open", "ddl"}
      [] OTHER -> {"none"}

\* What a session may hold: a transaction only under the lock, and then one
\* that takes the schema as it is now to the next version of a release; an
\* unsent or answered statement leaves an orphan nothing to do.
SessionOK(i, slot) ==
    LET s == <<i, slot>>  x == session[s]
    IN  /\ x.state \in {"free", "dead"} => x.txn = "none" /\ lock # s
        /\ x.state \in {"live", "dead"} <=> inst[i].conn = slot
        /\ x.state # "orphan" => x.todo = "none"
        /\ x.todo = "lock" => lock # s /\ x.txn = "none"
        /\ x.todo = "commit" => x.txn = "recorded"
        /\ x.txn # "none" =>
              /\ lock = s
              /\ x.version \in 1..Len(Release[i])
              /\ History!Follows(schema.rows, i, x.version - 1)

\* What process i knows while its session lives: its place in the run is the
\* state of its session, and what it has inspected is still so.
ProcessOK(i) ==
    LET l == inst[i]
    IN  /\ l.pc \in {"down", "failed"} => l.conn = NoSession
        /\ l.pc \in (Running \cup {"serving"}) \ {"rollback", "unlock", "close"} =>
              l.conn # NoSession
        /\ l.pc \in Running \ {"rollback", "unlock", "close"} => l.err = "none"
        /\ l.pc \in {"acquire", "lock"} => l.stage = "first"
        /\ l.pc = "rollback" => l.err \in {"ErrMigration", "ErrMigrationInterrupted"}
        /\ l.pc \in {"unlock", "close", "failed"} /\ l.err = "ErrMigration" =>
              \A slot \in Slots : session[<<i, slot>>].todo # "commit"
        /\ l.pc = "serving" \/ (l.pc = "unlock" /\ l.err = "none") =>
              History!Holds(schema.rows, i)
        /\ Connected(i) =>
              /\ l.pc \in Locked => lock = Conn(i)
              /\ l.pc \in {"acquire", "lock", "serving"} => lock # Conn(i)
              /\ l.pc # "close" => session[Conn(i)].txn \in TxnAt(l.pc)
              /\ l.pc \in {"exec", "record", "commit", "rollback"} =>
                    session[Conn(i)].version = Applying(i)
              /\ l.pc \in {"begin", "exec", "record", "commit", "rollback"} =>
                    /\ l.version < Len(Release[i])
                    /\ History!Follows(schema.rows, i, l.version)
              /\ l.pc \in {"exists", "columns", "rows"} =>
                    /\ l.stage = "post" => History!Follows(schema.rows, i, l.version + 1)
                    /\ l.stage = "final" => History!Follows(schema.rows, i, Len(Release[i]))

\* Sessions and processes agree with each other and with the schema, through
\* every crash, lost connection and late COMMIT.
Inv ==
    /\ TypeOK
    /\ \A i \in Instances, slot \in Slots : SessionOK(i, slot)
    /\ \A i \in Instances : ProcessOK(i)

\* While a migration is being applied, the schema is still the one that was
\* inspected, although inspection and application are separate statements and
\* other instances start, crash and leave sessions behind: CurrentVersion
\* migrations of the release are recorded and nothing else.
InspectionHolds ==
    \A i \in Instances :
        Connected(i) /\ inst[i].pc \in {"begin", "exec", "record", "commit"} =>
            /\ lock = Conn(i)
            /\ History!Follows(schema.rows, i, inst[i].version)

\* An exit that is reported as an ordinary failed migration is final: no
\* session of that instance can still commit it.
OrdinaryFailureIsFinal ==
    \A i \in Instances, slot \in Slots :
        At(i, "failed") /\ failureReason(inst[i].err) = "database_migration_failed" =>
            session[<<i, slot>>].todo # "commit"

\* The recorded migrations only grow along a release, and an instance serves
\* only when its whole release is recorded.
ImplementsHistory == History!Spec

\* The schema is what instance i would have left, with part of its release.
Intact(i) ==
    /\ History!Follows(schema.rows, i, Len(schema.rows))
    /\ schema.ddl = {schema.rows[k] : k \in DOMAIN schema.rows}
    /\ schema.table = IF schema.rows = <<>> THEN "absent" ELSE "complete"

\* Only a schema that some release would have left is written to, and it stays
\* one: a migration's objects and its record appear together.  A table that is
\* there but has no rows, other columns or foreign rows is left as it is, and
\* no instance begins to serve on it.
DamageIsLeftAlone ==
    [][/\ schema' # schema => \E i \in Instances : Intact(i) /\ Intact(i)'
       /\ \A i \in Instances : At(i, "serving")' /\ ~At(i, "serving") =>
             schema.table = "complete" /\ History!Holds(schema.rows, i)]_vars

\* The migrations table is there exactly when migrations are recorded, with the
\* columns it should have.
TableFits == schema.table = IF schema.rows = <<>> THEN "absent" ELSE "complete"

\* A transaction is open only on such a schema, and once it has executed its
\* DDL the objects are its own.
Unhindered(i, slot) ==
    LET x == session[<<i, slot>>]
    IN  /\ x.txn # "none" => TableFits
        /\ x.txn \in {"ddl", "recorded"} => \A d \in schema.ddl : d.version # x.version

\* What the first statements of an inspection have found is still so.
Found(i) ==
    /\ At(i, "unlock") /\ inst[i].err = "none" => schema.table = "complete"
    /\ Connected(i) =>
          /\ At(i, "columns") => schema.table # "absent"
          /\ At(i, "rows") => schema.table = "complete"
          /\ At(i, "begin") => TableFits

\* What keeps damage from being written to.
WriteInv ==
    /\ Inv
    /\ Accounted(schema)
    /\ \A i \in Instances, slot \in Slots : Unhindered(i, slot)
    /\ \A i \in Instances : Found(i)

\* Every start ends within its deadline.  Nothing is assumed of the server: an
\* orphan may hold the lock for ever.
StartupReturns ==
    DeadlinesPass =>
        \A i \in Instances : inst[i].pc \in Running ~> inst[i].pc \in {"serving", "failed", "down"}

\* On an intact schema, an instance with the longest release gets to serve, again
\* after every stop, once starts are no longer cut off: no crash, lost connection
\* or failed start leaves the lock or the schema in a state that keeps it out.
NewestServes ==
    ServiceGoesOn /\ <>[](\A i \in Instances : inst[i].ctx = "live") =>
        \A i \in Instances :
            Intact(i) /\ (\A j \in Instances : Len(Release[j]) <= Len(Release[i])) =>
                []<>(At(i, "serving"))
=============================================================================
