----------------------- MODULE MigrationRunnerProofs -----------------------
(***************************************************************************)
(* Proofs about MigrationRunner, for any instances, releases, initial      *)
(* schemas and number of faults.                                           *)
(***************************************************************************)
EXTENDS MigrationRunner, TLAPS

\* What the components of a well-typed state are.
LEMMA Typed ==
    ASSUME TypeOK, NEW i \in Instances
    PROVE  /\ inst[i] \in Process
           /\ \A slot \in Slots : session[<<i, slot>>] \in Session
           /\ schema.rows \in Seq(Record)
           /\ Release[i] \in Seq(Checksums \ {Blank}) /\ Len(Release[i]) \in Nat \ {0}
           /\ NoSession \notin Slots
           /\ \A slot \in Slots : <<i, slot>> # NoSession
  BY ReleaseAssumption DEF TypeOK, Sessions, Schema

\* A step that leaves process i, its live session and its hold on the lock as they
\* were keeps what the process knows; the rows may change only while i has not
\* inspected them under the lock.
LEMMA SameProcess ==
    ASSUME NEW i \in Instances, ProcessOK(i), inst'[i] = inst[i],
           Connected(i)' => /\ Connected(i) /\ session'[Conn(i)] = session[Conn(i)]
                            /\ lock' = Conn(i) <=> lock = Conn(i),
           \A slot \in Slots :
              session[<<i, slot>>].todo # "commit" => session'[<<i, slot>>].todo # "commit",
           History!Holds(schema.rows, i) => History!Holds(schema'.rows, i),
           Connected(i)' => schema'.rows = schema.rows \/ inst[i].pc \notin Locked
    PROVE  ProcessOK(i)'
  <1>1. PICK l : l = inst[i]
    OBVIOUS
  <1>2. PICK c : c = Conn(i)
    OBVIOUS
  <1>3. inst[i] = l /\ inst'[i] = l /\ Conn(i) = c /\ Conn(i)' = c /\ Applying(i)' = Applying(i)
    BY <1>1, <1>2 DEF Conn, Applying
  <1>4. CASE ~Connected(i)'
    BY <1>3, <1>4 DEF ProcessOK
  <1>5. CASE Connected(i)' /\ schema'.rows = schema.rows
    BY <1>3, <1>5 DEF ProcessOK
  <1>6. CASE Connected(i)' /\ inst[i].pc \notin Locked
    BY <1>3, <1>6 DEF ProcessOK, Locked, Statements
  <1> QED
    BY <1>4, <1>5, <1>6

\* A step in which only instance i, its sessions, and the lock as far as they
\* hold it, take part, leaves the others as they were; the schema may grow while
\* a session of i has the lock.
LEMMA Others ==
    ASSUME Inv, NEW i \in Instances,
           \A j \in Instances \ {i} :
              /\ inst'[j] = inst[j]
              /\ \A slot \in Slots : /\ session'[<<j, slot>>] = session[<<j, slot>>]
                                     /\ lock' = <<j, slot>> <=> lock = <<j, slot>>,
           \/ schema'.rows = schema.rows
           \/ /\ \E slot \in Slots : lock = <<i, slot>>
              /\ \E m : schema'.rows = Append(schema.rows, m)
    PROVE  \A j \in Instances \ {i} :
              ProcessOK(j)' /\ \A slot \in Slots : SessionOK(j, slot)'
  <1> SUFFICES ASSUME NEW j \in Instances, j # i
               PROVE  ProcessOK(j)' /\ \A slot \in Slots : SessionOK(j, slot)'
    OBVIOUS
  <1>1. /\ TypeOK /\ ProcessOK(j) /\ \A slot \in Slots : SessionOK(j, slot)
        /\ inst[j] \in Process /\ inst'[j] = inst[j]
        /\ \A slot \in Slots : /\ session'[<<j, slot>>] = session[<<j, slot>>]
                               /\ lock' = <<j, slot>> <=> lock = <<j, slot>>
    BY Typed DEF Inv
  <1>2. Connected(j)' => /\ Connected(j) /\ session'[Conn(j)] = session[Conn(j)]
                         /\ lock' = Conn(j) <=> lock = Conn(j)
    <2>1. inst[j].conn \in Slots \cup {NoSession}
      BY <1>1 DEF Process
    <2> QED
      BY <1>1, <2>1 DEF Connected, Conn
  <1>3. CASE schema'.rows = schema.rows
    <2>1. \A slot \in Slots : SessionOK(j, slot)'
      BY <1>1, <1>3 DEF SessionOK
    <2>2. ProcessOK(j)'
      BY <1>1, <1>2, <1>3, SameProcess
    <2> QED
      BY <2>1, <2>2
  <1>4. CASE /\ \E slot \in Slots : lock = <<i, slot>>
             /\ \E m : schema'.rows = Append(schema.rows, m)
    <2>1. \A slot \in Slots : lock # <<j, slot>>
      BY <1>4
    <2>2. \A slot \in Slots : SessionOK(j, slot)'
      BY <1>1, <2>1 DEF SessionOK
    <2>3. History!Holds(schema.rows, j) => History!Holds(schema'.rows, j)
      BY <1>1, <1>4, Typed DEF History!Holds
    <2>4. Connected(j) => inst[j].pc \notin Locked
      <3>1. inst[j].conn \in Slots \cup {NoSession}
        BY <1>1 DEF Process
      <3> QED
        BY <1>1, <2>1, <3>1 DEF ProcessOK, Connected, Conn
    <2>5. ProcessOK(j)'
      BY <1>1, <1>2, <2>3, <2>4, SameProcess
    <2> QED
      BY <2>2, <2>5
  <1> QED
    BY <1>3, <1>4

\* A step of a process alone.
LEMMA LocalStep ==
    ASSUME Inv, NEW i \in Instances, NEW l \in Process,
           inst' = [inst EXCEPT ![i] = l], UNCHANGED <<schema, lock, session>>, faults' \in Nat,
           l.conn = inst[i].conn, ProcessOK(i)'
    PROVE  Inv'
  <1>1. TypeOK /\ inst \in [Instances -> Process] /\ inst'[i] = l
    BY DEF Inv, TypeOK
  <1>2. TypeOK'
    BY <1>1 DEF TypeOK
  <1>3. \A slot \in Slots : SessionOK(i, slot)'
    BY <1>1 DEF Inv, SessionOK
  <1>4. \A j \in Instances \ {i} : ProcessOK(j)' /\ \A slot \in Slots : SessionOK(j, slot)'
    <2>1. \A j \in Instances \ {i} : inst'[j] = inst[j]
      BY <1>1
    <2> QED
      BY <2>1, Others
  <1> QED
    BY <1>2, <1>3, <1>4 DEF Inv

\* What a step changes is instance i, a session of it, and the lock if that
\* session takes or releases it.
SessionStep(i, slot, l, x) ==
    /\ inst' = [inst EXCEPT ![i] = l]
    /\ session' = [session EXCEPT ![<<i, slot>>] = x]
    /\ \A t \in Slots \ {slot} : l.conn = t <=> inst[i].conn = t
    /\ \/ lock' = lock
       \/ lock = NoSession /\ lock' = <<i, slot>>
       \/ lock = <<i, slot>> /\ lock' = NoSession
    /\ faults' \in Nat

\* A step of a process and its session, or of a session alone, which keeps
\* the schema or appends to it under the lock.
LEMMA OneSession ==
    ASSUME Inv, NEW i \in Instances, NEW slot \in Slots, NEW l \in Process, NEW x \in Session,
           SessionStep(i, slot, l, x),
           \/ schema' = schema
           \/ /\ lock = <<i, slot>> /\ schema' \in Schema
              /\ \E m : schema'.rows = Append(schema.rows, m),
           ProcessOK(i)', SessionOK(i, slot)'
    PROVE  Inv'
  <1>1. /\ TypeOK /\ inst \in [Instances -> Process] /\ session \in [Sessions -> Session]
        /\ lock \in Sessions \cup {NoSession} /\ <<i, slot>> \in Sessions
        /\ \A j \in Instances, t \in Slots : <<j, t>> \in Sessions /\ <<j, t>> # NoSession
    BY Typed DEF Inv, TypeOK, Sessions
  <1>2. /\ inst' \in [Instances -> Process] /\ session' \in [Sessions -> Session]
        /\ inst'[i] = l /\ session'[<<i, slot>>] = x
        /\ \A j \in Instances \ {i} : inst'[j] = inst[j]
        /\ \A s \in Sessions \ {<<i, slot>>} : session'[s] = session[s]
    BY <1>1 DEF SessionStep
  <1>3. \A s \in Sessions \ {<<i, slot>>} : lock' = s <=> lock = s
    BY <1>1, Typed DEF SessionStep, Sessions
  <1>4. TypeOK'
    BY <1>1, <1>2 DEF TypeOK, SessionStep
  <1>5. ASSUME NEW t \in Slots, t # slot PROVE SessionOK(i, t)'
    <2>1. /\ SessionOK(i, t) /\ session'[<<i, t>>] = session[<<i, t>>]
          /\ lock' = <<i, t>> <=> lock = <<i, t>>
          /\ inst'[i].conn = t <=> inst[i].conn = t
      BY <1>1, <1>2, <1>3, <1>5 DEF Inv, SessionStep
    <2>2. schema' = schema \/ session[<<i, t>>].txn = "none"
      BY <1>1, <1>5, <2>1 DEF SessionOK
    <2> QED
      BY <2>1, <2>2 DEF SessionOK
  <1>6. \A j \in Instances \ {i} : ProcessOK(j)' /\ \A t \in Slots : SessionOK(j, t)'
    <2>1. \A j \in Instances \ {i} : 
             /\ inst'[j] = inst[j]
             /\ \A t \in Slots : /\ session'[<<j, t>>] = session[<<j, t>>]
                                 /\ lock' = <<j, t>> <=> lock = <<j, t>>
      BY <1>1, <1>2, <1>3
    <2>2. \/ schema'.rows = schema.rows
          \/ /\ \E t \in Slots : lock = <<i, t>>
             /\ \E m : schema'.rows = Append(schema.rows, m)
      OBVIOUS
    <2> QED
      BY <2>1, <2>2, Others
  <1> QED
    BY <1>4, <1>5, <1>6 DEF Inv

-----------------------------------------------------------------------------
(* What the runner computes.                                               *)

\* finishMigrationConnection
LEMMA FinishFacts ==
    ASSUME NEW l \in Process, NEW err \in Errors
    PROVE  /\ Finish(l, err) \in Process
           /\ Finish(l, err).pc = IF err = "ErrMigrationInterrupted" THEN "close" ELSE "unlock"
           /\ Finish(l, err).err = err /\ Finish(l, err).conn = l.conn
           /\ Finish(l, err).stage = l.stage /\ Finish(l, err).version = l.version
  BY DEF Finish, Process, Steps, Running, Statements

\* Where an error of the statement at l.pc takes the run.
LEMMA OnErrorFacts ==
    ASSUME NEW l \in Process, l.pc \in Statements, NEW b \in BOOLEAN,
           NEW n, n = OnError(l, b)
    PROVE  /\ n \in Process /\ n.conn = l.conn /\ n.version = l.version
           /\ l.pc = "lock" => n.pc = "close" /\ n.err = "ErrMigrationLock"
           /\ l.pc \in {"exists", "columns", "rows"} => n.pc = "unlock" /\ n.err = "ErrSchemaQuery"
           /\ l.pc \in {"begin", "commit"} =>
                 IF b THEN n.pc = "close" /\ n.err = "ErrMigrationInterrupted"
                 ELSE n.pc = "unlock" /\ n.err = "ErrMigration"
           /\ l.pc \in {"exec", "record"} =>
                 n.pc = "rollback" /\ n.err \in {"ErrMigration", "ErrMigrationInterrupted"}
           /\ l.pc = "rollback" => n.pc = "close" /\ n.err = "ErrMigrationInterrupted"
           /\ l.pc = "unlock" => /\ n.pc = "close" /\ n.err # "none"
                                 /\ n.err = "ErrMigration" => l.err = "ErrMigration"
  <1>1. CASE l.pc = "lock"
    <2>1. n = [l EXCEPT !.pc = "close", !.err = "ErrMigrationLock"]
      BY <1>1 DEF OnError
    <2> QED
      BY <1>1, <2>1 DEF Process, Steps, Running, Errors
  <1>2. CASE l.pc \in {"exists", "columns", "rows"}
    <2>1. n = Finish(l, "ErrSchemaQuery") /\ "ErrSchemaQuery" \in Errors
      BY <1>2 DEF OnError, Errors
    <2> QED
      BY <1>2, <2>1, FinishFacts
  <1>3. CASE l.pc \in {"begin", "commit"}
    <2>1. n = Finish(l, migrationFailure(b)) /\ migrationFailure(b) \in Errors
      BY <1>3 DEF OnError, Errors, migrationFailure
    <2> QED
      BY <1>3, <2>1, FinishFacts DEF migrationFailure
  <1>4. CASE l.pc \in {"exec", "record"}
    <2>1. n = [l EXCEPT !.pc = "rollback", !.err = migrationFailure(b)]
      BY <1>4 DEF OnError
    <2> QED
      BY <1>4, <2>1 DEF Process, Steps, Running, Statements, Errors, migrationFailure
  <1>5. CASE l.pc = "rollback"
    <2>1. n = Finish(l, "ErrMigrationInterrupted") /\ "ErrMigrationInterrupted" \in Errors
      BY <1>5 DEF OnError, Errors, Unconfirmed
    <2> QED
      BY <1>5, <2>1, FinishFacts
  <1>6. CASE l.pc = "unlock"
    <2>1. n = [l EXCEPT !.pc = "close", !.err = IF l.err = "none" THEN "ErrMigrationLock" ELSE l.err]
      BY <1>6 DEF OnError
    <2> QED
      BY <1>6, <2>1 DEF Process, Steps, Running, Statements, Errors
  <1> QED
    BY <1>1, <1>2, <1>3, <1>4, <1>5, <1>6 DEF Statements

\* A snapshot that is classified as behind or current is the first part of the
\* release, and all of it when current.
LEMMA Classified ==
    ASSUME TypeOK, NEW i \in Instances, NEW seen, seen = classifySnapshot(schema.rows, Release[i])
    PROVE  /\ seen \in [status : Status, version : Nat]
           /\ seen.status # "uninitialized"
           /\ seen.status \in {"behind", "current"} => History!Follows(schema.rows, i, seen.version)
           /\ seen.status = "current" => seen.version = Len(Release[i])
  <1>1. schema.rows \in Seq(Record) /\ Release[i] \in Seq(Checksums \ {Blank})
    BY Typed
  <1>2. Len(schema.rows) \in Nat /\ Len(Release[i]) \in Nat
    BY <1>1
  <1>3. CASE Len(schema.rows) = 0 \/ \E k \in 1..Len(schema.rows) : Foreign(schema.rows, k, Release[i])
    <2>1. seen = [status |-> "invalid", version |-> 0]
      BY <1>3 DEF classifySnapshot
    <2> QED
      BY <2>1 DEF Status
  <1>4. CASE ~(Len(schema.rows) = 0 \/ \E k \in 1..Len(schema.rows) : Foreign(schema.rows, k, Release[i]))
    <2>1. /\ seen.version = Len(schema.rows)
          /\ seen.status = IF Len(schema.rows) > Len(Release[i]) THEN "ahead"
                           ELSE IF Len(schema.rows) < Len(Release[i]) THEN "behind" ELSE "current"
          /\ seen \in [status : Status, version : Nat]
      BY <1>2, <1>4 DEF classifySnapshot, Status
    <2>2. ASSUME Len(schema.rows) <= Len(Release[i]), NEW k \in 1..Len(schema.rows)
          PROVE  schema.rows[k] = [version |-> k, checksum |-> Release[i][k]]
      <3>1. schema.rows[k] \in Record /\ ~Foreign(schema.rows, k, Release[i])
        BY <1>1, <1>4
      <3>2. k <= Len(Release[i])
        BY <1>2, <2>2
      <3> QED
        BY <3>1, <3>2 DEF Record, Foreign
    <2>3. Len(schema.rows) <= Len(Release[i]) => History!Follows(schema.rows, i, Len(schema.rows))
      BY <1>2, <2>2 DEF History!Follows
    <2> QED
      BY <1>2, <2>1, <2>3
  <1> QED
    BY <1>3, <1>4

\* Where an inspection takes the run.
LEMMA InspectFacts ==
    ASSUME NEW l \in Process, NEW seen \in [status : Status, version : Nat],
           NEW migrations, Len(migrations) \in Nat,
           NEW n, n = AfterInspect(l, seen, migrations)
    PROVE  /\ n \in Process /\ n.conn = l.conn
           /\ \/ n.pc = "unlock" /\ n.err \in {"ErrSchemaAhead", "ErrSchemaInvalid"}
              \/ n.pc = "unlock" /\ n.err = "none" /\ seen.status = "current"
              \/ /\ n.pc \in {"begin", "exists"} /\ n.err = l.err /\ n.version = seen.version
                 /\ seen.status \in {"uninitialized", "behind", "current"}
                 /\ n.pc = "begin" => n.version < Len(migrations)
                 /\ n.pc = "exists" => n.stage = "final" /\ n.version >= Len(migrations)
  <1>1. ASSUME NEW m, m = Loop(l, seen.version, migrations)
        PROVE  /\ m \in Process /\ m.conn = l.conn
               /\ m.pc \in {"begin", "exists"} /\ m.err = l.err /\ m.version = seen.version
               /\ m.pc = "begin" => m.version < Len(migrations)
               /\ m.pc = "exists" => m.stage = "final" /\ m.version >= Len(migrations)
    <2>1. CASE seen.version < Len(migrations)
      <3>1. m = [l EXCEPT !.pc = "begin", !.version = seen.version]
        BY <1>1, <2>1 DEF Loop
      <3> QED
        BY <2>1, <3>1 DEF Process, Steps, Running, Statements
    <2>2. CASE ~(seen.version < Len(migrations))
      <3>1. m = [l EXCEPT !.pc = "exists", !.stage = "final", !.version = seen.version]
        BY <1>1, <2>2 DEF Loop
      <3>2. seen.version \in Nat /\ seen.version >= Len(migrations)
        BY <2>2
      <3> QED
        BY <3>1, <3>2 DEF Process, Steps, Running, Statements
    <2> QED
      BY <2>1, <2>2
  <1>2. \A err \in {"none", "ErrSchemaAhead", "ErrSchemaInvalid"} :
           /\ err \in Errors
           /\ Finish(l, err) \in Process /\ Finish(l, err).conn = l.conn
           /\ Finish(l, err).pc = "unlock" /\ Finish(l, err).err = err
    BY FinishFacts DEF Errors
  <1>3. CASE l.stage = "first"
    BY <1>1, <1>2, <1>3 DEF AfterInspect, Status
  <1>4. CASE l.stage = "post"
    BY <1>1, <1>2, <1>4 DEF AfterInspect, Status
  <1>5. CASE l.stage = "final"
    BY <1>1, <1>2, <1>5 DEF AfterInspect, Status
  <1> QED
    BY <1>3, <1>4, <1>5 DEF Process

-----------------------------------------------------------------------------
(* Steps of a process.                                                     *)

\* What holds where an instance is.
LEMMA Here ==
    ASSUME Inv, NEW i \in Instances
    PROVE  /\ TypeOK /\ ProcessOK(i) /\ \A slot \in Slots : SessionOK(i, slot)
           /\ inst \in [Instances -> Process] /\ inst[i] \in Process
           /\ inst[i].conn \in Slots \cup {NoSession} /\ NoSession \notin Slots
           /\ schema \in Schema /\ faults \in Nat
           /\ Len(Release[i]) \in Nat \ {0}
  BY Typed DEF Inv, TypeOK, Process

\* Acquiring the connection, or giving up.
LEMMA AcquireInv == ASSUME Inv, NEW i \in Instances, Acquire(i) PROVE Inv'
  <1> DEFINE l == IF inst[i].ctx = "live" THEN [inst[i] EXCEPT !.pc = "lock"]
                  ELSE [inst[i] EXCEPT !.pc = "close", !.err = "ErrMigrationLock"]
  <1>1. /\ inst[i].pc = "acquire" /\ inst' = [inst EXCEPT ![i] = l]
        /\ UNCHANGED <<schema, lock, session, faults>>
    BY DEF Acquire, At
  <1>2. /\ l \in Process /\ l.conn = inst[i].conn /\ l.stage = inst[i].stage
        /\ \/ l.pc = "lock" /\ l.err = inst[i].err
           \/ l.pc = "close" /\ l.err = "ErrMigrationLock"
    BY Here DEF Process, Steps, Running, Statements, Errors
  <1> HIDE DEF l
  <1>3. inst'[i] = l
    BY <1>1, Here
  <1>4. ProcessOK(i)'
    BY <1>1, <1>2, <1>3, Here
       DEF ProcessOK, Connected, Conn, Applying, Locked, Running, Statements, TxnAt
  <1> QED
    BY <1>1, <1>2, <1>4, Here, LocalStep

\* The end of a context.
LEMMA EndContextInv ==
    ASSUME Inv, NEW i \in Instances, NEW how \in {"cancelled", "expired"}, EndContext(i, how)
    PROVE  Inv'
  <1> DEFINE l == [inst[i] EXCEPT !.ctx = how]
  <1>1. /\ inst' = [inst EXCEPT ![i] = l] /\ UNCHANGED <<schema, lock, session, faults>>
    BY Here DEF EndContext
  <1>2. /\ l \in Process /\ l.conn = inst[i].conn /\ l.stage = inst[i].stage
        /\ l.pc = inst[i].pc /\ l.err = inst[i].err /\ l.version = inst[i].version
    BY Here DEF Process
  <1> HIDE DEF l
  <1>3. inst'[i] = l
    BY <1>1, Here
  <1>4. ProcessOK(i)'
    <2>1. /\ ProcessOK(i) /\ Applying(i)' = Applying(i) /\ Conn(i)' = Conn(i)
          /\ Connected(i)' = Connected(i)
      BY <1>1, <1>2, <1>3, Here DEF Connected, Conn, Applying
    <2> QED
      BY SMTT(20), <1>1, <1>2, <1>3, <2>1 DEF ProcessOK
  <1> QED
    BY <1>1, <1>2, <1>4, Here, LocalStep

\* A start that does not get to the database.
LEMMA StartFailsInv ==
    ASSUME Inv, NEW i \in Instances, NEW err \in {"ErrConfigInvalid", "ErrConnect"},
           StartFails(i, err)
    PROVE  Inv'
  <1> DEFINE l == [Down EXCEPT !.pc = "failed", !.err = err]
  <1>1. /\ inst[i].pc \in {"down", "failed"} /\ inst' = [inst EXCEPT ![i] = l]
        /\ UNCHANGED <<schema, lock, session>> /\ faults' \in Nat
    BY Here DEF StartFails
  <1>2. /\ l \in Process /\ l.conn = NoSession /\ l.pc = "failed" /\ l.err = err
    BY DEF Down, Process, Steps, Errors
  <1>3. inst[i].conn = NoSession
    BY <1>1, Here DEF ProcessOK
  <1> HIDE DEF l
  <1>4. inst'[i] = l
    BY <1>1, Here
  <1>5. ProcessOK(i)'
    BY <1>1, <1>2, <1>4, Here DEF ProcessOK, Connected, Conn, Running, Statements
  <1> QED
    BY <1>1, <1>2, <1>3, <1>5, LocalStep

\* A statement of Snapshot is answered, and the run goes on to the next one or
\* looks at what it has seen.
LEMMA InspectStep ==
    ASSUME Inv, NEW i \in Instances, inst[i].pc \in {"exists", "columns", "rows"}, Connected(i),
           UNCHANGED <<schema, lock, session, faults>>,
           NEW l, inst' = [inst EXCEPT ![i] = l],
           \/ \E pc \in {"columns", "rows"} : l = [inst[i] EXCEPT !.pc = pc]
           \/ \E seen \in [status : Status, version : Nat] :
                 /\ l = AfterInspect(inst[i], seen, Release[i])
                 /\ seen.status \in {"uninitialized", "behind", "current"} =>
                       History!Follows(schema.rows, i, seen.version)
                 /\ seen.status = "current" => seen.version = Len(Release[i])
    PROVE  Inv'
  <1>1. inst'[i] = l
    BY Here
  <1>2. CASE \E pc \in {"columns", "rows"} : l = [inst[i] EXCEPT !.pc = pc]
    <2>1. /\ l \in Process /\ l.conn = inst[i].conn /\ l.stage = inst[i].stage
          /\ l.pc \in {"columns", "rows"} /\ l.err = inst[i].err /\ l.version = inst[i].version
      BY <1>2, Here DEF Process, Steps, Running, Statements
    <2>2. ProcessOK(i)'
      BY <1>1, <2>1, Here
         DEF ProcessOK, Connected, Conn, Applying, Locked, Running, Statements, TxnAt
    <2> QED
      BY <2>1, <2>2, Here, LocalStep
  <1>3. ASSUME NEW seen \in [status : Status, version : Nat],
               l = AfterInspect(inst[i], seen, Release[i]),
               seen.status \in {"uninitialized", "behind", "current"} =>
                   History!Follows(schema.rows, i, seen.version),
               seen.status = "current" => seen.version = Len(Release[i])
        PROVE  Inv'
    <2>1. /\ l \in Process /\ l.conn = inst[i].conn
          /\ \/ l.pc = "unlock" /\ l.err \in {"ErrSchemaAhead", "ErrSchemaInvalid"}
             \/ l.pc = "unlock" /\ l.err = "none" /\ seen.status = "current"
             \/ /\ l.pc \in {"begin", "exists"} /\ l.err = inst[i].err /\ l.version = seen.version
                /\ seen.status \in {"uninitialized", "behind", "current"}
                /\ l.pc = "begin" => l.version < Len(Release[i])
                /\ l.pc = "exists" => l.stage = "final" /\ l.version >= Len(Release[i])
      BY <1>3, Here, InspectFacts
    <2>2. seen.version \in Nat
      OBVIOUS
    <2>3. seen.status = "current" => History!Holds(schema.rows, i)
      BY <1>3, Here DEF History!Follows, History!Holds
    <2>4. l.pc = "exists" => History!Follows(schema.rows, i, Len(Release[i]))
      <3>1. l.pc = "exists" => History!Follows(schema.rows, i, seen.version)
                               /\ seen.version >= Len(Release[i])
        BY <1>3, <2>1
      <3>2. History!Follows(schema.rows, i, seen.version) => seen.version <= Len(Release[i])
        BY DEF History!Follows
      <3>3. seen.version >= Len(Release[i]) /\ seen.version <= Len(Release[i]) =>
               seen.version = Len(Release[i])
        BY <2>2, Here
      <3> QED
        BY <3>1, <3>2, <3>3
    <2>5. l.pc = "begin" => History!Follows(schema.rows, i, l.version)
      BY <1>3, <2>1
    <2>6. ProcessOK(i)'
      BY <1>1, <2>1, <2>3, <2>4, <2>5, Here
         DEF ProcessOK, Connected, Conn, Applying, Locked, Running, Statements, TxnAt
    <2> QED
      BY <2>1, <2>6, Here, LocalStep
  <1> QED
    BY <1>2, <1>3

\* The statements of Snapshot.
LEMMA ReadInv ==
    ASSUME Inv, NEW i \in Instances, ReadExists(i) \/ ReadColumns(i) \/ ReadRows(i)
    PROVE  Inv'
  <1>1. /\ Connected(i) /\ inst[i].pc \in {"exists", "columns", "rows"}
        /\ UNCHANGED <<schema, lock, session, faults>>
    BY DEF ReadExists, ReadColumns, ReadRows, Sends, At, Connected
  <1>2. CASE ReadExists(i)
    <2> DEFINE seen == [status |-> "uninitialized", version |-> 0]
    <2>1. CASE schema.table = "absent"
      <3>1. inst' = [inst EXCEPT ![i] = AfterInspect(inst[i], seen, Release[i])]
        BY <1>2, <2>1 DEF ReadExists
      <3>2. seen \in [status : Status, version : Nat] /\ seen.status = "uninitialized"
            /\ seen.version = 0
        BY DEF Status
      <3>3. History!Follows(schema.rows, i, 0)
        BY <2>1, Here DEF Schema, History!Follows
      <3> HIDE DEF seen
      <3> QED
        BY <1>1, <3>1, <3>2, <3>3, InspectStep
    <2>2. CASE schema.table # "absent"
      BY <1>1, <1>2, <2>2, InspectStep DEF ReadExists
    <2> QED
      BY <2>1, <2>2
  <1>3. CASE ReadColumns(i)
    <2> DEFINE seen == [status |-> "invalid", version |-> 0]
    <2>1. CASE schema.table = "partial"
      <3>1. inst' = [inst EXCEPT ![i] = AfterInspect(inst[i], seen, Release[i])]
        BY <1>3, <2>1 DEF ReadColumns
      <3>2. seen \in [status : Status, version : Nat] /\ seen.status = "invalid"
        BY DEF Status
      <3> HIDE DEF seen
      <3> QED
        BY <1>1, <3>1, <3>2, InspectStep
    <2>2. CASE schema.table # "partial"
      BY <1>1, <1>3, <2>2, InspectStep DEF ReadColumns
    <2> QED
      BY <2>1, <2>2
  <1>4. CASE ReadRows(i)
    <2> DEFINE seen == classifySnapshot(schema.rows, Release[i])
    <2>1. inst' = [inst EXCEPT ![i] = AfterInspect(inst[i], seen, Release[i])]
      BY <1>4 DEF ReadRows
    <2>2. /\ seen \in [status : Status, version : Nat] /\ seen.status # "uninitialized"
          /\ seen.status \in {"behind", "current"} => History!Follows(schema.rows, i, seen.version)
          /\ seen.status = "current" => seen.version = Len(Release[i])
      BY Here, Classified
    <2> HIDE DEF seen
    <2> QED
      BY <1>1, <2>1, <2>2, InspectStep
  <1> QED
    BY <1>2, <1>3, <1>4

\* No session of an instance that holds the lock on a live session can still
\* commit; nor can that session.
LEMMA NothingPending ==
    ASSUME Inv, NEW i \in Instances, Connected(i), lock = Conn(i), NEW slot \in Slots
    PROVE  session[<<i, slot>>].todo # "commit"
  <1>1. SessionOK(i, slot) /\ inst[i].conn \in Slots /\ SessionOK(i, inst[i].conn)
    BY Here DEF Connected
  <1>2. session[<<i, inst[i].conn>>].todo = "none"
    BY <1>1 DEF SessionOK, Connected, Conn
  <1>3. CASE slot = inst[i].conn
    BY <1>2, <1>3
  <1>4. CASE slot # inst[i].conn
    BY <1>1, <1>4 DEF SessionOK, Conn
  <1> QED
    BY <1>3, <1>4

\* An error of a statement that leaves the session alone.
LEMMA ErrorStep ==
    ASSUME Inv, NEW i \in Instances, inst[i].pc \in Statements, NEW b \in BOOLEAN,
           b = FALSE => Connected(i) /\ inst[i].pc # "commit",
           inst' = [inst EXCEPT ![i] = OnError(inst[i], b)],
           UNCHANGED <<schema, lock, session>>, faults' \in Nat
    PROVE  Inv'
  <1> DEFINE l == OnError(inst[i], b)
  <1>1. l \in Process /\ l.conn = inst[i].conn /\ l.version = inst[i].version
    BY Here, OnErrorFacts
  <1>2. /\ inst[i].pc = "lock" => l.pc = "close" /\ l.err = "ErrMigrationLock"
        /\ inst[i].pc \in {"exists", "columns", "rows"} =>
              l.pc = "unlock" /\ l.err = "ErrSchemaQuery"
        /\ inst[i].pc \in {"begin", "commit"} =>
              IF b THEN l.pc = "close" /\ l.err = "ErrMigrationInterrupted"
              ELSE l.pc = "unlock" /\ l.err = "ErrMigration"
        /\ inst[i].pc \in {"exec", "record"} =>
              l.pc = "rollback" /\ l.err \in {"ErrMigration", "ErrMigrationInterrupted"}
        /\ inst[i].pc = "rollback" => l.pc = "close" /\ l.err = "ErrMigrationInterrupted"
        /\ inst[i].pc = "unlock" => /\ l.pc = "close" /\ l.err # "none"
                                    /\ l.err = "ErrMigration" => inst[i].err = "ErrMigration"
    BY Here, OnErrorFacts
  <1>3. inst' = [inst EXCEPT ![i] = l] /\ inst'[i] = l
    BY Here
  <1> HIDE DEF l
  <1>4. inst[i].pc = "begin" /\ l.err = "ErrMigration" =>
           \A slot \in Slots : session[<<i, slot>>].todo # "commit"
    <2>1. ASSUME inst[i].pc = "begin", l.err = "ErrMigration"
          PROVE  Connected(i) /\ lock = Conn(i)
      BY <1>2, <2>1, Here DEF ProcessOK, Locked, Statements
    <2> QED
      BY <2>1, NothingPending
  <1>5. ProcessOK(i)'
    BY <1>1, <1>2, <1>3, <1>4, Here
       DEF ProcessOK, Connected, Conn, Applying, Locked, Running, Statements, TxnAt
  <1> QED
    BY <1>1, <1>3, <1>5, LocalStep

\* A statement that is not sent.
LEMMA NotSentInv == ASSUME Inv, NEW i \in Instances, NotSent(i) PROVE Inv'
  BY ErrorStep, Here DEF NotSent

-----------------------------------------------------------------------------
(* Steps of a process and its session.                                     *)

\* What holds where an instance has sent a statement.
LEMMA Sending ==
    ASSUME Inv, NEW i \in Instances, Connected(i), NEW slot, slot = inst[i].conn
    PROVE  /\ slot \in Slots /\ Conn(i) = <<i, slot>> /\ <<i, slot>> \in Sessions
           /\ session \in [Sessions -> Session] /\ session[<<i, slot>>] \in Session
           /\ session[<<i, slot>>].state = "live" /\ session[<<i, slot>>].todo = "none"
           /\ SessionOK(i, slot) /\ <<i, slot>> # NoSession
  <1>1. slot \in Slots /\ Conn(i) = <<i, slot>> /\ session[<<i, slot>>].state = "live"
    BY Here DEF Connected, Conn
  <1>2. SessionOK(i, slot) /\ session \in [Sessions -> Session] /\ <<i, slot>> # NoSession
    BY <1>1, Here, Typed DEF TypeOK
  <1> QED
    BY <1>1, <1>2 DEF SessionOK, Sessions

\* A statement of a transaction moves the transaction of its session on.
LEMMA TxnStep ==
    ASSUME Inv, NEW i \in Instances, Connected(i), lock = Conn(i),
           NEW pc \in {"exec", "record", "commit"}, Goto(i, pc),
           inst[i].pc \in {"begin", "exec", "record"},
           NEW x, x.state = "live", x.todo = "none", x.version = Applying(i), x.txn \in TxnAt(pc),
           session' = [session EXCEPT ![Conn(i)] = x], x \in Session,
           UNCHANGED <<schema, lock, faults>>
    PROVE  Inv'
  <1>0. PICK slot : slot = inst[i].conn
    OBVIOUS
  <1> DEFINE l == [inst[i] EXCEPT !.pc = pc]
  <1>1. /\ slot \in Slots /\ Conn(i) = <<i, slot>> /\ <<i, slot>> \in Sessions
        /\ session \in [Sessions -> Session] /\ SessionOK(i, slot) /\ <<i, slot>> # NoSession
    BY <1>0, Sending
  <1>2. /\ l \in Process /\ l.conn = slot /\ l.pc = pc /\ l.err = inst[i].err
        /\ l.version = inst[i].version
    BY <1>0, Here DEF Process, Steps, Running, Statements
  <1>3. inst' = [inst EXCEPT ![i] = l] /\ inst'[i] = l /\ session'[<<i, slot>>] = x
    BY <1>1, Here DEF Goto
  <1>4. /\ inst[i].err = "none" /\ inst[i].version < Len(Release[i])
        /\ History!Follows(schema.rows, i, inst[i].version)
        /\ inst[i].version \in Nat /\ Len(Release[i]) \in Nat
    BY Here DEF ProcessOK, Running, Statements, Process
  <1> HIDE DEF l
  <1>5. SessionStep(i, slot, l, x)
    BY <1>1, <1>2, <1>3, <1>0, Here DEF SessionStep
  <1>6. SessionOK(i, slot)'
    <2>1. x.version - 1 = inst[i].version /\ x.version \in 1..Len(Release[i])
      BY <1>4 DEF Applying
    <2> QED
      BY <1>1, <1>2, <1>3, <1>4, <2>1 DEF SessionOK
  <1>7. ProcessOK(i)'
    <2>1. /\ l.conn # NoSession /\ Conn(i)' = <<i, slot>> /\ Connected(i)'
          /\ Applying(i)' = Applying(i)
      BY <1>1, <1>2, <1>3, Here DEF Connected, Conn, Applying
    <2> QED
      BY <1>1, <1>2, <1>3, <1>4, <2>1 DEF ProcessOK, Running, Statements, Locked
  <1> QED
    BY <1>1, <1>2, <1>5, <1>6, <1>7, OneSession

\* BEGIN, the migration and its record.
LEMMA ApplyInv ==
    ASSUME Inv, NEW i \in Instances, Begin(i) \/ Exec(i) \/ InsertRecord(i)
    PROVE  Inv'
  <1>0. PICK slot : slot = inst[i].conn
    OBVIOUS
  <1> DEFINE x == session[<<i, slot>>]
  <1>1. /\ Connected(i) /\ inst[i].pc \in {"begin", "exec", "record"}
        /\ UNCHANGED <<schema, lock, faults>>
    BY DEF Begin, Exec, InsertRecord, Sends, At, Connected
  <1>2. /\ slot \in Slots /\ Conn(i) = <<i, slot>> /\ <<i, slot>> \in Sessions
        /\ session \in [Sessions -> Session] /\ x \in Session
        /\ x.state = "live" /\ x.todo = "none"
    BY <1>0, <1>1, Sending
  <1>3. /\ lock = Conn(i) /\ Applying(i) \in Nat
        /\ inst[i].pc \in {"exec", "record"} => x.version = Applying(i)
    <2>1. ProcessOK(i)
      BY Here
    <2>2. lock = Conn(i)
      BY <1>1, <2>1 DEF ProcessOK, Locked, Statements
    <2>3. inst[i].pc \in {"exec", "record"} => x.version = Applying(i)
      BY <1>1, <1>2, <2>1 DEF ProcessOK
    <2>4. Applying(i) \in Nat
      BY Here DEF Process, Applying
    <2> QED
      BY <2>2, <2>3, <2>4
  <1>4. CASE Begin(i)
    <2> DEFINE y == [x EXCEPT !.txn = "open", !.version = Applying(i)]
    <2>1. /\ y \in Session /\ y.state = "live" /\ y.todo = "none" /\ y.version = Applying(i)
          /\ y.txn \in TxnAt("exec")
      BY <1>2, <1>3 DEF Session, TxnAt
    <2>2. session' = [session EXCEPT ![Conn(i)] = y] /\ Goto(i, "exec")
      BY <1>2, <1>4 DEF Begin
    <2> HIDE DEF y, x
    <2> QED
      BY <1>1, <1>3, <2>1, <2>2, TxnStep
  <1>5. CASE Exec(i)
    <2> DEFINE y == [x EXCEPT !.txn = "ddl"]
    <2>1. /\ y \in Session /\ y.state = "live" /\ y.todo = "none" /\ y.version = x.version
          /\ y.txn \in TxnAt("record")
      BY <1>2 DEF Session, TxnAt
    <2>2. session' = [session EXCEPT ![Conn(i)] = y] /\ Goto(i, "record") /\ inst[i].pc = "exec"
      BY <1>2, <1>5 DEF Exec, Sends, At
    <2> HIDE DEF y, x
    <2> QED
      BY <1>1, <1>3, <2>1, <2>2, TxnStep
  <1>6. CASE InsertRecord(i)
    <2> DEFINE y == [x EXCEPT !.txn = "recorded"]
    <2>1. /\ y \in Session /\ y.state = "live" /\ y.todo = "none" /\ y.version = x.version
          /\ y.txn \in TxnAt("commit")
      BY <1>2 DEF Session, TxnAt
    <2>2. session' = [session EXCEPT ![Conn(i)] = y] /\ Goto(i, "commit") /\ inst[i].pc = "record"
      BY <1>2, <1>6 DEF InsertRecord, Sends, At
    <2> HIDE DEF y, x
    <2> QED
      BY <1>1, <1>3, <2>1, <2>2, TxnStep
  <1> QED
    BY <1>4, <1>5, <1>6

\* Open starts a session.
LEMMA StartInv == ASSUME Inv, NEW i \in Instances, NEW slot \in Slots, Start(i, slot) PROVE Inv'
  <1> DEFINE l == [Down EXCEPT !.pc = "acquire", !.conn = slot]
  <1>1. /\ inst[i].pc \in {"down", "failed"} /\ session[<<i, slot>>].state = "free"
        /\ session' = [session EXCEPT ![<<i, slot>>] = Fresh]
        /\ inst' = [inst EXCEPT ![i] = l] /\ UNCHANGED <<schema, lock, faults>>
    BY DEF Start
  <1>2. /\ l \in Process /\ l.pc = "acquire" /\ l.conn = slot /\ l.err = "none"
        /\ l.stage = "first"
    BY DEF Down, Process, Steps, Running, Errors
  <1>3. /\ Fresh \in Session /\ Fresh.state = "live" /\ Fresh.todo = "none"
        /\ Fresh.txn = "none"
    BY DEF Fresh, Free, Session
  <1>4. inst[i].conn = NoSession /\ lock # <<i, slot>>
    BY <1>1, Here DEF ProcessOK, SessionOK
  <1> HIDE DEF l
  <1>5. inst'[i] = l /\ session'[<<i, slot>>] = Fresh
    BY <1>1, Here DEF TypeOK, Sessions
  <1>6. SessionStep(i, slot, l, Fresh)
    BY <1>1, <1>2, <1>4, Here DEF SessionStep
  <1>7. SessionOK(i, slot)'
    BY <1>1, <1>2, <1>3, <1>4, <1>5 DEF SessionOK
  <1>8. ProcessOK(i)'
    <2>1. Conn(i)' = <<i, slot>>
      BY <1>2, <1>5 DEF Conn
    <2> QED
      BY <1>1, <1>2, <1>3, <1>4, <1>5, <2>1, Here
         DEF ProcessOK, Running, Statements, Locked, TxnAt
  <1> QED
    BY <1>1, <1>2, <1>3, <1>6, <1>7, <1>8, OneSession

\* The lock is granted.
LEMMA LockInv == ASSUME Inv, NEW i \in Instances, Lock(i) PROVE Inv'
  <1>0. PICK slot : slot = inst[i].conn
    OBVIOUS
  <1> DEFINE l == [inst[i] EXCEPT !.pc = "exists"]
  <1>1. /\ Connected(i) /\ inst[i].pc = "lock" /\ lock = NoSession /\ lock' = Conn(i)
        /\ inst' = [inst EXCEPT ![i] = l] /\ UNCHANGED <<schema, session, faults>>
    BY Here DEF Lock, Sends, At, Connected, Goto
  <1>2. /\ slot \in Slots /\ Conn(i) = <<i, slot>> /\ <<i, slot>> \in Sessions
        /\ session \in [Sessions -> Session] /\ session[<<i, slot>>] \in Session
        /\ session[<<i, slot>>].state = "live" /\ session[<<i, slot>>].todo = "none"
        /\ <<i, slot>> # NoSession
    BY <1>0, <1>1, Sending
  <1>3. /\ l \in Process /\ l.conn = slot /\ l.pc = "exists" /\ l.err = inst[i].err
        /\ l.stage = inst[i].stage
    BY <1>0, Here DEF Process, Steps, Running, Statements
  <1>4. inst[i].err = "none" /\ inst[i].stage = "first" /\ session[<<i, slot>>].txn = "none"
    BY <1>1, <1>2, Here DEF ProcessOK, Running, Statements, TxnAt
  <1> HIDE DEF l
  <1>5. inst'[i] = l
    BY <1>1, Here
  <1>6. SessionStep(i, slot, l, session[<<i, slot>>])
    BY <1>0, <1>1, <1>2, <1>3, Here DEF SessionStep
  <1>7. SessionOK(i, slot)'
    BY <1>1, <1>2, <1>3, <1>4, <1>5 DEF SessionOK
  <1>8. ProcessOK(i)'
    <2>1. Conn(i)' = <<i, slot>>
      BY <1>3, <1>5 DEF Conn
    <2> QED
      BY <1>1, <1>2, <1>3, <1>4, <1>5, <2>1, Here
         DEF ProcessOK, Running, Statements, Locked, TxnAt
  <1> QED
    BY <1>1, <1>2, <1>3, <1>6, <1>7, <1>8, OneSession

\* The transaction of a live session ends without effect.
LEMMA AbortStep ==
    ASSUME Inv, NEW i \in Instances, Connected(i), lock = Conn(i),
           NEW l \in Process, l.conn = inst[i].conn, l.pc \in {"unlock", "close"},
           l.err # "none", inst' = [inst EXCEPT ![i] = l], session' = Ended(Conn(i)),
           UNCHANGED <<schema, lock>>, faults' \in Nat
    PROVE  Inv'
  <1>0. PICK slot : slot = inst[i].conn
    OBVIOUS
  <1>1. /\ slot \in Slots /\ Conn(i) = <<i, slot>> /\ <<i, slot>> \in Sessions
        /\ session \in [Sessions -> Session] /\ session[<<i, slot>>] \in Session
        /\ session[<<i, slot>>].state = "live" /\ <<i, slot>> # NoSession
    BY <1>0, Sending
  <1> DEFINE x == [session[<<i, slot>>] EXCEPT !.txn = "none", !.version = 0, !.todo = "none"]
  <1>2. x \in Session /\ x.txn = "none" /\ x.todo = "none" /\ x.state = "live"
    BY <1>1 DEF Session
  <1>3. session' = [session EXCEPT ![<<i, slot>>] = x]
    BY <1>1 DEF Ended
  <1> HIDE DEF x
  <1>4. /\ inst'[i] = l /\ session'[<<i, slot>>] = x
        /\ \A t \in Slots \ {slot} : session'[<<i, t>>] = session[<<i, t>>]
    BY <1>1, <1>3, Here DEF Sessions
  <1>5. SessionStep(i, slot, l, x)
    BY <1>0, <1>3, Here DEF SessionStep
  <1>6. SessionOK(i, slot)'
    BY <1>0, <1>1, <1>2, <1>4 DEF SessionOK
  <1>7. ProcessOK(i)'
    <2>1. Conn(i)' = <<i, slot>>
      BY <1>0, <1>4 DEF Conn
    <2>2. \A t \in Slots : session'[<<i, t>>].todo # "commit"
      BY <1>2, <1>4, NothingPending
    <2> QED
      BY <1>0, <1>1, <1>2, <1>4, <2>1, <2>2
         DEF ProcessOK, Running, Statements, Locked, TxnAt
  <1> QED
    BY <1>1, <1>2, <1>5, <1>6, <1>7, OneSession

\* ROLLBACK
LEMMA RollbackInv == ASSUME Inv, NEW i \in Instances, Rollback(i) PROVE Inv'
  <1>1. /\ Connected(i) /\ inst[i].pc = "rollback" /\ session' = Ended(Conn(i))
        /\ inst' = [inst EXCEPT ![i] = Finish(inst[i], inst[i].err)]
        /\ UNCHANGED <<schema, lock, faults>>
    BY DEF Rollback, Sends, At, Connected
  <1>2. lock = Conn(i) /\ inst[i].err # "none" /\ inst[i].err \in Errors
    BY <1>1, Here DEF ProcessOK, Locked, Statements, Process
  <1>3. /\ Finish(inst[i], inst[i].err) \in Process
        /\ Finish(inst[i], inst[i].err).pc \in {"unlock", "close"}
        /\ Finish(inst[i], inst[i].err).err = inst[i].err
        /\ Finish(inst[i], inst[i].err).conn = inst[i].conn
    BY <1>2, Here, FinishFacts
  <1> QED
    BY <1>1, <1>2, <1>3, Here, AbortStep

\* A statement is refused.
LEMMA RefuseInv == ASSUME Inv, NEW i \in Instances, Refuse(i) PROVE Inv'
  <1>1. /\ Connected(i) /\ inst[i].pc \in Statements
        /\ inst' = [inst EXCEPT ![i] = OnError(inst[i], FALSE)]
        /\ UNCHANGED <<schema, lock>> /\ faults' \in Nat
    BY SMTT(20), Here DEF Refuse, Sends, Connected
  <1>2. CASE inst[i].pc = "commit"
    <2>1. session' = Ended(Conn(i)) /\ lock = Conn(i)
      BY <1>1, <1>2, Here DEF Refuse, At, ProcessOK, Locked, Statements
    <2>2. inst' = [inst EXCEPT ![i] = Finish(inst[i], "ErrMigration")]
      BY <1>1, <1>2 DEF OnError, migrationFailure
    <2>3. /\ Finish(inst[i], "ErrMigration") \in Process
          /\ Finish(inst[i], "ErrMigration").conn = inst[i].conn
          /\ Finish(inst[i], "ErrMigration").pc = "unlock"
          /\ Finish(inst[i], "ErrMigration").err = "ErrMigration"
      BY Here, FinishFacts DEF Errors
    <2> QED
      BY <1>1, <2>1, <2>2, <2>3, AbortStep
  <1>3. CASE inst[i].pc # "commit"
    BY <1>1, <1>3, ErrorStep DEF Refuse, At
  <1> QED
    BY <1>2, <1>3

\* The advisory lock is released, and the instance serves or gives up.
LEMMA UnlockInv == ASSUME Inv, NEW i \in Instances, Unlock(i) PROVE Inv'
  <1>0. PICK slot : slot = inst[i].conn
    OBVIOUS
  <1> DEFINE l == Released(inst[i])
  <1>1. /\ Connected(i) /\ inst[i].pc = "unlock" /\ lock = Conn(i) /\ lock' = NoSession
        /\ inst' = [inst EXCEPT ![i] = l] /\ UNCHANGED <<schema, session, faults>>
    BY Here DEF Unlock, Sends, At, Connected
  <1>2. /\ slot \in Slots /\ Conn(i) = <<i, slot>> /\ <<i, slot>> \in Sessions
        /\ session \in [Sessions -> Session] /\ session[<<i, slot>>] \in Session
        /\ session[<<i, slot>>].state = "live" /\ session[<<i, slot>>].todo = "none"
        /\ <<i, slot>> # NoSession
    BY <1>0, <1>1, Sending
  <1>3. /\ l \in Process /\ l.conn = slot
        /\ \/ l.pc = "serving" /\ inst[i].err = "none"
           \/ l.pc = "close" /\ l.err = inst[i].err
    BY ZenonT(30), <1>0, <1>2, Here DEF Released, Down, Process, Steps, Running, Statements, Errors
  <1>4. session[<<i, slot>>].txn = "none"
    BY <1>1, <1>2, Here DEF ProcessOK, TxnAt
  <1> HIDE DEF l
  <1>5. inst'[i] = l
    BY <1>1, Here
  <1>6. SessionStep(i, slot, l, session[<<i, slot>>])
    BY <1>0, <1>1, <1>2, <1>3, Here DEF SessionStep
  <1>7. SessionOK(i, slot)'
    BY <1>1, <1>2, <1>3, <1>4, <1>5 DEF SessionOK
  <1>8. ProcessOK(i)'
    <2>1. Conn(i)' = <<i, slot>>
      BY <1>3, <1>5 DEF Conn
    <2> QED
      BY <1>1, <1>2, <1>3, <1>4, <1>5, <2>1, Here
         DEF ProcessOK, Running, Statements, Locked, TxnAt
  <1> QED
    BY <1>1, <1>2, <1>3, <1>6, <1>7, <1>8, OneSession

\* A process leaves its session: what was on the wire may still be executed, and
\* nothing else.
LEMMA AbandonStep ==
    ASSUME Inv, NEW i \in Instances, inst[i].conn # NoSession,
           NEW pc, pc \in {"lock", "commit"} => inst[i].pc = pc,
           session' = Abandoned(Conn(i), pc),
           NEW l \in Process, l.conn = NoSession, inst' = [inst EXCEPT ![i] = l],
           l.pc \in {"down", "failed", "rollback", "unlock", "close"},
           l.pc = "unlock" => l.err # "none",
           l.pc = "rollback" => l.err \in {"ErrMigration", "ErrMigrationInterrupted"},
           l.err = "ErrMigration" /\ l.pc # "rollback" =>
              inst[i].err = "ErrMigration" /\ inst[i].pc \in {"unlock", "close"} /\ pc # "commit",
           UNCHANGED <<schema, lock>>, faults' \in Nat
    PROVE  Inv'
  <1>0. PICK slot : slot = inst[i].conn
    OBVIOUS
  <1>1. /\ slot \in Slots /\ Conn(i) = <<i, slot>> /\ <<i, slot>> \in Sessions
        /\ session \in [Sessions -> Session] /\ session[<<i, slot>>] \in Session
        /\ SessionOK(i, slot) /\ session[<<i, slot>>].state \in {"live", "dead"}
    <2>1. slot \in Slots /\ Conn(i) = <<i, slot>> /\ <<i, slot>> \in Sessions
      BY <1>0, Here DEF Conn, Sessions
    <2>2. session \in [Sessions -> Session] /\ session[<<i, slot>>] \in Session
      BY <2>1, Here DEF TypeOK
    <2>3. SessionOK(i, slot)
      BY <2>1, Here
    <2>4. session[<<i, slot>>].state \in {"live", "dead"}
      BY <1>0, <2>3 DEF SessionOK
    <2> QED
      BY <2>1, <2>2, <2>3, <2>4
  <1>2. CASE session[<<i, slot>>].state = "dead"
    <2>1. session' = [session EXCEPT ![<<i, slot>>] = Free]
      BY <1>1, <1>2 DEF Abandoned
    <2>2. /\ Free \in Session /\ Free.state = "free" /\ Free.todo = "none" /\ Free.txn = "none"
      BY DEF Free, Session
    <2>3. /\ inst'[i] = l /\ session'[<<i, slot>>] = Free
          /\ \A t \in Slots \ {slot} : session'[<<i, t>>] = session[<<i, t>>]
      BY <1>1, <2>1, Here DEF Sessions
    <2>4. SessionStep(i, slot, l, Free)
      BY <1>0, <2>1, Here DEF SessionStep
    <2>5. SessionOK(i, slot)'
      BY <1>1, <1>2, <2>2, <2>3, Here DEF SessionOK
    <2>6. ProcessOK(i)'
      <3>1. ~Connected(i)'
        BY <2>3 DEF Connected
      <3>2. l.pc \in {"unlock", "close", "failed"} /\ l.err = "ErrMigration" =>
               \A t \in Slots : session'[<<i, t>>].todo # "commit"
        <4>1. l.pc \in {"unlock", "close", "failed"} /\ l.err = "ErrMigration" =>
                 inst[i].pc \in {"unlock", "close"} /\ inst[i].err = "ErrMigration"
          OBVIOUS
        <4>2. inst[i].pc \in {"unlock", "close"} /\ inst[i].err = "ErrMigration" =>
                 \A t \in Slots : session[<<i, t>>].todo # "commit"
          BY Here DEF ProcessOK
        <4> QED
          BY <2>2, <2>3, <4>1, <4>2
      <3>3. /\ l.pc \notin (Running \cup {"serving"}) \ {"rollback", "unlock", "close"}
            /\ l.pc \notin Running \ {"rollback", "unlock", "close"}
            /\ l.pc \notin {"acquire", "lock", "serving"} /\ ~(l.pc = "unlock" /\ l.err = "none")
        BY DEF Running, Statements
      <3> QED
        BY <2>3, <3>1, <3>2, <3>3 DEF ProcessOK
    <2> QED
      BY <1>1, <2>2, <2>4, <2>5, <2>6, OneSession
  <1>3. CASE session[<<i, slot>>].state = "live"
    <2> DEFINE x == [session[<<i, slot>>] EXCEPT !.state = "orphan",
                       !.todo = IF pc \in {"lock", "commit"} THEN pc ELSE "none"]
    <2>1. session' = [session EXCEPT ![<<i, slot>>] = x]
      BY <1>1, <1>3 DEF Abandoned
    <2>2. /\ x \in Session /\ x.state = "orphan" /\ x.txn = session[<<i, slot>>].txn
          /\ x.version = session[<<i, slot>>].version
          /\ x.todo \in {"none", "lock", "commit"}
          /\ x.todo = "lock" => inst[i].pc = "lock"
          /\ x.todo = "commit" => inst[i].pc = "commit" /\ pc = "commit"
      BY <1>1 DEF Session
    <2> HIDE DEF x
    <2>3. /\ inst'[i] = l /\ session'[<<i, slot>>] = x
          /\ \A t \in Slots \ {slot} : session'[<<i, t>>] = session[<<i, t>>]
      BY <1>1, <2>1, Here DEF Sessions
    <2>4. SessionStep(i, slot, l, x)
      BY <1>0, <2>1, Here DEF SessionStep
    <2>5. /\ x.todo = "lock" => lock # <<i, slot>> /\ x.txn = "none"
          /\ x.todo = "commit" => x.txn = "recorded"
      BY <1>0, <1>1, <1>3, <2>2, Here DEF ProcessOK, Connected, TxnAt
    <2>6. SessionOK(i, slot)'
      BY <1>1, <1>3, <2>2, <2>3, <2>5, Here DEF SessionOK
    <2>7. ProcessOK(i)'
      <3>1. ~Connected(i)'
        BY <2>3 DEF Connected
      <3>2. l.pc \in {"unlock", "close", "failed"} /\ l.err = "ErrMigration" =>
               \A t \in Slots : session'[<<i, t>>].todo # "commit"
        <4>1. l.pc \in {"unlock", "close", "failed"} /\ l.err = "ErrMigration" =>
                 inst[i].pc \in {"unlock", "close"} /\ inst[i].err = "ErrMigration"
          OBVIOUS
        <4>2. inst[i].pc \in {"unlock", "close"} /\ inst[i].err = "ErrMigration" =>
                 \A t \in Slots : session[<<i, t>>].todo # "commit"
          BY Here DEF ProcessOK
        <4> QED
          BY <2>2, <2>3, <4>1, <4>2
      <3>3. /\ l.pc \notin (Running \cup {"serving"}) \ {"rollback", "unlock", "close"}
            /\ l.pc \notin Running \ {"rollback", "unlock", "close"}
            /\ l.pc \notin {"acquire", "lock", "serving"} /\ ~(l.pc = "unlock" /\ l.err = "none")
        BY DEF Running, Statements
      <3> QED
        BY <2>3, <3>1, <3>2, <3>3 DEF ProcessOK
    <2> QED
      BY <1>1, <2>2, <2>4, <2>6, <2>7, OneSession
  <1> QED
    BY <1>1, <1>2, <1>3

\* The connection is lost under a statement.
LEMMA BreakInv == ASSUME Inv, NEW i \in Instances, Break(i) PROVE Inv'
  <1>0. PICK b \in BOOLEAN : b = TRUE
    OBVIOUS
  <1> DEFINE n == OnError(inst[i], b)
  <1> DEFINE l == [n EXCEPT !.conn = NoSession]
  <1>1. /\ inst[i].pc \in Statements /\ inst[i].conn # NoSession
        /\ inst' = [inst EXCEPT ![i] = l] /\ session' = Abandoned(Conn(i), inst[i].pc)
        /\ UNCHANGED <<schema, lock>> /\ faults' \in Nat
    BY <1>0, Here DEF Break
  <1>2. /\ n \in Process
        /\ inst[i].pc \in {"lock", "begin", "commit", "rollback", "unlock"} => n.pc = "close"
        /\ inst[i].pc \in {"exists", "columns", "rows"} => n.pc = "unlock"
        /\ inst[i].pc \in {"exec", "record"} =>
              n.pc = "rollback" /\ n.err \in {"ErrMigration", "ErrMigrationInterrupted"}
        /\ n.pc # "rollback" => n.err # "none"
        /\ n.err = "ErrMigration" /\ n.pc # "rollback" =>
              inst[i].err = "ErrMigration" /\ inst[i].pc = "unlock"
    <2>1. /\ n \in Process
          /\ inst[i].pc = "lock" => n.pc = "close" /\ n.err = "ErrMigrationLock"
          /\ inst[i].pc \in {"exists", "columns", "rows"} =>
                n.pc = "unlock" /\ n.err = "ErrSchemaQuery"
          /\ inst[i].pc \in {"begin", "commit"} =>
                IF b THEN n.pc = "close" /\ n.err = "ErrMigrationInterrupted"
                ELSE n.pc = "unlock" /\ n.err = "ErrMigration"
          /\ inst[i].pc \in {"exec", "record"} =>
                n.pc = "rollback" /\ n.err \in {"ErrMigration", "ErrMigrationInterrupted"}
          /\ inst[i].pc = "rollback" => n.pc = "close" /\ n.err = "ErrMigrationInterrupted"
          /\ inst[i].pc = "unlock" => /\ n.pc = "close" /\ n.err # "none"
                                      /\ n.err = "ErrMigration" => inst[i].err = "ErrMigration"
      BY <1>1, Here, OnErrorFacts
    <2> HIDE DEF n
    <2> QED
      BY <1>0, <1>1, <2>1 DEF Statements
  <1> HIDE DEF n
  <1>3. l \in Process /\ l.pc = n.pc /\ l.err = n.err /\ l.conn = NoSession
    BY <1>2 DEF Process
  <1> HIDE DEF l
  <1>4. /\ l.pc \in {"down", "failed", "rollback", "unlock", "close"}
        /\ l.pc = "unlock" => l.err # "none"
        /\ l.pc = "rollback" => l.err \in {"ErrMigration", "ErrMigrationInterrupted"}
        /\ l.err = "ErrMigration" /\ l.pc # "rollback" =>
              inst[i].err = "ErrMigration" /\ inst[i].pc = "unlock"
    BY <1>1, <1>2, <1>3 DEF Statements
  <1> QED
    BY <1>1, <1>3, <1>4, AbandonStep

\* The end of a failed start.
LEMMA CloseInv == ASSUME Inv, NEW i \in Instances, Close(i) PROVE Inv'
  <1> DEFINE l == [Down EXCEPT !.pc = "failed", !.err = inst[i].err]
  <1>1. /\ inst[i].pc = "close" /\ inst' = [inst EXCEPT ![i] = l]
        /\ session' = IF inst[i].conn = NoSession THEN session ELSE Abandoned(Conn(i), "close")
        /\ UNCHANGED <<schema, lock, faults>>
    BY DEF Close, At
  <1>2. l \in Process /\ l.pc = "failed" /\ l.err = inst[i].err /\ l.conn = NoSession
    BY Here DEF Down, Process, Steps
  <1> HIDE DEF l
  <1>3. CASE inst[i].conn = NoSession
    <2>1. inst'[i] = l /\ session' = session
      BY <1>1, <1>3, Here
    <2>2. ProcessOK(i)'
      BY <1>1, <1>2, <2>1, Here DEF ProcessOK, Connected, Running, Statements
    <2> QED
      BY <1>1, <1>2, <1>3, <2>1, <2>2, Here, LocalStep
  <1>4. CASE inst[i].conn # NoSession
    BY <1>1, <1>2, <1>4, Here, AbandonStep
  <1> QED
    BY <1>3, <1>4

\* The end of a process, at any point or while it serves.
LEMMA DownInv == ASSUME Inv, NEW i \in Instances, Crash(i) \/ Stop(i) PROVE Inv'
  <1>1. PICK pc : /\ session' = IF inst[i].conn = NoSession THEN session
                                ELSE Abandoned(Conn(i), pc)
                  /\ pc \in {"lock", "commit"} => inst[i].pc = pc
    <2>1. CASE Crash(i)
      BY <2>1 DEF Crash
    <2>2. CASE Stop(i)
      <3>1. inst[i].conn # NoSession
        BY <2>2, Here DEF Stop, At, ProcessOK, Running, Statements
      <3> QED
        BY <2>2, <3>1 DEF Stop
    <2> QED
      BY <2>1, <2>2
  <1>2. inst' = [inst EXCEPT ![i] = Down] /\ UNCHANGED <<schema, lock>> /\ faults' \in Nat
    BY Here DEF Crash, Stop
  <1>3. Down \in Process /\ Down.pc = "down" /\ Down.err = "none" /\ Down.conn = NoSession
    BY DEF Down, Process, Steps, Errors
  <1>4. CASE inst[i].conn = NoSession
    <2>1. inst'[i] = Down /\ session' = session
      BY <1>1, <1>2, <1>4, Here
    <2>2. ProcessOK(i)'
      BY <1>2, <1>3, <2>1, Here DEF ProcessOK, Connected, Running, Statements
    <2> QED
      BY <1>2, <1>3, <1>4, <2>1, <2>2, LocalStep
  <1>5. CASE inst[i].conn # NoSession
    BY <1>1, <1>2, <1>3, <1>5, AbandonStep
  <1> QED
    BY <1>4, <1>5

-----------------------------------------------------------------------------
(* Steps of the server.                                                    *)

\* What holds where a session is.
LEMMA There ==
    ASSUME Inv, NEW i \in Instances, NEW slot \in Slots
    PROVE  /\ SessionOK(i, slot) /\ <<i, slot>> \in Sessions /\ <<i, slot>> # NoSession
           /\ session \in [Sessions -> Session] /\ session[<<i, slot>>] \in Session
  BY Typed DEF Inv, TypeOK, Sessions

\* A session ends, with its transaction and its lock.
LEMMA EndedInv ==
    ASSUME Inv, NEW i \in Instances, NEW slot \in Slots,
           ServerDrops(<<i, slot>>) \/ SessionEnds(<<i, slot>>)
    PROVE  Inv'
  <1>0. PICK l : l = inst[i]
    OBVIOUS
  <1>1. PICK x \in Session :
           /\ session' = [session EXCEPT ![<<i, slot>>] = x]
           /\ x.txn = "none" /\ x.todo = "none"
           /\ \/ session[<<i, slot>>].state = "live" /\ x.state = "dead"
              \/ session[<<i, slot>>].state = "orphan" /\ x.state = "free"
    <2>1. CASE ServerDrops(<<i, slot>>)
      <3> DEFINE x == [Free EXCEPT !.state = "dead"]
      <3>1. x \in Session /\ x.txn = "none" /\ x.todo = "none" /\ x.state = "dead"
        BY DEF Free, Session
      <3>2. session' = [session EXCEPT ![<<i, slot>>] = x] /\ session[<<i, slot>>].state = "live"
        BY <2>1 DEF ServerDrops
      <3> QED
        BY <3>1, <3>2
    <2>2. CASE SessionEnds(<<i, slot>>)
      <3>1. Free \in Session /\ Free.txn = "none" /\ Free.todo = "none" /\ Free.state = "free"
        BY DEF Free, Session
      <3>2. session' = [session EXCEPT ![<<i, slot>>] = Free] /\ session[<<i, slot>>].state = "orphan"
        BY <2>2 DEF SessionEnds
      <3> QED
        BY <3>1, <3>2
    <2> QED
      BY <2>1, <2>2
  <1>2. /\ lock' = IF lock = <<i, slot>> THEN NoSession ELSE lock
        /\ UNCHANGED <<schema, inst>> /\ faults' \in Nat
    BY Here DEF ServerDrops, SessionEnds, Unlocked
  <1>3. /\ l \in Process /\ inst' = [inst EXCEPT ![i] = l] /\ inst'[i] = l
        /\ session'[<<i, slot>>] = x
        /\ \A t \in Slots \ {slot} : session'[<<i, t>>] = session[<<i, t>>]
    BY <1>0, <1>1, <1>2, Here, There DEF Sessions
  <1>4. SessionStep(i, slot, l, x)
    BY <1>0, <1>1, <1>2, <1>3, There DEF SessionStep
  <1>5. SessionOK(i, slot)'
    BY <1>0, <1>1, <1>2, <1>3, There DEF SessionOK
  <1>6. ProcessOK(i)'
    <2>1. inst[i].conn = slot <=> session[<<i, slot>>].state = "live"
      BY <1>1, There DEF SessionOK
    <2>2. Connected(i)' => /\ Connected(i) /\ inst[i].conn \in Slots \ {slot}
                           /\ Conn(i)' = Conn(i) /\ session'[Conn(i)] = session[Conn(i)]
                           /\ lock' = Conn(i) <=> lock = Conn(i)
      BY <1>1, <1>2, <1>3, <2>1, Here, Typed DEF Connected, Conn
    <2>3. \A t \in Slots : session[<<i, t>>].todo # "commit" => session'[<<i, t>>].todo # "commit"
      BY <1>1, <1>3
    <2>4. inst'[i] = inst[i] /\ schema'.rows = schema.rows /\ ProcessOK(i)
      BY <1>2, Here
    <2> QED
      BY <2>2, <2>3, <2>4, SameProcess
  <1> QED
    BY <1>1, <1>2, <1>3, <1>4, <1>5, <1>6, OneSession

\* A session whose client is gone is granted the lock.
LEMMA OrphanLocksInv ==
    ASSUME Inv, NEW i \in Instances, NEW slot \in Slots, OrphanLocks(<<i, slot>>)
    PROVE  Inv'
  <1>0. PICK l : l = inst[i]
    OBVIOUS
  <1> DEFINE x == [session[<<i, slot>>] EXCEPT !.todo = "none"]
  <1>1. /\ session[<<i, slot>>].state = "orphan" /\ session[<<i, slot>>].todo = "lock"
        /\ lock = NoSession /\ lock' = <<i, slot>>
        /\ session' = [session EXCEPT ![<<i, slot>>] = x]
        /\ UNCHANGED <<schema, inst, faults>>
    BY There DEF OrphanLocks
  <1>2. x \in Session /\ x.state = "orphan" /\ x.todo = "none" /\ x.txn = "none"
    <2>1. session[<<i, slot>>] \in Session /\ SessionOK(i, slot)
      BY There
    <2>2. session[<<i, slot>>].txn = "none"
      BY <1>1, <2>1 DEF SessionOK
    <2> QED
      BY <1>1, <2>1, <2>2 DEF Session
  <1> HIDE DEF x
  <1>3. /\ l \in Process /\ inst' = [inst EXCEPT ![i] = l] /\ inst'[i] = l
        /\ session'[<<i, slot>>] = x
        /\ \A t \in Slots \ {slot} : session'[<<i, t>>] = session[<<i, t>>]
    BY <1>0, <1>1, Here, There DEF Sessions
  <1>4. SessionStep(i, slot, l, x)
    BY <1>0, <1>1, <1>3, Here DEF SessionStep
  <1>5. SessionOK(i, slot)'
    BY <1>0, <1>1, <1>2, <1>3, There DEF SessionOK
  <1>6. ProcessOK(i)'
    <2>1. Connected(i)' => /\ Connected(i) /\ inst[i].conn \in Slots \ {slot}
                           /\ Conn(i)' = Conn(i) /\ session'[Conn(i)] = session[Conn(i)]
                           /\ lock' # Conn(i) /\ lock # Conn(i)
      BY <1>1, <1>2, <1>3, Here, Typed DEF Connected, Conn
    <2>2. \A t \in Slots : session[<<i, t>>].todo # "commit" => session'[<<i, t>>].todo # "commit"
      BY <1>2, <1>3
    <2>3. inst'[i] = inst[i] /\ schema'.rows = schema.rows /\ ProcessOK(i)
      BY <1>1, Here
    <2> QED
      BY <2>1, <2>2, <2>3, SameProcess
  <1> QED
    BY <1>1, <1>2, <1>3, <1>4, <1>5, <1>6, OneSession

-----------------------------------------------------------------------------
(* COMMIT, whoever waits for it.                                           *)

\* What a row more does to the rows.
LEMMA AppendRow ==
    ASSUME NEW S, NEW rows \in Seq(S), NEW m \in S, NEW after, after = Append(rows, m)
    PROVE  /\ after \in Seq(S) /\ Len(rows) \in Nat /\ Len(after) = Len(rows) + 1
           /\ \A k \in 1..Len(rows) : after[k] = rows[k]
           /\ after[Len(rows) + 1] = m
  OBVIOUS

\* A transaction that is there takes the schema to the next version of its
\* release.
LEMMA CommitFacts ==
    ASSUME Inv, NEW i \in Instances, NEW slot \in Slots, session[<<i, slot>>].txn # "none",
           NEW v, v = session[<<i, slot>>].version, NEW after, after = Committed(<<i, slot>>)
    PROVE  /\ lock = <<i, slot>> /\ v \in 1..Len(Release[i])
           /\ after \in Schema /\ after.rows = Append(schema.rows, MigrationOf(i, v))
           /\ History!Follows(schema.rows, i, v - 1)
           /\ History!Follows(after.rows, i, v)
           /\ History!Holds(schema.rows, i) => History!Holds(after.rows, i)
  <1>1. /\ lock = <<i, slot>> /\ v \in 1..Len(Release[i])
        /\ History!Follows(schema.rows, i, v - 1)
    BY There DEF SessionOK
  <1>2. /\ schema.rows \in Seq(Record) /\ Release[i] \in Seq(Checksums \ {Blank})
        /\ Len(Release[i]) \in Nat /\ schema.ddl \subseteq Record
    BY Here, Typed DEF Schema
  <1>0. PICK m : m = MigrationOf(i, v)
    OBVIOUS
  <1>3. m \in Record /\ m = [version |-> v, checksum |-> Release[i][v]]
    <2>1. v \in Nat /\ Release[i][v] \in Checksums
      BY <1>1, <1>2
    <2> QED
      BY <1>0, <2>1 DEF MigrationOf, Record
  <1>4. after = [table |-> "complete", rows |-> Append(schema.rows, m), ddl |-> schema.ddl \cup {m}]
    BY <1>0 DEF Committed
  <1>5. PICK rows : rows = Append(schema.rows, m)
    OBVIOUS
  <1>6. /\ rows \in Seq(Record) /\ Len(schema.rows) \in Nat /\ Len(rows) = Len(schema.rows) + 1
        /\ \A k \in 1..Len(schema.rows) : rows[k] = schema.rows[k]
        /\ rows[Len(schema.rows) + 1] = m
    BY <1>2, <1>3, <1>5, AppendRow
  <1>7. after \in Schema /\ after.rows = rows
    <2>0. PICK ddl : ddl = schema.ddl \cup {m}
      OBVIOUS
    <2>1. ddl \in SUBSET Record
      BY <1>2, <1>3, <2>0
    <2>2. after = [table |-> "complete", rows |-> rows, ddl |-> ddl]
      BY <1>4, <1>5, <2>0
    <2> QED
      BY <1>6, <2>1, <2>2 DEF Schema
  <1>8. History!Follows(rows, i, v)
    <2>1. v \in Nat /\ Len(schema.rows) = v - 1 /\ v <= Len(Release[i])
      BY <1>1, <1>2 DEF History!Follows
    <2>2. \A k \in 1..(v - 1) : rows[k] = [version |-> k, checksum |-> Release[i][k]]
      BY <1>1, <1>6, <2>1 DEF History!Follows
    <2>3. rows[v] = [version |-> v, checksum |-> Release[i][v]] /\ Len(rows) = v
      BY <1>3, <1>6, <2>1
    <2>4. \A k \in 1..v : k \in 1..(v - 1) \/ k = v
      BY <2>1
    <2> QED
      BY <2>1, <2>2, <2>3, <2>4 DEF History!Follows
  <1>9. History!Holds(schema.rows, i) => History!Holds(rows, i)
    BY <1>2, <1>6 DEF History!Holds
  <1> QED
    BY <1>0, <1>1, <1>5, <1>7, <1>8, <1>9

\* What is left of the session.
EndedOf(x) == [x EXCEPT !.txn = "none", !.version = 0, !.todo = "none"]

\* Ended is an update of that session alone.
LEMMA EndedSession ==
    ASSUME Inv, NEW i \in Instances, NEW slot \in Slots,
           NEW x, x = EndedOf(session[<<i, slot>>])
    PROVE  /\ x \in Session /\ x.txn = "none" /\ x.todo = "none"
           /\ x.state = session[<<i, slot>>].state
           /\ Ended(<<i, slot>>) = [session EXCEPT ![<<i, slot>>] = x]
  <1>1. session \in [Sessions -> Session] /\ session[<<i, slot>>] \in Session
    BY There
  <1> QED
    BY <1>1 DEF Session, Ended, EndedOf

\* A COMMIT that its process waits for.
LEMMA CommitInv == ASSUME Inv, NEW i \in Instances, Commit(i) PROVE Inv'
  <1>0. PICK slot : slot = inst[i].conn
    OBVIOUS
  <1> DEFINE l == [inst[i] EXCEPT !.pc = "exists", !.stage = "post"]
  <1>1. /\ Connected(i) /\ inst[i].pc = "commit" /\ schema' = Committed(Conn(i))
        /\ session' = Ended(Conn(i)) /\ inst' = [inst EXCEPT ![i] = l]
        /\ UNCHANGED <<lock, faults>>
    BY Here DEF Commit, Sends, At, Connected
  <1>2. /\ slot \in Slots /\ Conn(i) = <<i, slot>> /\ <<i, slot>> \in Sessions
        /\ session[<<i, slot>>].state = "live" /\ <<i, slot>> # NoSession
    BY <1>0, <1>1, Sending
  <1>a. PICK x : x = EndedOf(session[<<i, slot>>])
    OBVIOUS
  <1>3. /\ x \in Session /\ session' = [session EXCEPT ![<<i, slot>>] = x]
        /\ x.txn = "none" /\ x.todo = "none" /\ x.state = "live"
    <2>1. /\ x \in Session /\ x.txn = "none" /\ x.todo = "none"
          /\ x.state = session[<<i, slot>>].state
          /\ Ended(<<i, slot>>) = [session EXCEPT ![<<i, slot>>] = x]
      BY <1>a, <1>2, EndedSession
    <2> QED
      BY <1>1, <1>2, <2>1
  <1>4. /\ l \in Process /\ l.conn = slot /\ l.pc = "exists" /\ l.stage = "post"
        /\ l.err = inst[i].err /\ l.version = inst[i].version
    BY <1>0, Here DEF Process, Steps, Running, Statements
  <1>5. /\ session[<<i, slot>>].txn = "recorded" /\ inst[i].err = "none"
        /\ session[<<i, slot>>].version = inst[i].version + 1
    BY <1>1, <1>2, Here DEF ProcessOK, TxnAt, Running, Statements, Applying
  <1>6. /\ lock = <<i, slot>> /\ schema' \in Schema
        /\ \E m : schema'.rows = Append(schema.rows, m)
        /\ History!Follows(schema'.rows, i, inst[i].version + 1)
    BY <1>1, <1>2, <1>5, CommitFacts
  <1> HIDE DEF l
  <1>7. inst'[i] = l /\ session'[<<i, slot>>] = x
    BY <1>1, <1>2, <1>3, Here, There
  <1>8. SessionStep(i, slot, l, x)
    BY <1>0, <1>1, <1>3, <1>4, Here DEF SessionStep
  <1>9. SessionOK(i, slot)'
    BY <1>3, <1>4, <1>7 DEF SessionOK
  <1>10. ProcessOK(i)'
    <2>1. Conn(i)' = <<i, slot>>
      BY <1>4, <1>7 DEF Conn
    <2>2. /\ inst'[i] = l /\ l.pc = "exists" /\ l.stage = "post" /\ l.err = "none"
          /\ l.conn # NoSession /\ l.version = inst[i].version
      BY <1>2, <1>4, <1>5, <1>7, Here
    <2>3. lock' = Conn(i)' /\ (session[Conn(i)].txn)' \in TxnAt("exists")
      BY <1>1, <1>3, <1>6, <1>7, <2>1 DEF TxnAt
    <2>4. History!Follows(schema'.rows, i, l.version + 1)
      BY <1>6, <2>2
    <2> QED
      BY <2>2, <2>3, <2>4 DEF ProcessOK
  <1> QED
    BY <1>2, <1>3, <1>4, <1>6, <1>8, <1>9, <1>10, OneSession

\* A COMMIT whose client is gone.
LEMMA OrphanCommitsInv ==
    ASSUME Inv, NEW i \in Instances, NEW slot \in Slots, OrphanCommits(<<i, slot>>)
    PROVE  Inv'
  <1>0. PICK l : l = inst[i]
    OBVIOUS
  <1>1. /\ session[<<i, slot>>].state = "orphan" /\ session[<<i, slot>>].todo = "commit"
        /\ schema' = Committed(<<i, slot>>) /\ session' = Ended(<<i, slot>>)
        /\ UNCHANGED <<lock, inst, faults>>
    BY DEF OrphanCommits
  <1>a. PICK x : x = EndedOf(session[<<i, slot>>])
    OBVIOUS
  <1>2. /\ x \in Session /\ session' = [session EXCEPT ![<<i, slot>>] = x]
        /\ x.txn = "none" /\ x.todo = "none" /\ x.state = "orphan"
    <2>1. /\ x \in Session /\ x.txn = "none" /\ x.todo = "none"
          /\ x.state = session[<<i, slot>>].state
          /\ Ended(<<i, slot>>) = [session EXCEPT ![<<i, slot>>] = x]
      BY <1>a, EndedSession
    <2> QED
      BY <1>1, <2>1
  <1>3. session[<<i, slot>>].txn = "recorded"
    BY <1>1, There DEF SessionOK
  <1>4. /\ lock = <<i, slot>> /\ schema' \in Schema
        /\ \E m : schema'.rows = Append(schema.rows, m)
        /\ History!Holds(schema.rows, i) => History!Holds(schema'.rows, i)
    BY <1>1, <1>3, CommitFacts
  <1>5. /\ l \in Process /\ inst' = [inst EXCEPT ![i] = l] /\ inst'[i] = l
        /\ session'[<<i, slot>>] = x
        /\ \A t \in Slots \ {slot} : session'[<<i, t>>] = session[<<i, t>>]
    BY <1>0, <1>1, <1>2, Here, There DEF Sessions
  <1>6. SessionStep(i, slot, l, x)
    BY <1>0, <1>1, <1>2, <1>5, Here DEF SessionStep
  <1>7. SessionOK(i, slot)'
    BY SMTT(20), <1>0, <1>1, <1>2, <1>5, There DEF SessionOK
  <1>8. ProcessOK(i)'
    <2>1. Connected(i)' => /\ Connected(i) /\ inst[i].conn \in Slots \ {slot}
                           /\ Conn(i)' = Conn(i) /\ session'[Conn(i)] = session[Conn(i)]
                           /\ lock # Conn(i)
      <3>1. inst' = inst
        BY <1>1
      <3> QED
        BY <1>2, <1>4, <1>5, <3>1, Here DEF Connected, Conn
    <2>2. \A t \in Slots : session[<<i, t>>].todo # "commit" => session'[<<i, t>>].todo # "commit"
      BY <1>2, <1>5
    <2>3. Connected(i)' => inst[i].pc \notin Locked
      BY <2>1, Here DEF ProcessOK
    <2>4. inst'[i] = inst[i] /\ ProcessOK(i) /\ lock' = lock
      BY <1>1, Here
    <2> QED
      BY <1>4, <2>1, <2>2, <2>3, <2>4, SameProcess
  <1> QED
    BY <1>2, <1>4, <1>5, <1>6, <1>7, <1>8, OneSession

-----------------------------------------------------------------------------
(* The invariant.                                                          *)

\* No instance runs yet.
LEMMA InitInv == Init => Inv
  <1> SUFFICES ASSUME Init PROVE Inv
    OBVIOUS
  <1>1. Down \in Process /\ Down.pc = "down" /\ Down.conn = NoSession /\ Down.err = "none"
    BY DEF Down, Process, Steps, Errors
  <1>2. Free \in Session /\ Free.state = "free" /\ Free.txn = "none" /\ Free.todo = "none"
    BY DEF Free, Session
  <1>3. TypeOK
    BY <1>1, <1>2, SchemaAssumption, ReleaseAssumption DEF Init, TypeOK
  <1>4. ASSUME NEW i \in Instances
        PROVE  ProcessOK(i) /\ \A slot \in Slots : SessionOK(i, slot)
    <2>1. inst[i] = Down /\ lock = NoSession /\ \A slot \in Slots : session[<<i, slot>>] = Free
      BY DEF Init, Sessions
    <2>2. \A slot \in Slots : SessionOK(i, slot)
      BY <1>1, <1>2, <1>3, <2>1, Typed DEF SessionOK
    <2>3. ProcessOK(i)
      BY <1>1, <1>2, <2>1 DEF ProcessOK, Connected, Running, Statements
    <2> QED
      BY <2>2, <2>3
  <1> QED
    BY <1>3, <1>4 DEF Inv

\* A stuttering step preserves the invariant.
LEMMA StutterInv == ASSUME Inv, UNCHANGED vars PROVE Inv'
  <1>1. UNCHANGED <<schema, lock, session, inst, faults>>
    BY DEF vars
  <1>2. TypeOK'
    BY <1>1 DEF Inv, TypeOK
  <1>3. ASSUME NEW i \in Instances PROVE ProcessOK(i)'
    <2>1. ProcessOK(i) /\ (Connected(i)' => Connected(i))
      BY <1>1 DEF Inv, Connected, Conn
    <2> QED
      BY <1>1, <2>1, SameProcess
  <1>4. ASSUME NEW i \in Instances, NEW slot \in Slots PROVE SessionOK(i, slot)'
    BY SMTT(20), <1>1 DEF Inv, SessionOK
  <1> QED
    BY <1>2, <1>3, <1>4 DEF Inv

\* Whatever crashes, is lost or arrives late, and in whichever order instances of
\* different releases run startup.go and runner.go, sessions and processes agree
\* with each other and with the schema.
THEOREM Invariance == Spec => []Inv
  <1>1. Inv /\ [Next]_vars => Inv'
    <2> SUFFICES ASSUME Inv, [Next]_vars PROVE Inv'
      OBVIOUS
    <2>1. CASE UNCHANGED vars
      BY <2>1, StutterInv
    <2>2. ASSUME NEW i \in Instances, Succeed(i) \/ Lock(i) \/ Fail(i)
          PROVE  Inv'
      <3>1. CASE Succeed(i) \/ Lock(i)
        BY <3>1, AcquireInv, LockInv, ReadInv, ApplyInv, CommitInv, RollbackInv, UnlockInv
           DEF Succeed
      <3>2. CASE Fail(i)
        BY <3>2, RefuseInv, BreakInv, NotSentInv, CloseInv DEF Fail
      <3> QED
        BY <2>2, <3>1, <3>2
    <2>3. ASSUME NEW i \in Instances, Begins(i) \/ Crash(i) \/ Stop(i)
          PROVE  Inv'
      BY <2>3, StartInv, DownInv DEF Begins
    <2>4. ASSUME NEW i \in Instances, NEW err \in {"ErrConfigInvalid", "ErrConnect"},
                 StartFails(i, err)
          PROVE  Inv'
      BY <2>4, StartFailsInv
    <2>5. ASSUME NEW i \in Instances, NEW how \in {"cancelled", "expired"}, EndContext(i, how)
          PROVE  Inv'
      BY <2>5, EndContextInv
    <2>6. ASSUME NEW s \in Sessions,
                 ServerDrops(s) \/ OrphanLocks(s) \/ OrphanCommits(s) \/ SessionEnds(s)
          PROVE  Inv'
      <3>1. PICK i \in Instances, slot \in Slots : s = <<i, slot>>
        BY DEF Sessions
      <3> QED
        BY <2>6, <3>1, EndedInv, OrphanLocksInv, OrphanCommitsInv
    <2> QED
      BY <2>1, <2>2, <2>3, <2>4, <2>5, <2>6 DEF Next
  <1> QED
    BY <1>1, InitInv, PTL DEF Spec

\* While Run applies a migration it holds the lock, and the schema is still the
\* one it inspected.
THEOREM InspectionSafety == Spec => []InspectionHolds
  <1>1. Inv => InspectionHolds
    <2> SUFFICES ASSUME Inv, NEW i \in Instances, Connected(i),
                        inst[i].pc \in {"begin", "exec", "record", "commit"}
                 PROVE  lock = Conn(i) /\ History!Follows(schema.rows, i, inst[i].version)
      BY DEF InspectionHolds
    <2> QED
      BY Here DEF ProcessOK, Locked, Statements
  <1> QED
    BY <1>1, Invariance, PTL

\* An exit that failureReason reports as an ordinary failed migration leaves no
\* session that could still commit it.
THEOREM FailureSafety == Spec => []OrdinaryFailureIsFinal
  <1>1. Inv => OrdinaryFailureIsFinal
    <2> SUFFICES ASSUME Inv, NEW i \in Instances, NEW slot \in Slots, inst[i].pc = "failed",
                        failureReason(inst[i].err) = "database_migration_failed"
                 PROVE  session[<<i, slot>>].todo # "commit"
      BY DEF OrdinaryFailureIsFinal, At
    <2>1. inst[i].err = "ErrMigration"
      BY DEF failureReason, Is
    <2> QED
      BY <2>1, Here DEF ProcessOK
  <1> QED
    BY <1>1, Invariance, PTL

-----------------------------------------------------------------------------
(* The refinement.                                                         *)

\* The version before one of 1 to n.
LEMMA Before ==
    ASSUME NEW n \in Nat, NEW v \in 1..n
    PROVE  v - 1 \in 0..(n - 1) /\ (v - 1) + 1 = v
  OBVIOUS

\* A COMMIT records the next migration of a release that the recorded ones
\* follow so far.
LEMMA CommitAdvances ==
    ASSUME Inv, NEW i \in Instances, NEW slot \in Slots, session[<<i, slot>>].txn # "none",
           schema' = Committed(<<i, slot>>),
           \A j \in Instances : inst'[j].pc = "serving" <=> inst[j].pc = "serving"
    PROVE  History!Advance(i)
  <1>0. PICK v : v = session[<<i, slot>>].version
    OBVIOUS
  <1>1. /\ v \in 1..Len(Release[i]) /\ History!Follows(schema.rows, i, v - 1)
        /\ schema'.rows = Append(schema.rows, MigrationOf(i, v))
    BY <1>0, CommitFacts
  <1>2. v - 1 \in 0..(Len(Release[i]) - 1) /\ (v - 1) + 1 = v
    <2>1. Len(Release[i]) \in Nat
      BY Here
    <2> QED
      BY <1>1, <2>1, Before
  <1>3. schema'.rows = Append(schema.rows, [version |-> (v - 1) + 1,
                                            checksum |-> Release[i][(v - 1) + 1]])
    BY <1>1, <1>2 DEF MigrationOf
  <1>4. {j \in Instances : inst[j].pc = "serving"}' = {j \in Instances : inst[j].pc = "serving"}
    OBVIOUS
  <1> QED
    BY <1>1, <1>2, <1>3, <1>4 DEF History!Advance

\* A step of instance i that records nothing lets it serve, when its release is
\* recorded, ends its serving, or does not concern the history.
LEMMA LocalHistory ==
    ASSUME NEW i \in Instances, schema' = schema,
           \A j \in Instances \ {i} : inst'[j] = inst[j],
           \/ inst'[i].pc # "serving"
           \/ inst[i].pc # "serving" /\ History!Holds(schema.rows, i)
    PROVE  \/ History!Admit(i) \/ History!Leave(i)
           \/ UNCHANGED <<schema.rows, {j \in Instances : inst[j].pc = "serving"}>>
  <1>1. CASE inst'[i].pc # "serving"
    <2>1. {j \in Instances : inst[j].pc = "serving"}'
             = {j \in Instances : inst[j].pc = "serving"} \ {i}
      BY <1>1
    <2> QED
      BY <2>1 DEF History!Leave
  <1>2. CASE /\ inst'[i].pc = "serving" /\ inst[i].pc # "serving"
             /\ History!Holds(schema.rows, i)
    <2>1. {j \in Instances : inst[j].pc = "serving"}'
             = {j \in Instances : inst[j].pc = "serving"} \cup {i}
      BY <1>2
    <2> QED
      BY <1>2, <2>1 DEF History!Admit
  <1> QED
    BY <1>1, <1>2

\* Every statement of a run that records nothing, answered or failed.
LEMMA RunHistory ==
    ASSUME Inv, NEW i \in Instances,
           \/ Acquire(i) \/ Lock(i) \/ ReadExists(i) \/ ReadColumns(i) \/ ReadRows(i)
           \/ Begin(i) \/ Exec(i) \/ InsertRecord(i) \/ Rollback(i) \/ Unlock(i) \/ Fail(i)
    PROVE  /\ schema' = schema /\ \A j \in Instances \ {i} : inst'[j] = inst[j]
           /\ \/ inst'[i].pc # "serving"
              \/ inst[i].pc = "unlock" /\ inst[i].err = "none" /\ History!Holds(schema.rows, i)
  <1>1. CASE Acquire(i) \/ Lock(i) \/ Begin(i) \/ Exec(i) \/ InsertRecord(i)
    <2>1. /\ schema' = schema
          /\ \/ \E pc \in {"lock", "exists", "exec", "record", "commit"} :
                   inst' = [inst EXCEPT ![i] = [inst[i] EXCEPT !.pc = pc]]
             \/ inst' = [inst EXCEPT ![i] = [inst[i] EXCEPT !.pc = "close",
                                                           !.err = "ErrMigrationLock"]]
      <3>1. CASE Acquire(i)
        BY <3>1 DEF Acquire
      <3>2. CASE Lock(i) \/ Begin(i) \/ Exec(i) \/ InsertRecord(i)
        <4>1. PICK pc \in {"exists", "exec", "record", "commit"} : Goto(i, pc) /\ schema' = schema
          BY <3>2 DEF Lock, Begin, Exec, InsertRecord
        <4>2. inst' = [inst EXCEPT ![i] = [inst[i] EXCEPT !.pc = pc]]
          BY <4>1, Here DEF Goto
        <4> QED
          BY <4>1, <4>2
      <3> QED
        BY <1>1, <3>1, <3>2
    <2>2. inst \in [Instances -> Process] /\ inst[i] \in Process
      BY Here
    <2>3. \A j \in Instances \ {i} : inst'[j] = inst[j]
      BY <2>1, <2>2
    <2>4. inst'[i].pc # "serving"
      BY <2>1, <2>2 DEF Process
    <2> QED
      BY <2>1, <2>3, <2>4
  <1>2. CASE ReadExists(i)
    <2> DEFINE seen == [status |-> "uninitialized", version |-> 0]
    <2>1. seen \in [status : Status, version : Nat]
      BY DEF Status
    <2>2. AfterInspect(inst[i], seen, Release[i]).pc # "serving"
      BY <2>1, Here, InspectFacts
    <2> HIDE DEF seen
    <2>3. /\ schema' = schema
          /\ \/ inst' = [inst EXCEPT ![i] = AfterInspect(inst[i], seen, Release[i])]
             \/ inst' = [inst EXCEPT ![i] = [inst[i] EXCEPT !.pc = "columns"]]
      BY <1>2 DEF ReadExists, seen
    <2> QED
      BY <2>2, <2>3, Here DEF Process
  <1>3. CASE ReadColumns(i)
    <2> DEFINE seen == [status |-> "invalid", version |-> 0]
    <2>1. seen \in [status : Status, version : Nat]
      BY DEF Status
    <2>2. AfterInspect(inst[i], seen, Release[i]).pc # "serving"
      BY <2>1, Here, InspectFacts
    <2> HIDE DEF seen
    <2>3. /\ schema' = schema
          /\ \/ inst' = [inst EXCEPT ![i] = AfterInspect(inst[i], seen, Release[i])]
             \/ inst' = [inst EXCEPT ![i] = [inst[i] EXCEPT !.pc = "rows"]]
      BY <1>3 DEF ReadColumns, seen
    <2> QED
      BY <2>2, <2>3, Here DEF Process
  <1>4. CASE ReadRows(i)
    <2> DEFINE seen == classifySnapshot(schema.rows, Release[i])
    <2>1. seen \in [status : Status, version : Nat]
      BY Here, Classified
    <2> HIDE DEF seen
    <2>2. AfterInspect(inst[i], seen, Release[i]).pc # "serving"
      BY <2>1, Here, InspectFacts
    <2>3. schema' = schema /\ inst' = [inst EXCEPT ![i] = AfterInspect(inst[i], seen, Release[i])]
      BY <1>4 DEF ReadRows, seen
    <2> QED
      BY <2>2, <2>3, Here
  <1>5. CASE Rollback(i)
    <2>1. PICK err \in Errors : err = inst[i].err
      BY Here DEF Process
    <2>2. PICK l : l = Finish(inst[i], err)
      OBVIOUS
    <2>3. l.pc \in {"close", "unlock"}
      BY <2>2, Here, FinishFacts
    <2>4. schema' = schema /\ inst' = [inst EXCEPT ![i] = l]
      BY <1>5, <2>1, <2>2 DEF Rollback
    <2> QED
      BY <2>3, <2>4, Here
  <1>6. CASE Unlock(i)
    <2>1. /\ inst[i].pc = "unlock" /\ schema' = schema
          /\ inst' = [inst EXCEPT ![i] = Released(inst[i])]
      BY <1>6 DEF Unlock, Sends, At
    <2>2. inst[i].err = "none" => History!Holds(schema.rows, i)
      BY <2>1, Here DEF ProcessOK
    <2>3. inst[i].err # "none" => Released(inst[i]).pc = "close"
      BY Here DEF Released, Process
    <2> QED
      BY <2>1, <2>2, <2>3, Here
  <1>7. CASE Close(i)
    BY <1>7, Here DEF Close, Down
  <1>8. ASSUME NEW b \in BOOLEAN, inst[i].pc \in Statements,
               NEW l, l = OnError(inst[i], b)
        PROVE  l \in Process /\ l.pc # "serving"
    <2>1. /\ l \in Process
          /\ inst[i].pc = "lock" => l.pc = "close"
          /\ inst[i].pc \in {"exists", "columns", "rows"} => l.pc = "unlock"
          /\ inst[i].pc \in {"begin", "commit"} => l.pc \in {"close", "unlock"}
          /\ inst[i].pc \in {"exec", "record"} => l.pc = "rollback"
          /\ inst[i].pc = "rollback" => l.pc = "close"
          /\ inst[i].pc = "unlock" => l.pc = "close"
      BY <1>8, Here, OnErrorFacts
    <2> QED
      BY <1>8, <2>1 DEF Statements
  <1>9. CASE Refuse(i) \/ NotSent(i) \/ Break(i)
    <2>1. PICK b \in BOOLEAN :
             /\ inst[i].pc \in Statements /\ schema' = schema
             /\ \/ inst' = [inst EXCEPT ![i] = OnError(inst[i], b)]
                \/ inst' = [inst EXCEPT ![i] = [OnError(inst[i], b) EXCEPT !.conn = NoSession]]
      BY <1>9 DEF Refuse, NotSent, Break
    <2>2. PICK l : l = OnError(inst[i], b)
      OBVIOUS
    <2>3. l \in Process /\ l.pc # "serving"
      BY <1>8, <2>1, <2>2
    <2>4. \/ inst' = [inst EXCEPT ![i] = l]
          \/ inst' = [inst EXCEPT ![i] = [l EXCEPT !.conn = NoSession]]
      BY <2>1, <2>2
    <2> QED
      BY <2>1, <2>3, <2>4, Here DEF Process
  <1> QED
    BY <1>1, <1>2, <1>3, <1>4, <1>5, <1>6, <1>7, <1>9 DEF Fail

\* Every step is a step of the history or leaves it alone.
LEMMA StepImplements ==
    ASSUME Inv, [Next]_vars
    PROVE  [History!Next]_<<schema.rows, {i \in Instances : inst[i].pc = "serving"}>>
  <1>1. CASE UNCHANGED vars
    BY <1>1 DEF vars
  <1>2. ASSUME NEW i \in Instances, Succeed(i) \/ Lock(i) \/ Fail(i), ~Commit(i)
        PROVE  \/ History!Admit(i) \/ History!Leave(i)
               \/ UNCHANGED <<schema.rows, {j \in Instances : inst[j].pc = "serving"}>>
    <2>1. /\ schema' = schema /\ \A j \in Instances \ {i} : inst'[j] = inst[j]
          /\ \/ inst'[i].pc # "serving"
             \/ inst[i].pc # "serving" /\ History!Holds(schema.rows, i)
      BY <1>2, RunHistory DEF Succeed
    <2> QED
      BY <2>1, LocalHistory
  <1>3. ASSUME NEW i \in Instances, Commit(i) PROVE History!Advance(i)
    <2>0. PICK slot : slot = inst[i].conn
      OBVIOUS
    <2>1. /\ Connected(i) /\ inst[i].pc = "commit" /\ schema' = Committed(Conn(i))
          /\ inst' = [inst EXCEPT ![i] = [inst[i] EXCEPT !.pc = "exists", !.stage = "post"]]
      BY <1>3, Here DEF Commit, Sends, At, Connected
    <2>2. slot \in Slots /\ Conn(i) = <<i, slot>>
      BY <2>0, <2>1, Sending
    <2>3. session[<<i, slot>>].txn # "none"
      BY <2>1, <2>2, Here DEF ProcessOK, TxnAt
    <2>4. \A j \in Instances : inst'[j].pc = "serving" <=> inst[j].pc = "serving"
      BY <2>1, Here DEF Process
    <2> QED
      BY <2>1, <2>2, <2>3, <2>4, CommitAdvances
  <1>4. ASSUME NEW i \in Instances,
               \/ Begins(i) \/ Crash(i) \/ Stop(i)
               \/ \E err \in {"ErrConfigInvalid", "ErrConnect"} : StartFails(i, err)
        PROVE  \/ History!Admit(i) \/ History!Leave(i)
               \/ UNCHANGED <<schema.rows, {j \in Instances : inst[j].pc = "serving"}>>
    <2>1. /\ schema' = schema /\ \A j \in Instances \ {i} : inst'[j] = inst[j]
          /\ inst'[i].pc # "serving"
      <3>1. CASE Crash(i) \/ Stop(i)
        BY SMTT(20), <3>1, Here DEF Crash, Stop, Down
      <3>2. CASE Begins(i)
        BY <3>2, Here DEF Begins, Start, Down
      <3>3. CASE \E err \in {"ErrConfigInvalid", "ErrConnect"} : StartFails(i, err)
        BY <3>3, Here DEF StartFails, Down
      <3> QED
        BY <1>4, <3>1, <3>2, <3>3
    <2> QED
      BY <2>1, LocalHistory
  <1>5. ASSUME NEW i \in Instances, NEW how \in {"cancelled", "expired"}, EndContext(i, how)
        PROVE  \/ History!Admit(i) \/ History!Leave(i)
               \/ UNCHANGED <<schema.rows, {j \in Instances : inst[j].pc = "serving"}>>
    <2>1. /\ schema' = schema /\ \A j \in Instances \ {i} : inst'[j] = inst[j]
          /\ inst'[i].pc # "serving"
      BY <1>5, Here DEF EndContext, Process, Running, Statements
    <2> QED
      BY <2>1, LocalHistory
  <1>6. ASSUME NEW s \in Sessions, ServerDrops(s) \/ OrphanLocks(s) \/ SessionEnds(s)
        PROVE  UNCHANGED <<schema.rows, {j \in Instances : inst[j].pc = "serving"}>>
    BY <1>6 DEF ServerDrops, OrphanLocks, SessionEnds
  <1>7. ASSUME NEW s \in Sessions, OrphanCommits(s)
        PROVE  \E i \in Instances : History!Advance(i)
    <2>1. PICK i \in Instances, slot \in Slots : s = <<i, slot>>
      BY DEF Sessions
    <2>2. /\ schema' = Committed(<<i, slot>>) /\ inst' = inst
          /\ session[<<i, slot>>].todo = "commit"
      BY <1>7, <2>1 DEF OrphanCommits
    <2>3. session[<<i, slot>>].txn # "none"
      BY <2>2, There DEF SessionOK
    <2> QED
      BY <2>2, <2>3, CommitAdvances
  <1> QED
    BY <1>1, <1>2, <1>3, <1>4, <1>5, <1>6, <1>7 DEF Next, History!Next

\* The committed rows of gateway_schema_migrations and the instances that Prepare
\* has let through behave like SchemaHistory.
THEOREM HistoryRefinement == Spec => ImplementsHistory
  <1>1. Init => {i \in Instances : inst[i].pc = "serving"} = {}
    BY DEF Init, Down
  <1>2. Inv /\ [Next]_vars =>
           [History!Next]_<<schema.rows, {i \in Instances : inst[i].pc = "serving"}>>
    BY StepImplements
  <1> QED
    BY <1>1, <1>2, Invariance, PTL DEF Spec, ImplementsHistory, History!Spec

-----------------------------------------------------------------------------
(* What is written to.                                                     *)

\* The places of a run at which Found asks nothing of the schema.
Idle == Steps \ {"columns", "rows", "begin", "unlock"}

\* A step of instance i and at most one of its sessions that leaves the schema as
\* it is concerns no other instance.
LEMMA SchemaKept ==
    ASSUME WriteInv, NEW i \in Instances, Inv', schema' = schema,
           \A j \in Instances \ {i} :
              /\ inst'[j] = inst[j]
              /\ \A slot \in Slots : session'[<<j, slot>>] = session[<<j, slot>>],
           \A slot \in Slots : Unhindered(i, slot)',
           Found(i)'
    PROVE  WriteInv'
  <1>1. Accounted(schema)' /\ (TableFits' <=> TableFits)
    BY DEF WriteInv, Accounted, TableFits
  <1>2. ASSUME NEW j \in Instances, j # i
        PROVE  Found(j)' /\ \A slot \in Slots : Unhindered(j, slot)'
    <2>1. /\ inst'[j] = inst[j]
          /\ \A slot \in Slots : session'[<<j, slot>>] = session[<<j, slot>>]
          /\ Found(j) /\ \A slot \in Slots : Unhindered(j, slot)
          /\ inst[j].conn \in Slots \cup {NoSession}
      BY <1>2, Here DEF WriteInv
    <2>2. Connected(j)' => Connected(j)
      BY <2>1 DEF Connected, Conn
    <2>3. Found(j)'
      BY <1>1, <2>1, <2>2 DEF Found, At
    <2>4. \A slot \in Slots : Unhindered(j, slot)'
      BY <1>1, <2>1 DEF Unhindered
    <2> QED
      BY <2>3, <2>4
  <1> QED
    BY <1>1, <1>2 DEF WriteInv

\* A session that has no transaction, or the one it had, is unhindered.
LEMMA SameTxn ==
    ASSUME NEW i \in Instances, NEW slot \in Slots, Unhindered(i, slot), schema' = schema,
           \/ session'[<<i, slot>>].txn = "none"
           \/ /\ session'[<<i, slot>>].txn = session[<<i, slot>>].txn
              /\ session'[<<i, slot>>].version = session[<<i, slot>>].version
    PROVE  Unhindered(i, slot)'
  <1>1. TableFits' <=> TableFits
    BY DEF TableFits
  <1> QED
    BY <1>1 DEF Unhindered

\* What a step leaves of one session: nothing of its transaction, or all of it.
Keeps(i, slot, x) ==
    /\ session' = [session EXCEPT ![<<i, slot>>] = x]
    /\ \/ x.txn = "none"
       \/ x.txn = session[<<i, slot>>].txn /\ x.version = session[<<i, slot>>].version

\* The sessions after such a step.
LEMMA KeptSessions ==
    ASSUME WriteInv, NEW i \in Instances, schema' = schema,
           session' = session \/ \E slot \in Slots : \E x : Keeps(i, slot, x)
    PROVE  /\ \A slot \in Slots : Unhindered(i, slot)'
           /\ \A j \in Instances \ {i}, slot \in Slots :
                 session'[<<j, slot>>] = session[<<j, slot>>]
  <1>1. /\ \A slot \in Slots : Unhindered(i, slot)
        /\ session \in [Sessions -> Session]
        /\ \A j \in Instances, slot \in Slots : <<j, slot>> \in Sessions
    BY DEF WriteInv, Inv, TypeOK, Sessions
  <1>2. CASE session' = session
    BY <1>1, <1>2, SameTxn
  <1>3. ASSUME NEW t \in Slots, NEW x, Keeps(i, t, x)
        PROVE  /\ \A slot \in Slots : Unhindered(i, slot)'
               /\ \A j \in Instances \ {i}, slot \in Slots :
                     session'[<<j, slot>>] = session[<<j, slot>>]
    <2>1. /\ session'[<<i, t>>] = x
          /\ \A j \in Instances, slot \in Slots : <<j, slot>> # <<i, t>> =>
                session'[<<j, slot>>] = session[<<j, slot>>]
      BY <1>1, <1>3 DEF Keeps
    <2>2. ASSUME NEW slot \in Slots PROVE Unhindered(i, slot)'
      <3>1. CASE slot = t
        BY <1>1, <1>3, <2>1, <3>1, SameTxn DEF Keeps
      <3>2. CASE slot # t
        BY <1>1, <2>1, <3>2, SameTxn
      <3> QED
        BY <3>1, <3>2
    <2> QED
      BY <2>1, <2>2
  <1> QED
    BY <1>2, <1>3

\* A step to a place where Found asks nothing.
LEMMA IdleStep ==
    ASSUME WriteInv, NEW i \in Instances, Inv', schema' = schema,
           session' = session \/ \E slot \in Slots : \E x : Keeps(i, slot, x),
           NEW l, inst' = [inst EXCEPT ![i] = l],
           l.pc \in Idle \/ (l.pc = "unlock" /\ l.err # "none")
    PROVE  WriteInv'
  <1>1. /\ inst \in [Instances -> Process] /\ inst'[i] = l
        /\ \A j \in Instances \ {i} : inst'[j] = inst[j]
    BY DEF WriteInv, Inv, TypeOK
  <1>2. Found(i)'
    BY <1>1 DEF Found, At, Idle
  <1>3. /\ \A slot \in Slots : Unhindered(i, slot)'
        /\ \A j \in Instances \ {i}, slot \in Slots : session'[<<j, slot>>] = session[<<j, slot>>]
    BY KeptSessions
  <1> QED
    BY <1>1, <1>2, <1>3, SchemaKept

\* A step of the server, or of a context, keeps what a process has found.
LEMMA SamePlace ==
    ASSUME WriteInv, NEW i \in Instances, Inv', schema' = schema,
           session' = session \/ \E slot \in Slots : \E x : Keeps(i, slot, x),
           \A j \in Instances \ {i} : inst'[j] = inst[j],
           inst'[i].pc = inst[i].pc, inst'[i].err = inst[i].err,
           Connected(i)' => Connected(i)
    PROVE  WriteInv'
  <1>1. Found(i) /\ (TableFits' <=> TableFits)
    BY DEF WriteInv, TableFits
  <1>2. Found(i)'
    BY <1>1 DEF Found, At
  <1>3. /\ \A slot \in Slots : Unhindered(i, slot)'
        /\ \A j \in Instances \ {i}, slot \in Slots : session'[<<j, slot>>] = session[<<j, slot>>]
    BY KeptSessions
  <1> QED
    BY <1>2, <1>3, SchemaKept

\* A session that is ended or left by its client.
LEMMA LeftSession ==
    ASSUME Inv, NEW i \in Instances, inst[i].conn # NoSession, NEW pc,
           session' = Abandoned(Conn(i), pc) \/ session' = Ended(Conn(i))
    PROVE  \E slot \in Slots : \E x : Keeps(i, slot, x)
  <1>1. PICK slot \in Slots : slot = inst[i].conn
    BY Here
  <1>2. /\ Conn(i) = <<i, slot>> /\ session \in [Sessions -> Session]
        /\ session[<<i, slot>>] \in Session /\ <<i, slot>> \in Sessions
    BY <1>1, There DEF Conn
  <1>3. CASE session' = Ended(Conn(i))
    <2>1. PICK x : x = EndedOf(session[<<i, slot>>])
      OBVIOUS
    <2>2. x.txn = "none" /\ Ended(<<i, slot>>) = [session EXCEPT ![<<i, slot>>] = x]
      BY <2>1, EndedSession
    <2>3. session' = [session EXCEPT ![<<i, slot>>] = x]
      BY <1>2, <1>3, <2>2
    <2> QED
      BY <2>2, <2>3 DEF Keeps
  <1>4. CASE session' = Abandoned(Conn(i), pc) /\ session[<<i, slot>>].state # "live"
    <2>1. PICK x : x = Free
      OBVIOUS
    <2>2. x.txn = "none" /\ session' = [session EXCEPT ![<<i, slot>>] = x]
      BY <1>2, <1>4, <2>1 DEF Abandoned, Free
    <2> QED
      BY <2>2 DEF Keeps
  <1>5. CASE session' = Abandoned(Conn(i), pc) /\ session[<<i, slot>>].state = "live"
    <2>1. PICK x : x = [session[<<i, slot>>] EXCEPT !.state = "orphan",
                          !.todo = IF pc \in {"lock", "commit"} THEN pc ELSE "none"]
      OBVIOUS
    <2>2. session' = [session EXCEPT ![<<i, slot>>] = x]
      BY <1>2, <1>5, <2>1 DEF Abandoned
    <2>3. x.txn = session[<<i, slot>>].txn /\ x.version = session[<<i, slot>>].version
      BY <1>2, <2>1 DEF Session
    <2> QED
      BY <2>2, <2>3 DEF Keeps
  <1> QED
    BY <1>3, <1>4, <1>5

\* Every step of a run that ends somewhere idle.
LEMMA RunIdle ==
    ASSUME WriteInv, Inv', NEW i \in Instances,
           \/ Acquire(i) \/ Lock(i) \/ Rollback(i) \/ Unlock(i) \/ Close(i)
           \/ Crash(i) \/ Stop(i) \/ Begins(i)
           \/ \E err \in {"ErrConfigInvalid", "ErrConnect"} : StartFails(i, err)
    PROVE  WriteInv'
  <1>0. Inv /\ inst[i] \in Process /\ ProcessOK(i)
    BY Here DEF WriteInv
  <1>1. ASSUME Acquire(i) \/ Lock(i) PROVE WriteInv'
    <2>1. PICK l : /\ inst' = [inst EXCEPT ![i] = l] /\ l.pc \in {"lock", "close", "exists"}
      <3>1. CASE Acquire(i)
        <4> DEFINE l == IF inst[i].ctx = "live" THEN [inst[i] EXCEPT !.pc = "lock"]
                        ELSE [inst[i] EXCEPT !.pc = "close", !.err = "ErrMigrationLock"]
        <4>1. inst' = [inst EXCEPT ![i] = l] /\ l.pc \in {"lock", "close"}
          BY <1>0, <3>1 DEF Acquire, Process
        <4> QED
          BY <4>1
      <3>2. CASE Lock(i)
        <4> DEFINE l == [inst[i] EXCEPT !.pc = "exists"]
        <4>1. inst' = [inst EXCEPT ![i] = l] /\ l.pc = "exists"
          BY <1>0, <3>2 DEF Lock, Goto, Process
        <4> QED
          BY <4>1
      <3> QED
        BY <1>1, <3>1, <3>2
    <2>2. session' = session /\ schema' = schema
      BY <1>1 DEF Acquire, Lock
    <2>3. l.pc \in Idle
      BY <2>1 DEF Idle, Steps, Running, Statements
    <2> QED
      BY <2>1, <2>2, <2>3, IdleStep
  <1>2. ASSUME Rollback(i) PROVE WriteInv'
    <2>0. PICK err : err = inst[i].err
      OBVIOUS
    <2>1. PICK l : l = Finish(inst[i], err)
      OBVIOUS
    <2>2. /\ inst' = [inst EXCEPT ![i] = l] /\ session' = Ended(Conn(i)) /\ schema' = schema
          /\ inst[i].conn # NoSession /\ inst[i].pc = "rollback"
      BY <1>2, <2>0, <2>1 DEF Rollback, Sends, At
    <2>3. err \in Errors /\ err # "none"
      BY <1>0, <2>0, <2>2 DEF ProcessOK, Process
    <2>4. l.pc \in {"close", "unlock"} /\ l.err = err
      BY <1>0, <2>1, <2>3, FinishFacts
    <2>5. \E slot \in Slots : \E x : Keeps(i, slot, x)
      BY <1>0, <2>2, LeftSession
    <2>6. l.pc \in Idle \/ (l.pc = "unlock" /\ l.err # "none")
      BY <2>3, <2>4 DEF Idle, Steps, Running, Statements
    <2> QED
      BY <2>2, <2>5, <2>6, IdleStep
  <1>3. ASSUME Unlock(i) PROVE WriteInv'
    <2>1. PICK l : l = Released(inst[i])
      OBVIOUS
    <2>2. inst' = [inst EXCEPT ![i] = l] /\ session' = session /\ schema' = schema
      BY <1>3, <2>1 DEF Unlock
    <2>3. l.pc \in {"serving", "close"}
      BY <1>0, <2>1 DEF Released, Process, Down
    <2>4. l.pc \in Idle
      BY <2>3 DEF Idle, Steps, Running, Statements
    <2> QED
      BY <2>2, <2>4, IdleStep
  <1>4. ASSUME Close(i) \/ Crash(i) \/ Stop(i) PROVE WriteInv'
    <2>1. PICK l : inst' = [inst EXCEPT ![i] = l] /\ l.pc \in {"down", "failed"}
      <3>1. Down.pc = "down" /\ [Down EXCEPT !.pc = "failed", !.err = inst[i].err].pc = "failed"
        BY DEF Down
      <3> QED
        BY <1>4, <3>1 DEF Close, Crash, Stop
    <2>2. schema' = schema
      BY <1>4 DEF Close, Crash, Stop
    <2>3. session' = session \/ \E slot \in Slots : \E x : Keeps(i, slot, x)
      <3>1. Stop(i) => inst[i].conn # NoSession
        BY <1>0 DEF Stop, At, ProcessOK, Running, Statements
      <3>2. PICK pc : \/ session' = session
                      \/ inst[i].conn # NoSession /\ session' = Abandoned(Conn(i), pc)
        BY <1>4, <3>1 DEF Close, Crash, Stop
      <3> QED
        BY <1>0, <3>2, LeftSession
    <2>4. l.pc \in Idle
      BY <2>1 DEF Idle, Steps, Running, Statements
    <2> QED
      BY <2>1, <2>2, <2>3, <2>4, IdleStep
  <1>5. ASSUME NEW slot \in Slots, Start(i, slot) PROVE WriteInv'
    <2>1. PICK l : l = [Down EXCEPT !.pc = "acquire", !.conn = slot]
      OBVIOUS
    <2>2. PICK x : x = Fresh
      OBVIOUS
    <2>3. /\ inst' = [inst EXCEPT ![i] = l] /\ schema' = schema
          /\ session' = [session EXCEPT ![<<i, slot>>] = x]
      BY <1>5, <2>1, <2>2 DEF Start
    <2>4. Keeps(i, slot, x)
      BY <2>2, <2>3 DEF Keeps, Fresh, Free
    <2>5. l.pc \in Idle
      BY <2>1 DEF Down, Idle, Steps, Running, Statements
    <2> QED
      BY <2>3, <2>4, <2>5, IdleStep
  <1>6. ASSUME NEW err \in {"ErrConfigInvalid", "ErrConnect"}, StartFails(i, err)
        PROVE  WriteInv'
    <2>1. PICK l : l = [Down EXCEPT !.pc = "failed", !.err = err]
      OBVIOUS
    <2>2. inst' = [inst EXCEPT ![i] = l] /\ session' = session /\ schema' = schema
      BY <1>6, <2>1 DEF StartFails
    <2>3. l.pc \in Idle
      BY <2>1 DEF Down, Idle, Steps, Running, Statements
    <2> QED
      BY <2>2, <2>3, IdleStep
  <1> QED
    BY <1>1, <1>2, <1>3, <1>4, <1>5, <1>6 DEF Begins

\* A statement that fails.
LEMMA ErrorIdle ==
    ASSUME WriteInv, Inv', NEW i \in Instances, Refuse(i) \/ NotSent(i) \/ Break(i)
    PROVE  WriteInv'
  <1>0. Inv /\ inst[i] \in Process
    BY Here DEF WriteInv
  <1>1. PICK b \in BOOLEAN :
           /\ inst[i].pc \in Statements /\ schema' = schema
           /\ \/ inst' = [inst EXCEPT ![i] = OnError(inst[i], b)]
              \/ inst' = [inst EXCEPT ![i] = [OnError(inst[i], b) EXCEPT !.conn = NoSession]]
    BY DEF Refuse, NotSent, Break
  <1>2. PICK n : n = OnError(inst[i], b)
    OBVIOUS
  <1>3. n \in Process /\ (n.pc \in {"close", "rollback"} \/ (n.pc = "unlock" /\ n.err # "none"))
    <2>1. /\ n \in Process
          /\ inst[i].pc = "lock" => n.pc = "close"
          /\ inst[i].pc \in {"exists", "columns", "rows"} => n.pc = "unlock" /\ n.err = "ErrSchemaQuery"
          /\ inst[i].pc \in {"begin", "commit"} =>
                n.pc = "close" \/ (n.pc = "unlock" /\ n.err = "ErrMigration")
          /\ inst[i].pc \in {"exec", "record"} => n.pc = "rollback"
          /\ inst[i].pc = "rollback" => n.pc = "close"
          /\ inst[i].pc = "unlock" => n.pc = "close"
      BY <1>0, <1>1, <1>2, OnErrorFacts
    <2> QED
      BY <1>1, <2>1 DEF Statements
  <1>4. PICK l : /\ inst' = [inst EXCEPT ![i] = l]
                 /\ l.pc \in {"close", "rollback"} \/ (l.pc = "unlock" /\ l.err # "none")
    <2>1. PICK l : l = [n EXCEPT !.conn = NoSession]
      OBVIOUS
    <2>2. l.pc = n.pc /\ l.err = n.err
      BY <1>3, <2>1 DEF Process
    <2> QED
      BY <1>1, <1>2, <1>3, <2>1, <2>2
  <1>5. l.pc \in Idle \/ (l.pc = "unlock" /\ l.err # "none")
    BY <1>4 DEF Idle, Steps, Running, Statements
  <1>6. session' = session \/ \E slot \in Slots : \E x : Keeps(i, slot, x)
    <2>1. PICK pc : \/ session' = session
                    \/ /\ inst[i].conn # NoSession
                       /\ session' = Abandoned(Conn(i), pc) \/ session' = Ended(Conn(i))
      BY DEF Refuse, NotSent, Break, Sends
    <2> QED
      BY <1>0, <2>1, LeftSession
  <1> QED
    BY <1>1, <1>4, <1>5, <1>6, IdleStep

\* The server acts on a session without a COMMIT.
LEMMA ServerWrites ==
    ASSUME WriteInv, Inv', NEW i \in Instances, NEW slot \in Slots,
           ServerDrops(<<i, slot>>) \/ OrphanLocks(<<i, slot>>) \/ SessionEnds(<<i, slot>>)
    PROVE  WriteInv'
  <1>0. /\ Inv /\ inst[i] \in Process /\ inst \in [Instances -> Process]
        /\ session \in [Sessions -> Session] /\ session[<<i, slot>>] \in Session
        /\ <<i, slot>> \in Sessions /\ inst[i].conn \in Slots \cup {NoSession}
    BY Here, There DEF WriteInv
  <1>1. PICK x : Keeps(i, slot, x) /\ x.state # "live"
    <2>1. CASE ServerDrops(<<i, slot>>)
      <3>1. PICK x : x = [Free EXCEPT !.state = "dead"]
        OBVIOUS
      <3>2. x.txn = "none" /\ x.state = "dead" /\ session' = [session EXCEPT ![<<i, slot>>] = x]
        BY <2>1, <3>1 DEF ServerDrops, Free
      <3> QED
        BY <3>2 DEF Keeps
    <2>2. CASE OrphanLocks(<<i, slot>>)
      <3>1. PICK x : x = [session[<<i, slot>>] EXCEPT !.todo = "none"]
        OBVIOUS
      <3>2. session' = [session EXCEPT ![<<i, slot>>] = x] /\ session[<<i, slot>>].state = "orphan"
        BY <1>0, <2>2, <3>1 DEF OrphanLocks
      <3>3. /\ x.txn = session[<<i, slot>>].txn /\ x.version = session[<<i, slot>>].version
            /\ x.state = session[<<i, slot>>].state
        BY <1>0, <3>1 DEF Session
      <3> QED
        BY <3>2, <3>3 DEF Keeps
    <2>3. CASE SessionEnds(<<i, slot>>)
      <3>1. PICK x : x = Free
        OBVIOUS
      <3>2. x.txn = "none" /\ x.state = "free" /\ session' = [session EXCEPT ![<<i, slot>>] = x]
        BY <2>3, <3>1 DEF SessionEnds, Free
      <3> QED
        BY <3>2 DEF Keeps
    <2> QED
      BY <2>1, <2>2, <2>3
  <1>2. inst' = inst /\ schema' = schema
    BY DEF ServerDrops, OrphanLocks, SessionEnds
  <1>3. Connected(i)' => Connected(i)
    <2>1. /\ session'[<<i, slot>>] = x
          /\ \A t \in Slots \ {slot} : session'[<<i, t>>] = session[<<i, t>>]
      BY <1>0, <1>1 DEF Keeps, Sessions
    <2> QED
      BY <1>0, <1>1, <1>2, <2>1 DEF Connected, Conn
  <1> QED
    BY <1>1, <1>2, <1>3, SamePlace

\* A context ends.
LEMMA ContextWrites ==
    ASSUME WriteInv, Inv', NEW i \in Instances, NEW how \in {"cancelled", "expired"},
           EndContext(i, how)
    PROVE  WriteInv'
  <1>0. Inv /\ inst[i] \in Process /\ inst \in [Instances -> Process]
    BY Here DEF WriteInv
  <1>1. PICK l : l = [inst[i] EXCEPT !.ctx = how]
    OBVIOUS
  <1>2. inst' = [inst EXCEPT ![i] = l] /\ session' = session /\ schema' = schema
    BY <1>0, <1>1 DEF EndContext
  <1>3. l.pc = inst[i].pc /\ l.err = inst[i].err /\ l.conn = inst[i].conn
    BY <1>0, <1>1 DEF Process
  <1>4. inst'[i] = l /\ \A j \in Instances \ {i} : inst'[j] = inst[j]
    BY <1>0, <1>2
  <1>5. Connected(i)' => Connected(i)
    BY <1>2, <1>3, <1>4 DEF Connected, Conn
  <1> QED
    BY <1>2, <1>3, <1>4, <1>5, SamePlace

\* An inspection that is acted upon has found the table as it should be.
LEMMA InspectedTable ==
    ASSUME WriteInv, Inv', NEW i \in Instances, NEW seen \in [status : Status, version : Nat],
           inst' = [inst EXCEPT ![i] = AfterInspect(inst[i], seen, Release[i])],
           schema' = schema, session' = session,
           seen.status \in {"uninitialized", "behind", "current"} => TableFits,
           seen.status = "current" => schema.table = "complete"
    PROVE  WriteInv'
  <1>0. Inv /\ inst[i] \in Process /\ inst \in [Instances -> Process] /\ Len(Release[i]) \in Nat
    BY Here DEF WriteInv
  <1>1. PICK l : l = AfterInspect(inst[i], seen, Release[i])
    OBVIOUS
  <1>2. \/ l.pc = "unlock" /\ l.err \in {"ErrSchemaAhead", "ErrSchemaInvalid"}
        \/ l.pc = "unlock" /\ l.err = "none" /\ seen.status = "current"
        \/ l.pc \in {"begin", "exists"} /\ seen.status \in {"uninitialized", "behind", "current"}
    BY <1>0, <1>1, InspectFacts
  <1>3. inst'[i] = l /\ \A j \in Instances \ {i} : inst'[j] = inst[j]
    BY <1>0, <1>1
  <1>4. TableFits' <=> TableFits
    BY DEF TableFits
  <1>5. Found(i)'
    BY <1>2, <1>3, <1>4 DEF Found, At
  <1>6. /\ \A slot \in Slots : Unhindered(i, slot)'
        /\ \A j \in Instances \ {i}, slot \in Slots : session'[<<j, slot>>] = session[<<j, slot>>]
    BY KeptSessions
  <1> QED
    BY <1>3, <1>5, <1>6, SchemaKept

\* The next statement of an inspection is asked because of what the one before
\* has found.
LEMMA NextQuestion ==
    ASSUME WriteInv, Inv', NEW i \in Instances, NEW pc \in {"columns", "rows"},
           inst' = [inst EXCEPT ![i] = [inst[i] EXCEPT !.pc = pc]],
           schema' = schema, session' = session,
           schema.table # "absent", pc = "rows" => schema.table = "complete"
    PROVE  WriteInv'
  <1>0. Inv /\ inst[i] \in Process /\ inst \in [Instances -> Process]
    BY Here DEF WriteInv
  <1>1. inst'[i].pc = pc /\ \A j \in Instances \ {i} : inst'[j] = inst[j]
    BY <1>0 DEF Process
  <1>2. Found(i)'
    BY <1>1 DEF Found, At
  <1>3. /\ \A slot \in Slots : Unhindered(i, slot)'
        /\ \A j \in Instances \ {i}, slot \in Slots : session'[<<j, slot>>] = session[<<j, slot>>]
    BY KeptSessions
  <1> QED
    BY <1>1, <1>2, <1>3, SchemaKept

\* The three statements of Snapshot.
LEMMA ReadWrites ==
    ASSUME WriteInv, Inv', NEW i \in Instances, ReadExists(i) \/ ReadColumns(i) \/ ReadRows(i)
    PROVE  WriteInv'
  <1>0. /\ Inv /\ TypeOK /\ schema \in Schema /\ schema.table \in {"absent", "partial", "complete"}
        /\ schema.table = "absent" => schema.rows = <<>>
        /\ Found(i) /\ schema' = schema /\ session' = session /\ Connected(i)
    <2>1. schema \in Schema
      BY Here DEF WriteInv
    <2> QED
      BY <2>1 DEF Schema, WriteInv, Inv, ReadExists, ReadColumns, ReadRows, Sends, Connected
  <1>1. CASE ReadExists(i) /\ schema.table = "absent"
    <2>1. PICK seen : seen = [status |-> "uninitialized", version |-> 0]
      OBVIOUS
    <2>2. seen \in [status : Status, version : Nat] /\ seen.status = "uninitialized"
      BY <2>1 DEF Status
    <2>3. inst' = [inst EXCEPT ![i] = AfterInspect(inst[i], seen, Release[i])]
      BY <1>1, <2>1 DEF ReadExists
    <2>4. TableFits
      BY <1>0, <1>1 DEF TableFits
    <2> QED
      BY <1>0, <2>2, <2>3, <2>4, InspectedTable
  <1>2. CASE ReadExists(i) /\ schema.table # "absent"
    <2>1. inst' = [inst EXCEPT ![i] = [inst[i] EXCEPT !.pc = "columns"]]
      BY <1>2 DEF ReadExists
    <2> QED
      BY <1>0, <1>2, <2>1, NextQuestion
  <1>3. CASE ReadColumns(i) /\ schema.table = "partial"
    <2>1. PICK seen : seen = [status |-> "invalid", version |-> 0]
      OBVIOUS
    <2>2. seen \in [status : Status, version : Nat] /\ seen.status = "invalid"
      BY <2>1 DEF Status
    <2>3. inst' = [inst EXCEPT ![i] = AfterInspect(inst[i], seen, Release[i])]
      BY <1>3, <2>1 DEF ReadColumns
    <2> QED
      BY <1>0, <2>2, <2>3, InspectedTable
  <1>4. CASE ReadColumns(i) /\ schema.table # "partial"
    <2>1. inst' = [inst EXCEPT ![i] = [inst[i] EXCEPT !.pc = "rows"]] /\ At(i, "columns")
      BY <1>4 DEF ReadColumns, Sends
    <2>2. schema.table = "complete"
      BY <1>0, <1>4, <2>1 DEF Found
    <2> QED
      BY <1>0, <2>1, <2>2, NextQuestion
  <1>5. CASE ReadRows(i)
    <2>1. PICK seen : seen = classifySnapshot(schema.rows, Release[i])
      OBVIOUS
    <2>2. seen \in [status : Status, version : Nat] /\ seen.status # "uninitialized"
      BY <1>0, <2>1, Classified
    <2>3. inst' = [inst EXCEPT ![i] = AfterInspect(inst[i], seen, Release[i])] /\ At(i, "rows")
      BY <1>5, <2>1 DEF ReadRows, Sends
    <2>4. schema.table = "complete"
      BY <1>0, <2>3 DEF Found
    <2>5. seen.status \in {"behind", "current"} => TableFits
      <3>1. schema.rows = <<>> => seen.status = "invalid"
        BY <2>1 DEF classifySnapshot
      <3> QED
        BY <2>4, <3>1 DEF TableFits
    <2> QED
      BY <1>0, <2>2, <2>3, <2>4, <2>5, InspectedTable
  <1> QED
    BY <1>1, <1>2, <1>3, <1>4, <1>5

\* BEGIN, the migration and its record.
LEMMA ApplyWrites ==
    ASSUME WriteInv, Inv', NEW i \in Instances, Begin(i) \/ Exec(i) \/ InsertRecord(i)
    PROVE  WriteInv'
  <1>0. PICK slot : slot = inst[i].conn
    OBVIOUS
  <1>1. /\ Inv /\ ProcessOK(i) /\ inst[i] \in Process /\ inst \in [Instances -> Process]
        /\ Connected(i) /\ schema' = schema /\ Found(i)
        /\ \A t \in Slots : Unhindered(i, t)
    BY Here DEF WriteInv, Begin, Exec, InsertRecord, Sends, Connected
  <1>2. /\ slot \in Slots /\ Conn(i) = <<i, slot>> /\ <<i, slot>> \in Sessions
        /\ session \in [Sessions -> Session] /\ session[<<i, slot>>] \in Session
    BY <1>0, <1>1, Sending
  <1>3. TableFits' <=> TableFits
    BY <1>1 DEF TableFits
  <1>4. ASSUME NEW pc \in {"exec", "record", "commit"}, Goto(i, pc), NEW x,
               session' = [session EXCEPT ![<<i, slot>>] = x], TableFits,
               x.txn \in {"ddl", "recorded"} => \A d \in schema.ddl : d.version # x.version
        PROVE  WriteInv'
    <2>1. inst'[i].pc = pc /\ \A j \in Instances \ {i} : inst'[j] = inst[j]
      BY <1>1, <1>4 DEF Goto, Process
    <2>2. Found(i)'
      BY <2>1 DEF Found, At
    <2>3. /\ session'[<<i, slot>>] = x
          /\ \A t \in Slots \ {slot} : session'[<<i, t>>] = session[<<i, t>>]
          /\ \A j \in Instances \ {i}, t \in Slots : session'[<<j, t>>] = session[<<j, t>>]
      BY <1>2, <1>4 DEF Sessions
    <2>4. ASSUME NEW t \in Slots PROVE Unhindered(i, t)'
      <3>1. CASE t = slot
        BY <1>1, <1>3, <1>4, <2>3, <3>1 DEF Unhindered
      <3>2. CASE t # slot
        BY <1>1, <2>3, <3>2, SameTxn
      <3> QED
        BY <3>1, <3>2
    <2> QED
      BY <1>1, <2>1, <2>2, <2>3, <2>4, SchemaKept
  <1>5. CASE Begin(i)
    <2>1. PICK x : x = [session[<<i, slot>>] EXCEPT !.txn = "open", !.version = Applying(i)]
      OBVIOUS
    <2>2. x.txn = "open"
      BY <1>2, <2>1 DEF Session
    <2>3. session' = [session EXCEPT ![<<i, slot>>] = x] /\ Goto(i, "exec") /\ At(i, "begin")
      BY <1>2, <1>5, <2>1 DEF Begin, Sends
    <2>4. TableFits
      BY <1>1, <2>3 DEF Found
    <2> QED
      BY <1>4, <2>2, <2>3, <2>4
  <1>6. CASE Exec(i)
    <2>1. PICK x : x = [session[<<i, slot>>] EXCEPT !.txn = "ddl"]
      OBVIOUS
    <2>2. x.version = session[<<i, slot>>].version
      BY <1>2, <2>1 DEF Session
    <2>3. /\ session' = [session EXCEPT ![<<i, slot>>] = x] /\ Goto(i, "record")
          /\ inst[i].pc = "exec" /\ ~Conflict(i)
      BY <1>2, <1>6, <2>1 DEF Exec, Sends, At
    <2>4. session[<<i, slot>>].txn = "open" /\ session[<<i, slot>>].version = Applying(i)
      BY <1>1, <1>2, <2>3 DEF ProcessOK, TxnAt
    <2>5. TableFits
      BY <1>1, <1>2, <2>4 DEF Unhindered
    <2>6. \A d \in schema.ddl : d.version # x.version
      BY <2>2, <2>3, <2>4 DEF Conflict, At
    <2> QED
      BY <1>4, <2>3, <2>5, <2>6
  <1>7. CASE InsertRecord(i)
    <2>1. PICK x : x = [session[<<i, slot>>] EXCEPT !.txn = "recorded"]
      OBVIOUS
    <2>2. x.version = session[<<i, slot>>].version
      BY <1>2, <2>1 DEF Session
    <2>3. /\ session' = [session EXCEPT ![<<i, slot>>] = x] /\ Goto(i, "commit")
          /\ inst[i].pc = "record"
      BY <1>2, <1>7, <2>1 DEF InsertRecord, Sends, At
    <2>4. session[<<i, slot>>].txn = "ddl"
      BY <1>1, <1>2, <2>3 DEF ProcessOK, TxnAt
    <2>5. TableFits /\ \A d \in schema.ddl : d.version # session[<<i, slot>>].version
      BY <1>1, <1>2, <2>4 DEF Unhindered
    <2> QED
      BY <1>4, <2>2, <2>3, <2>5
  <1> QED
    BY <1>5, <1>6, <1>7

\* The rows of a sequence with one more.
LEMMA RowsOf ==
    ASSUME NEW S, NEW rows \in Seq(S), NEW m \in S, NEW after, after = Append(rows, m)
    PROVE  {after[k] : k \in DOMAIN after} = {rows[k] : k \in DOMAIN rows} \cup {m}
  <1>1. /\ after \in Seq(S) /\ Len(rows) \in Nat /\ Len(after) = Len(rows) + 1
        /\ \A k \in 1..Len(rows) : after[k] = rows[k]
        /\ after[Len(rows) + 1] = m
    BY AppendRow
  <1>2. /\ DOMAIN rows = 1..Len(rows) /\ DOMAIN after = 1..(Len(rows) + 1)
        /\ \A k \in DOMAIN after : k \in DOMAIN rows \/ k = Len(rows) + 1
        /\ \A k \in DOMAIN rows : k \in DOMAIN after
        /\ Len(rows) + 1 \in DOMAIN after
    BY <1>1
  <1> QED
    BY <1>1, <1>2

\* A COMMIT finds the schema intact and leaves it so: its session has run into no
\* object of its version, so that the objects are those that are recorded.
LEMMA CommitWrites ==
    ASSUME WriteInv, Inv', NEW i \in Instances, NEW slot \in Slots,
           session[<<i, slot>>].txn = "recorded",
           schema' = Committed(<<i, slot>>), session' = Ended(<<i, slot>>)
    PROVE  WriteInv' /\ Intact(i) /\ Intact(i)'
  <1>0. PICK v : v = session[<<i, slot>>].version
    OBVIOUS
  <1>1. PICK m : m = MigrationOf(i, v)
    OBVIOUS
  <1>2. /\ Inv /\ TableFits /\ Accounted(schema) /\ schema.rows \in Seq(Record)
        /\ \A d \in schema.ddl : d.version # v
    BY <1>0, Here DEF WriteInv, Unhindered, Schema
  <1>3. /\ lock = <<i, slot>> /\ v \in 1..Len(Release[i]) /\ Len(Release[i]) \in Nat
        /\ schema'.rows = Append(schema.rows, m) /\ schema' \in Schema
        /\ History!Follows(schema.rows, i, v - 1) /\ History!Follows(schema'.rows, i, v)
    <2>1. PICK after : after = Committed(<<i, slot>>)
      OBVIOUS
    <2>2. /\ lock = <<i, slot>> /\ v \in 1..Len(Release[i])
          /\ after \in Schema /\ after.rows = Append(schema.rows, MigrationOf(i, v))
          /\ History!Follows(schema.rows, i, v - 1) /\ History!Follows(after.rows, i, v)
      <3>1. Inv /\ session[<<i, slot>>].txn # "none"
        BY <1>2
      <3> QED
        BY <1>0, <2>1, <3>1, CommitFacts
    <2>3. Len(Release[i]) \in Nat /\ schema' = after
      BY <1>2, <2>1, Here
    <2> QED
      BY <1>1, <2>2, <2>3
  <1>4. Len(schema.rows) = v - 1 /\ Len(schema'.rows) = v
    BY <1>3 DEF History!Follows
  <1>5. schema.ddl = {schema.rows[k] : k \in DOMAIN schema.rows}
    <2>1. Len(schema.rows) + 1 = v
      BY SMTT(20), <1>3, <1>4
    <2> QED
      BY <1>2, <2>1 DEF Accounted
  <1>6. /\ schema' = [table |-> "complete", rows |-> Append(schema.rows, m),
                      ddl |-> schema.ddl \cup {m}]
    BY <1>0, <1>1 DEF Committed
  <1>7. schema'.ddl = {schema'.rows[k] : k \in DOMAIN schema'.rows}
    <2>1. m \in Record
      <3>1. Release[i] \in Seq(Checksums \ {Blank})
        BY <1>2, Typed DEF Inv
      <3>2. v \in Nat /\ Release[i][v] \in Checksums
        BY SMTT(20), <1>3, <3>1
      <3> QED
        BY <1>1, <3>2 DEF MigrationOf, Record
    <2>2. PICK after : after = Append(schema.rows, m)
      OBVIOUS
    <2>3. {after[k] : k \in DOMAIN after} = {schema.rows[k] : k \in DOMAIN schema.rows} \cup {m}
      <3>1. PICK S, rows : S = Record /\ rows = schema.rows
        OBVIOUS
      <3>2. rows \in Seq(S) /\ m \in S /\ after = Append(rows, m)
        BY <1>2, <2>1, <2>2, <3>1
      <3>3. {after[k] : k \in DOMAIN after} = {rows[k] : k \in DOMAIN rows} \cup {m}
        BY <3>2, RowsOf
      <3> QED
        BY <3>1, <3>3
    <2>4. schema'.rows = after /\ schema'.ddl = schema.ddl \cup {m}
      BY SMTT(20), <1>6, <2>2
    <2> QED
      BY SMTT(20), <1>5, <2>3, <2>4
  <1>8. schema'.table = "complete" /\ schema'.rows # <<>> /\ TableFits'
    <2>1. schema'.rows # <<>>
      BY <1>3, <1>4
    <2> QED
      BY SMTT(20), <1>6, <2>1 DEF TableFits
  <1>9. Intact(i) /\ Intact(i)'
    BY <1>2, <1>3, <1>4, <1>5, <1>7, <1>8 DEF Intact, TableFits
  <1>10. ASSUME NEW j \in Instances, NEW t \in Slots PROVE Unhindered(j, t)'
    <2>1. PICK x : x = EndedOf(session[<<i, slot>>])
      OBVIOUS
    <2>2. x.txn = "none" /\ session' = [session EXCEPT ![<<i, slot>>] = x]
      BY SMTT(20), <1>2, <2>1, EndedSession
    <2>3. /\ session \in [Sessions -> Session] /\ <<j, t>> \in Sessions
          /\ <<i, slot>> \in Sessions /\ SessionOK(j, t)
      BY <1>2, There
    <2>4. session'[<<j, t>>].txn = "none"
      <3>1. CASE <<j, t>> = <<i, slot>>
        BY <2>2, <2>3, <3>1
      <3>2. CASE <<j, t>> # <<i, slot>>
        BY <1>3, <2>2, <2>3, <3>2 DEF SessionOK
      <3> QED
        BY <3>1, <3>2
    <2> QED
      BY <2>4 DEF Unhindered
  <1>11. \A j \in Instances : Found(j)'
    BY <1>8 DEF Found
  <1>12. Accounted(schema)'
    BY <1>7 DEF Accounted
  <1> QED
    BY <1>9, <1>10, <1>11, <1>12 DEF WriteInv

\* Either kind of COMMIT is one of a transaction with its record.
LEMMA CommitsRecorded ==
    ASSUME Inv, \/ \E i \in Instances : Commit(i)
                \/ \E s \in Sessions : OrphanCommits(s)
    PROVE  \E i \in Instances, slot \in Slots :
              /\ session[<<i, slot>>].txn = "recorded"
              /\ schema' = Committed(<<i, slot>>) /\ session' = Ended(<<i, slot>>)
  <1>1. ASSUME NEW i \in Instances, Commit(i)
        PROVE  \E slot \in Slots :
                  /\ session[<<i, slot>>].txn = "recorded"
                  /\ schema' = Committed(<<i, slot>>) /\ session' = Ended(<<i, slot>>)
    <2>0. PICK slot : slot = inst[i].conn
      OBVIOUS
    <2>1. /\ Connected(i) /\ inst[i].pc = "commit" /\ schema' = Committed(Conn(i))
          /\ session' = Ended(Conn(i))
      BY <1>1 DEF Commit, Sends, At, Connected
    <2>2. slot \in Slots /\ Conn(i) = <<i, slot>>
      BY <2>0, <2>1, Sending
    <2>3. session[<<i, slot>>].txn = "recorded"
      BY <2>1, <2>2, Here DEF ProcessOK, TxnAt
    <2> QED
      BY <2>1, <2>2, <2>3
  <1>2. ASSUME NEW s \in Sessions, OrphanCommits(s)
        PROVE  \E i \in Instances, slot \in Slots :
                  /\ session[<<i, slot>>].txn = "recorded"
                  /\ schema' = Committed(<<i, slot>>) /\ session' = Ended(<<i, slot>>)
    <2>1. PICK i \in Instances, slot \in Slots : s = <<i, slot>>
      BY DEF Sessions
    <2>2. /\ schema' = Committed(<<i, slot>>) /\ session' = Ended(<<i, slot>>)
          /\ session[<<i, slot>>].todo = "commit"
      BY <1>2, <2>1 DEF OrphanCommits
    <2>3. session[<<i, slot>>].txn = "recorded"
      BY <2>2, There DEF SessionOK
    <2> QED
      BY <2>2, <2>3
  <1> QED
    BY <1>1, <1>2

\* A step keeps the schema or is a COMMIT of an intact one.
LEMMA WriteStep ==
    ASSUME WriteInv, Inv', [Next]_vars
    PROVE  WriteInv' /\ (schema' # schema => \E i \in Instances : Intact(i) /\ Intact(i)')
  <1>1. ASSUME UNCHANGED vars PROVE WriteInv' /\ schema' = schema
    <2>1. UNCHANGED <<schema, lock, session, inst, faults>>
      BY <1>1 DEF vars
    <2>2. /\ TableFits' <=> TableFits
          /\ Accounted(schema)' <=> Accounted(schema)
          /\ \A i \in Instances : Connected(i)' <=> Connected(i)
      BY <2>1 DEF TableFits, Accounted, Connected, Conn
    <2>3. ASSUME NEW i \in Instances PROVE Found(i)' /\ \A slot \in Slots : Unhindered(i, slot)'
      <3>1. Found(i) /\ \A slot \in Slots : Unhindered(i, slot)
        BY DEF WriteInv
      <3>2. Found(i)'
        BY <2>1, <2>2, <3>1 DEF Found, At
      <3>3. \A slot \in Slots : Unhindered(i, slot)'
        BY <2>1, <3>1, SameTxn
      <3> QED
        BY <3>2, <3>3
    <2> QED
      BY <2>1, <2>2, <2>3 DEF WriteInv
  <1>2. ASSUME \/ \E i \in Instances : Commit(i)
               \/ \E s \in Sessions : OrphanCommits(s)
        PROVE  WriteInv' /\ \E i \in Instances : Intact(i) /\ Intact(i)'
    <2>1. PICK i \in Instances, slot \in Slots :
             /\ session[<<i, slot>>].txn = "recorded"
             /\ schema' = Committed(<<i, slot>>) /\ session' = Ended(<<i, slot>>)
      BY <1>2, CommitsRecorded DEF WriteInv
    <2> QED
      BY <2>1, CommitWrites
  <1>3. ASSUME NEW i \in Instances, Succeed(i) \/ Lock(i) \/ Fail(i), ~Commit(i)
        PROVE  WriteInv' /\ schema' = schema
    <2>1. schema' = schema
      BY <1>3, RunHistory DEF Succeed, WriteInv
    <2>2. WriteInv'
      BY <1>3, RunIdle, ErrorIdle, ReadWrites, ApplyWrites DEF Succeed, Fail
    <2> QED
      BY <2>1, <2>2
  <1>4. ASSUME NEW i \in Instances,
               \/ Begins(i) \/ Crash(i) \/ Stop(i)
               \/ \E err \in {"ErrConfigInvalid", "ErrConnect"} : StartFails(i, err)
        PROVE  WriteInv' /\ schema' = schema
    <2>1. schema' = schema
      BY <1>4 DEF Begins, Start, Crash, Stop, StartFails
    <2> QED
      BY <1>4, <2>1, RunIdle
  <1>5. ASSUME NEW i \in Instances, NEW how \in {"cancelled", "expired"}, EndContext(i, how)
        PROVE  WriteInv' /\ schema' = schema
    BY <1>5, ContextWrites DEF EndContext
  <1>6. ASSUME NEW s \in Sessions, ServerDrops(s) \/ OrphanLocks(s) \/ SessionEnds(s)
        PROVE  WriteInv' /\ schema' = schema
    <2>1. PICK i \in Instances, slot \in Slots : s = <<i, slot>>
      BY DEF Sessions
    <2>2. WriteInv'
      BY <1>6, <2>1, ServerWrites
    <2>3. schema' = schema
      BY <1>6 DEF ServerDrops, OrphanLocks, SessionEnds
    <2> QED
      BY <2>2, <2>3
  <1> QED
    BY <1>1, <1>2, <1>3, <1>4, <1>5, <1>6 DEF Next

\* An instance begins to serve only when its run has unlocked without an error.
LEMMA ServeStep ==
    ASSUME Inv, [Next]_vars, NEW i \in Instances, inst'[i].pc = "serving", inst[i].pc # "serving"
    PROVE  inst[i].pc = "unlock" /\ inst[i].err = "none" /\ History!Holds(schema.rows, i)
  <1>1. ASSUME NEW j \in Instances, Succeed(j) \/ Lock(j) \/ Fail(j), ~Commit(j)
        PROVE  inst[i].pc = "unlock" /\ inst[i].err = "none" /\ History!Holds(schema.rows, i)
    <2>1. /\ \A k \in Instances \ {j} : inst'[k] = inst[k]
          /\ \/ inst'[j].pc # "serving"
             \/ inst[j].pc = "unlock" /\ inst[j].err = "none" /\ History!Holds(schema.rows, j)
      BY <1>1, RunHistory DEF Succeed
    <2>2. j = i
      BY <2>1
    <2> QED
      BY <2>1, <2>2
  <1>2. ASSUME NEW j \in Instances, Commit(j) PROVE FALSE
    <2>1. inst' = [inst EXCEPT ![j] = [inst[j] EXCEPT !.pc = "exists", !.stage = "post"]]
      BY <1>2, Here DEF Commit
    <2> QED
      BY <2>1, Here DEF Process
  <1>3. ASSUME NEW j \in Instances,
               \/ Begins(j) \/ Crash(j) \/ Stop(j)
               \/ \E err \in {"ErrConfigInvalid", "ErrConnect"} : StartFails(j, err)
        PROVE  FALSE
    <2>1. ASSUME NEW l, inst' = [inst EXCEPT ![j] = l], l.pc # "serving" PROVE FALSE
      <3>1. inst'[j] = l /\ \A k \in Instances \ {j} : inst'[k] = inst[k]
        BY <2>1, Here
      <3> QED
        BY <2>1, <3>1
    <2>2. CASE Crash(j) \/ Stop(j)
      <3>1. inst' = [inst EXCEPT ![j] = Down] /\ Down.pc = "down"
        BY <2>2 DEF Crash, Stop, Down
      <3> QED
        BY <2>1, <3>1
    <2>3. ASSUME NEW slot \in Slots, Start(j, slot) PROVE FALSE
      <3>1. PICK l : l = [Down EXCEPT !.pc = "acquire", !.conn = slot]
        OBVIOUS
      <3>2. inst' = [inst EXCEPT ![j] = l] /\ l.pc = "acquire"
        BY <2>3, <3>1 DEF Start, Down
      <3> QED
        BY <2>1, <3>2
    <2>4. ASSUME NEW err \in {"ErrConfigInvalid", "ErrConnect"}, StartFails(j, err) PROVE FALSE
      <3>1. PICK l : l = [Down EXCEPT !.pc = "failed", !.err = err]
        OBVIOUS
      <3>2. inst' = [inst EXCEPT ![j] = l] /\ l.pc = "failed"
        BY <2>4, <3>1 DEF StartFails, Down
      <3> QED
        BY <2>1, <3>2
    <2> QED
      BY <1>3, <2>2, <2>3, <2>4 DEF Begins
  <1>4. ASSUME NEW j \in Instances, NEW how \in {"cancelled", "expired"}, EndContext(j, how)
        PROVE  FALSE
    BY <1>4, Here DEF EndContext, Process, Running, Statements
  <1>5. ASSUME UNCHANGED vars \/ \E s \in Sessions :
                  ServerDrops(s) \/ OrphanLocks(s) \/ OrphanCommits(s) \/ SessionEnds(s)
        PROVE  FALSE
    BY <1>5 DEF vars, ServerDrops, OrphanLocks, OrphanCommits, SessionEnds
  <1> QED
    BY <1>1, <1>2, <1>3, <1>4, <1>5 DEF Next

\* Before the first instance starts.
LEMMA InitWrites == Init => WriteInv
  <1> SUFFICES ASSUME Init PROVE WriteInv
    OBVIOUS
  <1>1. Inv /\ Accounted(schema)
    BY InitInv, ObjectsAssumption DEF Init
  <1>2. ASSUME NEW i \in Instances PROVE Found(i) /\ \A slot \in Slots : Unhindered(i, slot)
    <2>1. inst[i].pc = "down" /\ \A slot \in Slots : session[<<i, slot>>].txn = "none"
      BY DEF Init, Down, Free, Sessions
    <2> QED
      BY <2>1 DEF Found, At, Unhindered
  <1> QED
    BY <1>1, <1>2 DEF WriteInv

\* What Snapshot has found of the table still holds when its run applies a
\* migration, and a transaction past its DDL has run into no object of its
\* version, also when the process has gone and its COMMIT is still on the wire.
THEOREM WriteInvariance == Spec => []WriteInv
  <1>1. WriteInv /\ Inv' /\ [Next]_vars => WriteInv'
    BY WriteStep
  <1> QED
    BY <1>1, InitWrites, Invariance, PTL DEF Spec

\* Run writes only to a schema that some release would have left, and leaves it
\* so; Prepare lets no instance serve on a table that is damaged.
THEOREM DamageSafety == Spec => DamageIsLeftAlone
  <1>1. WriteInv /\ Inv' /\ [Next]_vars =>
           [/\ schema' # schema => \E i \in Instances : Intact(i) /\ Intact(i)'
            /\ \A i \in Instances : At(i, "serving")' /\ ~At(i, "serving") =>
                  schema.table = "complete" /\ History!Holds(schema.rows, i)]_vars
    <2> SUFFICES ASSUME WriteInv, Inv', [Next]_vars
                 PROVE  /\ schema' # schema => \E i \in Instances : Intact(i) /\ Intact(i)'
                        /\ \A i \in Instances : At(i, "serving")' /\ ~At(i, "serving") =>
                              schema.table = "complete" /\ History!Holds(schema.rows, i)
      OBVIOUS
    <2>1. schema' # schema => \E i \in Instances : Intact(i) /\ Intact(i)'
      BY WriteStep
    <2>2. ASSUME NEW i \in Instances, At(i, "serving")', ~At(i, "serving")
          PROVE  schema.table = "complete" /\ History!Holds(schema.rows, i)
      <3>1. inst[i].pc = "unlock" /\ inst[i].err = "none" /\ History!Holds(schema.rows, i)
        BY <2>2, ServeStep DEF At, WriteInv
      <3> QED
        BY <3>1 DEF WriteInv, Found, At
    <2> QED
      BY <2>1, <2>2
  <1> QED
    BY <1>1, WriteInvariance, Invariance, PTL DEF Spec, DamageIsLeftAlone
=============================================================================
