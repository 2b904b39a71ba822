# Verification of ms-oncall-gateway

TLA+ models of the gateway's stateful parts, the TLC runs that check them on
small instances, and TLAPS proofs of their safety properties for every value of
the constants. `PROJECT.json` maps every definition to the source lines it
models, and lists the runs, the mutants that show each property can fail, the
hazards and the theorems.

## The system and its parts

The gateway accepts signed deliveries from Core for destinations that are named
by opaque tokens. State lives in PostgreSQL; several gateway instances, each with
a clock of its own, share it.

| Part | Source | Model | Status |
|---|---|---|---|
| Destination-token lifecycle: stage, activate, abort, rotate, roll back, finalize | `securitystate/destination_lifecycle.go`, `postgres/destination_token_lifecycle.go` | `DestinationToken`, `TokenLifecycle`, `RotationProtocol` | modelled |
| Rotation participant: the gateway's side of a cross-repository rotation | `securitystate/destination_rotation_participant.go` | `RotationAttempt`, `RotationParticipant` | modelled |
| Durable acceptance: insert or load a delivery, compare, answer | `durable/`, `postgres/acceptance.go`, `intake/service.go` | `DurableAcceptance`, `DeliveryLedger` | modelled |
| Payload protection: which key opens a stored digest | `protection/` | in `DurableAcceptance` | partly (no cryptography) |
| Request authentication and replay reservation | `authentication/`, `postgres/authentication_state.go` | `Authentication` | modelled |
| Opaque destination resolver | `postgres/destination_resolver.go` | `DestinationResolver` | modelled (no HMAC) |
| Value types and validators | `securitystate/types.go` | `DestinationToken`, `Authentication` | partly (no string syntax) |
| Schema migrations under an advisory lock | `postgres/runner.go`, `pgbackend.go`, `inspect.go`, `startup.go`, ... | `MigrationRunner`, `SchemaHistory` | modelled |
| Process start and shutdown, HTTP metrics | `cmd/ms-oncall-gateway/main.go`, `httpapi/metrics.go` | `GatewayProcess` | modelled |
| HTTP boundary: handler, decoder, canonical format | `httpapi/` | `HttpIntake`, `JsonStrings`, `EventFormat`, run by `GatewayProcess`, `StringTokens`, `EventDocuments`, `DecoderInputs` | modelled |
| Configuration and error values | `postgres/config.go`, `*/errors.go` | in `MigrationRunner` | partly (no syntax, no wording) |

The parts interact as follows. The process prepares the database (migrations),
then serves HTTP until a signal or a failure. The handler decodes an event and
hands it to a sink. The intake pipeline prepares a delivery with payload
protection and hands it to the durable service; the digest it compares is that of
the canonical format. Authentication precedes intake and shares no state with it.
The participant calls the lifecycle service, one transaction per call, and the
resolver. At present the process wires an unavailable sink to its HTTP handler, so
authentication, intake, rotation and resolution are libraries that the models
exercise on their own; `GatewayProcess` is checked with every answer that this or
another sink may give.

## Modules and code

### DestinationToken, TokenLifecycle, RotationProtocol

`DestinationToken` has the row of `gateway_destination_tokens` with the checks of
`validateDestinationTokenSpec` and the table, and `Status`, the classification of
`NewDestinationLifecycleSnapshot`. Times are naturals, 0 is NULL.

`TokenLifecycle` has the committed `rows`, the destination's `dest`, the one
transaction `txn` that holds the destination row's lock, and `outcome[c]`, what
client `c` was told.

* Each mutation is one `Run` step: lock, load, decide, execute the statements.
  Loading and writing happen under the `for update` lock, so nothing of the same
  destination comes between. `...Verdict` operators are the decisions and
  `StagedRow`, `Activated`, `Retiring`, `Revoked`, `Restored` the statements.
* `Commit`, `RollBack` and `LoseReply` end a transaction at the client.
  `ServerCommits` and `ServerAborts` end, later, one whose client is gone.
* `FailEarly` is every failure before the lock is held.
* A call reads the clock before it waits for the lock. Every reading is an
  arbitrary element of `Clock`: clocks are neither synchronised nor monotone.
* `Stored` is what a timestamp column does to a time. The proofs assume only
  `StoredAssumption`; the runs use `Truncate`, truncation to `Grain`.

`RotationProtocol` says what this promises: six atomic moves of token states.
`ImplementsProtocol` is the refinement, with `state <- StatesOf(rows)`.

### RotationAttempt, RotationParticipant

`RotationAttempt` has `Classify`, what the rows prove about the pair of records that
a handle names: `InspectRotationAttempt` and the classification behind rollback,
observation and finalization. `RotationParticipant` extends it with `attempt[p]`, the
local state of a session: one `BeginRotation` call and the later calls made with its handle. Each dependency
call is a step with its own clock reading; `After...` operators are what
`BeginRotation` does with the answer, compensation included. An administrator runs
beside the sessions. With `Repairs` it may make every lifecycle call at any time, and
so also do to the rows whatever another session does.

### DurableAcceptance, DeliveryLedger

`table`, `keys`, `call[a]` (one `Accept` call, named by its fresh receipt) and
`server[a]` (its transaction). `InsertNew` is the INSERT that finds no row,
enabled only when no other transaction holds the same identity (`Waits`), and
`LoadStored` the one that finds a row and loads it. `CommitLost`, `Crash`,
`ServerCommits` and `ServerAborts` give the ambiguous commits; `ChangeKeys`
rotates and removes keys. A digest opens only under the key and the additional
data it was sealed with.

`DeliveryLedger` is a write-once ledger whose answers stay true.
`ImplementsLedger` is the refinement, with the rows as ledger entries and the
definite replies as answers.

### Authentication

`Authenticate` with one step per dependency call and a single clock reading.
`SendReserve` puts the INSERT of the reservation in flight, `Execute` is its
effect on the server, which may come after the client has gone, and
`ReceiveReply` and `LoseReply` are what the client learns. Operators activate,
retire, disable and revoke credentials and change the principal at any time.
`Unix` is the truncation of a reading to seconds that the timestamp window uses.

### DestinationResolver

Extends `TokenLifecycle` with one call of `Resolve` or `IdentifyRotationToken`:
load every key, acquire a connection, one query per key, finish. Each query reads
`rows` as they are at that instant, and lifecycle commits come between. The calls of
`TokenLifecycle` that succeed are used here, each committed at once, since an open
transaction is invisible to a reader. `tokenOf` is fixed at the start: raw tokens are
distinct, or a record of each key has the same one. The history
variable `seen` collects what a single consistent read could have answered at each
instant of the call. `Damage` makes a row unreadable; the lifecycle then stops, as
its loader does. The resolver keeps nothing between calls, so one call at a time
stands for any number.

### MigrationRunner, SchemaHistory

`inst[i]` is the process of an instance: the statement it is at, its context, its
error and its connection. `session[s]` is the server's side of a connection, `lock`
the session that holds the advisory lock, `schema` what is committed. Every statement
is a step, and is answered, refused, cut off, or not sent because the context has
ended. A session may outlive its client: it can still be granted the lock
(`OrphanLocks`) and execute a COMMIT that was sent (`OrphanCommits`), until the server
notices (`SessionEnds`). `ServerDrops` is the reverse. Each instance has a release, a
list of migrations, and restarts after a crash or a stop. `classifySnapshot`,
`migrationFailure`, `Finish` (`finishMigrationConnection`) and `failureReason` are
operators of their own.

`SchemaHistory` promises that the schema advances one migration of some release at
a time and that nobody serves on less than their own. `ImplementsHistory` is the
refinement.

### HttpIntake, GatewayProcess

`HttpIntake` has the handler's decisions as operators, in the order of the code: the
head (route, method, headers, declared length), the body (limit, decoding), the
sink's answer. `GatewayProcess` runs them: `main` is the goroutine of `run` and
`serveHTTP`, `server` the one of `ListenAndServe`, `shutdown` the call of
`Server.Shutdown`, `conn[c]` a connection with its handler, `counts` the metrics
under their mutex and `pool` the database pool that is closed on return. What
net/http does (bind, accept, close the listener, wait for handlers, count a new
connection as idle) is external. A handler can be between any two of its steps when
the signal comes.

### JsonStrings, StringTokens

`JsonStrings` translates the index arithmetic of `validSurrogateEscapes`,
`decodeJSONString` and `appendCanonicalString` over sequences of byte codes.
`StringTokens` builds raw string tokens piece by piece (plain characters, simple
escapes, `\u` escapes of each class, escaped backslashes) and knows from the pieces
what the token means; the properties compare that reference with what the operators
compute.

### EventFormat, EventDocuments, DecoderInputs

`EventFormat` has `decodeEvent` with its checks in order, the four kinds of event,
`requiredMeta` under every order in which Go may iterate over a map, and
`CanonicalizeEvent`. A document is a tree of members; a string has a content (the
facts that the validators look at) and a spelling. `EventDocuments` starts from a
valid document of each kind and edits it: drop, repeat, replace, rename, reorder and
respell members, at the top and in Meta. `DecoderInputs` puts both kinds of input in
one specification: a behaviour writes a token or edits a document.

## Runs

| Run | Shows | Instance |
|---|---|---|
| `token_lifecycle` | rows readable, history kept, intake uninterrupted, rollback before the deadline, every ending of an attempt classified, refinement of `RotationProtocol` | 3 records, 1 client, readings 2..6 |
| `rotation_session` | no orphan, true receipts, handles that bind what was staged, final terminals, beside an administrator who may do everything | 3 records, 1 session |
| `rotation_returns` | every participant call returns | 1 session, no symmetry |
| `rotation_abort_doc` | expected violation, see below | 1 session |
| `acceptance` | durable, truthful, write-once answers (refinement of `DeliveryLedger`); a definite refusal stores nothing; every `Accept` returns | 2 attempts, 2 identities, 2 events, 2 keys |
| `authentication` | a nonce is spent once, reservations outlive the window, revocation holds for later calls, every `Authenticate` returns | 2 calls, 4 requests, 3 readings |
| `migration` | an old and a new release start, fail, crash and restart on an empty database; `Inv` (a connection that goes back to the pool has neither lock nor transaction), inspection under the lock, definite failures, refinement of `SchemaHistory` | 2 instances, 2 sessions each, 1 fault |
| `migration_schemas` | the same on databases that are empty, current, ahead, incomplete or edited: what no release leaves behind is neither changed nor served, a migration and its record appear together; every start ends within its deadline, and on an intact schema the newest release gets to serve | 2 instances, 1 session each, 10 schemas |
| `process` | pool, exit reason, metrics, what reaches the sink, 202 only with a receipt, a signal ends the process; `Inv` | 2 connections, every answer of a sink; one client sends any request that differs from a valid one in one field |
| `decoder` | string tokens decode to what they mean, the canonical string is exact and escapes what it must; iteration order, canonical round trip, respelling, changes, unsupported kinds | 4 pieces of 17; 3 edits of 4 documents |
| `event_limits` | expected violation, see below | an alert at its limits |
| `resolver` | the scan's answer was true at one instant, untrustworthy rows get no definite answer, no broken connection is pooled, every call returns | 2 records, 2 keys, 1 damaged row |

Two disagreements with documents. First, `docs/destination-token-rotation-participant-v1.md`
lines 63-64 say that a staged record is aborted only when activation reported that
it did not commit. `BeginRotation` also aborts it when its context ends before
activation is attempted, or when the create returned no token. `NoOrphan` shows
that the code's behaviour is the useful one. Second,
`docs/core-to-gateway-http-contract.md` lines 57-59 say that the 256 KiB body limit
covers an alert at its limits "plus JSON escaping and envelope overhead". The limits
count decoded characters; escaped in full, an alert that `decodeEvent` accepts can
take about 282 KB, which the handler answers with 413.

### Bounds

* `Records`: a rotation concerns two records and a third lets another rotation
  follow or compete. Records are never reused, so they bound the rotations in one
  behaviour.
* `Clock`: readings from `Epoch` to `MaxTime`, wide enough to pass the cleanup
  and overlap deadlines (and the expiry, in `token_lifecycle`). The runs of the
  participant use a shorter clock. `Grain = 2` makes half of the readings inexact
  when stored.
* `token_lifecycle` has one client. The lock admits one transaction at a time and
  every clock reading is arbitrary, so a second client adds outcomes but no rows;
  a transaction in doubt outlives its client's call.
* One session beside the administrator: the properties are about one handle, and the
  administrator makes every call that a competing session could make.
* Two attempts, at the same identity or at different ones: a winner, and a loser or a
  retry. The properties relate two attempts of one identity; the proofs have any number.
* Two authentication calls: each property there is about one call or a pair.
  `Window = 1`, `Tick = 2` and `Retention = 6` meet the bound
  `(2 * Window + 1) * Tick <= Retention` with equality; the code has 60 s and 300 s.
  The readings lie before the credential's validity, at its start, and a window later.
* Migration: two releases, one a prefix of the other; an instance has a current
  session and one left behind by its former process; one crash, lost connection or
  refusal per behaviour (`MaxFaults`), cancellations and time-outs apart.
* Process: `MaxBodyBytes = 1`, so that bodies below, at and above the limit exist;
  two connections let a scrape meet another request or a scrape, and a shutdown a
  new connection and a running handler.
* Strings: four pieces put every pair of escapes at the start, in the middle and at
  the end of a token, beside escaped backslashes. Documents: three edits combine any
  two faults with a change of order or spelling; numbers use a bound of 120 in place
  of the largest int64, met exactly and exceeded by one; string limits are the code's.
* Resolver: two records, one under each of two keys, and one damaged row at most
  (`MaxDamaged`). Readings 1..2 are enough for a token to be usable at one reading
  and past its overlap at the other. No step of the environment happens between a
  return and the next call; the same steps happen while the resolver is idle.
* Views drop what idle clients were last told; symmetry is over records and over
  the sessions of an instance. Neither is used in a run with a liveness property.

### Fairness

Weak fairness of a call's own steps: each dependency call is made with a context
and comes back, at the latest with an error when that ends. Weak fairness of
`ServerCommits \/ ServerAborts`: PostgreSQL ends a transaction whose connection
is gone. No fairness is assumed of commits succeeding, of operators, or of new
calls being made. In `Authentication` nothing is assumed of the server.

In `migration_schemas` statements come back. `StartupReturns` assumes in addition
that the start-up deadline passes (`DeadlinesPass`), and nothing of the server.
`NewestServes` assumes, as its claim does, that failed processes are restarted and
that PostgreSQL grants the lock in turn and ends sessions whose clients are gone
(`ServiceGoesOn`). In `process` the main goroutine and the server's are scheduled, and
`Prepare` and `Shutdown` time out; nothing is assumed of clients and handlers. In
`resolver` the key source, the pool and the server answer, or the context ends the
wait.

## Proofs

Eight modules hold the theorems; `tlapm` checks them to the last leaf. They hold
for all sets of records, clients, sessions, attempts, identities, keys, calls, requests,
credentials, instances, releases and initial schemas, any finite set of connections
and all durations and numbers of faults that satisfy the named assumptions.

* `TokenLifecycleProofs`: `Spec => []Inv`, then types, readability, observability, kept
  history, uninterrupted intake, rollback before the deadline and the refinement
  of `RotationProtocol`. `RowsReadable` alone is not inductive: a commit
  publishes rows computed earlier. `Inv` therefore adds `Pending` (the open
  transaction leads from the rows *as they are now* to sound rows, in one
  permitted step), `PairHistory` and `StagedFollowsActive`. Each mutation has a
  lemma that a verdict of "proceed" makes a sound step. The action properties
  follow because only a commit changes `rows`. Assumed: bounds on the durations
  (`DurationAssumption`), and that `Stored` truncates, is monotone and idempotent,
  and keeps every configured duration positive and within its maximum
  (`StoredAssumption`).
* `RotationAttemptProofs`: `EndingRecognised`. Soundness of the rows does not imply it:
  sound rows may be dated in ways that no commit dates them, and the classification of
  an ending compares dates. `AttemptInv` adds to `Inv` that whoever holds the lock is
  about to write rows that are all dated alike, each moved to another state, a revoked
  one otherwise as it was (`Dated`). Each verdict of "proceed" gives that; from it, one
  lemma per kind of ending (a live pair, a staged record) leads through `Classify`.
* `RotationParticipantProofs`: `PSpec => []PInv`, then `PSpec => Spec`, so that every
  lifecycle theorem holds of the participant's rows, and the four properties of a
  session. None of them is inductive: a session acts on the answer to a call, and that
  call may still commit, or be repeated, behind it. `PInv` says of a session
  (`Coherent`) what the rows and *the transaction in flight* say where it is: a record
  that was definitely not created is dead in both (`DeadIn`), the times of a receipt are
  in the transaction while the session waits and in the rows afterwards (`ReceiptIn`), and
  the old record outlived the staging of the new one (`BoundIn`). These are stated of
  one session and of rows, so that a step is followed through in two halves: what any sound
  mutation by anybody else leaves of them, and what the session's own step
  establishes. `Owned` ties a waiting client to the lock, which makes the answer of a
  commit the fate of that transaction. Assumed besides: the administrator is one of the
  clients, and the handle of no record is none (`ParticipantAssumption`).
* `DestinationResolverProofs`: `RFairSpec => []RInv`, then the connection and
  `AnswerIsAtomic`. The answer is compared with the history `seen`, so the invariant
  says of a running call what it would answer if nothing else were found: once the
  query for the token's record has passed, that is in `seen`, and before, nothing has
  been found (`FoundWasTrue`); if `seen` knows no definite answer, a
  damaged row or two rows of the token are there to be found, or have been
  (`DamageFound`, `BothFound`). Rows do not disappear and a damaged row stays so, which
  keeps the last two while rotations commit between queries. Assumed: one or two
  distinct keys, something to present, and two records of one key never share a raw
  token (`ResolverAssumption`).
* `DurableAcceptanceProofs`: durability, real conflicts, definite refusals and the
  ledger. `Inv` adds to these that a stored row
  belongs to the attempt of its receipt (`StoredByAttempt`), that an unfinished
  insert is alone on its identity (`InsertExclusive`) and that what a call has
  seen is still stored (`SeenIsStored`). `LedgerRefinement` maps each commit to
  `Record`, each definite return to `Answer` and the rest to stuttering.
* `AuthenticationProofs`: `Inv` says of each call that its INSERT took effect
  exactly when it owns the reservation. Uniqueness of accepted nonces and real
  replays follow, and
  with the arithmetic of `WindowSpan` that reservations outlive the window.
  `RevokedStaysOut` relates two instants, so its proof carries a fact of the
  first (`Barred`: the credential is revoked and the call has not read it) through
  every later step.
* `GatewayProcessProofs`: `Spec => []Inv`, then the pool, the clean exit, the handover
  and the scrapes. `CleanExit` speaks of the counters at the end only; inductive is
  that at every moment `counts[k]` is the number of connections in `Counted(k)`, which
  holds a scrape before its answer and the others after it. A step of one handler
  (`OneHandler`) or of the process alone (`ProcessStep`) leaves the rest of `Inv`
  alone, so each action is left with what it changes. `HandoverIsValid` follows from
  lemmas that each check of the handler refuses only what `Contract` refuses, and that
  what passes all of them is admitted. Assumed: finitely many connections, and that the
  sink may answer "unavailable" (`InputAssumption`).
* `MigrationRunnerProofs`: `Spec => []Inv`, then inspection under the lock, definite
  failures and the refinement of `SchemaHistory`. `InspectionHolds` alone is not
  inductive: a session that outlives its process may hold the lock, or a transaction,
  for which the new process waits. `Inv` therefore says of every session
  (`SessionOK`) that it has a transaction only under the lock and that this one takes
  the rows as they are *now* to the next version of its instance's release, and of
  every process (`ProcessOK`) that, while its session lives, its place in the run is
  the state of that session. A step concerns one process and one of its sessions
  (`OneSession`); the rest of `Inv` survives it because rows grow only under the lock,
  which nobody else has (`Others`, `SameProcess`). `HistoryRefinement` maps a COMMIT,
  whoever still waits for it, to `Advance`, the unlock after a clean run to `Admit`
  and every end of a process to `Leave`. Assumed: releases are not empty and have no
  blank checksum (`ReleaseAssumption`), and a table that is absent has no rows
  (`SchemaAssumption`).
  `DamageIsLeftAlone` needs `WriteInv` as well: that the table is what the rows call
  for whenever a transaction is open, and that one past its DDL has run into no object
  of its version (`Unhindered`), also when only its session is left; and that each
  question of an inspection is still answered as it was (`Found`). A COMMIT then finds
  exactly the objects that are recorded. This theorem assumes in addition
  `ObjectsAssumption`: at the first start the objects that exist are those of the
  recorded migrations, or some are in the way of the next one. `Snapshot` reads the
  records only. An object that was dropped by hand, or one of a version further on, is
  not noticed by the code, and without the assumption the property is false.

The inductive invariants `Inv` of the process and of the runner are also invariants of
their runs. The others are proved and in no run; TLC found no violation of
`PInv`, `RInv`, `AttemptInv` and `WriteInv` on the instances of the runs of their modules.

Only model-checked: every liveness property (`CallsReturn`, `AcceptReturns`,
`AuthenticateReturns`, `StartupReturns`, `NewestServes`, `SignalEndsProcess`,
`ResolveReturns`), since liveness under fairness and ENABLED are outside what the
prover handles, and the properties of the `decoder` run, which are about recursive
definitions over data and would need induction over them. Every other property of a
run that is expected to pass has a theorem.

## Not modelled

* Cryptography: HMAC, AES-GCM and digests are injective facts of what they cover.
* The syntax of identifiers, headers, connection settings and JSON. The decoder's own
  scans are modelled; the grammar behind them is encoding/json's.
* The SQL of a migration: it creates its objects or conflicts with existing ones.
* Wording of errors and logs; the response text of the metrics route.
* Deletion of expired replay reservations: the repository has none.
* Operators' changes to destinations, credentials and principals are external
  actions, since no code in the repository makes them.
* Authentication, intake and resolution behind the HTTP handler: the process does not
  wire them yet.

## Plan

The composition of handler, authentication, resolver and intake once the process
wires them.
