------------------------- MODULE DurableAcceptance --------------------------
(***************************************************************************)
(* Durable acceptance of deliveries: the intake pipeline                   *)
(* (intake/service.go), payload protection (protection/service.go), the    *)
(* durable service (durable/store.go) and its PostgreSQL repository        *)
(* (postgres/acceptance.go).  An attempt is one Accept call; it is named   *)
(* by the receipt it generates, which is fresh.  Attempts for one delivery *)
(* run concurrently on several gateway instances and are retried by Core   *)
(* after a lost answer, a crash or an unknown outcome.                     *)
(***************************************************************************)
EXTENDS Naturals

CONSTANTS
    Attempts,      \* Accept calls, and the receipts they generate
    Identities,    \* (Core principal, destination, delivery identity)
    Events,        \* canonical events, as their digests tell them apart
    Versions,      \* canonical format versions in use
    Keys,          \* payload-protection keys
    Nothing

ASSUME AcceptanceAssumption ==
    /\ Nothing \notin Attempts \cup Identities \cup Events \cup Keys
    /\ Versions \subseteq Nat \ {0}

VARIABLES
    table,     \* durable_acceptances, by delivery identity
    keys,      \* the key source: its active key and the keys it still has
    call,      \* call[a]: the attempt's own state
    server     \* server[a]: the server side of its transaction

vars == <<table, keys, call, server>>

-----------------------------------------------------------------------------
(* Payload protection.  AES-GCM opens a value only under the key and the   *)
(* additional data it was sealed with.                                     *)

\* buildAAD with purposeDigest
AAD(version, id, key) == [version |-> version, id |-> id, key |-> key]

Seal(plain, key, aad) == [plain |-> plain, key |-> key, aad |-> aad]

Opens(sealed, key, aad) == sealed.key = key /\ sealed.aad = aad

Digest == [plain : Events, key : Keys,
           aad : [version : Versions, id : Identities, key : Keys]]

Row == [receipt : Attempts, version : Versions, digest : Digest, key : Keys]

\* What a row says was delivered.
Contents == [version : Versions, event : Events]

Content(row) == [version |-> row.version, event |-> row.digest.plain]

ASSUME NoSuchRow ==
    Nothing \notin Row /\ Nothing \notin [content : Contents, receipt : Attempts]

\* protection.Prepare and NewPreparedAcceptance
PreparedRow(a, id, event, version, key) ==
    [receipt |-> a, version |-> version, key |-> key,
     digest |-> Seal(event, key, AAD(version, id, key))]

\* protection.OpenDigest on a loaded row, for the identity of the request
Readable(row, id) ==
    /\ row.key \in keys.known
    /\ Opens(row.digest, row.key, AAD(row.version, id, row.key))

-----------------------------------------------------------------------------

Phases == {"none", "open", "inDoubt", "doomed"}
Steps == {"unborn", "prepared", "inserted", "loaded", "committed", "done"}
Replies == {"none", "new", "duplicate", "conflict", "refused", "unknown"}

Calls == [pc : Steps, id : Identities \cup {Nothing}, row : Row \cup {Nothing},
          stored : Row \cup {Nothing}, reply : Replies]

NoCall == [pc |-> "unborn", id |-> Nothing, row |-> Nothing, stored |-> Nothing,
           reply |-> "none"]

Init ==
    /\ table = [id \in Identities |-> Nothing]
    /\ keys \in [active : Keys, known : {Keys}]
    /\ call = [a \in Attempts |-> NoCall]
    /\ server = [a \in Attempts |-> "none"]

At(a, pc) == call[a].pc = pc

\* Accept returns; "refused" stands for the errors that claim no outcome:
\* canceled, unavailable, failure and stored record unreadable.
Return(a, reply) == call' = [call EXCEPT ![a].pc = "done", ![a].reply = reply]

\* Some other transaction has inserted this identity and is not finished.
Waits(a) ==
    \E b \in Attempts \ {a} : server[b] # "none" /\ call[b].id = call[a].id

\* The pipeline up to the repository: validated, canonicalised, protected
\* with the active key, and given a receipt.  Failures before this point
\* change nothing.
Prepare(a, id, event, version) ==
    /\ At(a, "unborn")
    /\ keys.active \in keys.known
    /\ call' = [call EXCEPT ![a].pc = "prepared", ![a].id = id,
                   ![a].row = PreparedRow(a, id, event, version, keys.active)]
    /\ UNCHANGED <<table, keys, server>>

\* Mutant: on conflict the stored row is overwritten.
InsertOverwriting(a) ==
    /\ At(a, "prepared") /\ ~Waits(a)
    /\ call' = [call EXCEPT ![a].pc = "inserted"]
    /\ server' = [server EXCEPT ![a] = "open"]
    /\ UNCHANGED <<table, keys>>

\* insert ... on conflict do nothing waits for a concurrent insert of the
\* same identity, then inserts or finds the committed row.
InsertNew(a) ==
    /\ At(a, "prepared") /\ ~Waits(a)
    /\ table[call[a].id] = Nothing
    /\ call' = [call EXCEPT ![a].pc = "inserted"]
    /\ server' = [server EXCEPT ![a] = "open"]
    /\ UNCHANGED <<table, keys>>

LoadStored(a) ==
    /\ At(a, "prepared")
    /\ table[call[a].id] # Nothing
    /\ call' = [call EXCEPT ![a].pc = "loaded", ![a].stored = table[call[a].id]]
    /\ UNCHANGED <<table, keys, server>>

\* An error before COMMIT: reported as such when the rollback is confirmed.
\* Otherwise the connection is destroyed, the outcome is called unknown, and
\* an insert the server had executed stays until it notices.
FailBeforeCommit(a) ==
    /\ At(a, "prepared")
    /\ \/ Return(a, "refused") /\ server' = server
       \/ Return(a, "unknown") /\ server' = server
       \/ /\ ~Waits(a) /\ table[call[a].id] = Nothing
          /\ Return(a, "unknown")
          /\ server' = [server EXCEPT ![a] = "doomed"]
    /\ UNCHANGED <<table, keys>>

Commit(a) ==
    /\ At(a, "inserted")
    /\ table' = [table EXCEPT ![call[a].id] = call[a].row]
    /\ call' = [call EXCEPT ![a].pc = "committed"]
    /\ server' = [server EXCEPT ![a] = "none"]
    /\ UNCHANGED keys

\* Mutant: a failed COMMIT is taken for a definite failure.
CommitLostRefused(a) ==
    /\ At(a, "inserted")
    /\ Return(a, "refused")
    /\ server' = [server EXCEPT ![a] = "inDoubt"]
    /\ UNCHANGED <<table, keys>>

\* Mutant: the connection is returned to the pool instead of destroyed.
CommitLostReleased(a) ==
    /\ At(a, "inserted")
    /\ Return(a, "unknown")
    /\ UNCHANGED <<table, keys, server>>

\* COMMIT fails or is not acknowledged.
CommitLost(a) ==
    /\ At(a, "inserted")
    /\ Return(a, "unknown")
    /\ server' = [server EXCEPT ![a] = "inDoubt"]
    /\ UNCHANGED <<table, keys>>

AnswerNew(a) ==
    /\ At(a, "committed")
    /\ Return(a, "new")
    /\ UNCHANGED <<table, keys, server>>

\* The lookup or the commit of the reading transaction fails.
LoadFails(a) ==
    /\ At(a, "loaded")
    /\ \E reply \in {"refused", "unknown"} : Return(a, reply)
    /\ UNCHANGED <<table, keys, server>>

\* The stored digest is opened with the key it was sealed under and compared.
AnswerStored(a) ==
    LET stored == call[a].stored
        row == call[a].row
    IN  /\ At(a, "loaded")
        /\ Return(a, IF ~Readable(stored, call[a].id) THEN "refused"
                     ELSE IF /\ stored.version = row.version
                             /\ stored.digest.plain = row.digest.plain
                          THEN "duplicate"
                     ELSE "conflict")
        /\ UNCHANGED <<table, keys, server>>

\* The gateway process dies; an open transaction is left to the server.
Crash(a) ==
    /\ call[a].pc \notin {"unborn", "done"}
    /\ Return(a, "none")
    /\ server' = [server EXCEPT ![a] = IF @ = "open" THEN "doomed" ELSE @]
    /\ UNCHANGED <<table, keys>>

ServerCommits(a) ==
    /\ server[a] = "inDoubt"
    /\ table' = [table EXCEPT ![call[a].id] = call[a].row]
    /\ server' = [server EXCEPT ![a] = "none"]
    /\ UNCHANGED <<keys, call>>

ServerAborts(a) ==
    /\ server[a] \in {"inDoubt", "doomed"}
    /\ server' = [server EXCEPT ![a] = "none"]
    /\ UNCHANGED <<table, keys, call>>

\* The key source is operated outside the gateway: keys are rotated, and a
\* key can be missing for a while.
ChangeKeys(active, known) ==
    /\ keys' = [active |-> active, known |-> known]
    /\ UNCHANGED <<table, call, server>>

Step(a) ==
    \/ InsertNew(a) \/ LoadStored(a)
    \/ Commit(a) \/ CommitLost(a) \/ AnswerNew(a)
    \/ LoadFails(a) \/ AnswerStored(a)

Next ==
    \/ \E a \in Attempts :
          \/ \E id \in Identities, event \in Events, version \in Versions :
                Prepare(a, id, event, version)
          \/ Step(a) \/ FailBeforeCommit(a) \/ Crash(a)
          \/ ServerCommits(a) \/ ServerAborts(a)
    \/ \E active \in Keys, known \in SUBSET Keys : ChangeKeys(active, known)

Spec == Init /\ [][Next]_vars

\* A running attempt proceeds when it can, and the server ends transactions
\* whose client is gone.  No context deadline is assumed.
Fairness ==
    \A a \in Attempts : WF_vars(Step(a)) /\ WF_vars(ServerCommits(a) \/ ServerAborts(a))

FairSpec == Spec /\ Fairness

-----------------------------------------------------------------------------
(* Properties.                                                             *)

\* Every variable has its type: a committed row is complete, and an attempt
\* is in one known step with one known reply.
TypeOK ==
    /\ table \in [Identities -> Row \cup {Nothing}]
    /\ keys \in [active : Keys, known : SUBSET Keys]
    /\ call \in [Attempts -> Calls]
    /\ server \in [Attempts -> Phases]

\* A delivery that Core was told is accepted, as new or as a duplicate, is
\* stored with the content Core sent and the receipt Core was given, so all
\* accepted attempts of one delivery carry one receipt.
AcceptedDurably ==
    \A a \in Attempts :
        /\ call[a].reply = "new" => table[call[a].id] = call[a].row
        /\ call[a].reply = "duplicate" =>
              /\ table[call[a].id] = call[a].stored
              /\ Content(call[a].stored) = Content(call[a].row)

\* IdentityConflict is reported only when something else is stored under the
\* identity: a retry of the same delivery is never called a conflict, whatever
\* keys were rotated or lost in between.
ConflictIsReal ==
    \A a \in Attempts : call[a].reply = "conflict" =>
        /\ table[call[a].id] # Nothing
        /\ Content(table[call[a].id]) # Content(call[a].row)

\* An attempt that reported a definite error has stored nothing and never
\* will: no transaction of its own is left on the server.
RefusedNeverStored ==
    \A a \in Attempts : call[a].reply = "refused" =>
        /\ server[a] = "none"
        /\ \A id \in Identities : table[id] # Nothing => table[id].receipt # a

\* Every Accept call returns, also when it waits for another transaction's
\* insert whose client is gone.
AcceptReturns == \A a \in Attempts : At(a, "prepared") ~> At(a, "done")

-----------------------------------------------------------------------------
(* Acceptance implements the ledger.                                       *)

Told(a) ==
    IF call[a].reply \in {"none", "unknown"} THEN Nothing
    ELSE [id |-> call[a].id, content |-> Content(call[a].row),
          kind |-> call[a].reply,
          receipt |-> IF call[a].reply = "new" THEN a
                      ELSE IF call[a].reply = "duplicate" THEN call[a].stored.receipt
                      ELSE Nothing]

Recorded ==
    [id \in Identities |->
        IF table[id] = Nothing THEN Nothing
        ELSE [content |-> Content(table[id]), receipt |-> table[id].receipt]]

Answered == [a \in Attempts |-> Told(a)]

Ledger == INSTANCE DeliveryLedger WITH
    ledger <- Recorded,
    answers <- Answered

\* The committed rows and the answers given behave like the ledger: recorded
\* once, never rewritten, and never in contradiction with an earlier answer.
ImplementsLedger == Ledger!LedgerSpec

-----------------------------------------------------------------------------
(* The inductive invariant behind these properties.                        *)

\* An attempt that began has its request; one that did not has nothing.
Begun ==
    \A a \in Attempts :
        IF call[a].pc = "unborn" THEN call[a] = NoCall /\ server[a] = "none"
        ELSE /\ call[a].id \in Identities
             /\ call[a].row \in Row
             /\ call[a].row.receipt = a

\* A stored row is the row of its receipt's attempt, whose transaction is over
\* and who was told nothing that denies it.
StoredByAttempt ==
    \A id \in Identities : table[id] # Nothing =>
        LET a == table[id].receipt
        IN  /\ call[a].id = id /\ call[a].row = table[id]
            /\ server[a] = "none"
            /\ call[a].pc \in {"committed", "done"}
            /\ call[a].reply \in {"none", "new", "unknown"}

\* An unfinished insert is the only one for its identity and nothing is
\* stored there yet.
InsertExclusive ==
    \A a \in Attempts : server[a] # "none" =>
        /\ table[call[a].id] = Nothing
        /\ ~Waits(a)
        /\ call[a].reply \in {"none", "unknown"}
        /\ call[a].pc \in {"inserted", "done"}

\* An attempt relies on a row only while that is what the table holds.
SeenIsStored ==
    \A a \in Attempts :
        /\ call[a].pc = "inserted" <=> server[a] = "open"
        /\ call[a].reply # "none" => call[a].pc = "done"
        /\ call[a].pc = "committed" => table[call[a].id] = call[a].row
        /\ call[a].pc = "loaded" \/ call[a].reply \in {"duplicate", "conflict"} =>
              /\ table[call[a].id] # Nothing
              /\ call[a].stored = table[call[a].id]

\* Inductive: the transactions and the table account for every reply.
Inv ==
    /\ TypeOK
    /\ Begun
    /\ StoredByAttempt
    /\ InsertExclusive
    /\ SeenIsStored
    /\ AcceptedDurably
    /\ ConflictIsReal
=============================================================================
