------------------------- MODULE DestinationResolver ------------------------
(***************************************************************************)
(* OpaqueDestinationResolver (postgres/destination_resolver.go): Resolve   *)
(* and IdentifyRotationToken, while the lifecycle transactions of          *)
(* TokenLifecycle change the rows it reads.                                *)
(*                                                                         *)
(* A call derives one verifier per configured key and asks for each of     *)
(* them with a query of its own, outside any transaction: what it read for *)
(* the first key may be out of date when it reads the second.  A verifier  *)
(* stands for a raw token under a key.                                     *)
(***************************************************************************)
EXTENDS TokenLifecycle, Sequences, FiniteSets

CONSTANTS
    KeyIDs,     \* the configured verifier keys, in order
    KeyOf,      \* the key under which the verifier of a record was computed
    Tokenings,  \* the ways in which records may have got their raw tokens
    Presented,  \* the raw tokens that callers present
    MaxDamaged  \* at most so many rows are damaged (a model bound)

Keys == {KeyIDs[i] : i \in DOMAIN KeyIDs}

\* newOpaqueDestinationResolver takes one or two distinct keys, and a unique
\* index keeps two rows from having the same key and verifier.
ASSUME ResolverAssumption ==
    /\ KeyIDs \in Seq(Keys) /\ Len(KeyIDs) \in 1..2
    /\ \A i, j \in DOMAIN KeyIDs : KeyIDs[i] = KeyIDs[j] => i = j
    /\ Presented # {}
    /\ \A tokens \in Tokenings : \A r, q \in Records :
          KeyOf[r] = KeyOf[q] /\ tokens[r] = tokens[q] => r = q

VARIABLES
    tokenOf,    \* the raw token of a record
    damaged,    \* records whose row does not reconstruct as a token any more
    call,       \* the local state of the call
    canceled,   \* its context has ended
    conn,       \* its connection
    seen        \* history: what one atomic read could have answered, so far

resolverVars == <<call, canceled, conn>>
database == <<rows, dest, txn, outcome, tokenOf, damaged>>
rvars == <<rows, dest, txn, outcome, tokenOf, damaged, call, canceled, conn, seen>>

Answers == {"found", "notFound", "new", "old", "neither"}
Failures == {"integrity", "unavailable", "canceled"}

Match == [record : Records, row : Row, enabled : BOOLEAN]

Call == [pc : {"idle", "keys", "acquire", "scan", "returned"},
         op : {"resolve", "identify"}, token : Presented, now : Clock,
         pair : {<<>>} \cup (Records \X Records),   \* <<new, old>> to identify
         next : Nat \ {0}, matches : SUBSET Match, integrityFailure : BOOLEAN,
         answer : Answers \cup Failures \cup {"none"}]

NoCall == [pc |-> "idle", op |-> "resolve", token |-> CHOOSE t \in Presented : TRUE,
           now |-> Epoch, pair |-> <<>>, next |-> 1, matches |-> {},
           integrityFailure |-> FALSE, answer |-> "none"]

NoConnection == [at |-> "none", broken |-> FALSE]

Running == call.pc \in {"keys", "acquire", "scan"}

-----------------------------------------------------------------------------
(* What a call makes of the rows it matched.                               *)

\* Resolve asks whether the token is usable at its clock reading,
\* IdentifyRotationToken which record it belongs to, in whatever state.
Answer(c, matches) ==
    IF c.op = "resolve"
    THEN IF \E m \in matches : UsableAt(m.row, m.enabled, c.now)
         THEN "found" ELSE "notFound"
    ELSE IF \E m \in matches : m.record = c.pair[1] THEN "new"
    ELSE IF \E m \in matches : m.record = c.pair[2] THEN "old"
    ELSE "neither"

\* selectDestinationTokenSQL for one key.
Selected(token, key) ==
    {r \in Records : /\ rows[r].state # "absent"
                     /\ tokenOf[r] = token
                     /\ KeyOf[r] = key}

Read(r) == [record |-> r, row |-> rows[r], enabled |-> dest.enabled]

\* What a single consistent read of the rows, as they are, would answer.
Ideal ==
    LET matching == UNION {Selected(call.token, k) : k \in Keys}
    IN  IF matching \cap damaged # {} \/ Cardinality(matching) > 1
        THEN "integrity"
        ELSE Answer(call, {Read(r) : r \in matching})

-----------------------------------------------------------------------------
(* The steps of a call.                                                    *)

\* The call's variables end with it.
Return(answer) ==
    call' = [call EXCEPT !.pc = "returned", !.answer = answer, !.next = 1,
                         !.matches = {}, !.integrityFailure = FALSE]

Begin(op, token, now, pair) ==
    /\ call.pc = "idle"
    /\ call' = [pc |-> "keys", op |-> op, token |-> token, now |-> now, pair |-> pair,
                next |-> 1, matches |-> {}, integrityFailure |-> FALSE,
                answer |-> "none"]
    /\ UNCHANGED <<canceled, conn>>

\* The caller has its answer.  A call leaves nothing behind in the resolver.
Forget ==
    /\ call.pc = "returned"
    /\ call' = NoCall
    /\ canceled' = FALSE
    /\ conn' = NoConnection

\* Mutant: a key that cannot be loaded is left out of the scan.
verifierCandidatesPartial(loaded) ==
    /\ call.pc = "keys"
    /\ IF canceled \/ \E i \in DOMAIN KeyIDs : loaded[i] = "canceled"
       THEN Return("canceled")
       ELSE call' = [call EXCEPT !.pc = "acquire",
                                 !.next = IF loaded[1] = "ok" THEN 1 ELSE 2]
    /\ UNCHANGED <<canceled, conn>>

\* verifierCandidates loads every configured key.  A cancellation found on the
\* way wins over a key that is missing.
verifierCandidates(loaded) ==
    /\ call.pc = "keys"
    /\ IF canceled \/ \E i \in DOMAIN KeyIDs : loaded[i] = "canceled"
       THEN Return("canceled")
       ELSE IF \E i \in DOMAIN KeyIDs : loaded[i] = "failed"
       THEN Return("unavailable")
       ELSE call' = [call EXCEPT !.pc = "acquire"]
    /\ UNCHANGED <<canceled, conn>>

acquire ==
    /\ call.pc = "acquire"
    /\ \/ /\ call' = [call EXCEPT !.pc = "scan"]
          /\ conn' = [at |-> "held", broken |-> FALSE]
       \/ /\ \E answer \in {"unavailable", "canceled"} : Return(answer)
          /\ UNCHANGED conn
    /\ UNCHANGED canceled

\* finish(destroy), which acts at most once.
finish(destroy, broken) ==
    conn' = [at |-> IF destroy THEN "destroyed" ELSE "pooled", broken |-> broken]

\* The query for the next key returns a row.  A row that does not reconstruct
\* is remembered and the scan goes on.
QueryRow(r) ==
    /\ call.pc = "scan" /\ ~canceled
    /\ call.next <= Len(KeyIDs)
    /\ r \in Selected(call.token, KeyIDs[call.next])
    /\ call' = IF r \in damaged
               THEN [call EXCEPT !.next = @ + 1, !.integrityFailure = TRUE]
               ELSE [call EXCEPT !.next = @ + 1, !.matches = @ \cup {Read(r)}]
    /\ UNCHANGED <<canceled, conn>>

QueryNoRows ==
    /\ call.pc = "scan" /\ ~canceled
    /\ call.next <= Len(KeyIDs)
    /\ Selected(call.token, KeyIDs[call.next]) = {}
    /\ call' = [call EXCEPT !.next = @ + 1]
    /\ UNCHANGED <<canceled, conn>>

\* Mutant: a failed query is tried again on another connection.
QueryAgain ==
    /\ call.pc = "scan" /\ ~canceled
    /\ call.next <= Len(KeyIDs)
    /\ call' = [call EXCEPT !.pc = "acquire"]
    /\ finish(TRUE, TRUE)
    /\ UNCHANGED canceled

\* Mutant: the connection of an interrupted query goes back to the pool.
QueryReleases ==
    /\ call.pc = "scan" /\ ~canceled
    /\ call.next <= Len(KeyIDs)
    /\ Return("unavailable")
    /\ \E broken \in BOOLEAN : finish(FALSE, broken)
    /\ UNCHANGED canceled

\* The query fails: PostgreSQL refused it, which leaves the session intact, or
\* it was interrupted or cancelled, after which the session is of no use.
QueryFails ==
    /\ call.pc = "scan" /\ ~canceled
    /\ call.next <= Len(KeyIDs)
    /\ \/ Return("unavailable") /\ finish(FALSE, FALSE)
       \/ \E answer \in {"unavailable", "canceled"} :
             Return(answer) /\ finish(TRUE, TRUE)
    /\ UNCHANGED canceled

\* The context is found ended, before a query or after the last one.
StopCanceled ==
    /\ call.pc = "scan" /\ canceled
    /\ Return("canceled")
    /\ finish(TRUE, FALSE)
    /\ UNCHANGED canceled

Finish ==
    /\ call.pc = "scan" /\ ~canceled
    /\ call.next > Len(KeyIDs)
    /\ Return(IF call.integrityFailure \/ Cardinality(call.matches) > 1
              THEN "integrity" ELSE Answer(call, call.matches))
    /\ finish(FALSE, FALSE)
    /\ UNCHANGED canceled

Step ==
    \/ \E loaded \in [DOMAIN KeyIDs -> {"ok", "failed", "canceled"}] :
          verifierCandidates(loaded)
    \/ acquire
    \/ \E r \in Records : QueryRow(r)
    \/ QueryNoRows
    \/ QueryFails
    \/ StopCanceled
    \/ Finish

-----------------------------------------------------------------------------
(* The environment of a call.                                              *)

Cancel ==
    /\ Running /\ ~canceled
    /\ canceled' = TRUE
    /\ UNCHANGED <<call, conn>>

\* Outside the program: a row is damaged.  The lifecycle refuses to go on
\* while it cannot reconstruct a live row.
Damage(r) ==
    /\ rows[r].state # "absent"
    /\ Cardinality(damaged) < MaxDamaged
    /\ damaged' = damaged \cup {r}

\* A transaction is committed at once: nobody else sees its rows before, and
\* how its client learns of the commit makes no difference to a reader.  Nor does
\* the time of a destination's change, which a call reads but does not compare.
Lifecycle ==
    \/ /\ \A r \in damaged : rows[r].state \notin LiveStates
       /\ \E p \in Clients, now \in Clock : Operation(p, now)
       /\ txn'.phase = "open"
    \/ \E enabled \in BOOLEAN : SetDestination(enabled, Epoch)

RInit ==
    /\ Init
    /\ tokenOf \in Tokenings
    /\ damaged = {}
    /\ call = NoCall
    /\ canceled = FALSE
    /\ conn = NoConnection
    /\ seen = {}

\* While a call runs, every instant adds what an atomic read would answer.
Witness(before) == seen' = IF Running' THEN before \cup {Ideal'} ELSE before

CallStep == Step /\ UNCHANGED database /\ Witness(seen)

Committed ==
    /\ \E p \in Clients : Commit(p)
    /\ UNCHANGED <<tokenOf, damaged, call, canceled, conn>>
    /\ Witness(seen)

\* What the environment does between a return and the next call it does while
\* the resolver is idle.
RNext ==
    \/ Committed
    \/ /\ txn = NoTxn
       /\ \/ CallStep
          \/ Cancel /\ UNCHANGED database /\ Witness(seen)
          \/ /\ \E token \in Presented :
                   \/ \E now \in Clock : Begin("resolve", token, now, <<>>)
                   \/ \E new, old \in Records :
                         new # old /\ Begin("identify", token, Epoch, <<new, old>>)
             /\ UNCHANGED database /\ Witness({})
          \/ Forget /\ UNCHANGED database /\ seen' = {}
          \/ /\ call.pc # "returned"
             /\ \/ Lifecycle /\ UNCHANGED damaged
                \/ (\E r \in Records : Damage(r)) /\ UNCHANGED <<rows, dest, txn, outcome>>
             /\ UNCHANGED <<tokenOf, call, canceled, conn>>
             /\ Witness(seen)

\* A call keeps going: key source, pool and server answer or its context ends
\* the wait.
RFairSpec ==
    /\ RInit /\ [][RNext]_rvars
    /\ WF_rvars(Committed) /\ WF_rvars(txn = NoTxn /\ CallStep)

-----------------------------------------------------------------------------
(* Properties.                                                             *)

\* Every variable has its type, and a call holds a connection exactly while it
\* scans: no return path keeps one and no path gives one back twice.  A session
\* that was interrupted in a query does not go back to the pool (finish and
\* isConnectionInterruption).
RTypeOK ==
    /\ tokenOf \in Tokenings /\ damaged \subseteq Records
    /\ call \in Call
    /\ canceled \in BOOLEAN
    /\ conn \in [at : {"none", "held", "pooled", "destroyed"}, broken : BOOLEAN]
    /\ seen \subseteq Answers \cup Failures
    /\ (conn.at = "held") <=> (call.pc = "scan")
    /\ conn.at = "pooled" => ~conn.broken

OneRecordEach == \A r, q \in Records : tokenOf[r] = tokenOf[q] => r = q

\* The scan is no transaction, but its answer is one that a transaction could
\* have given: whatever Resolve or IdentifyRotationToken says of a token was
\* true at one instant of the call, although rotations commit between its
\* queries and keys may fail to load.  It relies on a raw token having one
\* record, which the token source provides.  When the rows cannot be trusted for
\* the whole of a call (the token has a row under each key, or its row does not
\* reconstruct), no definite answer is given, even if the first key had a perfect
\* match (docs/opaque-destination-resolver-v1.md: "None is downgraded to
\* not-found").
AnswerIsAtomic ==
    call.pc = "returned" =>
        /\ /\ call.answer \in Answers \cup {"integrity"}
           /\ OneRecordEach
           => call.answer \in seen
        /\ seen = {"integrity"} => call.answer \in Failures

\* Every call returns.
ResolveReturns == Running ~> ~Running

-----------------------------------------------------------------------------
(* The inductive invariant behind AnswerIsAtomic.                          *)

\* What the call c will answer if nothing else is found.
Result(c) ==
    IF c.integrityFailure \/ Cardinality(c.matches) > 1
    THEN "integrity" ELSE Answer(c, c.matches)

\* Record r is one the call looks for, and its key is the i-th.
Sought(r, i) ==
    /\ r \in Records /\ i \in DOMAIN KeyIDs
    /\ tokenOf[r] = call.token
    /\ KeyOf[r] = KeyIDs[i]

\* The query for record r is behind the call, or there never was one.
Passed == \A r \in Records, i \in DOMAIN KeyIDs : Sought(r, i) => i < call.next

\* With one record to a token, what the call found since it passed that record
\* was true when it passed it.
FoundWasTrue ==
    \/ Passed /\ Result(call) \in seen
    \/ ~Passed /\ call.matches = {} /\ ~call.integrityFailure

\* A row that does not reconstruct is found when its turn comes.
DamageFound ==
    \E r \in damaged, i \in DOMAIN KeyIDs :
        /\ Sought(r, i) /\ rows[r].state # "absent"
        /\ i < call.next => call.integrityFailure

\* Two rows of the token are both found when their turn comes.
BothFound ==
    \E r, q \in Records, i, j \in DOMAIN KeyIDs :
        /\ r # q /\ Sought(r, i) /\ Sought(q, j)
        /\ rows[r].state # "absent" /\ rows[q].state # "absent"
        /\ i < call.next => call.integrityFailure \/ \E m \in call.matches : m.record = r
        /\ j < call.next => call.integrityFailure \/ \E m \in call.matches : m.record = q

Grounded ==
    /\ Running /\ OneRecordEach => FoundWasTrue
    /\ Running /\ seen \subseteq {"integrity"} => DamageFound \/ BothFound

RInv == Inv /\ RTypeOK /\ IsFiniteSet(call.matches) /\ Grounded /\ AnswerIsAtomic
=============================================================================
