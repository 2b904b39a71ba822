--------------------- MODULE DestinationResolverProofs ----------------------
(***************************************************************************)
(* Proofs about DestinationResolver, for every set of records and tokens   *)
(* and one or two keys: the answer of a scan that is no transaction is one *)
(* a transaction could have given.                                         *)
(***************************************************************************)
EXTENDS DestinationResolver, TokenLifecycleProofs, FiniteSetTheorems

\* The records that an atomic read of the rows rs finds for a token.
Matching(rs, tokens, token) ==
    {r \in Records : rs[r].state # "absent" /\ tokens[r] = token /\ KeyOf[r] \in Keys}

\* How it reads one of them.
ReadOf(rs, d, r) == [record |-> r, row |-> rs[r], enabled |-> d.enabled]

\* What that read answers to the call c.
IdealOf(rs, d, tokens, bad, c) ==
    IF \/ Matching(rs, tokens, c.token) \cap bad # {}
       \/ Cardinality(Matching(rs, tokens, c.token)) > 1
    THEN "integrity"
    ELSE Answer(c, {ReadOf(rs, d, r) : r \in Matching(rs, tokens, c.token)})

\* Ideal is the answer to the call of that read.
LEMMA IdealIs == Ideal' = IdealOf(rows', dest', tokenOf', damaged', call')
<1>1. UNION {Selected(call.token, k)' : k \in Keys} = Matching(rows', tokenOf', call'.token)
  BY DEF Selected, Matching
<1>2. \A r : Read(r)' = ReadOf(rows', dest', r)
  BY DEF Read, ReadOf
<1> QED BY <1>1, <1>2 DEF Ideal, IdealOf

\* A read that finds nothing, and one that finds a single row.
LEMMA IdealNone ==
    ASSUME NEW rs, NEW d, NEW tokens, NEW bad, NEW c,
           Matching(rs, tokens, c.token) = {}
    PROVE  IdealOf(rs, d, tokens, bad, c) = Answer(c, {})
<1>1. Cardinality({}) = 0
  BY FS_EmptySet
<1>2. {ReadOf(rs, d, r) : r \in {}} = {}
  OBVIOUS
<1> QED BY <1>1, <1>2 DEF IdealOf

\* One undamaged record decides the answer.
LEMMA IdealOne ==
    ASSUME NEW rs, NEW d, NEW tokens, NEW bad, NEW c, NEW r,
           Matching(rs, tokens, c.token) = {r}
    PROVE  IdealOf(rs, d, tokens, bad, c) =
               IF r \in bad THEN "integrity" ELSE Answer(c, {ReadOf(rs, d, r)})
<1>1. Cardinality({r}) = 1
  BY FS_Singleton
<1>2. {ReadOf(rs, d, q) : q \in {r}} = {ReadOf(rs, d, r)}
  OBVIOUS
<1>3. {r} \cap bad # {} <=> r \in bad
  OBVIOUS
<1> QED BY <1>1, <1>2, <1>3 DEF IdealOf

\* A set with more than one element has two different ones, and conversely.
LEMMA MoreThanOne ==
    ASSUME NEW S, Cardinality(S) > 1
    PROVE  \E x, y \in S : x # y
<1> SUFFICES ASSUME \A x, y \in S : x = y PROVE FALSE
  OBVIOUS
<1>1. CASE S = {}
  BY <1>1, FS_EmptySet
<1>2. CASE S # {}
  <2>1. PICK x \in S : TRUE
    BY <1>2
  <2>2. S = {x}
    BY <2>1
  <2> QED BY <2>2, FS_Singleton
<1> QED BY <1>1, <1>2

\* A set that holds two things has more than one element.
LEMMA TwoElements ==
    ASSUME NEW S, IsFiniteSet(S), NEW x \in S, NEW y \in S, x # y
    PROVE  Cardinality(S) > 1
<1>1. IsFiniteSet({x}) /\ Cardinality({x}) = 1
  BY FS_Singleton
<1>2. Cardinality({x} \cup {y}) = 2
  BY <1>1, FS_AddElement
<1>3. {x} \cup {y} \in SUBSET S
  OBVIOUS
<1>4. 2 <= Cardinality(S) /\ Cardinality(S) \in Nat
  BY <1>2, <1>3, FS_Subset, FS_CardinalityType
<1> QED BY <1>4

-----------------------------------------------------------------------------
(* Types.                                                                  *)

\* The scan visits every key once.
LEMMA KeyFacts ==
    /\ Len(KeyIDs) \in Nat /\ DOMAIN KeyIDs = 1..Len(KeyIDs)
    /\ \A k \in Keys : \E i \in DOMAIN KeyIDs : k = KeyIDs[i]
    /\ \A i \in DOMAIN KeyIDs : KeyIDs[i] \in Keys
    /\ \A i, j \in DOMAIN KeyIDs : KeyIDs[i] = KeyIDs[j] => i = j
  BY ResolverAssumption DEF Keys

\* The rows a call matched give one of the definite answers.
LEMMA AnswerType ==
    ASSUME NEW c, NEW matches
    PROVE  Answer(c, matches) \in Answers
  BY DEF Answer, Answers

\* So does an atomic read, unless it meets an integrity failure.
LEMMA IdealType == Ideal' \in Answers \cup Failures
  BY IdealIs, AnswerType DEF IdealOf, Failures

\* The resolver without a call.
LEMMA NoCallType ==
    /\ NoCall \in Call /\ NoCall.pc = "idle" /\ NoCall.matches = {}
<1>1. (CHOOSE t \in Presented : TRUE) \in Presented
  BY ResolverAssumption
<1>2. Epoch \in Clock
  BY DurationAssumption DEF Clock
<1> QED BY <1>1, <1>2 DEF NoCall, Call

\* Every step of the resolver and of its environment is one of the lifecycle.
LEMMA ResolverIsNext == [RNext]_rvars => [Next]_vars
<1> SUFFICES ASSUME [RNext]_rvars PROVE [Next]_vars
  OBVIOUS
<1>1. Epoch \in Clock
  BY DurationAssumption DEF Clock
<1>2. CASE Committed
  BY <1>2 DEF Committed, Next, Settle
<1>3. CASE UNCHANGED database
  BY <1>3 DEF database, vars
<1>4. CASE Lifecycle
  BY <1>1, <1>4 DEF Lifecycle, Next
<1>5. CASE UNCHANGED <<rows, dest, txn, outcome>>
  BY <1>5 DEF vars
<1>6. CASE UNCHANGED rvars
  BY <1>6 DEF rvars, vars
<1> QED BY <1>2, <1>3, <1>4, <1>5, <1>6 DEF RNext, CallStep

\* A record keeps its row.
LEMMA RowsStay ==
    ASSUME Inv, [Next]_vars, NEW r \in Records, rows[r].state # "absent"
    PROVE  rows'[r].state # "absent"
<1>1. CASE rows' = rows
  BY <1>1
<1>2. CASE rows' # rows
  <2>1. txn.phase \in {"open", "inDoubt"} /\ rows' = txn.after
    BY <1>2, RowsChangeByCommit
  <2>2. HistoryKept(rows, txn.after)
    BY <2>1 DEF Inv, Pending
  <2> QED BY <2>1, <2>2 DEF HistoryKept
<1> QED BY <1>1, <1>2

\* What the history variable does.
LEMMA Witnessed ==
    ASSUME RTypeOK, Witness(seen)
    PROVE  /\ seen \subseteq seen' /\ seen' \subseteq Answers \cup Failures
           /\ Running' => Ideal' \in seen'
           /\ ~Running' => seen' = seen
  BY IdealType DEF Witness, RTypeOK

-----------------------------------------------------------------------------
(* Steps that leave the scan where it is.                                  *)

\* What the scan has found depends on nothing but the call and the tokens.
LEMMA SameScan ==
    ASSUME RInv, Running, tokenOf' = tokenOf, damaged \subseteq damaged', seen \subseteq seen',
           \A r \in Records : rows[r].state # "absent" => rows'[r].state # "absent",
           call'.op = call.op, call'.token = call.token, call'.now = call.now,
           call'.pair = call.pair, call'.next = call.next, call'.matches = call.matches,
           call'.integrityFailure = call.integrityFailure
    PROVE  Grounded'
<1>1. \A r, i : Sought(r, i)' <=> Sought(r, i)
  BY DEF Sought
<1>2. Passed' <=> Passed
  BY <1>1 DEF Passed
<1>3. Result(call') = Result(call)
  BY DEF Result, Answer
<1>4. FoundWasTrue => FoundWasTrue'
  BY <1>2, <1>3 DEF FoundWasTrue
<1>5. OneRecordEach' <=> OneRecordEach
  BY DEF OneRecordEach
<1>6. DamageFound => DamageFound'
  BY <1>1 DEF DamageFound, Sought
<1>7. BothFound => BothFound'
  BY <1>1 DEF BothFound
<1> QED BY <1>4, <1>5, <1>6, <1>7 DEF RInv, Grounded

\* The database changes, or the context of the call ends.
LEMMA QuietStep ==
    ASSUME RInv, Inv', call' = call, conn' = conn, canceled' \in BOOLEAN,
           tokenOf' = tokenOf, damaged \subseteq damaged', damaged' \subseteq Records,
           \A r \in Records : rows[r].state # "absent" => rows'[r].state # "absent",
           Witness(seen)
    PROVE  RInv'
<1>1. RTypeOK /\ (Running' <=> Running)
  BY DEF RInv, Running
<1>2. seen \subseteq seen' /\ seen' \subseteq Answers \cup Failures /\ (~Running' => seen' = seen)
  BY <1>1, Witnessed
<1>3. RTypeOK'
  BY <1>1, <1>2 DEF RTypeOK
<1>4. Grounded'
  <2>1. CASE Running
    BY <1>2, <2>1, SameScan
  <2>2. CASE ~Running
    BY <1>1, <2>2 DEF Grounded
  <2> QED BY <2>1, <2>2
<1>5. AnswerIsAtomic'
  <2>1. call.pc = "returned" => seen' = seen
    BY <1>1, <1>2 DEF Running
  <2> QED BY <2>1 DEF RInv, AnswerIsAtomic, OneRecordEach
<1>6. IsFiniteSet(call'.matches)
  BY DEF RInv
<1> QED BY <1>3, <1>4, <1>5, <1>6 DEF RInv

\* The call goes on to its next stage.
LEMMA StageStep ==
    ASSUME RInv, Inv', Running, NEW pc \in {"acquire", "scan"},
           call' = [call EXCEPT !.pc = pc],
           canceled' = canceled, tokenOf' = tokenOf, damaged' = damaged, rows' = rows,
           conn' \in [at : {"none", "held", "pooled", "destroyed"}, broken : BOOLEAN],
           (conn'.at = "held") <=> (pc = "scan"), conn'.at = "pooled" => ~conn'.broken,
           Witness(seen)
    PROVE  RInv'
<1>1. RTypeOK /\ call \in Call
  BY DEF RInv, RTypeOK
<1>2. /\ call' \in Call /\ call'.pc = pc
      /\ call'.op = call.op /\ call'.token = call.token /\ call'.now = call.now
      /\ call'.pair = call.pair /\ call'.next = call.next /\ call'.matches = call.matches
      /\ call'.integrityFailure = call.integrityFailure
  BY <1>1 DEF Call
<1>3. seen \subseteq seen' /\ seen' \subseteq Answers \cup Failures
  BY <1>1, Witnessed
<1>4. RTypeOK'
  BY <1>1, <1>2, <1>3 DEF RTypeOK
<1>5. Grounded'
  BY <1>2, <1>3, SameScan
<1>6. AnswerIsAtomic'
  BY <1>2 DEF AnswerIsAtomic
<1>7. IsFiniteSet(call'.matches)
  BY <1>2 DEF RInv
<1> QED BY <1>4, <1>5, <1>6, <1>7 DEF RInv

\* The call returns.
LEMMA ReturnStep ==
    ASSUME RInv, Inv', NEW answer \in Answers \cup Failures, Return(answer),
           OneRecordEach /\ answer \in Answers \cup {"integrity"} => answer \in seen,
           seen = {"integrity"} => answer \in Failures,
           canceled' = canceled, tokenOf' = tokenOf, damaged' = damaged,
           conn' \in [at : {"none", "pooled", "destroyed"}, broken : BOOLEAN],
           conn'.at = "pooled" => ~conn'.broken,
           Witness(seen)
    PROVE  RInv'
<1>1. RTypeOK /\ call \in Call
  BY DEF RInv, RTypeOK
<1>2. /\ call' \in Call /\ call'.pc = "returned" /\ call'.answer = answer
      /\ call'.matches = {}
  <2>1. {} \in SUBSET Match /\ 1 \in Nat \ {0} /\ FALSE \in BOOLEAN
    OBVIOUS
  <2>2. answer \in Answers \cup Failures \cup {"none"}
    OBVIOUS
  <2>3. call' \in Call
    BY <1>1, <2>1, <2>2 DEF Return, Call
  <2>4. call'.pc = "returned" /\ call'.answer = answer /\ call'.matches = {}
    BY <1>1 DEF Return, Call
  <2> QED BY <2>3, <2>4
<1>3. ~Running'
  BY <1>2 DEF Running
<1>4. seen' = seen
  BY <1>1, <1>3, Witnessed
<1>5. RTypeOK'
  BY <1>1, <1>2, <1>4 DEF RTypeOK
<1>6. Grounded'
  BY <1>3 DEF Grounded
<1>7. AnswerIsAtomic'
  BY <1>2, <1>4 DEF AnswerIsAtomic, OneRecordEach
<1>8. IsFiniteSet(call'.matches)
  BY <1>2, FS_EmptySet
<1> QED BY <1>5, <1>6, <1>7, <1>8 DEF RInv

-----------------------------------------------------------------------------
(* The scan.                                                               *)

\* A key selects one row of a token at most.
LEMMA SelectsOne ==
    ASSUME RTypeOK, NEW r, NEW q, NEW i, Sought(r, i), Sought(q, i)
    PROVE  r = q
  BY ResolverAssumption DEF RTypeOK, Sought

\* Every row that an atomic read finds is one the call looks for.
LEMMA MatchingSought ==
    ASSUME NEW r, r \in Matching(rows, tokenOf, call.token)
    PROVE  \E i \in DOMAIN KeyIDs : Sought(r, i)
  BY KeyFacts DEF Matching, Sought

\* The query for the next key returns a row: what it says is true now, and a
\* damaged or a second row is remembered.
LEMMA RowStep ==
    ASSUME RInv, Inv', NEW r \in Records, QueryRow(r), UNCHANGED database, Witness(seen)
    PROVE  RInv'
<1>1. /\ RTypeOK /\ Inv /\ call \in Call /\ call.pc = "scan" /\ Running
      /\ call.next \in DOMAIN KeyIDs /\ call.next \in Nat
      /\ canceled' = canceled /\ conn' = conn
      /\ rows' = rows /\ dest' = dest /\ tokenOf' = tokenOf /\ damaged' = damaged
  <2>1. RTypeOK /\ Inv /\ call \in Call /\ call.pc = "scan" /\ call.next \in Nat
    BY DEF RInv, RTypeOK, Call, QueryRow
  <2>2. canceled' = canceled /\ conn' = conn
        /\ rows' = rows /\ dest' = dest /\ tokenOf' = tokenOf /\ damaged' = damaged
    BY DEF QueryRow, database
  <2>3. call.next \in DOMAIN KeyIDs
    <3>1. call.next >= 1
      BY <2>1 DEF Call
    <3> QED BY <2>1, <3>1, KeyFacts DEF QueryRow
  <2> QED BY <2>1, <2>2, <2>3 DEF Running
<1>2. Sought(r, call.next) /\ rows[r].state # "absent"
  BY <1>1 DEF QueryRow, Selected, Sought
<1>3. Read(r) \in Match /\ Read(r) = ReadOf(rows', dest', r) /\ Read(r).record = r
  BY <1>1 DEF Read, ReadOf, Match, Inv, TypeOK
<1>4. /\ call' \in Call /\ call'.pc = "scan"
      /\ call'.op = call.op /\ call'.token = call.token /\ call'.now = call.now
      /\ call'.pair = call.pair /\ call'.next = call.next + 1
      /\ r \in damaged => call'.integrityFailure /\ call'.matches = call.matches
      /\ r \notin damaged => /\ call'.integrityFailure = call.integrityFailure
                             /\ call'.matches = call.matches \cup {Read(r)}
      /\ call.integrityFailure => call'.integrityFailure
      /\ call.matches \subseteq call'.matches
  <2> PICK m : m = Read(r)
    OBVIOUS
  <2>1. /\ call.next + 1 \in Nat \ {0} /\ TRUE \in BOOLEAN
        /\ call.matches \cup {m} \in SUBSET Match
    BY <1>1, <1>3 DEF Call
  <2>2. CASE r \in damaged
    <3>1. call' = [call EXCEPT !.next = call.next + 1, !.integrityFailure = TRUE]
      BY <2>2 DEF QueryRow
    <3>2. call' \in Call
      BY <1>1, <2>1, <3>1 DEF Call
    <3> QED BY <1>1, <2>2, <3>1, <3>2 DEF Call
  <2>3. CASE r \notin damaged
    <3>1. call' = [call EXCEPT !.next = call.next + 1, !.matches = call.matches \cup {m}]
      BY <2>3 DEF QueryRow
    <3>2. call' \in Call
      BY <1>1, <2>1, <3>1 DEF Call
    <3> QED BY <1>1, <2>3, <3>1, <3>2 DEF Call
  <2> QED BY <2>2, <2>3
<1>5. /\ Running' /\ Ideal' \in seen' /\ seen \subseteq seen'
      /\ seen' \subseteq Answers \cup Failures
  BY <1>1, <1>4, Witnessed DEF Running
<1>6. \A q, i : Sought(q, i)' <=> Sought(q, i)
  BY <1>1, <1>4 DEF Sought
<1>7. ASSUME OneRecordEach PROVE FoundWasTrue'
  <2>1. ~Passed
    BY <1>1, <1>2 DEF Passed
  <2>2. call.matches = {} /\ ~call.integrityFailure
    BY <1>1, <1>7, <2>1 DEF RInv, Grounded, FoundWasTrue
  <2>3. \A q, i : Sought(q, i) => q = r /\ i = call.next
    BY <1>2, <1>7, KeyFacts DEF Sought, OneRecordEach
  <2>4. Passed'
    BY <1>1, <1>4, <1>6, <2>3 DEF Passed
  <2>5. Matching(rows', tokenOf', call'.token) = {r}
    <3>1. r \in Matching(rows, tokenOf, call.token)
      BY <1>1, <1>2, KeyFacts DEF Matching, Sought
    <3>2. \A q \in Matching(rows, tokenOf, call.token) : q = r
      BY <2>3, MatchingSought
    <3> QED BY <1>1, <1>4, <3>1, <3>2
  <2>6. Ideal' = IF r \in damaged THEN "integrity" ELSE Answer(call', {Read(r)})
    BY <1>1, <1>3, <2>5, IdealIs, IdealOne
  <2>7. r \notin damaged => call'.matches = {Read(r)} /\ Cardinality(call'.matches) = 1
    BY <1>4, <2>2, FS_Singleton
  <2>8. Result(call') = Ideal'
    <3>1. CASE r \in damaged
      BY <1>4, <2>6, <3>1 DEF Result
    <3>2. CASE r \notin damaged
      BY <1>4, <2>2, <2>6, <2>7, <3>2 DEF Result
    <3> QED BY <3>1, <3>2
  <2> QED BY <1>5, <2>4, <2>8 DEF FoundWasTrue
<1>8. ASSUME NEW q, NEW i, Sought(q, i), i < call'.next,
             i < call.next => call.integrityFailure \/ \E m \in call.matches : m.record = q
      PROVE  /\ call'.integrityFailure \/ \E m \in call'.matches : m.record = q
             /\ (i < call.next => call.integrityFailure) /\ q \in damaged =>
                    call'.integrityFailure
  <2>1. CASE i < call.next
    BY <1>4, <1>8, <2>1
  <2>2. CASE ~(i < call.next)
    <3>1. i = call.next
      BY <1>1, <1>4, <1>8, <2>2, KeyFacts DEF Sought
    <3>2. q = r
      BY <1>1, <1>2, <1>8, <3>1, SelectsOne
    <3>3. Read(r) \in call'.matches \/ r \in damaged
      BY <1>4
    <3> QED BY <1>3, <1>4, <3>2, <3>3
  <2> QED BY <2>1, <2>2
<1>9. ASSUME DamageFound PROVE DamageFound'
  <2>1. PICK q \in damaged, i \in DOMAIN KeyIDs :
            /\ Sought(q, i) /\ rows[q].state # "absent"
            /\ i < call.next => call.integrityFailure
    BY <1>9 DEF DamageFound
  <2>2. i < call'.next => call'.integrityFailure
    BY <1>8, <2>1
  <2> QED BY <1>1, <1>6, <2>1, <2>2 DEF DamageFound
<1>10. ASSUME BothFound PROVE BothFound'
  <2>1. PICK x \in Records, y \in Records, i \in DOMAIN KeyIDs, j \in DOMAIN KeyIDs :
            /\ x # y /\ Sought(x, i) /\ Sought(y, j)
            /\ rows[x].state # "absent" /\ rows[y].state # "absent"
            /\ i < call.next => call.integrityFailure \/ \E m \in call.matches : m.record = x
            /\ j < call.next => call.integrityFailure \/ \E m \in call.matches : m.record = y
    BY <1>10 DEF BothFound
  <2>2. i < call'.next => call'.integrityFailure \/ \E m \in call'.matches : m.record = x
    BY <1>8, <2>1
  <2>3. j < call'.next => call'.integrityFailure \/ \E m \in call'.matches : m.record = y
    BY <1>8, <2>1
  <2> QED BY <1>1, <1>6, <2>1, <2>2, <2>3 DEF BothFound
<1>11. Grounded'
  <2>1. OneRecordEach' <=> OneRecordEach
    BY <1>1 DEF OneRecordEach
  <2>2. seen' \subseteq {"integrity"} => DamageFound \/ BothFound
    BY <1>1, <1>5 DEF RInv, Grounded
  <2> QED BY <1>7, <1>9, <1>10, <2>1, <2>2 DEF Grounded
<1>12. IsFiniteSet(call'.matches)
  BY <1>4, FS_AddElement DEF RInv
<1>13. RTypeOK'
  BY <1>1, <1>4, <1>5 DEF RTypeOK
<1>14. AnswerIsAtomic'
  BY <1>4 DEF AnswerIsAtomic
<1> QED BY <1>11, <1>12, <1>13, <1>14 DEF RInv

\* The query for the next key finds nothing, and there is nothing now.
LEMMA NoRowsStep ==
    ASSUME RInv, Inv', QueryNoRows, UNCHANGED database, Witness(seen)
    PROVE  RInv'
<1>1. /\ RTypeOK /\ Inv /\ call \in Call /\ call.pc = "scan" /\ Running
      /\ call.next \in Nat /\ canceled' = canceled /\ conn' = conn
      /\ rows' = rows /\ dest' = dest /\ tokenOf' = tokenOf /\ damaged' = damaged
  BY DEF RInv, RTypeOK, Call, QueryNoRows, Running, database
<1>2. ASSUME NEW q, Sought(q, call.next) PROVE rows[q].state = "absent"
  BY <1>2 DEF QueryNoRows, Selected, Sought
<1>3. /\ call' \in Call /\ call'.pc = "scan"
      /\ call'.op = call.op /\ call'.token = call.token /\ call'.now = call.now
      /\ call'.pair = call.pair /\ call'.next = call.next + 1
      /\ call'.integrityFailure = call.integrityFailure /\ call'.matches = call.matches
  BY <1>1 DEF QueryNoRows, Call
<1>4. /\ Running' /\ Ideal' \in seen' /\ seen \subseteq seen'
      /\ seen' \subseteq Answers \cup Failures
  BY <1>1, <1>3, Witnessed DEF Running
<1>5. \A q, i : Sought(q, i)' <=> Sought(q, i)
  BY <1>1, <1>3 DEF Sought
<1>6. \A q, i : Sought(q, i) /\ i < call'.next => i < call.next \/ rows[q].state = "absent"
  <2> SUFFICES ASSUME NEW q, NEW i, Sought(q, i), i < call'.next, ~(i < call.next)
               PROVE  rows[q].state = "absent"
    OBVIOUS
  <2>1. i = call.next
    BY <1>1, <1>3, KeyFacts DEF Sought
  <2> QED BY <1>2, <2>1
<1>7. Passed => Passed'
  BY <1>1, <1>3, <1>5, KeyFacts DEF Passed, Sought
<1>8. ASSUME OneRecordEach PROVE FoundWasTrue'
  <2>1. FoundWasTrue
    BY <1>1, <1>8 DEF RInv, Grounded
  <2>2. CASE Passed
    <3>1. Result(call') = Result(call)
      BY <1>3 DEF Result, Answer
    <3> QED BY <1>4, <1>7, <2>1, <2>2, <3>1 DEF FoundWasTrue
  <2>3. CASE ~Passed /\ ~Passed'
    BY <1>3, <2>1, <2>3 DEF FoundWasTrue
  <2>4. CASE ~Passed /\ Passed'
    <3>1. PICK q \in Records, i \in DOMAIN KeyIDs : Sought(q, i) /\ ~(i < call.next)
      BY <2>4 DEF Passed
    <3>2. rows[q].state = "absent"
      BY <1>5, <1>6, <2>4, <3>1 DEF Passed
    <3>3. Matching(rows, tokenOf, call.token) = {}
      BY <1>8, <3>1, <3>2 DEF Matching, Sought, OneRecordEach
    <3>4. Ideal' = Answer(call', {})
      BY <1>1, <1>3, <3>3, IdealIs, IdealNone
    <3>5. Result(call') = Answer(call', {})
      BY <1>3, <2>1, <2>4, FS_EmptySet DEF FoundWasTrue, Result
    <3> QED BY <1>4, <2>4, <3>4, <3>5 DEF FoundWasTrue
  <2> QED BY <2>2, <2>3, <2>4
<1>9. DamageFound => DamageFound'
  BY <1>1, <1>3, <1>5, <1>6 DEF DamageFound
<1>10. BothFound => BothFound'
  BY <1>1, <1>3, <1>5, <1>6 DEF BothFound
<1>11. Grounded'
  <2>1. OneRecordEach' <=> OneRecordEach
    BY <1>1 DEF OneRecordEach
  <2>2. seen' \subseteq {"integrity"} => DamageFound \/ BothFound
    BY <1>1, <1>4 DEF RInv, Grounded
  <2> QED BY <1>8, <1>9, <1>10, <2>1, <2>2 DEF Grounded
<1>12. IsFiniteSet(call'.matches)
  BY <1>3 DEF RInv
<1>13. RTypeOK'
  BY <1>1, <1>3, <1>4 DEF RTypeOK
<1>14. AnswerIsAtomic'
  BY <1>3 DEF AnswerIsAtomic
<1> QED BY <1>11, <1>12, <1>13, <1>14 DEF RInv

\* After the last key the call answers what it found.
LEMMA FinishStep ==
    ASSUME RInv, Inv', Finish, UNCHANGED database, Witness(seen)
    PROVE  RInv'
<1>1. /\ call \in Call /\ Running /\ call.next \in Nat /\ call.next > Len(KeyIDs)
      /\ canceled' = canceled /\ tokenOf' = tokenOf /\ damaged' = damaged
      /\ IsFiniteSet(call.matches) /\ RTypeOK
  BY DEF RInv, RTypeOK, Call, Finish, Running, database
<1>2. Return(Result(call))
  BY DEF Finish, Result
<1>3. conn' = [at |-> "pooled", broken |-> FALSE]
  BY DEF Finish, finish
<1>4. Result(call) \in Answers \cup Failures
  BY AnswerType DEF Result, Failures
<1>5. \A i \in DOMAIN KeyIDs : i < call.next
  BY <1>1, KeyFacts
<1>6. OneRecordEach => Result(call) \in seen
  <2>1. Passed
    BY <1>5 DEF Passed
  <2> QED BY <1>1, <2>1 DEF RInv, Grounded, FoundWasTrue
<1>7. seen = {"integrity"} => Result(call) \in Failures
  <2> SUFFICES ASSUME seen = {"integrity"} PROVE Result(call) \in Failures
    OBVIOUS
  <2>1. DamageFound \/ BothFound
    BY <1>1 DEF RInv, Grounded
  <2>2. CASE DamageFound
    <3>1. call.integrityFailure
      BY <1>5, <2>2 DEF DamageFound
    <3> QED BY <3>1 DEF Result, Failures
  <2>3. CASE BothFound /\ ~call.integrityFailure
    <3>1. PICK r \in Records, q \in Records :
              /\ r # q
              /\ \E m \in call.matches : m.record = r
              /\ \E m \in call.matches : m.record = q
      BY <1>5, <2>3 DEF BothFound
    <3>2. PICK m \in call.matches : m.record = r
      BY <3>1
    <3>3. PICK n \in call.matches : n.record = q
      BY <3>1
    <3>4. Cardinality(call.matches) > 1
      BY <1>1, <3>1, <3>2, <3>3, TwoElements
    <3> QED BY <3>4 DEF Result, Failures
  <2>4. CASE call.integrityFailure
    BY <2>4 DEF Result, Failures
  <2> QED BY <2>1, <2>2, <2>3, <2>4
<1> QED BY <1>1, <1>2, <1>3, <1>4, <1>6, <1>7, ReturnStep

\* A call begins: if an atomic read cannot be trusted now, the scan will find
\* out.
LEMMA BeginStep ==
    ASSUME RInv, Inv', NEW op \in {"resolve", "identify"}, NEW token \in Presented,
           NEW now \in Clock, NEW pair \in {<<>>} \cup (Records \X Records),
           Begin(op, token, now, pair), UNCHANGED database, Witness({})
    PROVE  RInv'
<1>1. /\ RTypeOK /\ call.pc = "idle" /\ canceled' = canceled /\ conn' = conn
      /\ rows' = rows /\ dest' = dest /\ tokenOf' = tokenOf /\ damaged' = damaged
      /\ conn.at # "held"
  BY DEF RInv, RTypeOK, Begin, database
<1>2. /\ call' \in Call /\ call'.pc = "keys" /\ call'.token = token /\ call'.next = 1
      /\ call'.matches = {} /\ ~call'.integrityFailure
  BY SMTT(20) DEF Begin, Call
<1>3. Running' /\ seen' = {Ideal'}
  BY <1>2 DEF Running, Witness
<1>4. RTypeOK'
  BY <1>1, <1>2, <1>3, IdealType DEF RTypeOK
<1>5. \A r, i : Sought(r, i)' => ~(i < call'.next)
  BY <1>2, KeyFacts DEF Sought
<1>6. \A r \in Matching(rows', tokenOf', call'.token) :
          \E i \in DOMAIN KeyIDs : Sought(r, i)' /\ rows'[r].state # "absent"
  BY KeyFacts DEF Matching, Sought
<1>7. FoundWasTrue'
  <2>1. CASE Passed'
    <3>1. Matching(rows', tokenOf', call'.token) = {}
      BY <1>5, <1>6, <2>1 DEF Passed, Matching
    <3>2. Ideal' = Answer(call', {})
      BY <3>1, IdealIs, IdealNone
    <3>3. Result(call') = Answer(call', {})
      BY <1>2, FS_EmptySet DEF Result
    <3> QED BY <1>3, <2>1, <3>2, <3>3 DEF FoundWasTrue
  <2>2. CASE ~Passed'
    BY <1>2, <2>2 DEF FoundWasTrue
  <2> QED BY <2>1, <2>2
<1>8. ASSUME seen' \subseteq {"integrity"} PROVE DamageFound' \/ BothFound'
  <2> PICK matching : matching = Matching(rows', tokenOf', call'.token)
    OBVIOUS
  <2>1. IdealOf(rows', dest', tokenOf', damaged', call') = "integrity"
    BY <1>3, <1>8, IdealIs
  <2>2. matching \cap damaged' # {} \/ Cardinality(matching) > 1
    <3>1. Answer(call', {ReadOf(rows', dest', r) : r \in matching}) # "integrity"
      BY AnswerType DEF Answers
    <3> QED BY <2>1, <3>1 DEF IdealOf
  <2>3. CASE matching \cap damaged' # {}
    BY <1>5, <1>6, <2>3 DEF DamageFound
  <2>4. CASE Cardinality(matching) > 1
    <3>1. PICK r \in matching, q \in matching : r # q
      BY <2>4, MoreThanOne
    <3>2. r \in Records /\ q \in Records
      BY DEF Matching
    <3> QED BY <1>5, <1>6, <3>1, <3>2 DEF BothFound
  <2> QED BY <2>2, <2>3, <2>4
<1>9. Grounded'
  BY <1>7, <1>8 DEF Grounded
<1>10. AnswerIsAtomic'
  BY <1>2 DEF AnswerIsAtomic
<1>11. IsFiniteSet(call'.matches)
  BY <1>2, FS_EmptySet
<1> QED BY <1>4, <1>9, <1>10, <1>11 DEF RInv

-----------------------------------------------------------------------------
(* The theorems.                                                           *)

\* A resolver that has no call.
LEMMA IdleInv ==
    ASSUME Inv', tokenOf' \in Tokenings, damaged' \subseteq Records, call' = NoCall,
           canceled' = FALSE, conn' = NoConnection, seen' = {}
    PROVE  RInv'
<1>1. call' \in Call /\ call'.pc = "idle" /\ call'.matches = {}
  BY NoCallType
<1>2. ~Running'
  BY <1>1 DEF Running
<1>3. RTypeOK'
  BY <1>1 DEF RTypeOK, NoConnection
<1> QED BY <1>1, <1>2, <1>3, FS_EmptySet DEF RInv, Grounded, AnswerIsAtomic

\* The invariant holds before the first call.
LEMMA RInitInv == RInit => RInv
<1> SUFFICES ASSUME RInit PROVE RInv
  OBVIOUS
<1>1. Inv
  BY InitInv DEF RInit
<1>2. call \in Call /\ call.pc = "idle" /\ call.matches = {}
  BY NoCallType DEF RInit
<1>3. ~Running
  BY <1>2 DEF Running
<1>4. RTypeOK
  BY <1>2 DEF RInit, RTypeOK, NoConnection
<1> QED BY <1>1, <1>2, <1>3, <1>4, FS_EmptySet DEF RInv, Grounded, AnswerIsAtomic

\* The steps of a call.
LEMMA StepInv ==
    ASSUME RInv, Inv', CallStep
    PROVE  RInv'
<1>1. /\ UNCHANGED database /\ Witness(seen) /\ RTypeOK
      /\ rows' = rows /\ tokenOf' = tokenOf /\ damaged' = damaged
      /\ conn \in [at : {"none", "held", "pooled", "destroyed"}, broken : BOOLEAN]
      /\ (conn.at = "held") <=> (call.pc = "scan")
      /\ conn.at = "pooled" => ~conn.broken
  BY DEF CallStep, RInv, RTypeOK, database
<1>2. ASSUME NEW answer \in {"unavailable", "canceled"}, Return(answer),
             canceled' = canceled,
             conn' \in [at : {"none", "pooled", "destroyed"}, broken : BOOLEAN],
             conn'.at = "pooled" => ~conn'.broken
      PROVE  RInv'
  <2>1. answer \in Failures /\ answer \notin Answers \cup {"integrity"}
    BY DEF Failures, Answers
  <2> QED BY <1>1, <1>2, <2>1, ReturnStep
<1>3. ASSUME call.pc # "scan", conn' = conn
      PROVE  /\ conn' \in [at : {"none", "pooled", "destroyed"}, broken : BOOLEAN]
             /\ conn'.at = "pooled" => ~conn'.broken
             /\ conn'.at # "held"
  BY <1>1, <1>3
<1>4. ASSUME NEW loaded \in [DOMAIN KeyIDs -> {"ok", "failed", "canceled"}],
             verifierCandidates(loaded)
      PROVE  RInv'
  <2>1. call.pc = "keys" /\ canceled' = canceled /\ conn' = conn /\ Running
    BY <1>4 DEF verifierCandidates, Running
  <2>2. CASE call' = [call EXCEPT !.pc = "acquire"]
    BY <1>1, <1>3, <2>1, <2>2, StageStep
  <2>3. CASE Return("canceled") \/ Return("unavailable")
    BY <1>2, <1>3, <2>1, <2>3
  <2> QED BY <1>4, <2>2, <2>3 DEF verifierCandidates
<1>5. ASSUME acquire PROVE RInv'
  <2>1. call.pc = "acquire" /\ canceled' = canceled /\ Running
    BY <1>5 DEF acquire, Running
  <2>2. CASE /\ call' = [call EXCEPT !.pc = "scan"]
             /\ conn' = [at |-> "held", broken |-> FALSE]
    BY <1>1, <2>1, <2>2, StageStep
  <2>3. CASE /\ \E answer \in {"unavailable", "canceled"} : Return(answer)
             /\ UNCHANGED conn
    BY <1>2, <1>3, <2>1, <2>3
  <2> QED BY <1>5, <2>2, <2>3 DEF acquire
<1>6. ASSUME QueryFails PROVE RInv'
  <2>1. canceled' = canceled
    BY <1>6 DEF QueryFails
  <2>2. CASE Return("unavailable") /\ finish(FALSE, FALSE)
    <3>1. conn' = [at |-> "pooled", broken |-> FALSE]
      BY <2>2 DEF finish
    <3> QED BY <1>2, <2>1, <2>2, <3>1
  <2>3. CASE \E answer \in {"unavailable", "canceled"} :
                 Return(answer) /\ finish(TRUE, TRUE)
    <3>1. conn' = [at |-> "destroyed", broken |-> TRUE]
      BY <2>3 DEF finish
    <3> QED BY <1>2, <2>1, <2>3, <3>1
  <2> QED BY <1>6, <2>2, <2>3 DEF QueryFails
<1>7. ASSUME StopCanceled PROVE RInv'
  <2>1. canceled' = canceled /\ Return("canceled")
        /\ conn' = [at |-> "destroyed", broken |-> FALSE]
    BY <1>7 DEF StopCanceled, finish
  <2> QED BY <1>2, <2>1
<1> QED BY <1>1, <1>4, <1>5, <1>6, <1>7, RowStep, NoRowsStep, FinishStep DEF CallStep, Step

\* Every step of a call and of its environment preserves it.
LEMMA RNextInv == RInv /\ [RNext]_rvars => RInv'
<1> SUFFICES ASSUME RInv, [RNext]_rvars PROVE RInv'
  OBVIOUS
<1>1. Inv /\ RTypeOK /\ [Next]_vars
  BY ResolverIsNext DEF RInv
<1>2. Inv'
  BY <1>1, NextInv
<1>3. \A r \in Records : rows[r].state # "absent" => rows'[r].state # "absent"
  BY <1>1, RowsStay
<1>4. tokenOf \in Tokenings /\ damaged \subseteq Records /\ canceled \in BOOLEAN
  BY <1>1 DEF RTypeOK
<1>5. CASE Committed
  BY <1>2, <1>3, <1>4, <1>5, QuietStep DEF Committed
<1>6. CASE CallStep
  BY <1>2, <1>6, StepInv
<1>7. CASE Cancel /\ UNCHANGED database /\ Witness(seen)
  BY <1>2, <1>3, <1>4, <1>7, QuietStep DEF Cancel, database
<1>8. ASSUME NEW token \in Presented, NEW now \in Clock,
             Begin("resolve", token, now, <<>>), UNCHANGED database, Witness({})
      PROVE  RInv'
  BY <1>2, <1>8, BeginStep
<1>9. ASSUME NEW token \in Presented, NEW new \in Records, NEW old \in Records,
             Begin("identify", token, Epoch, <<new, old>>), UNCHANGED database, Witness({})
      PROVE  RInv'
  <2>1. Epoch \in Clock
    BY DurationAssumption DEF Clock
  <2> QED BY <1>2, <1>9, <2>1, BeginStep
<1>10. CASE Forget /\ UNCHANGED database /\ seen' = {}
  BY <1>2, <1>4, <1>10, IdleInv DEF Forget, database
<1>11. CASE /\ Lifecycle /\ UNCHANGED damaged
            /\ UNCHANGED <<tokenOf, call, canceled, conn>>
            /\ Witness(seen)
  BY <1>2, <1>3, <1>4, <1>11, QuietStep
<1>12. ASSUME NEW r \in Records, Damage(r), UNCHANGED <<tokenOf, call, canceled, conn>>,
              Witness(seen)
       PROVE  RInv'
  BY <1>2, <1>3, <1>4, <1>12, QuietStep DEF Damage
<1>13. CASE UNCHANGED rvars
  <2>1. /\ call' = call /\ conn' = conn /\ canceled' = canceled /\ seen' = seen
        /\ tokenOf' = tokenOf /\ damaged' = damaged /\ rows' = rows
    BY <1>13 DEF rvars
  <2>2. RTypeOK'
    BY <1>1, <2>1 DEF RTypeOK
  <2>3. Grounded'
    <3>1. CASE Running
      BY <2>1, <3>1, SameScan
    <3>2. CASE ~Running
      BY <2>1, <3>2 DEF Grounded, Running
    <3> QED BY <3>1, <3>2
  <2>4. AnswerIsAtomic'
    BY <2>1 DEF RInv, AnswerIsAtomic, OneRecordEach
  <2>5. IsFiniteSet(call'.matches)
    BY <2>1 DEF RInv
  <2> QED BY <1>2, <2>2, <2>3, <2>4, <2>5 DEF RInv
<1> QED BY <1>5, <1>6, <1>7, <1>8, <1>9, <1>10, <1>11, <1>12, <1>13 DEF RNext

\* The inductive invariant: what a scan has found was true when it was found,
\* and rows that cannot be trusted are found out before the call answers.
THEOREM ResolverInvariance == RFairSpec => []RInv
  BY RInitInv, RNextInv, PTL DEF RFairSpec

\* A call holds a connection exactly while it scans, whatever fails, and no
\* interrupted session goes back to the pool.
THEOREM ResolverTypes == RFairSpec => []RTypeOK
<1>1. RInv => RTypeOK
  BY DEF RInv
<1> QED BY <1>1, ResolverInvariance, PTL

\* Resolve and IdentifyRotationToken answer what one transaction could have
\* answered at some instant of the call, although each key is a query of its
\* own; rows that could not be trusted all along get no definite answer.
THEOREM AtomicAnswers == RFairSpec => []AnswerIsAtomic
<1>1. RInv => AnswerIsAtomic
  BY DEF RInv
<1> QED BY <1>1, ResolverInvariance, PTL
=============================================================================
