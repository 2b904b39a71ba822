---------------------- MODULE DurableAcceptanceProofs -----------------------
(***************************************************************************)
(* Proofs about DurableAcceptance, for any attempts, identities, events,   *)
(* versions and keys: the replies agree with the table, and acceptance     *)
(* implements DeliveryLedger.                                              *)
(***************************************************************************)
EXTENDS DurableAcceptance, TLAPS

-----------------------------------------------------------------------------
(* Each action preserves the invariant.                                    *)

\* A returning attempt keeps its request and takes a known reply.
LEMMA ReturnTyped ==
    ASSUME call \in [Attempts -> Calls], NEW a \in Attempts, NEW reply \in Replies,
           Return(a, reply)
    PROVE  call' \in [Attempts -> Calls]
<1> DEFINE c == [call[a] EXCEPT !.pc = "done", !.reply = reply]
<1>1. c \in Calls
  <2>1. call[a] \in Calls
    OBVIOUS
  <2> QED
    BY <2>1 DEF Calls, Steps
<1>2. call' = [call EXCEPT ![a] = c]
  BY DEF Return
<1> HIDE DEF c
<1> QED
  BY <1>1, <1>2

\* Preparing an attempt gives it its request and touches no row.
LEMMA PrepareKeeps ==
    ASSUME Inv, NEW a \in Attempts, NEW id \in Identities, NEW event \in Events,
           NEW version \in Versions, Prepare(a, id, event, version)
    PROVE  Inv'
<1> DEFINE row == PreparedRow(a, id, event, version, keys.active)
           c == [call[a] EXCEPT !.pc = "prepared", !.id = id, !.row = row]
<1>1. TypeOK'
  <2>1. row \in Row
    BY DEF Inv, TypeOK, PreparedRow, Seal, AAD, Digest, Row
  <2> HIDE DEF row
  <2>2. c \in Calls
    BY <2>1 DEF Inv, TypeOK, Calls, Steps
  <2>3. call' = [call EXCEPT ![a] = c]
    BY DEF Prepare, row
  <2> HIDE DEF c
  <2> QED
    BY <2>2, <2>3 DEF Inv, Prepare, TypeOK
<1>2. Begun'
  BY DEF Inv, Begun, Prepare, PreparedRow, Seal, AAD, Digest, At, NoCall, TypeOK, Calls,
         Steps, Phases, Replies, Row
<1>3. StoredByAttempt'
  BY DEF Inv, Begun, StoredByAttempt, InsertExclusive, SeenIsStored, Prepare, PreparedRow,
         Seal, AAD, Digest, At, TypeOK, Calls, Steps, Phases, Replies, Row
<1>4. InsertExclusive'
  BY DEF Inv, Begun, StoredByAttempt, InsertExclusive, SeenIsStored, Waits, Prepare,
         PreparedRow, Seal, AAD, Digest, At, NoCall, TypeOK, Calls, Steps, Phases,
         Replies, Row
<1>5. SeenIsStored'
  BY DEF Inv, Begun, InsertExclusive, SeenIsStored, Prepare, PreparedRow, Seal, AAD,
         Digest, At, NoCall, TypeOK, Calls, Steps, Phases, Replies, Row
<1>6. AcceptedDurably'
  BY DEF Inv, Begun, InsertExclusive, SeenIsStored, AcceptedDurably, Content, Prepare,
         PreparedRow, Seal, AAD, Digest, At, TypeOK, Calls, Steps, Phases, Replies, Row
<1>7. ConflictIsReal'
  BY DEF Inv, Begun, InsertExclusive, SeenIsStored, ConflictIsReal, Content, Prepare,
         PreparedRow, Seal, AAD, Digest, At, TypeOK, Calls, Steps, Phases, Replies, Row
<1> QED
  BY <1>1, <1>2, <1>3, <1>4, <1>5, <1>6, <1>7 DEF Inv

\* An insert starts only where nothing is stored and nobody else inserts.
LEMMA InsertNewKeeps ==
    ASSUME Inv, NEW a \in Attempts, InsertNew(a)
    PROVE  Inv'
<1>1. TypeOK'
  BY DEF Inv, InsertNew, TypeOK, Calls, Steps, Phases, Replies
<1>2. Begun'
  BY DEF Inv, Begun, InsertNew, At, NoCall, TypeOK, Calls, Steps, Phases, Replies, Row
<1>3. StoredByAttempt'
  BY DEF Inv, Begun, StoredByAttempt, InsertExclusive, SeenIsStored, InsertNew, At,
         TypeOK, Calls, Steps, Phases, Replies, Row
<1>4. InsertExclusive'
  BY DEF Inv, Begun, StoredByAttempt, InsertExclusive, SeenIsStored, Waits, InsertNew, At,
         NoCall, TypeOK, Calls, Steps, Phases, Replies, Row
<1>5. SeenIsStored'
  BY DEF Inv, Begun, InsertExclusive, SeenIsStored, InsertNew, At, NoCall, TypeOK, Calls,
         Steps, Phases, Replies, Row
<1>6. AcceptedDurably'
  BY DEF Inv, Begun, InsertExclusive, SeenIsStored, AcceptedDurably, Content, InsertNew,
         At, TypeOK, Calls, Steps, Phases, Replies, Row
<1>7. ConflictIsReal'
  BY DEF Inv, Begun, InsertExclusive, SeenIsStored, ConflictIsReal, Content, InsertNew,
         At, TypeOK, Calls, Steps, Phases, Replies, Row
<1> QED
  BY <1>1, <1>2, <1>3, <1>4, <1>5, <1>6, <1>7 DEF Inv

\* A loaded row is the stored one.
LEMMA LoadStoredKeeps ==
    ASSUME Inv, NEW a \in Attempts, LoadStored(a)
    PROVE  Inv'
<1> DEFINE c == [call[a] EXCEPT !.pc = "loaded", !.stored = table[call[a].id]]
<1>1. TypeOK'
  <2>1. call[a].id \in Identities /\ table[call[a].id] \in Row \cup {Nothing}
    BY DEF Inv, Begun, At, LoadStored, TypeOK
  <2>2. c \in Calls
    BY <2>1 DEF Inv, TypeOK, Calls, Steps
  <2>3. call' = [call EXCEPT ![a] = c]
    BY DEF LoadStored
  <2> HIDE DEF c
  <2>4. TypeOK /\ UNCHANGED <<table, keys, server>>
    BY DEF Inv, LoadStored
  <2>5. call' \in [Attempts -> Calls]
    BY <2>2, <2>3, <2>4 DEF TypeOK
  <2> QED
    BY <2>4, <2>5 DEF TypeOK
<1>2. Begun'
  BY DEF Inv, Begun, LoadStored, At, NoCall, TypeOK, Calls, Steps, Phases, Replies, Row
<1>3. StoredByAttempt'
  BY DEF Inv, Begun, StoredByAttempt, InsertExclusive, SeenIsStored, LoadStored, At,
         TypeOK, Calls, Steps, Phases, Replies, Row
<1>4. InsertExclusive'
  BY DEF Inv, Begun, StoredByAttempt, InsertExclusive, SeenIsStored, Waits, LoadStored,
         At, NoCall, TypeOK, Calls, Steps, Phases, Replies, Row
<1>5. SeenIsStored'
  BY DEF Inv, Begun, InsertExclusive, SeenIsStored, LoadStored, At, NoCall, TypeOK, Calls,
         Steps, Phases, Replies, Row
<1>6. AcceptedDurably'
  BY DEF Inv, Begun, InsertExclusive, SeenIsStored, AcceptedDurably, Content, LoadStored,
         At, TypeOK, Calls, Steps, Phases, Replies, Row
<1>7. ConflictIsReal'
  BY DEF Inv, Begun, InsertExclusive, SeenIsStored, ConflictIsReal, Content, LoadStored,
         At, TypeOK, Calls, Steps, Phases, Replies, Row
<1> QED
  BY <1>1, <1>2, <1>3, <1>4, <1>5, <1>6, <1>7 DEF Inv

\* A failure before COMMIT leaves at most an insert that will be rolled back.
LEMMA FailBeforeCommitKeeps ==
    ASSUME Inv, NEW a \in Attempts, FailBeforeCommit(a)
    PROVE  Inv'
<1>1. TypeOK'
  BY ReturnTyped DEF Inv, FailBeforeCommit, TypeOK, Phases, Replies
<1>2. Begun'
  BY DEF Inv, Begun, FailBeforeCommit, Return, At, NoCall, TypeOK, Calls, Steps, Phases,
         Replies, Row
<1>3. StoredByAttempt'
  BY DEF Inv, Begun, StoredByAttempt, InsertExclusive, SeenIsStored, FailBeforeCommit,
         Return, At, TypeOK, Calls, Steps, Phases, Replies, Row
<1>4. InsertExclusive'
  BY DEF Inv, Begun, StoredByAttempt, InsertExclusive, SeenIsStored, Waits,
         FailBeforeCommit, Return, At, NoCall, TypeOK, Calls, Steps, Phases, Replies, Row
<1>5. SeenIsStored'
  BY DEF Inv, Begun, InsertExclusive, SeenIsStored, FailBeforeCommit, Return, At, NoCall,
         TypeOK, Calls, Steps, Phases, Replies, Row
<1>6. AcceptedDurably'
  BY DEF Inv, AcceptedDurably, Content, FailBeforeCommit, Return, TypeOK, Calls
<1>7. ConflictIsReal'
  BY DEF Inv, Begun, InsertExclusive, SeenIsStored, ConflictIsReal, Content,
         FailBeforeCommit, Return, At, TypeOK, Calls, Steps, Phases, Replies, Row
<1> QED
  BY <1>1, <1>2, <1>3, <1>4, <1>5, <1>6, <1>7 DEF Inv

\* A commit stores the attempt's row where nothing was.
LEMMA CommitKeeps ==
    ASSUME Inv, NEW a \in Attempts, Commit(a)
    PROVE  Inv'
<1>1. TypeOK'
  <2>1. call' \in [Attempts -> Calls]
    BY DEF Inv, Commit, TypeOK, Calls, Steps
  <2>2. call[a].row \in Row
    BY DEF Inv, Begun, Commit, At
  <2>3. table' \in [Identities -> Row \cup {Nothing}]
    BY <2>2 DEF Inv, Commit, TypeOK
  <2>4. server' \in [Attempts -> Phases]
    BY DEF Inv, Commit, TypeOK, Phases
  <2> QED
    BY <2>1, <2>3, <2>4 DEF Inv, Commit, TypeOK
<1>2. Begun'
  BY DEF Inv, Begun, Commit, At, NoCall, TypeOK, Calls, Steps, Phases, Replies, Row
<1>3. StoredByAttempt'
  BY DEF Inv, Begun, StoredByAttempt, InsertExclusive, SeenIsStored, Commit, At, TypeOK,
         Calls, Steps, Phases, Replies, Row
<1>4. InsertExclusive'
  BY DEF Inv, Begun, StoredByAttempt, InsertExclusive, SeenIsStored, Waits, Commit, At,
         NoCall, TypeOK, Calls, Steps, Phases, Replies, Row
<1>5. SeenIsStored'
  BY NoSuchRow
  DEF Inv, Begun, InsertExclusive, SeenIsStored, Commit, At, NoCall, TypeOK, Calls,
      Steps, Phases, Replies, Row
<1>6. AcceptedDurably'
  BY NoSuchRow
  DEF Inv, Begun, InsertExclusive, SeenIsStored, AcceptedDurably, Content, Commit, At,
      TypeOK, Calls, Steps, Phases, Replies, Row
<1>7. ConflictIsReal'
  BY NoSuchRow
  DEF Inv, Begun, InsertExclusive, SeenIsStored, ConflictIsReal, Content, Commit, At,
      TypeOK, Calls, Steps, Phases, Replies, Row
<1> QED
  BY <1>1, <1>2, <1>3, <1>4, <1>5, <1>6, <1>7 DEF Inv

\* An unacknowledged commit stays the only insert of its identity.
LEMMA CommitLostKeeps ==
    ASSUME Inv, NEW a \in Attempts, CommitLost(a)
    PROVE  Inv'
<1>1. TypeOK'
  BY ReturnTyped DEF Inv, CommitLost, TypeOK, Phases, Replies
<1>2. Begun'
  BY DEF Inv, Begun, CommitLost, Return, At, NoCall, TypeOK, Calls, Steps, Phases,
         Replies, Row
<1>3. StoredByAttempt'
  BY DEF Inv, Begun, StoredByAttempt, InsertExclusive, SeenIsStored, CommitLost, Return,
         At, TypeOK, Calls, Steps, Phases, Replies, Row
<1>4. InsertExclusive'
  BY DEF Inv, Begun, StoredByAttempt, InsertExclusive, SeenIsStored, Waits, CommitLost,
         Return, At, NoCall, TypeOK, Calls, Steps, Phases, Replies, Row
<1>5. SeenIsStored'
  BY DEF Inv, Begun, InsertExclusive, SeenIsStored, CommitLost, Return, At, NoCall,
         TypeOK, Calls, Steps, Phases, Replies, Row
<1>6. AcceptedDurably'
  BY DEF Inv, Begun, InsertExclusive, SeenIsStored, AcceptedDurably, Content, CommitLost,
         Return, At, TypeOK, Calls, Steps, Phases, Replies, Row
<1>7. ConflictIsReal'
  BY DEF Inv, Begun, InsertExclusive, SeenIsStored, ConflictIsReal, Content, CommitLost,
         Return, At, TypeOK, Calls, Steps, Phases, Replies, Row
<1> QED
  BY <1>1, <1>2, <1>3, <1>4, <1>5, <1>6, <1>7 DEF Inv

\* AcceptedNew is told about the stored row.
LEMMA AnswerNewKeeps ==
    ASSUME Inv, NEW a \in Attempts, AnswerNew(a)
    PROVE  Inv'
<1>1. TypeOK'
  BY ReturnTyped DEF Inv, AnswerNew, TypeOK, Phases, Replies
<1>2. Begun'
  BY DEF Inv, Begun, AnswerNew, Return, At, NoCall, TypeOK, Calls, Steps, Phases, Replies,
         Row
<1>3. StoredByAttempt'
  BY DEF Inv, Begun, StoredByAttempt, InsertExclusive, SeenIsStored, AnswerNew, Return,
         At, TypeOK, Calls, Steps, Phases, Replies, Row
<1>4. InsertExclusive'
  BY DEF Inv, Begun, StoredByAttempt, InsertExclusive, SeenIsStored, Waits, AnswerNew,
         Return, At, NoCall, TypeOK, Calls, Steps, Phases, Replies, Row
<1>5. SeenIsStored'
  BY DEF Inv, Begun, InsertExclusive, SeenIsStored, AnswerNew, Return, At, NoCall, TypeOK,
         Calls, Steps, Phases, Replies, Row
<1>6. AcceptedDurably'
  BY DEF Inv, Begun, InsertExclusive, SeenIsStored, AcceptedDurably, Content, AnswerNew,
         Return, At, TypeOK, Calls, Steps, Phases, Replies, Row
<1>7. ConflictIsReal'
  BY DEF Inv, Begun, InsertExclusive, SeenIsStored, ConflictIsReal, Content, AnswerNew,
         Return, At, TypeOK, Calls, Steps, Phases, Replies, Row
<1> QED
  BY <1>1, <1>2, <1>3, <1>4, <1>5, <1>6, <1>7 DEF Inv

\* A failed lookup changes only the reply.
LEMMA LoadFailsKeeps ==
    ASSUME Inv, NEW a \in Attempts, LoadFails(a)
    PROVE  Inv'
<1>1. TypeOK'
  BY ReturnTyped DEF Inv, LoadFails, TypeOK, Phases, Replies
<1>2. Begun'
  BY DEF Inv, Begun, LoadFails, Return, At, NoCall, TypeOK, Calls, Steps, Phases, Replies,
         Row
<1>3. StoredByAttempt'
  BY DEF Inv, Begun, StoredByAttempt, InsertExclusive, SeenIsStored, LoadFails, Return,
         At, TypeOK, Calls, Steps, Phases, Replies, Row
<1>4. InsertExclusive'
  BY DEF Inv, Begun, StoredByAttempt, InsertExclusive, SeenIsStored, Waits, LoadFails,
         Return, At, NoCall, TypeOK, Calls, Steps, Phases, Replies, Row
<1>5. SeenIsStored'
  BY DEF Inv, Begun, InsertExclusive, SeenIsStored, LoadFails, Return, At, NoCall, TypeOK,
         Calls, Steps, Phases, Replies, Row
<1>6. AcceptedDurably'
  BY DEF Inv, Begun, InsertExclusive, SeenIsStored, AcceptedDurably, Content, LoadFails,
         Return, At, TypeOK, Calls, Steps, Phases, Replies, Row
<1>7. ConflictIsReal'
  BY DEF Inv, Begun, InsertExclusive, SeenIsStored, ConflictIsReal, Content, LoadFails,
         Return, At, TypeOK, Calls, Steps, Phases, Replies, Row
<1> QED
  BY <1>1, <1>2, <1>3, <1>4, <1>5, <1>6, <1>7 DEF Inv

\* A duplicate or conflict is told about the stored row.
LEMMA AnswerStoredKeeps ==
    ASSUME Inv, NEW a \in Attempts, AnswerStored(a)
    PROVE  Inv'
<1>1. TypeOK'
  BY ReturnTyped DEF Inv, AnswerStored, TypeOK, Phases, Replies
<1>2. Begun'
  BY DEF Inv, Begun, AnswerStored, Return, At, NoCall, TypeOK, Calls, Steps, Phases,
         Replies, Row
<1>3. StoredByAttempt'
  BY DEF Inv, Begun, StoredByAttempt, InsertExclusive, SeenIsStored, AnswerStored, Return,
         At, TypeOK, Calls, Steps, Phases, Replies, Row
<1>4. InsertExclusive'
  BY DEF Inv, Begun, StoredByAttempt, InsertExclusive, SeenIsStored, Waits, AnswerStored,
         Return, At, NoCall, TypeOK, Calls, Steps, Phases, Replies, Row
<1>5. SeenIsStored'
  BY DEF Inv, Begun, InsertExclusive, SeenIsStored, AnswerStored, Return, At, NoCall,
         TypeOK, Calls, Steps, Phases, Replies, Row
<1>6. AcceptedDurably'
  BY DEF Inv, Begun, InsertExclusive, SeenIsStored, AcceptedDurably, Content,
         AnswerStored, Return, At, TypeOK, Calls, Steps, Phases, Replies, Row
<1>7. ConflictIsReal'
  BY DEF Inv, Begun, InsertExclusive, SeenIsStored, ConflictIsReal, Content, AnswerStored,
         Return, At, TypeOK, Calls, Steps, Phases, Replies, Row
<1> QED
  BY <1>1, <1>2, <1>3, <1>4, <1>5, <1>6, <1>7 DEF Inv

\* A crash dooms an open transaction.
LEMMA CrashKeeps ==
    ASSUME Inv, NEW a \in Attempts, Crash(a)
    PROVE  Inv'
<1>1. TypeOK'
  BY ReturnTyped DEF Inv, Crash, TypeOK, Phases, Replies
<1>2. Begun'
  BY DEF Inv, Begun, Crash, Return, At, NoCall, TypeOK, Calls, Steps, Phases, Replies, Row
<1>3. StoredByAttempt'
  BY DEF Inv, Begun, StoredByAttempt, InsertExclusive, SeenIsStored, Crash, Return, At,
         TypeOK, Calls, Steps, Phases, Replies, Row
<1>4. InsertExclusive'
  BY DEF Inv, Begun, StoredByAttempt, InsertExclusive, SeenIsStored, Waits, Crash, Return,
         At, NoCall, TypeOK, Calls, Steps, Phases, Replies, Row
<1>5. SeenIsStored'
  BY DEF Inv, Begun, InsertExclusive, SeenIsStored, Crash, Return, At, NoCall, TypeOK,
         Calls, Steps, Phases, Replies, Row
<1>6. AcceptedDurably'
  BY DEF Inv, Begun, InsertExclusive, SeenIsStored, AcceptedDurably, Content, Crash,
         Return, At, TypeOK, Calls, Steps, Phases, Replies, Row
<1>7. ConflictIsReal'
  BY DEF Inv, Begun, InsertExclusive, SeenIsStored, ConflictIsReal, Content, Crash,
         Return, At, TypeOK, Calls, Steps, Phases, Replies, Row
<1> QED
  BY <1>1, <1>2, <1>3, <1>4, <1>5, <1>6, <1>7 DEF Inv

\* A late commit stores the row where nothing was.
LEMMA ServerCommitsKeeps ==
    ASSUME Inv, NEW a \in Attempts, ServerCommits(a)
    PROVE  Inv'
<1>1. TypeOK'
  BY DEF Inv, Begun, InsertExclusive, ServerCommits, TypeOK, Phases
<1>2. Begun'
  BY DEF Inv, Begun, ServerCommits, At, NoCall, TypeOK, Calls, Steps, Phases, Replies, Row
<1>3. StoredByAttempt'
  BY DEF Inv, Begun, StoredByAttempt, InsertExclusive, SeenIsStored, ServerCommits, At,
         TypeOK, Calls, Steps, Phases, Replies, Row
<1>4. InsertExclusive'
  BY DEF Inv, Begun, StoredByAttempt, InsertExclusive, SeenIsStored, Waits, ServerCommits,
         At, NoCall, TypeOK, Calls, Steps, Phases, Replies, Row
<1>5. SeenIsStored'
  BY NoSuchRow
  DEF Inv, Begun, InsertExclusive, SeenIsStored, ServerCommits, At, NoCall, TypeOK,
      Calls, Steps, Phases, Replies, Row
<1>6. AcceptedDurably'
  BY NoSuchRow
  DEF Inv, Begun, InsertExclusive, SeenIsStored, AcceptedDurably, Content,
      ServerCommits, At, TypeOK, Calls, Steps, Phases, Replies, Row
<1>7. ConflictIsReal'
  BY NoSuchRow
  DEF Inv, Begun, InsertExclusive, SeenIsStored, ConflictIsReal, Content, ServerCommits,
      At, TypeOK, Calls, Steps, Phases, Replies, Row
<1> QED
  BY <1>1, <1>2, <1>3, <1>4, <1>5, <1>6, <1>7 DEF Inv

\* A late abort only ends the insert.
LEMMA ServerAbortsKeeps ==
    ASSUME Inv, NEW a \in Attempts, ServerAborts(a)
    PROVE  Inv'
<1>1. TypeOK'
  BY DEF Inv, ServerAborts, TypeOK, Steps, Phases, Replies
<1>2. /\ UNCHANGED <<table, call>> /\ server[a] \in {"inDoubt", "doomed"} /\ server'[a] = "none"
      /\ \A b \in Attempts \ {a} : server'[b] = server[b]
  BY DEF Inv, ServerAborts, TypeOK
<1>3. \A b \in Attempts : server'[b] # "none" => server[b] # "none" /\ server'[b] = server[b]
  BY <1>2
<1>4. Begun'
  BY <1>2, <1>3 DEF Inv, Begun
<1>5. StoredByAttempt'
  <2>1. \A id \in Identities : table[id] # Nothing => table[id].receipt \in Attempts
    BY DEF Inv, TypeOK, Row
  <2> QED
    BY <1>2, <1>3, <2>1 DEF Inv, StoredByAttempt
<1>6. InsertExclusive'
  BY <1>2, <1>3 DEF Inv, InsertExclusive, Waits
<1>7. SeenIsStored'
  BY <1>2 DEF Inv, SeenIsStored
<1>8. AcceptedDurably' /\ ConflictIsReal'
  BY <1>2 DEF Inv, AcceptedDurably, ConflictIsReal
<1> QED
  BY <1>1, <1>4, <1>5, <1>6, <1>7, <1>8 DEF Inv

\* A step that touches no row, attempt or transaction.
LEMMA UntouchedKeeps ==
    ASSUME Inv, UNCHANGED <<table, call, server>>,
           keys' \in [active : Keys, known : SUBSET Keys]
    PROVE  Inv'
<1>1. TypeOK'
  BY DEF Inv, TypeOK
<1>2. Begun' /\ StoredByAttempt'
  BY DEF Inv, Begun, StoredByAttempt
<1>3. InsertExclusive' /\ SeenIsStored'
  BY DEF Inv, InsertExclusive, Waits, SeenIsStored
<1>4. AcceptedDurably' /\ ConflictIsReal'
  BY DEF Inv, AcceptedDurably, ConflictIsReal
<1> QED
  BY <1>1, <1>2, <1>3, <1>4 DEF Inv

\* Keys come and go without touching rows, attempts or transactions.
LEMMA ChangeKeysKeeps ==
    ASSUME Inv, NEW active \in Keys, NEW known \in SUBSET Keys, ChangeKeys(active, known)
    PROVE  Inv'
BY UntouchedKeeps DEF ChangeKeys

\* The invariant holds before the first attempt.
LEMMA InitInv == Init => Inv
<1> SUFFICES ASSUME Init PROVE Inv
  OBVIOUS
<1>1. TypeOK
  BY DEF Init, TypeOK, Calls, NoCall, Steps, Phases, Replies
<1>2. /\ \A id \in Identities : table[id] = Nothing
      /\ \A a \in Attempts : call[a] = NoCall /\ server[a] = "none"
  BY DEF Init
<1>3. NoCall.pc = "unborn" /\ NoCall.reply = "none" /\ NoCall.stored = Nothing
  BY DEF NoCall
<1>4. Begun /\ StoredByAttempt /\ InsertExclusive
  BY <1>2, <1>3 DEF Begun, StoredByAttempt, InsertExclusive
<1>5. SeenIsStored /\ AcceptedDurably /\ ConflictIsReal
  BY <1>2, <1>3 DEF SeenIsStored, AcceptedDurably, ConflictIsReal
<1> QED
  BY <1>1, <1>4, <1>5 DEF Inv

\* Every step of every attempt, of the server and of the key source keeps it.
LEMMA NextInv == Inv /\ [Next]_vars => Inv'
<1> SUFFICES ASSUME Inv, [Next]_vars
             PROVE  Inv'
  OBVIOUS
<1>1. ASSUME NEW a \in Attempts, NEW id \in Identities, NEW event \in Events,
             NEW version \in Versions, Prepare(a, id, event, version)
      PROVE  Inv'
  BY <1>1, PrepareKeeps
<1>2. ASSUME NEW a \in Attempts, Step(a)
      PROVE  Inv'
  BY <1>2, InsertNewKeeps, LoadStoredKeeps, CommitKeeps, CommitLostKeeps,
     AnswerNewKeeps, LoadFailsKeeps, AnswerStoredKeeps DEF Step
<1>3. ASSUME NEW a \in Attempts,
             FailBeforeCommit(a) \/ Crash(a) \/ ServerCommits(a) \/ ServerAborts(a)
      PROVE  Inv'
  BY <1>3, FailBeforeCommitKeeps, CrashKeeps, ServerCommitsKeeps, ServerAbortsKeeps
<1>4. ASSUME NEW active \in Keys, NEW known \in SUBSET Keys, ChangeKeys(active, known)
      PROVE  Inv'
  BY <1>4, ChangeKeysKeeps
<1>5. CASE UNCHANGED vars
  BY <1>5, UntouchedKeeps DEF vars, Inv, TypeOK
<1> QED
  BY <1>1, <1>2, <1>3, <1>4, <1>5 DEF Next

-----------------------------------------------------------------------------
(* The refinement of DeliveryLedger.                                       *)

\* A row's content and receipt are those of a ledger entry.
LEMMA RowContent ==
    ASSUME NEW row \in Row
    PROVE  /\ Content(row) \in Contents
           /\ row # Nothing
           /\ [content |-> Content(row), receipt |-> row.receipt] # Nothing
<1>1. Content(row) \in Contents /\ row.receipt \in Attempts
  BY DEF Row, Digest, Content, Contents
<1> QED
  BY <1>1, NoSuchRow

\* Every definite reply is a true answer about the table.
LEMMA AnswersTruthful ==
    ASSUME Inv, NEW a \in Attempts, Answered[a] # Nothing
    PROVE  Ledger!Truthful(Recorded, a, Answered[a])
<1> DEFINE id == call[a].id
           row == call[a].row
           reply == call[a].reply
<1>1. reply \notin {"none", "unknown"} /\ Answered[a] = Told(a)
  BY DEF Answered, Told
<1>2. /\ id \in Identities /\ row \in Row /\ row.receipt = a
      /\ Answered[a].id = id /\ Answered[a].content = Content(row)
      /\ Answered[a].kind = reply
  BY <1>1 DEF Inv, Begun, NoCall, Told
<1>3. CASE reply = "new"
  <2>1. Recorded[id] = [content |-> Content(row), receipt |-> a]
    BY <1>2, <1>3, RowContent DEF Inv, AcceptedDurably, Recorded
  <2> QED
    BY <1>2, <1>3, <2>1 DEF Ledger!Truthful, Ledger!Entry
<1>4. CASE reply = "duplicate"
  <2>1. /\ table[id] # Nothing /\ table[id] = call[a].stored
        /\ Content(call[a].stored) = Content(row)
    BY <1>2, <1>4 DEF Inv, SeenIsStored, AcceptedDurably
  <2>2. Answered[a].receipt = call[a].stored.receipt
    BY <1>1, <1>4 DEF Told
  <2>3. Recorded[id] = [content |-> Content(row), receipt |-> call[a].stored.receipt]
    BY <1>2, <2>1 DEF Recorded
  <2> QED
    BY <1>2, <1>4, <2>2, <2>3 DEF Ledger!Truthful, Ledger!Entry
<1>5. CASE reply = "conflict"
  <2>1. table[id] # Nothing /\ Content(table[id]) # Content(row) /\ table[id] \in Row
    BY <1>2, <1>5 DEF Inv, TypeOK, ConflictIsReal
  <2>2. Recorded[id] = [content |-> Content(table[id]), receipt |-> table[id].receipt]
    BY <1>2, <2>1 DEF Recorded
  <2>3. Recorded[id] # Nothing /\ Recorded[id].content # Content(row)
    BY <2>1, <2>2, RowContent
  <2> QED
    BY <1>2, <1>5, <2>3 DEF Ledger!Truthful
<1>6. CASE reply = "refused"
  <2>1. ASSUME NEW i \in Identities, Recorded[i] # Nothing
        PROVE  Recorded[i].receipt # a
    <3>1. table[i] # Nothing /\ Recorded[i].receipt = table[i].receipt
      BY <2>1 DEF Recorded
    <3> QED
      BY <1>6, <3>1 DEF Inv, StoredByAttempt
  <2> QED
    BY <1>2, <1>6, <2>1 DEF Ledger!Truthful
<1> QED
  BY <1>1, <1>2, <1>3, <1>4, <1>5, <1>6 DEF Inv, TypeOK, Calls, Replies

\* Every definite reply given so far is true of the table.
AnswersTrue ==
    \A a \in Attempts :
        Answered[a] # Nothing => Ledger!Truthful(Recorded, a, Answered[a])

\* The replies of Accept are true before and after every step.
LEMMA AllTruthful == (Inv => AnswersTrue) /\ (Inv' => AnswersTrue')
<1>1. Inv => AnswersTrue
  BY AnswersTruthful DEF AnswersTrue
<1> QED
  BY <1>1, PTL

\* A commit, acknowledged or late, records a delivery.
LEMMA CommitRecords ==
    ASSUME Inv, Inv', NEW a \in Attempts, call[a].pc # "unborn",
           table[call[a].id] = Nothing,
           table' = [table EXCEPT ![call[a].id] = call[a].row],
           \A b \in Attempts : Told(b)' = Told(b)
    PROVE  Ledger!LedgerNext
<1> DEFINE id == call[a].id
           content == Content(call[a].row)
<1>1. id \in Identities /\ call[a].row \in Row /\ call[a].row.receipt = a
  BY DEF Inv, Begun
<1>2. content \in Contents /\ call[a].row # Nothing
  BY <1>1, RowContent
<1>3. Recorded' = [Recorded EXCEPT ![id] = Ledger!Entry(content, a)]
  BY <1>1, <1>2 DEF Recorded, Ledger!Entry, Inv, TypeOK
<1>4. Recorded[id] = Nothing
  BY <1>1 DEF Recorded
<1>5. Answered' = Answered
  BY DEF Answered
<1>6. ASSUME NEW b \in Attempts, Answered[b] # Nothing
      PROVE  Ledger!Truthful(Recorded', b, Answered[b])
  <2>1. AnswersTrue'
    BY AllTruthful
  <2> QED
    BY <1>5, <1>6, <2>1 DEF AnswersTrue, Ledger!Truthful
<1>7. Ledger!Record(id, content, a)
  BY <1>3, <1>4, <1>5, <1>6 DEF Ledger!Record
<1> QED
  BY <1>1, <1>2, <1>7 DEF Ledger!LedgerNext

\* A step that returns from Accept and leaves the table alone is an answer of
\* the ledger, or nothing when the reply claims no outcome.
LEMMA ReturnAnswers ==
    ASSUME Inv, Inv', NEW a \in Attempts, NEW reply \in Replies,
           call[a].pc \notin {"unborn", "done"}, Return(a, reply), table' = table
    PROVE  [Ledger!LedgerNext]_<<Recorded, Answered>>
<1>1. call \in [Attempts -> Calls] /\ call[a].reply = "none"
  BY DEF Inv, TypeOK, SeenIsStored, Calls, Replies
<1>2. Recorded' = Recorded
  BY DEF Recorded
<1>3. \A b \in Attempts \ {a} : Told(b)' = Told(b)
  BY <1>1 DEF Return, Told
<1>4. Answered[a] = Nothing
  BY <1>1 DEF Answered, Told
<1>5. Answered' = [Answered EXCEPT ![a] = Told(a)']
  BY <1>3 DEF Answered
<1>6. CASE Told(a)' = Nothing
  BY <1>2, <1>4, <1>5, <1>6 DEF Answered
<1>7. CASE Told(a)' # Nothing
  <2>1. AnswersTrue'
    BY AllTruthful
  <2>2. Answered'[a] = Told(a)'
    BY <1>5 DEF Answered
  <2>3. Ledger!Truthful(Recorded, a, Told(a)')
    BY <1>2, <1>7, <2>1, <2>2 DEF AnswersTrue, Ledger!Truthful
  <2>4. Ledger!Answer(a, Told(a)')
    BY <1>2, <1>4, <1>5, <2>3 DEF Ledger!Answer
  <2>5. Told(a)' \in Ledger!Answers
    <3>1. call'[a].reply \in Replies \ {"none", "unknown"}
      BY <1>7 DEF Told, Inv, TypeOK, Calls
    <3>2. call'[a].pc = "done"
      BY <1>1 DEF Return, Calls
    <3>3. call'[a].id \in Identities /\ call'[a].row \in Row
      BY <3>2 DEF Inv, Begun
    <3>4. Content(call'[a].row) \in Contents
      BY <3>3, RowContent
    <3>5. call'[a].reply = "duplicate" => call'[a].stored.receipt \in Attempts
      <4>1. SUFFICES ASSUME call'[a].reply = "duplicate"
                     PROVE  call'[a].stored.receipt \in Attempts
        OBVIOUS
      <4>2. call'[a].stored \in Row
        BY <3>3, <4>1 DEF Inv, SeenIsStored, TypeOK
      <4> QED
        BY <4>2 DEF Row
    <3> QED
      BY <3>1, <3>3, <3>4, <3>5 DEF Told, Content, Replies, Ledger!Answers
  <2> QED
    BY <2>4, <2>5 DEF Ledger!LedgerNext
<1> QED
  BY <1>6, <1>7

\* A step that leaves the table and every reply alone is not seen by the ledger.
LEMMA SilentStep ==
    ASSUME table' = table, \A b \in Attempts : Told(b)' = Told(b)
    PROVE  [Ledger!LedgerNext]_<<Recorded, Answered>>
  BY DEF Recorded, Answered

\* Every step of Accept calls, server and key source is a ledger step.
LEMMA StepImplements ==
    Inv /\ Inv' /\ [Next]_vars => [Ledger!LedgerNext]_<<Recorded, Answered>>
<1> SUFFICES ASSUME Inv, Inv', [Next]_vars
             PROVE  [Ledger!LedgerNext]_<<Recorded, Answered>>
  OBVIOUS
<1>0. call \in [Attempts -> Calls] /\ table \in [Identities -> Row \cup {Nothing}]
  BY DEF Inv, TypeOK
<1>1. ASSUME NEW a \in Attempts, NEW id \in Identities, NEW event \in Events,
             NEW version \in Versions, Prepare(a, id, event, version)
      PROVE  [Ledger!LedgerNext]_<<Recorded, Answered>>
  <2>1. call[a].reply = "none"
    BY <1>1 DEF Prepare, At, Inv, SeenIsStored
  <2>2. \A b \in Attempts : Told(b)' = Told(b)
    BY <1>0, <1>1, <2>1 DEF Prepare, Told, Calls
  <2> QED
    BY <1>1, <2>2, SilentStep DEF Prepare
<1>2. ASSUME NEW a \in Attempts, InsertNew(a) \/ LoadStored(a)
      PROVE  [Ledger!LedgerNext]_<<Recorded, Answered>>
  <2>1. call[a].reply = "none"
    BY <1>2 DEF InsertNew, LoadStored, At, Inv, SeenIsStored
  <2>2. \A b \in Attempts : Told(b)' = Told(b)
    BY <1>0, <1>2, <2>1 DEF InsertNew, LoadStored, Told, Calls
  <2> QED
    BY <1>2, <2>2, SilentStep DEF InsertNew, LoadStored
<1>3. ASSUME NEW a \in Attempts, Commit(a)
      PROVE  [Ledger!LedgerNext]_<<Recorded, Answered>>
  <2>1. call[a].reply = "none" /\ call[a].pc = "inserted" /\ server[a] = "open"
    BY <1>3 DEF Commit, At, Inv, SeenIsStored
  <2>2. \A b \in Attempts : Told(b)' = Told(b)
    BY <1>0, <1>3, <2>1 DEF Commit, Told, Calls
  <2>3. table[call[a].id] = Nothing
    BY <2>1 DEF Inv, InsertExclusive
  <2> QED
    BY <1>3, <2>1, <2>2, <2>3, CommitRecords DEF Commit
<1>4. ASSUME NEW a \in Attempts, ServerCommits(a)
      PROVE  [Ledger!LedgerNext]_<<Recorded, Answered>>
  <2>1. call[a].pc # "unborn" /\ table[call[a].id] = Nothing
    BY <1>4 DEF ServerCommits, Inv, InsertExclusive
  <2>2. \A b \in Attempts : Told(b)' = Told(b)
    BY <1>4 DEF ServerCommits, Told
  <2> QED
    BY <1>4, <2>1, <2>2, CommitRecords DEF ServerCommits
<1>5. ASSUME NEW a \in Attempts,
             \/ CommitLost(a) \/ AnswerNew(a) \/ LoadFails(a) \/ AnswerStored(a)
             \/ FailBeforeCommit(a) \/ Crash(a)
      PROVE  [Ledger!LedgerNext]_<<Recorded, Answered>>
  <2>1. PICK reply \in Replies : Return(a, reply)
    BY <1>5 DEF CommitLost, AnswerNew, LoadFails, AnswerStored, FailBeforeCommit, Crash,
                Replies
  <2>2. call[a].pc \notin {"unborn", "done"} /\ table' = table
    BY <1>5 DEF CommitLost, AnswerNew, LoadFails, AnswerStored, FailBeforeCommit, Crash, At
  <2> QED
    BY <2>1, <2>2, ReturnAnswers
<1>6. CASE \/ \E a \in Attempts : ServerAborts(a)
           \/ \E active \in Keys, known \in SUBSET Keys : ChangeKeys(active, known)
           \/ UNCHANGED vars
  <2>1. table' = table /\ call' = call
    BY <1>6 DEF ServerAborts, ChangeKeys, vars
  <2> QED
    BY <2>1, SilentStep DEF Told
<1> QED
  BY <1>1, <1>2, <1>3, <1>4, <1>5, <1>6 DEF Next, Step

-----------------------------------------------------------------------------
(* Theorems.                                                               *)

\* The inductive invariant holds in every reachable state of Accept calls,
\* commits, lost commits, crashes and key changes.
THEOREM Invariance == Spec => []Inv
<1>1. Init => Inv
  BY InitInv
<1>2. Inv /\ [Next]_vars => Inv'
  BY NextInv
<1> QED
  BY <1>1, <1>2, PTL DEF Spec

\* Type correctness.
THEOREM TypeCorrect == Spec => []TypeOK
<1>1. Inv => TypeOK
  BY DEF Inv
<1> QED
  BY <1>1, Invariance, PTL

\* AcceptedNew and AcceptedDuplicate are told only about the stored delivery.
THEOREM AcceptanceIsDurable == Spec => []AcceptedDurably
<1>1. Inv => AcceptedDurably
  BY DEF Inv
<1> QED
  BY <1>1, Invariance, PTL

\* IdentityConflict is told only about a different stored delivery.
THEOREM ConflictsAreReal == Spec => []ConflictIsReal
<1>1. Inv => ConflictIsReal
  BY DEF Inv
<1> QED
  BY <1>1, Invariance, PTL

\* A definite error from Accept means that this call never stores anything.
THEOREM RefusalsAreDefinite == Spec => []RefusedNeverStored
<1>1. Inv => RefusedNeverStored
  BY DEF Inv, StoredByAttempt, InsertExclusive, RefusedNeverStored, TypeOK
<1> QED
  BY <1>1, Invariance, PTL

\* The table and the answers of Accept behave like the ledger: a delivery is
\* recorded once, never rewritten, and no answer is contradicted later.
THEOREM LedgerRefinement == Spec => ImplementsLedger
<1>1. Init => Ledger!LedgerInit
  BY DEF Init, NoCall, Ledger!LedgerInit, Recorded, Answered, Told
<1>2. Inv /\ Inv' /\ [Next]_vars => [Ledger!LedgerNext]_<<Recorded, Answered>>
  BY StepImplements
<1> QED
  BY <1>1, <1>2, Invariance, PTL DEF Spec, ImplementsLedger, Ledger!LedgerSpec
=============================================================================
