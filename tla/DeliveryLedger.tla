--------------------------- MODULE DeliveryLedger ---------------------------
(***************************************************************************)
(* What durable acceptance promises to Core, without transactions, keys or *)
(* failures.  A delivery is recorded at most once per identity and never   *)
(* changes; every answer is true of the ledger when it is given and stays  *)
(* true afterwards.  An attempt that ends without a definite answer may or *)
(* may not have been recorded.                                             *)
(***************************************************************************)
CONSTANTS Attempts, Identities, Contents, Nothing

VARIABLES
    ledger,    \* ledger[id]: Nothing, or the accepted content and its receipt
    answers    \* answers[a]: Nothing, or what attempt a asked and was told

Entry(content, receipt) == [content |-> content, receipt |-> receipt]

Answers == [id : Identities, content : Contents,
            kind : {"new", "duplicate", "conflict", "refused"},
            receipt : Attempts \cup {Nothing}]

\* The answer given to a is true of the ledger l.  Receipts are attempts.
Truthful(l, a, answer) ==
    /\ answer.kind = "new" => l[answer.id] = Entry(answer.content, a)
    /\ answer.kind = "duplicate" =>
          l[answer.id] = Entry(answer.content, answer.receipt)
    /\ answer.kind = "conflict" =>
          l[answer.id] # Nothing /\ l[answer.id].content # answer.content
    /\ answer.kind = "refused" =>
          \A id \in Identities : l[id] # Nothing => l[id].receipt # a

Record(id, content, a) ==
    /\ ledger[id] = Nothing
    /\ ledger' = [ledger EXCEPT ![id] = Entry(content, a)]
    /\ \A b \in Attempts : answers[b] # Nothing => Truthful(ledger', b, answers[b])
    /\ UNCHANGED answers

Answer(a, answer) ==
    /\ answers[a] = Nothing
    /\ Truthful(ledger, a, answer)
    /\ answers' = [answers EXCEPT ![a] = answer]
    /\ UNCHANGED ledger

LedgerInit ==
    /\ ledger = [id \in Identities |-> Nothing]
    /\ answers = [a \in Attempts |-> Nothing]

LedgerNext ==
    \E a \in Attempts :
        \/ \E id \in Identities, content \in Contents : Record(id, content, a)
        \/ \E answer \in Answers : Answer(a, answer)

LedgerSpec == LedgerInit /\ [][LedgerNext]_<<ledger, answers>>
=============================================================================
