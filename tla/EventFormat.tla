---------------------------- MODULE EventFormat -----------------------------
(***************************************************************************)
(* Webhook events between JSON and the canonical format: decodeEvent       *)
(* (httpapi/decode.go) and CanonicalizeEvent (canonical.go).               *)
(*                                                                         *)
(* A document is a JSON value as written: members keep their order and     *)
(* their duplicates, strings keep how they are spelled.  What a string     *)
(* says is its content, abstracted to what the code looks at: its lengths, *)
(* whether it is printable ASCII, and its form, the pattern or the word    *)
(* that it matches.  JsonStrings has the spelling of strings in detail.    *)
(*                                                                         *)
(* Go iterates over a map in any order, so both functions take the order   *)
(* of the iteration over Meta as an argument.                              *)
(***************************************************************************)
EXTENDS Naturals, Sequences, FiniteSets, SequencesExt

CONSTANTS
    MaxInt64,      \* the largest int64
    MaxBodyBytes

\* A content: id tells contents apart and is their order as keys; short and
\* long are the lengths of its shortest and its longest JSON spelling.
Content == [id : Nat, bytes : Nat, runes : Nat, short : Nat, long : Nat,
            printable : BOOLEAN, form : STRING]

\* A word of the format.
Word(form) == [id |-> 0, bytes |-> Len(form), runes |-> Len(form), short |-> Len(form),
               long |-> 6 * Len(form), printable |-> TRUE, form |-> form]

String(c) == [kind |-> "string", content |-> c, paired |-> TRUE, spelling |-> "short"]

Number(digits) == [kind |-> "number", digits |-> digits, integer |-> TRUE]

Object(members) == [kind |-> "object", members |-> members]

Array(elements) == [kind |-> "array", elements |-> elements]

Null == [kind |-> "null"]

Document(members) == [value |-> Object(members), trailing |-> FALSE, utf8 |-> TRUE]

\* The names of an object's members are contents too.
Names(members) == {members[k][1] : k \in DOMAIN members}

Words(forms) == {Word(form) : form \in forms}

-----------------------------------------------------------------------------
(* decode.go.                                                              *)

\* Mutant: duplicate names are looked for at the top only.
consumeTop(v) == v.kind = "object" => Cardinality(Names(v.members)) = Len(v.members)

\* consumeValue and consumeObject: no object at any depth repeats a name.
RECURSIVE consumeValue(_)
consumeValue(v) ==
    /\ v.kind = "object" =>
          /\ Cardinality(Names(v.members)) = Len(v.members)
          /\ \A k \in DOMAIN v.members : consumeValue(v.members[k][2])
    /\ v.kind = "array" => \A k \in DOMAIN v.elements : consumeValue(v.elements[k])

validateJSONObject(doc) ==
    doc.value.kind = "object" /\ consumeValue(doc.value) /\ ~doc.trailing

\* json.Unmarshal into a map.
Fields(members) ==
    [n \in Names(members) |-> members[CHOOSE k \in DOMAIN members : members[k][1] = n][2]]

\* What a required string, integer or object decodes to: a set with the value,
\* or nothing.
requiredString(v) == IF v.kind = "string" /\ v.paired THEN {v.content} ELSE {}

ParseInt(digits) == FoldLeft(LAMBDA n, d : 10 * n + d, 0, digits)

requiredPositiveInt(v) ==
    IF v.kind = "number" /\ v.integer /\ v.digits[1] # 0 /\ ParseInt(v.digits) <= MaxInt64
    THEN {ParseInt(v.digits)} ELSE {}

\* Mutant: Meta is cut off at its limit.
MetaEntryCut(s, key, values) ==
    IF ~s.ok \/ s.size + key.bytes > 32768 THEN s
    ELSE IF values = {} THEN [s EXCEPT !.ok = FALSE]
    ELSE [ok |-> TRUE, meta |-> s.meta \cup {<<key, CHOOSE c \in values : TRUE>>},
          size |-> s.size + key.bytes + (CHOOSE c \in values : TRUE).bytes]

\* One round of the loop over Meta; the first error ends it.
MetaEntry(s, key, values) ==
    IF ~s.ok \/ key.bytes \notin 1..255 \/ ~key.printable \/ values = {}
    THEN [s EXCEPT !.ok = FALSE]
    ELSE LET c == CHOOSE c \in values : TRUE
             size == s.size + key.bytes + c.bytes
         IN  [ok |-> size <= 32768, size |-> size, meta |-> s.meta \cup {<<key, c>>}]

\* A map is the set of its pairs.
requiredMeta(v, order) ==
    IF v.kind # "object" THEN {}
    ELSE LET s == FoldLeft(LAMBDA t, k : MetaEntry(t, v.members[k][1], requiredString(v.members[k][2])),
                           [ok |-> TRUE, size |-> 0, meta |-> {}], order)
         IN  IF s.ok THEN {s.meta} ELSE {}

\* The checks of the decode functions on a string field.
ValidString(name, c) ==
    CASE name = "AppName" -> c.bytes \in 1..32 /\ c.printable
      [] name = "Code" -> c.form = "digits"
      [] name = "Summary" -> c.runes <= 1024
      [] name = "Details" -> c.runes <= 6144
      [] name = "ServiceID" -> c.form = "uuid"
      [] name = "ServiceName" -> c.bytes \in 2..64 /\ c.printable /\ c.form = "service name"
      [] name = "LogEntry" -> c.bytes > 0
      [] name = "AlertState" -> c.form \in {"Unacknowledged", "Acknowledged", "Closed"}
      [] name = "Type" -> TRUE

DecodeField(name, v, order) ==
    CASE name = "AlertID" -> requiredPositiveInt(v)
      [] name = "Meta" -> requiredMeta(v, order)
      [] OTHER -> {c \in requiredString(v) : ValidString(name, c)}

ExactFields ==
    [Test |-> {"AppName", "Type"},
     Verification |-> {"AppName", "Type", "Code"},
     Alert |-> {"AppName", "Type", "AlertID", "Summary", "Details", "ServiceID", "ServiceName", "Meta"},
     AlertStatus |-> {"AppName", "Type", "AlertID", "LogEntry", "AlertState"}]

Rejected(verdict) == [verdict |-> verdict, event |-> {}]

\* decodeTest, decodeVerification, decodeAlert and decodeAlertStatus.
DecodeAs(type, fields, order) ==
    LET Decoded(n) == DecodeField(n, fields[Word(n)], order)
    IN  IF \/ DOMAIN fields # Words(ExactFields[type])
           \/ \E n \in ExactFields[type] : Decoded(n) = {}
        THEN Rejected("invalid")
        ELSE [verdict |-> "event",
              event |-> {[type |-> type,
                          fields |-> [n \in ExactFields[type] \ {"Type"} |->
                                        CHOOSE x \in Decoded(n) : TRUE]]}]

decodeEvent(doc, order) ==
    IF ~doc.utf8 \/ ~validateJSONObject(doc) THEN Rejected("invalid")
    ELSE LET fields == Fields(doc.value.members)
             type == UNION {requiredString(fields[n]) : n \in DOMAIN fields \cap Words({"Type"})}
         IN  IF type = {} THEN Rejected("invalid")
             ELSE LET form == (CHOOSE c \in type : TRUE).form
                  IN  IF form \in DOMAIN ExactFields THEN DecodeAs(form, fields, order)
                      ELSE Rejected("unsupported")

-----------------------------------------------------------------------------
(* canonical.go.                                                           *)

\* Mutant: a field that may be empty is left out.
OrderWithoutDetails ==
    [Test |-> <<"AppName", "Type">>,
     Verification |-> <<"AppName", "Type", "Code">>,
     Alert |-> <<"AppName", "Type", "AlertID", "Summary", "ServiceID", "ServiceName", "Meta">>,
     AlertStatus |-> <<"AppName", "Type", "AlertID", "LogEntry", "AlertState">>]

\* The fixed order of the fields.
CanonicalOrder ==
    [Test |-> <<"AppName", "Type">>,
     Verification |-> <<"AppName", "Type", "Code">>,
     Alert |-> <<"AppName", "Type", "AlertID", "Summary", "Details", "ServiceID", "ServiceName", "Meta">>,
     AlertStatus |-> <<"AppName", "Type", "AlertID", "LogEntry", "AlertState">>]

\* Mutant: a buffer for two digits.
AppendIntTwo(n) == IF n < 10 THEN <<n>> ELSE <<(n \div 10) % 10, n % 10>>

RECURSIVE AppendInt(_)
AppendInt(n) == IF n < 10 THEN <<n>> ELSE Append(AppendInt(n \div 10), n % 10)

\* appendCanonicalString: there is one canonical spelling of a content.
Canonical(c) == [String(c) EXCEPT !.spelling = "canonical"]

\* sort.Strings over the keys in the order in which the map gave them.
SortedMeta(pairs) == SortSeq(pairs, LAMBDA p, q : p[1].id < q[1].id)

\* The pairs of a map in one of the orders of an iteration.
Iteration(meta, order) ==
    LET pairs == SetToSortSeq(meta, LAMBDA p, q : p[1].id < q[1].id)
    IN  [k \in DOMAIN pairs |-> pairs[order[k]]]

canonicalMeta(meta, order) ==
    LET pairs == SortedMeta(Iteration(meta, order))
    IN  Object([k \in DOMAIN pairs |-> <<pairs[k][1], Canonical(pairs[k][2])>>])

\* CanonicalizeEvent: the type is that of the event, never a field.
CanonicalizeEvent(event, order) ==
    Document([k \in DOMAIN CanonicalOrder[event.type] |->
        LET n == CanonicalOrder[event.type][k]
        IN  <<Word(n),
              CASE n = "Type" -> Canonical(Word(event.type))
                [] n = "AlertID" -> Number(AppendInt(event.fields[n]))
                [] n = "Meta" -> canonicalMeta(event.fields[n], order)
                [] OTHER -> Canonical(event.fields[n])>>])

-----------------------------------------------------------------------------
(* The length of a document without white space.                           *)

Spelling(v) == IF v.spelling = "long" THEN v.content.long ELSE v.content.short

Add(a, b) == a + b

RECURSIVE Size(_)
Size(v) ==
    CASE v.kind = "string" -> 2 + Spelling(v)
      [] v.kind = "number" -> Len(v.digits)
      [] v.kind = "null" -> 4
      [] v.kind = "array" -> 1 + FoldLeft(Add, 0, [k \in DOMAIN v.elements |-> 1 + Size(v.elements[k])])
      [] v.kind = "object" ->
            1 + FoldLeft(Add, 0, [k \in DOMAIN v.members |->
                  4 + v.members[k][1].short + Size(v.members[k][2])])
=============================================================================
