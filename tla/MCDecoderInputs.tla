-------------------------- MODULE MCDecoderInputs ---------------------------
(* Instances of DecoderInputs. *)
EXTENDS DecoderInputs

Spell(units, spelling) == {[unit |-> u, spelling |-> spelling] : u \in units}

\* Plain, non-ASCII and astral characters, u and d which also occur in escapes,
\* what the canonical format escapes, and both kinds of surrogate.
MCPieces ==
    Spell({117, 100, 60, 233, 8232, 128512}, "literal")
    \cup Spell({Quote, Backslash, 10}, "short")
    \cup Spell({1, 31, 65, 8233, 55296, 56319, 56320, 57343}, "hex")

-----------------------------------------------------------------------------
\* n printable ASCII characters; n characters of two bytes; n of four bytes; n
\* control characters.
Ascii(id, n, form) == [id |-> id, bytes |-> n, runes |-> n, short |-> n, long |-> 6 * n,
                       printable |-> TRUE, form |-> form]

Accented(id, n) == [id |-> id, bytes |-> 2 * n, runes |-> n, short |-> 2 * n, long |-> 6 * n,
                    printable |-> FALSE, form |-> "text"]

Astral(id, n) == [id |-> id, bytes |-> 4 * n, runes |-> n, short |-> 4 * n, long |-> 12 * n,
                  printable |-> FALSE, form |-> "text"]

Control(id, n) == [id |-> id, bytes |-> n, runes |-> n, short |-> 6 * n, long |-> 6 * n,
                   printable |-> FALSE, form |-> "text"]

Text(id, n) == Ascii(id, n, "text")

Lone == [String(Accented(9, 1)) EXCEPT !.paired = FALSE]

Field(name, value) == <<Word(name), value>>

Pair(key, value) == <<key, String(value)>>

TestDoc == Document(<<Field("AppName", String(Text(1, 9))), Field("Type", String(Word("Test")))>>)

VerificationDoc == Document(<<
    Field("AppName", String(Text(1, 9))), Field("Type", String(Word("Verification"))),
    Field("Code", String(Ascii(1, 6, "digits")))>>)

AlertOf(summary, details, meta) == Document(<<
    Field("AppName", String(Text(1, 9))), Field("Type", String(Word("Alert"))),
    Field("AlertID", Number(<<7>>)), Field("Summary", String(summary)),
    Field("Details", String(details)), Field("ServiceID", String(Ascii(1, 36, "uuid"))),
    Field("ServiceName", String(Ascii(1, 2, "service name"))), Field("Meta", Object(meta))>>)

AlertDoc == AlertOf(Text(1, 5), Text(1, 0),
                    <<Pair(Text(2, 3), Text(1, 4)), Pair(Text(1, 1), Text(2, 0))>>)

StatusDoc == Document(<<
    Field("AppName", String(Text(1, 9))), Field("Type", String(Word("AlertStatus"))),
    Field("AlertID", Number(<<7>>)), Field("LogEntry", String(Accented(1, 3))),
    Field("AlertState", String(Word("Closed")))>>)

MCTemplates == {TestDoc, VerificationDoc, AlertDoc, StatusDoc}

\* Meta: empty; full to the byte; one byte over, by any two of three entries;
\* one entry wrong beside a full one; a name twice; a key at and over its limit.
Metas == {
    Object(<<>>),
    Object(<<Pair(Text(1, 255), Text(1, 32000)), Pair(Text(2, 1), Text(1, 512))>>),
    Object(<<Pair(Text(1, 1), Text(1, 16384)), Pair(Text(2, 1), Accented(1, 8191)),
             Pair(Text(3, 1), Text(3, 1))>>),
    Object(<<Pair(Text(1, 1), Text(1, 32767)), <<Text(2, 1), Null>>, Pair(Text(3, 0), Text(1, 1))>>),
    Object(<<Pair(Text(1, 1), Text(1, 1)), Pair(Text(1, 1), Text(2, 1))>>),
    Object(<<Pair(Text(1, 256), Text(1, 1))>>),
    Object(<<Pair(Accented(1, 1), Text(1, 1))>>)}

MCValues == [name \in UNION {ExactFields[t] : t \in DOMAIN ExactFields} \cup {"Extra"} |->
    CASE name = "AppName" -> {String(Text(2, 32)), String(Text(3, 33)), String(Text(4, 0)),
                              String(Accented(1, 1)), Null}
      [] name = "Type" -> {String(Word("Alert")), String(Word("Test")), String(Word("AlertBundle")),
                           Lone, Number(<<1>>)}
      [] name = "Code" -> {String(Ascii(2, 6, "digits")), String(Text(1, 6))}
      [] name = "AlertID" -> {Number(<<1, 2, 0>>), Number(<<1, 2, 1>>), Number(<<0>>),
                              [Number(<<7>>) EXCEPT !.integer = FALSE], String(Text(1, 1))}
      [] name = "Summary" -> {String(Accented(2, 1024)), String(Text(2, 1025)), Lone}
      [] name = "Details" -> {String(Accented(2, 6144)), String(Text(2, 6145)), Null}
      [] name = "ServiceID" -> {String(Ascii(2, 36, "uuid")), String(Text(1, 36))}
      [] name = "ServiceName" -> {String(Ascii(2, 64, "service name")),
                                  String(Ascii(3, 65, "service name")), String(Text(1, 2))}
      [] name = "Meta" -> Metas \cup {Null, String(Text(1, 2))}
      [] name = "LogEntry" -> {String(Text(2, 0)), String(Text(3, 9)), Lone}
      [] name = "AlertState" -> {String(Word("Acknowledged")), String(Word("closed"))}
      [] name = "Extra" -> {}]

\* A member that no event has, and one whose value repeats a name in depth.
MCExtras == {
    Field("Extra", Null),
    Field("Extra", Array(<<Null, Object(<<Field("n", Null), Field("n", Null)>>)>>)),
    Field("Code", String(Ascii(1, 6, "digits")))}

\* An alert at the limits of its fields.
LargeAlert == {AlertOf(Astral(1, 1024), Astral(1, 6144), <<Pair(Text(1, 1), Control(1, 32767))>>)}
=============================================================================
