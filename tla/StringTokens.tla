---------------------------- MODULE StringTokens ----------------------------
(***************************************************************************)
(* Every well-formed string token of a bounded length, written piece by    *)
(* piece as a JSON writer may spell it, and what the decoder and the       *)
(* canonical format make of it.                                            *)
(***************************************************************************)
EXTENDS JsonStrings, SequencesExt

CONSTANTS Pieces, MaxPieces

VARIABLE pieces     \* the token, as a sequence of spelled UTF-16 units

\* A character as it is, or an escape; a surrogate can only be escaped.
Piece == [unit : Nat, spelling : {"literal", "short", "hex"}]

Spelled(p) ==
    CASE p.spelling = "literal" -> <<p.unit>>
      [] p.spelling = "short" -> <<Backslash, IF p.unit \in DOMAIN Letter THEN Letter[p.unit] ELSE p.unit>>
      [] p.spelling = "hex" ->
            <<Backslash, LetterU>> \o [k \in 1..4 |-> hex[((p.unit \div 16^(4 - k)) % 16) + 1]]

Token == <<Quote>> \o FlattenSeq([k \in 1..Len(pieces) |-> Spelled(pieces[k])]) \o <<Quote>>

TInit == pieces = <<>>

Write(p) == Len(pieces) < MaxPieces /\ pieces' = Append(pieces, p)

TNext == \E p \in Pieces : Write(p)

-----------------------------------------------------------------------------
(* Properties.                                                             *)

Unit(k) == pieces[k].unit

\* Every surrogate has its other half next to it.
Paired ==
    \A k \in 1..Len(pieces) :
        /\ High(Unit(k)) => k < Len(pieces) /\ Low(Unit(k + 1))
        /\ Low(Unit(k)) => k > 1 /\ High(Unit(k - 1))

\* What the pieces say: a pair is one character, told at its high half.
Meaning ==
    FlattenSeq([k \in 1..Len(pieces) |->
        IF High(Unit(k)) THEN <<65536 + (Unit(k) - 55296) * 1024 + (Unit(k + 1) - 56320)>>
        ELSE IF Low(Unit(k)) THEN <<>> ELSE <<Unit(k)>>])

\* decodeJSONString accepts a token exactly when no surrogate is alone, however
\* escapes, escaped backslashes and letters are mixed around it, and then
\* nothing of it is lost or replaced.
DecodesExactly == decodeJSONString(Token) = IF Paired THEN {Meaning} ELSE {}

\* The canonical spelling of a string decodes to the same string, so that
\* different strings have different canonical spellings; between its quotes it
\* has no control character, no quote that is not escaped, no <, > or &, and no
\* line separator.
CanonicalRoundTrip ==
    Paired =>
        LET text == appendCanonicalString(Meaning)
        IN  /\ decodeJSONString(text) = {Meaning}
            /\ \A k \in 1..Len(text) : text[k] >= 32 /\ text[k] \notin {38, 60, 62, 8232, 8233}
            /\ \A k \in 2..(Len(text) - 1) : text[k] = Quote => text[k - 1] = Backslash

=============================================================================
