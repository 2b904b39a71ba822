----------------------------- MODULE JsonStrings -----------------------------
(***************************************************************************)
(* String tokens of the HTTP boundary: decodeJSONString with its surrogate *)
(* scan (httpapi/decode.go) and appendCanonicalString (canonical.go).      *)
(* Text is a sequence of code points; one above 127 stands for its UTF-8   *)
(* bytes.  The scans use the code's zero-based indices.  What a decoding   *)
(* yields is a set: the value, or nothing.                                 *)
(***************************************************************************)
EXTENDS Naturals, Sequences

Quote == 34

Backslash == 92

\* The letter u.
LetterU == 117

\* U+FFFD
Replacement == 65533

High(u) == u \in 55296..56319

Low(u) == u \in 56320..57343

Byte(data, i) == data[i + 1]

hex == <<48, 49, 50, 51, 52, 53, 54, 55, 56, 57, 97, 98, 99, 100, 101, 102>>

Digit(c) ==
    CASE c \in 48..57 -> c - 48
      [] c \in 97..102 -> c - 87
      [] c \in 65..70 -> c - 55
      [] OTHER -> 65536

\* strconv.ParseUint(data[i:i+4], 16, 16); 65536 or more is its error.
ParseHex(data, i) ==
    ((Digit(Byte(data, i)) * 16 + Digit(Byte(data, i + 1))) * 16
        + Digit(Byte(data, i + 2))) * 16 + Digit(Byte(data, i + 3))

\* The control characters that have a two-character escape, and its letter.
Letter == [c \in {8, 9, 10, 12, 13} |->
             CASE c = 8 -> 98 [] c = 9 -> 116 [] c = 10 -> 110 [] c = 12 -> 102 [] c = 13 -> 114]

\* What a two-character escape stands for.
Short(letter) ==
    IF \E c \in DOMAIN Letter : Letter[c] = letter
    THEN CHOOSE c \in DOMAIN Letter : Letter[c] = letter
    ELSE letter

\* json.Unmarshal of a string token: a surrogate without its other half
\* becomes the replacement character.
RECURSIVE Unquoted(_, _)
Unquoted(data, i) ==
    LET c == Byte(data, i)
    IN  IF i >= Len(data) - 1 THEN <<>>
        ELSE IF c # Backslash THEN <<c>> \o Unquoted(data, i + 1)
        ELSE IF Byte(data, i + 1) # LetterU THEN <<Short(Byte(data, i + 1))>> \o Unquoted(data, i + 2)
        ELSE LET u == ParseHex(data, i + 2)
                 paired == /\ High(u) /\ i + 11 < Len(data) - 1
                           /\ Byte(data, i + 6) = Backslash /\ Byte(data, i + 7) = LetterU
                           /\ Low(ParseHex(data, i + 8))
             IN  IF paired
                 THEN <<65536 + (u - 55296) * 1024 + (ParseHex(data, i + 8) - 56320)>>
                        \o Unquoted(data, i + 12)
                 ELSE <<IF High(u) \/ Low(u) THEN Replacement ELSE u>> \o Unquoted(data, i + 6)

\* Mutant: a high surrogate may be followed by any escape.
RECURSIVE ScanAnyEscape(_, _)
ScanAnyEscape(data, i) ==
    IF i >= Len(data) - 1 THEN TRUE
    ELSE IF Byte(data, i) # Backslash THEN ScanAnyEscape(data, i + 1)
    ELSE IF i + 1 >= Len(data) - 1 \/ Byte(data, i + 1) # LetterU THEN ScanAnyEscape(data, i + 2)
    ELSE IF High(ParseHex(data, i + 2))
         THEN Byte(data, i + 6) = Backslash /\ ScanAnyEscape(data, i + 8)
         ELSE ScanAnyEscape(data, i + 6)

\* validSurrogateEscapes from index i on.
RECURSIVE Scan(_, _)
Scan(data, i) ==
    IF i >= Len(data) - 1 THEN TRUE
    ELSE IF Byte(data, i) # Backslash THEN Scan(data, i + 1)
    ELSE IF i + 1 >= Len(data) - 1 \/ Byte(data, i + 1) # LetterU THEN Scan(data, i + 2)
    ELSE IF i + 5 >= Len(data) \/ ParseHex(data, i + 2) >= 65536 THEN FALSE
    ELSE LET u == ParseHex(data, i + 2)
         IN  IF High(u)
             THEN /\ i + 11 < Len(data)
                  /\ Byte(data, i + 6) = Backslash /\ Byte(data, i + 7) = LetterU
                  /\ Low(ParseHex(data, i + 8))
                  /\ Scan(data, i + 12)
             ELSE ~Low(u) /\ Scan(data, i + 6)

validSurrogateEscapes(data) == Scan(data, 1)

decodeJSONString(data) ==
    IF data = <<>> \/ Head(data) # Quote \/ ~validSurrogateEscapes(data) THEN {}
    ELSE {Unquoted(data, 1)}

\* The escape of a character in the canonical format.
Escape(c) ==
    IF c \in {8232, 8233} THEN <<Backslash, LetterU, 50, 48, 50, hex[(c % 16) + 1]>>
    ELSE IF c \in {Quote, Backslash} THEN <<Backslash, c>>
    ELSE IF c \in DOMAIN Letter THEN <<Backslash, Letter[c]>>
    ELSE <<Backslash, LetterU, 48, 48, hex[(c \div 16) + 1], hex[(c % 16) + 1]>>

\* The characters that are not copied as they are: control characters, the
\* two that JSON escapes, <, > and &, and the two line separators.
Escaped(c) == c < 32 \/ c \in {Quote, Backslash, 60, 62, 38, 8232, 8233}

\* Mutant: start is not moved past the escaped character.
RECURSIVE AppendStale(_, _, _, _)
AppendStale(data, value, start, index) ==
    IF index >= Len(value) THEN data \o SubSeq(value, start + 1, Len(value))
    ELSE IF ~Escaped(Byte(value, index)) THEN AppendStale(data, value, start, index + 1)
    ELSE AppendStale(data \o SubSeq(value, start + 1, index) \o Escape(Byte(value, index)),
                     value, index, index + 1)

\* The loop of appendCanonicalString: value[start:index] is still to be copied.
RECURSIVE AppendFrom(_, _, _, _)
AppendFrom(data, value, start, index) ==
    IF index >= Len(value) THEN data \o SubSeq(value, start + 1, Len(value))
    ELSE IF ~Escaped(Byte(value, index)) THEN AppendFrom(data, value, start, index + 1)
    ELSE AppendFrom(data \o SubSeq(value, start + 1, index) \o Escape(Byte(value, index)),
                    value, index + 1, index + 1)

appendCanonicalString(value) == Append(AppendFrom(<<Quote>>, value, 0, 0), Quote)
==============================================================================
