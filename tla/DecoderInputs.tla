--------------------------- MODULE DecoderInputs ----------------------------
(***************************************************************************)
(* What the event decoder and the canonical format are given: a string     *)
(* token written piece by piece, or a document edited step by step.        *)
(***************************************************************************)
EXTENDS StringTokens, EventDocuments

vars == <<pieces, doc, edits, last>>

\* An object without members, which no token belongs to.
Blank == Document(<<>>)

Init ==
    /\ TInit
    /\ \/ DInit
       \/ doc = Blank /\ edits = 0 /\ last = "none"

Next ==
    \/ doc = Blank /\ TNext /\ UNCHANGED dvars
    \/ doc # Blank /\ DNext /\ UNCHANGED pieces

Spec == Init /\ [][Next]_vars
=============================================================================
