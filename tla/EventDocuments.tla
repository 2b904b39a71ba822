--------------------------- MODULE EventDocuments ---------------------------
(***************************************************************************)
(* Documents that are a few edits away from a valid event.  Some edits     *)
(* write the same event differently, as a client may when it sends a       *)
(* delivery again; the others change what it says.                         *)
(***************************************************************************)
EXTENDS EventFormat

CONSTANTS
    Templates,     \* valid documents, one for each type of event
    Values,        \* Values[name]: other values of a field
    Extras,        \* members that no event has
    MaxEdits       \* bound on the edits of a document

VARIABLES doc, edits, last

dvars == <<doc, edits, last>>

DInit == doc \in Templates /\ edits = 0 /\ last = "none"

Members == doc.value.members

Positions == DOMAIN Members

\* The position of Meta, if there is one that is an object.
MetaPositions == {k \in Positions : Members[k][1] = Word("Meta") /\ Members[k][2].kind = "object"}

Swap(s, k) == [s EXCEPT ![k] = s[k + 1], ![k + 1] = s[k]]

Edit(kind, new) ==
    /\ edits < MaxEdits
    /\ edits' = edits + 1
    /\ last' = kind
    /\ doc' = new

Written(members) == [doc EXCEPT !.value.members = members]

\* Two members change places, at the top or in Meta.
Reorder(k) == k + 1 \in Positions /\ Edit("respelled", Written(Swap(Members, k)))

ReorderMeta(k, j) ==
    /\ j + 1 \in DOMAIN Members[k][2].members
    /\ Edit("respelled", Written([Members EXCEPT ![k][2].members = Swap(@, j)]))

\* A string is written with other escapes.
Respell(k) ==
    /\ Members[k][2].kind = "string"
    /\ Members[k][2].spelling = "short"
    /\ Edit("respelled", Written([Members EXCEPT ![k][2].spelling = "long"]))

\* What is left of a value when order and spelling do not count.
Says(v) ==
    CASE v.kind = "object" -> <<"object", ToSet(v.members)>>
      [] v.kind = "string" -> <<"string", v.content, v.paired>>
      [] OTHER -> <<v.kind, v>>

\* A field gets another value: another content, or something that is no value
\* of that field at all.
Replace(k, v) ==
    /\ Says(v) # Says(Members[k][2])
    /\ Edit("changed", Written([Members EXCEPT ![k][2] = v]))

\* A member is left out, written twice, or added.
Drop(k) == Edit("changed", Written(RemoveAt(Members, k)))

Repeat(k) == Edit("changed", Written(Append(Members, Members[k])))

Insert(m) == Edit("changed", Written(Append(Members, m)))

\* More text follows, or the bytes are no UTF-8.
Trail == ~doc.trailing /\ Edit("changed", [doc EXCEPT !.trailing = TRUE])

Garble == doc.utf8 /\ Edit("changed", [doc EXCEPT !.utf8 = FALSE])

DNext ==
    \/ \E k \in Positions :
          \/ Reorder(k) \/ Respell(k) \/ Drop(k) \/ Repeat(k)
          \/ \E v \in Values[Members[k][1].form] : Replace(k, v)
    \/ \E k \in MetaPositions : \E j \in DOMAIN Members[k][2].members : ReorderMeta(k, j)
    \/ \E m \in Extras : Insert(m)
    \/ Trail \/ Garble

-----------------------------------------------------------------------------
(* Properties.                                                             *)

\* The orders of an iteration over Meta.
Orders(d) ==
    LET sizes == {Len(d.value.members[k][2].members) : k \in
                    {j \in DOMAIN d.value.members : /\ d.value.members[j][1] = Word("Meta")
                                                    /\ d.value.members[j][2].kind = "object"}}
    IN  UNION {SetToSeqs(1..n) : n \in IF sizes = {} THEN {0} ELSE sizes}

Results(d) == {decodeEvent(d, order) : order \in Orders(d)}

Canonicals(d) ==
    UNION {{CanonicalizeEvent(e, order) : e \in r.event, order \in Orders(d)} : r \in Results(d)}

\* The verdict on a document and the canonical form of its event do not depend
\* on the order in which Go iterates over Meta, although the loop adds up sizes
\* and stops at the first entry that is wrong.
IterationOrderIsIrrelevant ==
    Cardinality(Results(doc)) = 1 /\ Cardinality(Canonicals(doc)) <= 1

\* The decoder reads back from the canonical form the event it was made of, so
\* that different events never have the same canonical form.
CanonicalDecodes ==
    \A r \in Results(doc) : \A e \in r.event : \A text \in Canonicals(doc) :
        Results(text) = {r}

\* A delivery that is sent again in another spelling has the same canonical
\* form: it is recognised as a duplicate.  One that is sent again with other
\* content never has the same canonical form: it is a conflict or it is refused.
DuplicatesSayTheSame ==
    [][/\ last' = "respelled" => Canonicals(doc') = Canonicals(doc)
       /\ last' = "changed" => Canonicals(doc') \cap Canonicals(doc) = {}]_dvars

\* The names of the members of an object, however deep, are distinct.
RECURSIVE Unambiguous(_)
Unambiguous(v) ==
    CASE v.kind = "object" ->
            /\ \A j, k \in DOMAIN v.members : v.members[j][1] = v.members[k][1] => j = k
            /\ \A k \in DOMAIN v.members : Unambiguous(v.members[k][2])
      [] v.kind = "array" -> \A k \in DOMAIN v.elements : Unambiguous(v.elements[k])
      [] OTHER -> TRUE

\* Unknown event types are told apart from bad documents: 422 is answered for a
\* well-formed object whose Type is a string that names no event, whatever else
\* is wrong with its members, and 400 for everything else that is no event.
UnsupportedIsWellFormed ==
    \A r \in Results(doc) :
        r.verdict = "unsupported" <=>
            /\ doc.utf8 /\ ~doc.trailing /\ Unambiguous(doc.value)
            /\ \E k \in Positions :
                  /\ Members[k][1] = Word("Type")
                  /\ Members[k][2].kind = "string" /\ Members[k][2].paired
                  /\ Members[k][2].content.form \notin {"Test", "Verification", "Alert", "AlertStatus"}

\* Every event that keeps the limits of its fields fits into a request body
\* (docs/core-to-gateway-http-contract.md: the limit "covers the v0.34.1 alert
\* limits [...] plus JSON escaping and envelope overhead").
EventsFit ==
    \A r \in Results(doc) : r.verdict = "event" => Size(doc.value) <= MaxBodyBytes
=============================================================================
