------------------------ MODULE GatewayProcessProofs ------------------------
(***************************************************************************)
(* Proofs about GatewayProcess, for any finite number of connections, any  *)
(* requests and any sink.                                                  *)
(***************************************************************************)
EXTENDS GatewayProcess, FiniteSetTheorems, TLAPS

\* The values of a header are a sequence.
LEMMA HeaderSequence ==
    ASSUME NEW kinds, NEW values \in Header(kinds)
    PROVE  values \in Seq(kinds)
  <1>1. PICK n \in 0..2 : values \in [1..n -> kinds]
    BY DEF Header
  <1>2. n \in Nat
    OBVIOUS
  <1> QED
    BY <1>1, <1>2

\* A sequence of length one is its element.
LEMMA Singleton ==
    ASSUME NEW S, NEW s \in Seq(S), Len(s) = 1
    PROVE  s = <<s[1]>>
  OBVIOUS

\* What the handler looks at in a request.
LEMMA RequestFacts ==
    ASSUME NEW r \in Request
    PROVE  /\ r.path \in {"/healthz", "/metrics", "webhook", "other"}
           /\ r.method \in {"GET", "POST"} /\ r.query \in BOOLEAN
           /\ r.encoding \in Seq({"identity", "gzip"})
           /\ r.type \in Seq({"json", "json_utf8", "json_latin1", "text"})
           /\ r.identity \in Seq({"uuid", "malformed"})
           /\ r.decoded \in {"event", "unsupported", "invalid"}
           /\ r.body.declared \in Int /\ r.body.sent \in Int /\ r.body.whole \in BOOLEAN
           /\ r.body.whole /\ r.body.sent <= MaxBodyBytes => r.body.declared <= MaxBodyBytes
  <1>1. /\ r.path \in {"/healthz", "/metrics", "webhook", "other"}
        /\ r.method \in {"GET", "POST"} /\ r.query \in BOOLEAN
        /\ r.encoding \in Header({"identity", "gzip"})
        /\ r.type \in Header({"json", "json_utf8", "json_latin1", "text"})
        /\ r.identity \in Header({"uuid", "malformed"})
        /\ r.body \in Body
        /\ r.decoded \in {"event", "unsupported", "invalid"}
    BY DEF Request
  <1>2. /\ r.body \in [declared : {Unknown} \cup 0..(MaxBodyBytes + 2),
                       sent : 0..(MaxBodyBytes + 2), whole : BOOLEAN]
        /\ r.body.declared # Unknown =>
              r.body.sent <= r.body.declared /\ (r.body.whole <=> r.body.sent = r.body.declared)
    BY <1>1, Zenon DEF Body
  <1>3. /\ r.body.declared \in {Unknown} \cup 0..(MaxBodyBytes + 2)
        /\ r.body.sent \in 0..(MaxBodyBytes + 2) /\ r.body.whole \in BOOLEAN
    BY <1>2
  <1>4. r.body.declared \in Int /\ r.body.sent \in Int
    BY <1>3, BodyAssumption DEF Unknown
  <1>5. ASSUME r.body.whole, r.body.sent <= MaxBodyBytes PROVE r.body.declared <= MaxBodyBytes
    <2>1. CASE r.body.declared = Unknown
      BY <2>1, BodyAssumption DEF Unknown
    <2>2. CASE r.body.declared # Unknown
      <3>1. r.body.sent = r.body.declared
        BY <1>2, <1>5, <2>2
      <3> QED
        BY <1>5, <3>1
    <2> QED
      BY <2>1, <2>2
  <1> QED
    BY <1>1, <1>3, <1>4, <1>5, HeaderSequence

\* The handler's refusals before the body are outcomes that blame a request
\* outside the contract.
LEMMA HeadOutcome ==
    ASSUME NEW r \in Request, HeadVerdict(r) # {}
    PROVE  \E out \in Outcome : /\ HeadVerdict(r) = {out}
                                /\ out.status \notin {202, 500, 503}
                                /\ ~Contract(r)
  <1>1. CASE r.path # "webhook"
    <2>1. r.path \in {"/healthz", "/metrics", "other"} /\ r.method \in {"GET", "POST"}
      BY <1>1 DEF Request
    <2>2. ~Contract(r)
      BY <1>1 DEF Contract
    <2> QED
      BY <2>1, <2>2 DEF HeadVerdict, Answer, Outcome, Routes, Results, Status
  <1>2. CASE r.path = "webhook" /\ (r.method # "POST" \/ r.query)
    <2>1. ~Contract(r)
      BY <1>2 DEF Contract
    <2>2. HeadVerdict(r) \in {{Webhook("method_not_allowed", 405)}, {Webhook("invalid_request", 400)}}
      <3>1. CASE r.method # "POST"
        BY <1>2, <3>1 DEF HeadVerdict
      <3>2. CASE r.method = "POST" /\ r.query
        BY <1>2, <3>2 DEF HeadVerdict
      <3> QED
        BY <1>2, <3>1, <3>2
    <2> QED
      BY <2>1, <2>2 DEF Webhook, Answer, Outcome, Routes, Results, Status
  <1>3. CASE r.path = "webhook" /\ r.method = "POST" /\ ~r.query
    <2>1. /\ HeadVerdict(r) \in {{Webhook("unsupported_media_type", 415)},
                                 {Webhook("invalid_request", 400)},
                                 {Webhook("request_too_large", 413)}}
      BY <1>3 DEF HeadVerdict
    <2>2. \E out \in Outcome : HeadVerdict(r) = {out} /\ out.status \notin {202, 500, 503}
      BY <2>1 DEF Webhook, Answer, Outcome, Routes, Results, Status
    <2>3. ASSUME Contract(r) PROVE FALSE
      <3>1. validContentType(r.type)
        <4>1. /\ Len(r.type) = 1 /\ r.type[1] \in {"json", "json_utf8"}
              /\ r.type \in Seq({"json", "json_utf8", "json_latin1", "text"})
          BY <2>3, RequestFacts, Zenon DEF Contract
        <4>2. r.type = <<r.type[1]>>
          BY <4>1, Singleton
        <4> QED
          BY <4>1, <4>2 DEF validContentType
      <3>2. validContentEncoding(r.encoding)
        <4>1. /\ Len(r.encoding) <= 1
              /\ \A k \in 1..Len(r.encoding) : r.encoding[k] = "identity"
              /\ r.encoding \in Seq({"identity", "gzip"})
          BY <2>3, RequestFacts, Zenon DEF Contract
        <4>2. CASE Len(r.encoding) = 0
          BY <4>1, <4>2 DEF validContentEncoding
        <4>3. CASE Len(r.encoding) = 1
          <5>1. r.encoding = <<r.encoding[1]>>
            BY <4>1, <4>3, Singleton
          <5>2. r.encoding[1] = "identity"
            BY <4>1, <4>3
          <5> QED
            BY <5>1, <5>2 DEF validContentEncoding
        <4>4. Len(r.encoding) \in Nat
          BY <4>1
        <4>5. Len(r.encoding) <= 1
          BY <4>1
        <4> QED
          BY <4>2, <4>3, <4>4, <4>5
      <3>3. r.identity = <<"uuid">>
        <4>1. /\ Len(r.identity) = 1 /\ r.identity[1] = "uuid"
              /\ r.identity \in Seq({"uuid", "malformed"})
          BY <2>3, RequestFacts, Zenon DEF Contract
        <4> QED
          BY <4>1, Singleton
      <3>4. ~(r.body.declared > MaxBodyBytes)
        <4>1. r.body.declared <= MaxBodyBytes /\ r.body.declared \in Int
          BY <2>3, RequestFacts, Zenon DEF Contract
        <4> QED
          BY <4>1, BodyAssumption
      <3>5. HeadVerdict(r) = {}
        BY <1>3, <3>1, <3>2, <3>3, <3>4 DEF HeadVerdict
      <3> QED
        BY <3>5
    <2> QED
      BY <2>2, <2>3
  <1> QED
    BY <1>1, <1>2, <1>3, RequestFacts

\* So are its refusals of the body.
LEMMA BodyOutcome ==
    ASSUME NEW r \in Request, BodyVerdict(r) # {}
    PROVE  \E out \in Outcome : /\ BodyVerdict(r) = {out}
                                /\ out.status \notin {202, 500, 503}
                                /\ Key(out) # <<"metrics", "ok">>
                                /\ ~Contract(r)
  <1>1. BodyVerdict(r) \in {{Webhook("request_too_large", 413)}, {Webhook("invalid_request", 400)},
                            {Webhook("unsupported_event_type", 422)}}
    BY DEF BodyVerdict
  <1>2. \E out \in Outcome : /\ BodyVerdict(r) = {out}
                             /\ out.status \notin {202, 500, 503}
                             /\ Key(out) # <<"metrics", "ok">>
    BY <1>1 DEF Webhook, Answer, Outcome, Routes, Results, Status, Key
  <1>3. ~Contract(r)
    <2>1. ASSUME Contract(r) PROVE FALSE
      <3>1. /\ r.body.whole /\ r.body.sent <= MaxBodyBytes /\ r.body.sent \in Int
            /\ r.decoded = "event"
        BY <2>1, RequestFacts, Zenon DEF Contract
      <3>2. ~(r.body.sent > MaxBodyBytes)
        BY <3>1, BodyAssumption
      <3> QED
        BY <3>1, <3>2 DEF BodyVerdict
    <2> QED
      BY <2>1
  <1> QED
    BY <1>2, <1>3

\* What passes both is what the contract admits.
LEMMA Admitted ==
    ASSUME NEW r \in Request, HeadVerdict(r) = {}, BodyVerdict(r) = {}
    PROVE  Contract(r)
  <1>1. ASSUME r.path \in {"/healthz", "/metrics", "other"} PROVE FALSE
    <2>1. CASE r.path = "/healthz"
      <3>1. \E answer : HeadVerdict(r) = {answer}
        BY <2>1 DEF HeadVerdict
      <3> QED
        BY <3>1
    <2>2. CASE r.path = "/metrics"
      <3>1. \E answer : HeadVerdict(r) = {answer}
        BY <2>2 DEF HeadVerdict
      <3> QED
        BY <3>1
    <2>3. CASE r.path = "other"
      <3>1. HeadVerdict(r) = {Answer("not_found", "not_found", 404)}
        BY <2>3 DEF HeadVerdict
      <3> QED
        BY <3>1
    <2> QED
      BY <1>1, <2>1, <2>2, <2>3
  <1>2. r.path = "webhook"
    <2>1. r.path \in {"/healthz", "/metrics", "webhook", "other"}
      BY RequestFacts
    <2> QED
      BY <1>1, <2>1
  <1>3. r.method = "POST" /\ ~r.query
    <2>1. ASSUME r.method # "POST" PROVE FALSE
      <3>1. HeadVerdict(r) = {Webhook("method_not_allowed", 405)}
        BY <1>2, <2>1 DEF HeadVerdict
      <3> QED
        BY <3>1
    <2>2. ASSUME r.method = "POST", r.query PROVE FALSE
      <3>1. HeadVerdict(r) = {Webhook("invalid_request", 400)}
        BY <1>2, <2>2 DEF HeadVerdict
      <3> QED
        BY <3>1
    <2> QED
      BY <2>1, <2>2
  <1>4. /\ validContentEncoding(r.encoding) /\ validContentType(r.type)
        /\ r.identity = <<"uuid">>
    BY <1>2, <1>3 DEF HeadVerdict
  <1>5. r.body.whole /\ r.body.sent <= MaxBodyBytes /\ r.decoded = "event"
    <2>1. /\ r.body.sent \in Int /\ r.body.whole \in BOOLEAN
          /\ r.decoded \in {"event", "unsupported", "invalid"}
      BY RequestFacts
    <2>2. /\ ~(r.body.sent > MaxBodyBytes) /\ r.body.whole
          /\ r.decoded # "unsupported" /\ r.decoded # "invalid"
      BY DEF BodyVerdict
    <2> QED
      BY <2>1, <2>2, BodyAssumption
  <1> QED
    <2>1. Len(r.type) = 1 /\ r.type[1] \in {"json", "json_utf8"}
      <3>1. r.type = <<"json">> \/ r.type = <<"json_utf8">>
        BY <1>4 DEF validContentType
      <3>2. \A x : Len(<<x>>) = 1 /\ <<x>>[1] = x
        OBVIOUS
      <3> QED
        BY <3>1, <3>2, Zenon
    <2>2. Len(r.encoding) <= 1 /\ \A k \in 1..Len(r.encoding) : r.encoding[k] = "identity"
      <3>1. r.encoding = <<>> \/ r.encoding = <<"identity">>
        BY <1>4 DEF validContentEncoding
      <3>2. CASE r.encoding = <<>>
        BY <3>2
      <3>3. CASE r.encoding = <<"identity">>
        BY <3>3
      <3> QED
        BY <3>1, <3>2, <3>3
    <2>3. Len(r.identity) = 1 /\ r.identity[1] = "uuid"
      BY <1>4
    <2> QED
      BY <1>2, <1>3, <1>5, <2>1, <2>2, <2>3, Zenon DEF Contract

\* Answers of the sink become answers that do not blame the request, and only an
\* acceptance with a receipt becomes 202.
LEMMA SinkOutcome ==
    ASSUME NEW answer \in SinkAnswer
    PROVE  /\ SinkVerdict(answer) \in Outcome
           /\ SinkVerdict(answer).status \in {202, 500, 503}
           /\ Key(SinkVerdict(answer)) # <<"metrics", "ok">>
           /\ SinkVerdict(answer).status = 202 => answer.err = "none" /\ answer.receipt # "empty"
  <1>1. CASE answer.err = "ErrSinkUnavailable"
    BY <1>1 DEF SinkVerdict, Webhook, Answer, Outcome, Routes, Results, Status, Key
  <1>2. CASE answer.err # "ErrSinkUnavailable" /\ (answer.err # "none" \/ answer.receipt = "empty")
    <2>1. SinkVerdict(answer) = Webhook("internal_error", 500)
      BY <1>2 DEF SinkVerdict
    <2> QED
      BY <2>1 DEF Webhook, Answer, Outcome, Routes, Results, Status, Key
  <1>3. CASE answer.err = "none" /\ answer.receipt # "empty"
    BY <1>3 DEF SinkVerdict, Webhook, Answer, Outcome, Routes, Results, Status, Key
  <1> QED
    BY <1>1, <1>2, <1>3

-----------------------------------------------------------------------------
(* The counters.                                                           *)

\* A set of connections is finite, and so is each part of it.
LEMMA AnsweredFinite ==
    ASSUME NEW k
    PROVE  /\ IsFiniteSet(Answered(k)) /\ IsFiniteSet(Counted(k))
           /\ Cardinality(Answered(k)) \in Nat /\ Cardinality(Counted(k)) \in Nat
           /\ Cardinality(Counted(k)) <= Cardinality(Answered(k))
  <1>1. Answered(k) \subseteq Connections /\ Counted(k) \subseteq Answered(k)
    BY DEF Answered, Counted
  <1>2. IsFiniteSet(Answered(k))
    BY <1>1, InputAssumption, FS_Subset
  <1> QED
    BY <1>1, <1>2, FS_Subset, FS_CardinalityType

\* While no request gets counted and nobody scrapes, counters and scrapes stay
\* coherent.
LEMMA QuietCounts ==
    ASSUME Inv, counts' = counts,
           \A c \in Connections : conn'[c].seen = conn[c].seen,
           \A k \in Keys : Answered(k) \subseteq Answered(k)',
           main'.pc # "exit" \/ main'.status = "ok" =>
              /\ main.pc # "exit" \/ main.status = "ok"
              /\ \A k \in Keys : Counted(k)' = Counted(k)
    PROVE  CountsOK' /\ ScrapesAreCoherent'
  <1>1. CountsOK /\ ScrapesAreCoherent
    BY DEF Inv
  <1>2. CountsOK'
    <2>1. ASSUME main'.pc # "exit" \/ main'.status = "ok", NEW k \in Keys
          PROVE  counts'[k] = Cardinality(Counted(k)')
      BY <1>1, <2>1 DEF CountsOK
    <2>2. ASSUME NEW c \in Connections, NEW s \in conn'[c].seen, NEW k \in Keys
          PROVE  s[k] <= counts'[k]
      BY <1>1, <2>2 DEF CountsOK
    <2> QED
      BY <2>1, <2>2 DEF CountsOK
  <1>3. ScrapesAreCoherent'
    <2> SUFFICES ASSUME NEW c \in Connections, NEW s \in conn'[c].seen
                 PROVE  /\ s[<<"metrics", "ok">>] >= 1
                        /\ \A k \in Keys : s[k] <= Cardinality(Answered(k)')
                        /\ \A d \in Connections : \A t \in conn'[d].seen :
                              (\A k \in Keys : s[k] <= t[k]) \/ (\A k \in Keys : t[k] <= s[k])
      BY DEF ScrapesAreCoherent
    <2>1. s \in conn[c].seen
      OBVIOUS
    <2>2. s \in [Keys -> Nat]
      BY <2>1 DEF Inv, TypeOK, Handler
    <2>3. ASSUME NEW k \in Keys PROVE s[k] <= Cardinality(Answered(k)')
      <3>1. s[k] <= Cardinality(Answered(k))
        BY <1>1, <2>1 DEF ScrapesAreCoherent
      <3>2. IsFiniteSet(Answered(k)') /\ Cardinality(Answered(k)') \in Nat
        <4>1. Answered(k)' \subseteq Connections
          BY DEF Answered
        <4> QED
          BY <4>1, InputAssumption, FS_Subset, FS_CardinalityType
      <3>3. Cardinality(Answered(k)) <= Cardinality(Answered(k)') /\ Cardinality(Answered(k)) \in Nat
        BY <3>2, AnsweredFinite, FS_Subset
      <3>4. s[k] \in Nat
        BY <2>2
      <3> QED
        BY <3>1, <3>2, <3>3, <3>4
    <2> QED
      BY <1>1, <2>1, <2>3 DEF ScrapesAreCoherent
  <1> QED
    BY <1>2, <1>3

-----------------------------------------------------------------------------
(* Steps of one handler.                                                   *)

\* A step of one handler that neither counts nor scrapes preserves the invariant
\* if that handler is as it should be afterwards.
LEMMA OneHandler ==
    ASSUME Inv, NEW c \in Connections, NEW h \in Handler, main.pc # "exit",
           conn' = [conn EXCEPT ![c] = h], UNCHANGED <<process, counts>>,
           h.seen = conn[c].seen, conn[c].out \subseteq h.out,
           ~Is(c, "done"), h.pc # "done",
           \A out \in conn[c].out : ~(Is(c, "answer") /\ Key(out) = <<"metrics", "ok">>),
           \A out \in h.out : ~(h.pc = "answer" /\ Key(out) = <<"metrics", "ok">>),
           ConnectionOK(c)', HandlerOK(c, h), h.out # {} => HandedOver(h)
    PROVE  Inv'
  <1>1. /\ conn'[c] = h
        /\ \A d \in Connections : d # c => conn'[d] = conn[d]
        /\ conn' \in [Connections -> Handler]
    BY DEF Inv, TypeOK
  <1>2. TypeOK' /\ ProcessOK'
    BY <1>1 DEF Inv, TypeOK, ProcessOK, process, Serving
  <1>3. \A d \in Connections : ConnectionOK(d)' /\ HandlerOK(d, conn[d])'
    BY <1>1 DEF Inv, ConnectionOK, process, Is
  <1>4. HandoverIsValid'
    <2>1. ASSUME NEW d \in Connections, d # c, conn'[d].out # {} PROVE HandedOver(conn'[d])
      BY <1>1, <2>1 DEF Inv, HandoverIsValid
    <2> QED
      BY <1>1, <2>1 DEF HandoverIsValid
  <1>5. ASSUME NEW k \in Keys
        PROVE  Answered(k) \subseteq Answered(k)' /\ Counted(k)' = Counted(k)
    <2>1. \A d \in Connections : d \in Answered(k) => d \in Answered(k)'
      BY <1>1 DEF Answered
    <2>2. c \notin Counted(k) /\ c \notin Counted(k)'
      BY <1>1 DEF Answered, Counted, Is
    <2>3. \A d \in Connections : d # c => (d \in Counted(k)' <=> d \in Counted(k))
      BY <1>1 DEF Answered, Counted, Is
    <2>4. \A d : (d \in Counted(k) => d \in Connections) /\ (d \in Counted(k)' => d \in Connections)
      BY DEF Answered, Counted
    <2>5. Answered(k) \subseteq Answered(k)'
      BY <2>1 DEF Answered
    <2>6. Counted(k)' = Counted(k)
      BY <2>2, <2>3, <2>4
    <2> QED
      BY <2>5, <2>6
  <1>6. CountsOK' /\ ScrapesAreCoherent'
    <2>1. \A d \in Connections : conn'[d].seen = conn[d].seen
      BY <1>1
    <2> QED
      BY <1>5, <2>1, QuietCounts DEF process
  <1> QED
    BY <1>2, <1>3, <1>4, <1>6 DEF Inv

\* The only element of a set is the one that is chosen.
LEMMA Chosen ==
    ASSUME NEW x
    PROVE  (CHOOSE y \in {x} : TRUE) = x
  OBVIOUS

\* A request that a client sends is a request.
LEMMA SentRequest ==
    ASSUME NEW c \in Connections, NEW r \in Inputs[c]
    PROVE  r \in Request /\ r \in Sent
  BY InputAssumption DEF Sent

\* A connection whose request is being handled or awaited is in a serving process.
LEMMA Live ==
    ASSUME Inv, NEW c \in Connections, conn[c].pc \in Busy \cup {"new"}
    PROVE  server # "none" /\ main.pc # "await" /\ main.status # "ok"
  BY DEF Inv, ConnectionOK, Busy, Is

\* Accepting a connection preserves the invariant.
LEMMA AcceptInv ==
    ASSUME Inv, NEW c \in Connections, Accept(c)
    PROVE  Inv'
  <1> DEFINE h == [conn[c] EXCEPT !.pc = "new"]
  <1>1. conn \in [Connections -> Handler] /\ conn[c] \in Handler /\ HandlerOK(c, conn[c])
    BY DEF Inv, TypeOK
  <1>2. /\ h \in Handler /\ h.pc = "new" /\ h.in = conn[c].in /\ h.out = conn[c].out
        /\ h.sink = conn[c].sink /\ h.seen = conn[c].seen
    BY <1>1 DEF Handler
  <1>3. conn' = [conn EXCEPT ![c] = h] /\ UNCHANGED <<process, counts>> /\ main.pc # "exit"
        /\ conn[c].pc = "away"
    BY <1>1 DEF Accept, Is
  <1>4. h.out = {} /\ HandlerOK(c, h)
    BY <1>1, <1>2, <1>3 DEF HandlerOK, Busy
  <1>5. ConnectionOK(c)'
    <2>1. server = "accepting" /\ ~shutdown /\ ProcessOK
      BY DEF Accept, Inv
    <2>2. main.pc # "await" /\ main.status # "ok"
      BY <2>1 DEF ProcessOK, Serving
    <2> QED
      BY <1>1, <1>2, <1>3, <2>1, <2>2 DEF ConnectionOK, Is, process
  <1> QED
    BY <1>1, <1>2, <1>3, <1>4, <1>5, OneHandler DEF Is

\* Reading a request preserves the invariant.
LEMMA ReadHeaderInv ==
    ASSUME Inv, NEW c \in Connections, NEW r \in Inputs[c], ReadHeader(c, r)
    PROVE  Inv'
  <1> DEFINE h == [conn[c] EXCEPT !.pc = "head", !.in = {r}]
  <1>1. conn \in [Connections -> Handler] /\ conn[c] \in Handler /\ HandlerOK(c, conn[c])
    BY DEF Inv, TypeOK
  <1>2. /\ h \in Handler /\ h.pc = "head" /\ h.in = {r} /\ h.out = conn[c].out
        /\ h.sink = conn[c].sink /\ h.seen = conn[c].seen
    BY <1>1, SentRequest DEF Handler
  <1>3. conn' = [conn EXCEPT ![c] = h] /\ UNCHANGED <<process, counts>> /\ main.pc # "exit"
        /\ conn[c].pc = "new"
    BY <1>1 DEF ReadHeader, Is
  <1>4. h.out = {} /\ HandlerOK(c, h)
    BY <1>1, <1>2, <1>3 DEF HandlerOK, Busy
  <1>5. ConnectionOK(c)'
    BY <1>1, <1>2, <1>3, Live DEF ConnectionOK, Is, process
  <1> QED
    BY <1>1, <1>2, <1>3, <1>4, <1>5, OneHandler DEF Is

\* Closing a connection that sends nothing preserves the invariant.
LEMMA HangUpInv ==
    ASSUME Inv, NEW c \in Connections, HangUp(c)
    PROVE  Inv'
  <1> DEFINE h == [conn[c] EXCEPT !.pc = "closed"]
  <1>1. conn \in [Connections -> Handler] /\ conn[c] \in Handler /\ HandlerOK(c, conn[c])
    BY DEF Inv, TypeOK
  <1>2. /\ h \in Handler /\ h.pc = "closed" /\ h.in = conn[c].in /\ h.out = conn[c].out
        /\ h.sink = conn[c].sink /\ h.seen = conn[c].seen
    BY <1>1 DEF Handler
  <1>3. conn' = [conn EXCEPT ![c] = h] /\ UNCHANGED <<process, counts>> /\ main.pc # "exit"
        /\ conn[c].pc = "new"
    BY <1>1 DEF HangUp, Is
  <1>4. h.out = {} /\ HandlerOK(c, h)
    BY <1>1, <1>2, <1>3 DEF HandlerOK, Busy
  <1>5. ConnectionOK(c)'
    BY <1>1, <1>2, <1>3, Live DEF ConnectionOK, Is, process
  <1> QED
    BY <1>1, <1>2, <1>3, <1>4, <1>5, OneHandler DEF Is

\* What a decision makes of a handler.
LEMMA DecidedHandler ==
    ASSUME NEW g \in Handler, NEW out \in Outcome
    PROVE  /\ Decided(g, out) \in Handler
           /\ Decided(g, out).pc = FirstOf(out) /\ Decided(g, out).in = g.in
           /\ Decided(g, out).out = {out} /\ Decided(g, out).sink = g.sink
           /\ Decided(g, out).seen = g.seen
  BY DEF Handler, Decided, FirstOf

\* A handler that decides as the contract wants preserves the invariant.
LEMMA DecidedInv ==
    ASSUME Inv, NEW c \in Connections, main.pc # "exit", UNCHANGED <<process, counts>>,
           conn[c].pc \in {"head", "body", "sink"},
           NEW out \in Outcome, NEW h \in Handler, h.pc = FirstOf(out), h.out = {out},
           h.in = conn[c].in, h.seen = conn[c].seen, HandedOver(h),
           conn' = [conn EXCEPT ![c] = h]
    PROVE  Inv'
  <1>1. conn \in [Connections -> Handler] /\ conn[c] \in Handler /\ HandlerOK(c, conn[c])
    BY DEF Inv, TypeOK
  <1>2. h.pc \in {"answer", "record"} /\ (h.pc = "answer" => Key(out) # <<"metrics", "ok">>)
    BY DEF FirstOf
  <1>3. HandlerOK(c, h)
    BY <1>1, <1>2 DEF HandlerOK, Busy
  <1>4. ConnectionOK(c)'
    BY <1>1, <1>2, Live DEF ConnectionOK, Is, process, Busy
  <1>5. conn[c].out = {}
    BY <1>1 DEF HandlerOK
  <1> QED
    BY <1>2, <1>3, <1>4, <1>5, OneHandler DEF Is

\* A handler that goes on to its next step preserves the invariant.
LEMMA GoOnInv ==
    ASSUME Inv, NEW c \in Connections, main.pc # "exit", UNCHANGED <<process, counts>>,
           NEW pc \in {"body", "sink"}, conn[c].pc = IF pc = "body" THEN "head" ELSE "body",
           HeadVerdict(In(conn[c])) = {}, pc = "sink" => BodyVerdict(In(conn[c])) = {},
           conn' = [conn EXCEPT ![c] = [conn[c] EXCEPT !.pc = pc]]
    PROVE  Inv'
  <1> DEFINE h == [conn[c] EXCEPT !.pc = pc]
  <1>1. conn \in [Connections -> Handler] /\ conn[c] \in Handler /\ HandlerOK(c, conn[c])
    BY DEF Inv, TypeOK
  <1>2. /\ h \in Handler /\ h.pc = pc /\ h.in = conn[c].in /\ h.out = conn[c].out
        /\ h.sink = conn[c].sink /\ h.seen = conn[c].seen
    BY <1>1 DEF Handler
  <1>3. In(h) = In(conn[c])
    BY <1>2 DEF In
  <1>4. h.out = {} /\ HandlerOK(c, h)
    BY <1>1, <1>2, <1>3 DEF HandlerOK, Busy
  <1>5. ConnectionOK(c)'
    BY <1>1, <1>2, Live DEF ConnectionOK, Is, process, Busy
  <1> QED
    BY <1>1, <1>2, <1>4, <1>5, OneHandler DEF Is

\* The request that a handler is at work on.
LEMMA AtWork ==
    ASSUME Inv, NEW c \in Connections, conn[c].pc \in {"head", "body", "sink"}
    PROVE  /\ In(conn[c]) \in Request
           /\ conn[c] \in Handler /\ conn[c].out = {} /\ conn[c].sink = {}
  <1>1. conn[c] \in Handler /\ HandlerOK(c, conn[c])
    BY DEF Inv, TypeOK
  <1>2. PICK r \in Inputs[c] : conn[c].in = {r}
    BY <1>1 DEF HandlerOK, Busy
  <1>3. In(conn[c]) = r
    BY <1>2, Chosen DEF In
  <1>4. conn[c].out = {} /\ conn[c].sink = {}
    BY <1>1 DEF HandlerOK
  <1> QED
    BY <1>1, <1>3, <1>4, SentRequest

\* An answer that blames the request, given without the sink to a request that
\* the contract does not admit, is a valid handover.
LEMMA Refused ==
    ASSUME NEW h \in Handler, NEW out \in Outcome, h.out = {out}, h.sink = {},
           out.status \notin {202, 500, 503}, ~Contract(In(h))
    PROVE  HandedOver(h)
  <1>1. Out(h) = out
    BY Chosen DEF Out
  <1> QED
    BY <1>1 DEF HandedOver

\* The checks before the body preserve the invariant.
LEMMA ServeHTTPInv ==
    ASSUME Inv, NEW c \in Connections, main.pc # "exit", ServeHTTP(c)
    PROVE  Inv'
  <1>1. /\ conn[c].pc = "head" /\ UNCHANGED <<process, counts>>
        /\ In(conn[c]) \in Request /\ conn[c] \in Handler /\ conn[c].sink = {}
    BY AtWork DEF ServeHTTP, Is
  <1>2. conn \in [Connections -> Handler]
    BY DEF Inv, TypeOK
  <1>3. CASE HeadVerdict(In(conn[c])) = {}
    <2>1. conn' = [conn EXCEPT ![c] = [conn[c] EXCEPT !.pc = "body"]]
      BY <1>2, <1>3 DEF ServeHTTP
    <2>2. "body" = "sink" => BodyVerdict(In(conn[c])) = {}
      OBVIOUS
    <2> QED
      BY <1>1, <1>3, <2>1, <2>2, GoOnInv
  <1>4. CASE HeadVerdict(In(conn[c])) # {}
    <2>1. PICK out \in Outcome : /\ HeadVerdict(In(conn[c])) = {out}
                                 /\ out.status \notin {202, 500, 503} /\ ~Contract(In(conn[c]))
      BY <1>1, <1>4, HeadOutcome
    <2> DEFINE h == Decided(conn[c], out)
    <2>2. conn' = [conn EXCEPT ![c] = h]
      <3>1. (CHOOSE x \in HeadVerdict(In(conn[c])) : TRUE) = out
        BY <2>1, Chosen
      <3> QED
        BY <1>2, <1>4, <3>1 DEF ServeHTTP
    <2>3. /\ h \in Handler /\ h.pc = FirstOf(out) /\ h.in = conn[c].in /\ h.out = {out}
          /\ h.sink = {} /\ h.seen = conn[c].seen
      BY <1>1, DecidedHandler
    <2>4. HandedOver(h)
      <3>1. In(h) = In(conn[c])
        BY <2>3 DEF In
      <3> QED
        BY <2>1, <2>3, <3>1, Refused
    <2> HIDE DEF h
    <2> QED
      BY <1>1, <2>2, <2>3, <2>4, DecidedInv
  <1> QED
    BY <1>3, <1>4

\* Reading and decoding the body preserves the invariant.
LEMMA ReadBodyInv ==
    ASSUME Inv, NEW c \in Connections, main.pc # "exit", ReadBody(c)
    PROVE  Inv'
  <1>1. /\ conn[c].pc = "body" /\ UNCHANGED <<process, counts>>
        /\ In(conn[c]) \in Request /\ conn[c] \in Handler /\ conn[c].sink = {}
        /\ HeadVerdict(In(conn[c])) = {}
    BY AtWork DEF ReadBody, Is, Inv, HandlerOK
  <1>2. conn \in [Connections -> Handler]
    BY DEF Inv, TypeOK
  <1>3. CASE BodyVerdict(In(conn[c])) = {}
    <2>1. conn' = [conn EXCEPT ![c] = [conn[c] EXCEPT !.pc = "sink"]]
      BY <1>2, <1>3 DEF ReadBody
    <2> QED
      BY <1>1, <1>3, <2>1, GoOnInv
  <1>4. CASE BodyVerdict(In(conn[c])) # {}
    <2>1. PICK out \in Outcome : /\ BodyVerdict(In(conn[c])) = {out}
                                 /\ out.status \notin {202, 500, 503} /\ ~Contract(In(conn[c]))
      BY <1>1, <1>4, BodyOutcome
    <2> DEFINE h == Decided(conn[c], out)
    <2>2. conn' = [conn EXCEPT ![c] = h]
      <3>1. (CHOOSE x \in BodyVerdict(In(conn[c])) : TRUE) = out
        BY <2>1, Chosen
      <3> QED
        BY <1>2, <1>4, <3>1 DEF ReadBody
    <2>3. /\ h \in Handler /\ h.pc = FirstOf(out) /\ h.in = conn[c].in /\ h.out = {out}
          /\ h.sink = {} /\ h.seen = conn[c].seen
      BY <1>1, DecidedHandler
    <2>4. HandedOver(h)
      <3>1. In(h) = In(conn[c])
        BY <2>3 DEF In
      <3> QED
        BY <2>1, <2>3, <3>1, Refused
    <2> HIDE DEF h
    <2> QED
      BY <1>1, <2>2, <2>3, <2>4, DecidedInv
  <1> QED
    BY <1>3, <1>4

\* The answer of the sink preserves the invariant.
LEMMA EnqueueInv ==
    ASSUME Inv, NEW c \in Connections, main.pc # "exit", NEW answer \in SinkAnswers,
           Enqueue(c, answer)
    PROVE  Inv'
  <1>1. /\ conn[c].pc = "sink" /\ UNCHANGED <<process, counts>>
        /\ In(conn[c]) \in Request /\ conn[c] \in Handler
        /\ HeadVerdict(In(conn[c])) = {} /\ BodyVerdict(In(conn[c])) = {}
    BY AtWork DEF Enqueue, Is, Inv, HandlerOK
  <1>2. Contract(In(conn[c]))
    BY <1>1, Admitted
  <1> DEFINE out == SinkVerdict(answer)
  <1> DEFINE g == [conn[c] EXCEPT !.sink = {answer}]
  <1> DEFINE h == Decided(g, out)
  <1>3. /\ out \in Outcome /\ out.status \in {202, 500, 503}
        /\ out.status = 202 => answer.err = "none" /\ answer.receipt # "empty"
    BY SinkOutcome, InputAssumption
  <1>4. /\ g \in Handler /\ g.in = conn[c].in /\ g.sink = {answer} /\ g.seen = conn[c].seen
    BY <1>1 DEF Handler
  <1>5. conn' = [conn EXCEPT ![c] = h]
    BY DEF Enqueue, Inv, TypeOK
  <1> HIDE DEF g, out
  <1>6. /\ h \in Handler /\ h.pc = FirstOf(out) /\ h.in = conn[c].in /\ h.out = {out}
        /\ h.sink = {answer} /\ h.seen = conn[c].seen
    BY <1>3, <1>4, DecidedHandler
  <1> HIDE DEF h
  <1>7. HandedOver(h)
    <2>1. In(h) = In(conn[c])
      BY <1>6 DEF In
    <2>2. Out(h) = out
      BY <1>6, Chosen DEF Out
    <2> QED
      BY <1>2, <1>3, <1>6, <2>1, <2>2 DEF HandedOver
  <1> QED
    <2>1. conn[c].pc \in {"head", "body", "sink"} /\ UNCHANGED <<process, counts>>
      BY <1>1
    <2>2. out \in Outcome
      BY <1>3
    <2>3. h \in Handler /\ h.pc = FirstOf(out) /\ h.in = conn[c].in /\ h.out = {out}
          /\ h.seen = conn[c].seen
      BY <1>6
    <2> QED
      BY <1>5, <1>7, <2>1, <2>2, <2>3, DecidedInv

\* The outcome of a handler that has decided.
LEMMA Decision ==
    ASSUME Inv, NEW c \in Connections, conn[c].pc \in {"answer", "record", "done"}
    PROVE  /\ Out(conn[c]) \in Outcome /\ conn[c].out = {Out(conn[c])}
           /\ Key(Out(conn[c])) \in Keys
  <1>1. HandlerOK(c, conn[c])
    BY DEF Inv
  <1>2. PICK out \in Outcome : conn[c].out = {out}
    BY <1>1 DEF HandlerOK
  <1>3. Out(conn[c]) = out
    BY <1>2, Chosen DEF Out
  <1>4. Key(out) \in Keys
    <2>1. out.route \in Routes /\ out.result \in Results
      BY DEF Outcome
    <2> QED
      BY <2>1 DEF Key, Keys
  <1> QED
    BY <1>2, <1>3, <1>4, Zenon

-----------------------------------------------------------------------------
(* Answering and counting.                                                 *)

\* Writing and recording an answer leave the answers as they are.
LEMMA SameAnswer ==
    ASSUME Inv, NEW c \in Connections, NEW h \in Handler,
           conn' = [conn EXCEPT ![c] = h], UNCHANGED process, counts' \in [Keys -> Nat],
           conn[c].pc \in {"answer", "record"}, h.pc \in {"answer", "record", "done"},
           h.in = conn[c].in, h.out = conn[c].out, h.sink = conn[c].sink,
           h.seen # {} => h.pc = "done"
    PROVE  /\ TypeOK' /\ ProcessOK'
           /\ \A d \in Connections : ConnectionOK(d)' /\ HandlerOK(d, conn[d])'
           /\ HandoverIsValid'
           /\ \A k \in Keys : Answered(k)' = Answered(k)
           /\ conn'[c] = h /\ \A d \in Connections : d # c => conn'[d] = conn[d]
  <1>1. /\ conn'[c] = h
        /\ \A d \in Connections : d # c => conn'[d] = conn[d]
        /\ conn' \in [Connections -> Handler]
    BY DEF Inv, TypeOK
  <1>2. TypeOK' /\ ProcessOK'
    BY <1>1 DEF Inv, TypeOK, ProcessOK, process, Serving
  <1>3. HandlerOK(c, conn[c]) /\ conn[c].out # {}
    BY DEF Inv, HandlerOK
  <1>4. HandlerOK(c, h)
    BY <1>3 DEF HandlerOK, Busy
  <1>5. ConnectionOK(c)'
    BY <1>1, Live DEF ConnectionOK, Is, process, Busy
  <1>6. \A d \in Connections : ConnectionOK(d)' /\ HandlerOK(d, conn[d])'
    BY <1>1, <1>4, <1>5 DEF Inv, ConnectionOK, process, Is
  <1>7. HandoverIsValid'
    <2>1. In(h) = In(conn[c]) /\ Out(h) = Out(conn[c])
      BY DEF In, Out
    <2>2. HandedOver(conn[c])
      BY <1>3 DEF Inv, HandoverIsValid
    <2>3. HandedOver(h)
      BY <2>1, <2>2 DEF HandedOver
    <2>4. ASSUME NEW d \in Connections, d # c, conn'[d].out # {} PROVE HandedOver(conn'[d])
      BY <1>1, <2>4 DEF Inv, HandoverIsValid
    <2> QED
      BY <1>1, <2>3, <2>4 DEF HandoverIsValid
  <1>8. ASSUME NEW k \in Keys PROVE Answered(k)' = Answered(k)
    <2>1. \A d \in Connections : conn'[d].out = conn[d].out
      BY <1>1
    <2> QED
      BY <2>1 DEF Answered
  <1> QED
    BY <1>1, <1>2, <1>6, <1>7, <1>8

\* Writing an answer that is yet to be recorded preserves the invariant.
LEMMA WriteProblemInv ==
    ASSUME Inv, NEW c \in Connections, main.pc # "exit", Write(c),
           Key(Out(conn[c])) # <<"metrics", "ok">>
    PROVE  Inv'
  <1> DEFINE h == [conn[c] EXCEPT !.pc = "record", !.seen = {}]
  <1>1. conn \in [Connections -> Handler] /\ conn[c] \in Handler /\ HandlerOK(c, conn[c])
    BY DEF Inv, TypeOK
  <1>2. /\ h \in Handler /\ h.pc = "record" /\ h.in = conn[c].in /\ h.out = conn[c].out
        /\ h.sink = conn[c].sink /\ h.seen = {}
    BY <1>1 DEF Handler
  <1>3. conn[c].pc = "answer" /\ UNCHANGED <<process, counts>>
    BY DEF Write, Is
  <1>4. conn' = [conn EXCEPT ![c] = h]
    BY <1>1 DEF Write
  <1>5. conn[c].seen = {} /\ conn[c].out = {Out(conn[c])}
    BY <1>1, <1>3, Decision DEF HandlerOK
  <1> HIDE DEF h
  <1>6. /\ ConnectionOK(c)' /\ HandlerOK(c, conn'[c])
        /\ HandoverIsValid' /\ conn'[c] = h
    <2>1. counts' \in [Keys -> Nat]
      BY <1>3 DEF Inv, TypeOK
    <2> QED
      BY <1>2, <1>3, <1>4, <2>1, SameAnswer
  <1>7. HandlerOK(c, h) /\ (h.out # {} => HandedOver(h))
    BY <1>6 DEF HandoverIsValid
  <1> QED
    BY <1>2, <1>3, <1>4, <1>5, <1>6, <1>7, OneHandler DEF Is

\* A scrape takes its copy of the counters: the invariant is preserved.
LEMMA WriteScrapeInv ==
    ASSUME Inv, NEW c \in Connections, main.pc # "exit", Write(c),
           Key(Out(conn[c])) = <<"metrics", "ok">>
    PROVE  Inv'
  <1> DEFINE h == [conn[c] EXCEPT !.pc = "done", !.seen = {counts}]
  <1> DEFINE m == <<"metrics", "ok">>
  <1>1. conn \in [Connections -> Handler] /\ conn[c] \in Handler /\ counts \in [Keys -> Nat]
    BY DEF Inv, TypeOK
  <1>2. /\ h \in Handler /\ h.pc = "done" /\ h.in = conn[c].in /\ h.out = conn[c].out
        /\ h.sink = conn[c].sink /\ h.seen = {counts}
    BY <1>1 DEF Handler
  <1>3. conn[c].pc = "answer" /\ UNCHANGED <<process, counts>>
    BY DEF Write, Is
  <1>4. conn' = [conn EXCEPT ![c] = h]
    BY <1>1 DEF Write, render
  <1>5. conn[c].out = {Out(conn[c])} /\ m \in Keys
    BY <1>3, Decision
  <1> HIDE DEF h
  <1>6. /\ TypeOK' /\ ProcessOK' /\ HandoverIsValid'
        /\ \A d \in Connections : ConnectionOK(d)' /\ HandlerOK(d, conn[d])'
        /\ \A k \in Keys : Answered(k)' = Answered(k)
        /\ conn'[c] = h /\ \A d \in Connections : d # c => conn'[d] = conn[d]
    BY <1>1, <1>2, <1>3, <1>4, SameAnswer
  <1>7. ASSUME NEW k \in Keys PROVE Counted(k)' = Counted(k)
    <2>1. Answered(k)' = Answered(k)
      BY <1>6
    <2>2. c \in Answered(k) => k = m
      BY <1>5 DEF Answered
    <2>3. \A d \in Connections : d # c => (Is(d, "done")' <=> Is(d, "done")) /\ (Is(d, "answer")' <=> Is(d, "answer"))
      BY <1>6 DEF Is
    <2>4. Is(c, "done")' /\ Is(c, "answer")
      BY <1>2, <1>3, <1>6 DEF Is
    <2>5. \A d : d \in Answered(k) => d \in Connections
      BY DEF Answered
    <2> QED
      BY <2>1, <2>2, <2>3, <2>4, <2>5, Zenon DEF Counted
  <1>8. CountsOK /\ ScrapesAreCoherent
    BY DEF Inv
  <1>9. CountsOK'
    <2>1. ASSUME NEW k \in Keys PROVE counts'[k] = Cardinality(Counted(k)')
      BY <1>3, <1>7, <1>8 DEF CountsOK
    <2>2. ASSUME NEW d \in Connections, NEW s \in conn'[d].seen, NEW k \in Keys
          PROVE  s[k] <= counts'[k]
      <3>1. CASE d = c
        <4>1. s = counts /\ counts[k] \in Nat
          BY <1>1, <1>2, <1>6, <3>1
        <4> QED
          BY <1>3, <4>1
      <3>2. CASE d # c
        BY <1>3, <1>6, <1>8, <3>2 DEF CountsOK
      <3> QED
        BY <3>1, <3>2
    <2> QED
      BY <2>1, <2>2 DEF CountsOK
  <1>10. /\ counts[m] >= 1
         /\ \A k \in Keys : counts[k] <= Cardinality(Answered(k))
    <2>1. ASSUME NEW k \in Keys PROVE counts[k] = Cardinality(Counted(k))
      BY <1>8 DEF CountsOK
    <2>2. c \in Counted(m)
      BY <1>3, <1>5 DEF Counted, Answered, Is
    <2>3. Cardinality(Counted(m)) # 0
      BY <2>2, AnsweredFinite, FS_EmptySet
    <2>4. counts[m] \in Nat /\ counts[m] # 0
      BY <1>1, <1>5, <2>1, <2>3
    <2>5. counts[m] >= 1
      BY <2>4
    <2> QED
      BY <2>1, <2>5, AnsweredFinite
  <1>11. ScrapesAreCoherent'
    <2> SUFFICES ASSUME NEW d \in Connections, NEW s \in conn'[d].seen
                 PROVE  /\ s[m] >= 1
                        /\ \A k \in Keys : s[k] <= Cardinality(Answered(k))
                        /\ \A e \in Connections : \A t \in conn'[e].seen :
                              (\A k \in Keys : s[k] <= t[k]) \/ (\A k \in Keys : t[k] <= s[k])
      BY <1>6 DEF ScrapesAreCoherent
    <2>1. \A e \in Connections : \A t \in conn'[e].seen : \A k \in Keys : t[k] <= counts[k]
      BY <1>3, <1>9 DEF CountsOK
    <2>2. CASE d = c
      <3>1. s = counts
        BY <1>2, <1>6, <2>2
      <3> QED
        BY <1>10, <2>1, <3>1
    <2>3. CASE d # c
      <3>1. s \in conn[d].seen
        BY <1>6, <2>3
      <3>2. s[m] >= 1 /\ \A k \in Keys : s[k] <= Cardinality(Answered(k))
        BY <1>8, <3>1 DEF ScrapesAreCoherent
      <3>3. ASSUME NEW e \in Connections, NEW t \in conn'[e].seen
            PROVE  (\A k \in Keys : s[k] <= t[k]) \/ (\A k \in Keys : t[k] <= s[k])
        <4>1. CASE e = c
          <5>1. t = counts
            BY <1>2, <1>6, <4>1
          <5> QED
            BY <2>1, <5>1
        <4>2. CASE e # c
          BY <1>6, <1>8, <3>1, <4>2 DEF ScrapesAreCoherent
        <4> QED
          BY <4>1, <4>2
      <3> QED
        BY <3>2, <3>3
    <2> QED
      BY <2>2, <2>3
  <1> QED
    BY <1>6, <1>9, <1>11 DEF Inv

\* Recording an answer counts it once: the invariant is preserved.
LEMMA RecordInv ==
    ASSUME Inv, NEW c \in Connections, main.pc # "exit", record(c)
    PROVE  Inv'
  <1> DEFINE key == Key(Out(conn[c]))
  <1> DEFINE next == IF FirstOf(Out(conn[c])) = "record" THEN "answer" ELSE "done"
  <1> DEFINE h == [conn[c] EXCEPT !.pc = next]
  <1>1. conn \in [Connections -> Handler] /\ conn[c] \in Handler /\ counts \in [Keys -> Nat]
        /\ HandlerOK(c, conn[c])
    BY DEF Inv, TypeOK
  <1>2. conn[c].pc = "record" /\ UNCHANGED process
    BY DEF record, Is
  <1>3. key \in Keys /\ conn[c].out = {Out(conn[c])}
    BY <1>2, Decision
  <1>4. /\ h \in Handler /\ h.pc = next /\ h.in = conn[c].in /\ h.out = conn[c].out
        /\ h.sink = conn[c].sink /\ h.seen = conn[c].seen
    BY <1>1 DEF Handler
  <1>5. conn' = [conn EXCEPT ![c] = h]
    BY <1>1 DEF record
  <1>6. counts' = [counts EXCEPT ![key] = @ + 1]
    BY DEF record, increment
  <1>7. next = IF key = <<"metrics", "ok">> THEN "answer" ELSE "done"
    BY DEF FirstOf
  <1> HIDE DEF key, next, h
  <1>8. counts' \in [Keys -> Nat] /\ \A k \in Keys : counts'[k] = IF k = key THEN counts[k] + 1 ELSE counts[k]
    BY <1>1, <1>3, <1>6
  <1>9. conn[c].seen = {} /\ h.pc \in {"answer", "record", "done"}
    BY <1>1, <1>2, <1>4, <1>7 DEF HandlerOK
  <1>10. /\ TypeOK' /\ ProcessOK' /\ HandoverIsValid'
         /\ \A d \in Connections : ConnectionOK(d)' /\ HandlerOK(d, conn[d])'
         /\ \A k \in Keys : Answered(k)' = Answered(k)
         /\ conn'[c] = h /\ \A d \in Connections : d # c => conn'[d] = conn[d]
    BY <1>2, <1>4, <1>5, <1>8, <1>9, SameAnswer
  <1>11. CountsOK /\ ScrapesAreCoherent
    BY DEF Inv
  <1>12. \A d \in Connections : conn'[d].seen = conn[d].seen
    BY <1>4, <1>10
  <1>13. ASSUME NEW k \in Keys PROVE counts'[k] = Cardinality(Counted(k)')
    <2>1. counts[k] = Cardinality(Counted(k)) /\ counts[k] \in Nat
      BY <1>1, <1>11 DEF CountsOK
    <2>2. Answered(k)' = Answered(k)
      BY <1>10
    <2>3. \A d \in Connections : d # c => (d \in Counted(k)' <=> d \in Counted(k))
      BY <1>10, <2>2 DEF Counted, Is
    <2>4. c \notin Counted(k)
      BY <1>2 DEF Counted, Is
    <2>5. c \in Answered(k) <=> k = key
      BY <1>3 DEF Answered, key
    <2>6. \A d : (d \in Counted(k) => d \in Connections) /\ (d \in Counted(k)' => d \in Connections)
      BY DEF Counted, Answered
    <2>7. CASE k = key
      <3>1. c \in Counted(k)'
        BY <1>4, <1>7, <1>10, <2>2, <2>5, <2>7 DEF Counted, Is
      <3>2. Counted(k)' = Counted(k) \cup {c}
        BY <2>3, <2>6, <3>1
      <3>3. Cardinality(Counted(k) \cup {c}) = Cardinality(Counted(k)) + 1
        BY <2>4, AnsweredFinite, FS_AddElement
      <3> QED
        BY <1>8, <2>1, <2>7, <3>2, <3>3
    <2>8. CASE k # key
      <3>1. c \notin Counted(k)'
        BY <2>2, <2>5, <2>8 DEF Counted
      <3>2. Counted(k)' = Counted(k)
        BY <2>3, <2>4, <2>6, <3>1
      <3> QED
        BY <1>8, <2>1, <2>8, <3>2
    <2> QED
      BY <2>7, <2>8
  <1>14. ASSUME NEW d \in Connections, NEW s \in conn'[d].seen, NEW k \in Keys
         PROVE  s[k] <= counts'[k]
    <2>1. s \in conn[d].seen
      BY <1>12
    <2>2. s[k] <= counts[k]
      BY <1>11, <2>1 DEF CountsOK
    <2>3. s[k] \in Nat /\ counts[k] \in Nat
      BY <1>1, <2>1 DEF Inv, TypeOK, Handler
    <2> QED
      BY <1>8, <2>2, <2>3
  <1>15. CountsOK'
    BY <1>13, <1>14 DEF CountsOK
  <1>16. ScrapesAreCoherent'
    BY <1>10, <1>11, <1>12 DEF ScrapesAreCoherent
  <1> QED
    BY <1>10, <1>15, <1>16 DEF Inv

-----------------------------------------------------------------------------
(* Steps of run, of serveHTTP and of the server.                           *)

\* A step of the process that leaves requests and counters alone preserves the
\* invariant if the process is as it should be afterwards.
LEMMA ProcessStep ==
    ASSUME Inv, UNCHANGED <<conn, counts>>, TypeOK', ProcessOK',
           \A c \in Connections : ConnectionOK(c)',
           main'.status = "ok" => main.pc # "exit" \/ main.status = "ok",
           main'.pc # "exit" => main.pc # "exit"
    PROVE  Inv'
  <1>1. \A c \in Connections : HandlerOK(c, conn[c])'
    BY DEF Inv
  <1>2. HandoverIsValid'
    BY DEF Inv, HandoverIsValid
  <1>3. \A k \in Keys : Answered(k)' = Answered(k) /\ Counted(k)' = Counted(k)
    BY DEF Answered, Counted, Is
  <1>4. CountsOK' /\ ScrapesAreCoherent'
    BY <1>3, QuietCounts
  <1> QED
    BY <1>1, <1>2, <1>4 DEF Inv

\* The signal preserves the invariant.
LEMMA SignalInv == ASSUME Inv, Signal PROVE Inv'
  <1>1. TypeOK' /\ ProcessOK'
    BY DEF Inv, TypeOK, ProcessOK, Signal, Serving
  <1>2. \A c \in Connections : ConnectionOK(c)'
    BY DEF Inv, Signal, ConnectionOK, Is
  <1> QED
    BY <1>1, <1>2, ProcessStep DEF Signal

\* Failing or succeeding to prepare the database preserves the invariant.
LEMMA PrepareInv == ASSUME Inv, PrepareFails \/ Serve PROVE Inv'
  <1>1. TypeOK /\ ProcessOK /\ main.pc = "prepare" /\ main \in Main
    BY DEF Inv, TypeOK, PrepareFails, Serve
  <1>2. pool = "none" /\ server = "none" /\ main.status = "none"
    BY <1>1 DEF ProcessOK
  <1>3. CASE PrepareFails
    <2>1. /\ main'.pc = "exit" /\ main'.status = "failed" /\ main' \in Main
          /\ UNCHANGED <<signalled, pool, server, serverError, shutdown, conn, counts>>
      BY <1>3 DEF PrepareFails, Main
    <2>2. TypeOK' /\ ProcessOK'
      BY <1>1, <1>2, <2>1 DEF TypeOK, ProcessOK, Serving
    <2>3. \A c \in Connections : ConnectionOK(c)'
      BY <2>1 DEF Inv, ConnectionOK, Is
    <2> QED
      BY <2>1, <2>2, <2>3, ProcessStep
  <1>4. CASE Serve
    <2>1. /\ main'.pc = "select" /\ main'.status = "none" /\ main' \in Main
          /\ pool' = "open" /\ server' = "starting"
          /\ UNCHANGED <<signalled, serverError, shutdown, conn, counts>>
      BY <1>1, <1>2, <1>4 DEF Serve, Goto, Main
    <2>2. ~shutdown
      BY <1>1, <1>2 DEF ProcessOK
    <2>3. TypeOK' /\ ProcessOK'
      BY <1>1, <1>2, <2>1, <2>2 DEF TypeOK, ProcessOK, Serving, ServerErrors
    <2>4. \A c \in Connections : ConnectionOK(c)'
      BY <1>2, <2>1 DEF Inv, ConnectionOK, Is
    <2> QED
      BY <1>1, <2>1, <2>3, <2>4, ProcessStep
  <1> QED
    BY <1>3, <1>4

\* What the server sent is what it returned with.
LEMMA Received ==
    ASSUME Inv, Serving, serverError # <<>>
    PROVE  /\ server \in ServerErrors /\ Head(serverError) = server /\ Tail(serverError) = <<>>
  <1>1. server \in ServerErrors /\ serverError = <<server>>
    BY DEF Inv, TypeOK, ProcessOK
  <1> QED
    BY <1>1

\* Taking the server's error preserves the invariant.
LEMMA ReceiveInv == ASSUME Inv, SelectError \/ Await PROVE Inv'
  <1>1. TypeOK /\ ProcessOK
    BY DEF Inv
  <1>2. /\ Serving /\ main.pc \in {"select", "await"} /\ serverError # <<>>
        /\ UNCHANGED <<signalled, pool, server, shutdown, conn, counts>>
        /\ main' = [pc |-> "return", status |-> IF Head(serverError) = "ErrServerClosed"
                                                THEN "ok" ELSE "failed"]
        /\ serverError' = Tail(serverError)
    BY DEF SelectError, Await, Return, Serving
  <1>3. /\ server \in ServerErrors /\ serverError' = <<>>
        /\ main'.pc = "return" /\ main' \in Main
        /\ main'.status = IF server = "ErrServerClosed" THEN "ok" ELSE "failed"
    BY <1>2, Received DEF Main
  <1>4. main'.status = "ok" => main.pc = "await" /\ shutdown
    BY <1>1, <1>2, <1>3 DEF ProcessOK
  <1>5. TypeOK'
    BY <1>1, <1>2, <1>3 DEF TypeOK
  <1>6. ProcessOK'
    BY <1>1, <1>2, <1>3, <1>4 DEF ProcessOK, Serving, ServerErrors
  <1>7. \A c \in Connections : ConnectionOK(c)'
    BY <1>2, <1>3, <1>4 DEF Inv, ConnectionOK, Is
  <1> QED
    BY <1>2, <1>3, <1>5, <1>6, <1>7, ProcessStep

\* Where run goes between the select and the end of Shutdown preserves the
\* invariant.
LEMMA ShutdownInv == ASSUME Inv, SelectDone \/ ListenerClosed \/ ShutdownTimesOut PROVE Inv'
  <1>1. TypeOK /\ ProcessOK /\ main \in Main
    BY DEF Inv, TypeOK
  <1>2. CASE SelectDone
    <2>1. /\ main.pc = "select" /\ signalled /\ shutdown' = TRUE
          /\ main'.pc = "closing" /\ main'.status = main.status /\ main' \in Main
          /\ UNCHANGED <<signalled, pool, server, serverError, conn, counts>>
      BY <1>1, <1>2 DEF SelectDone, Goto, Main
    <2>2. TypeOK' /\ ProcessOK'
      BY <1>1, <2>1 DEF TypeOK, ProcessOK, Serving
    <2>3. \A c \in Connections : ConnectionOK(c)'
      BY <2>1 DEF Inv, ConnectionOK, Is
    <2> QED
      BY <2>1, <2>2, <2>3, ProcessStep
  <1>3. CASE ListenerClosed
    <2>1. /\ main.pc = "closing" /\ server # "accepting"
          /\ main'.pc = "draining" /\ main'.status = main.status /\ main' \in Main
          /\ UNCHANGED <<signalled, pool, server, serverError, shutdown, conn, counts>>
      BY <1>1, <1>3 DEF ListenerClosed, Goto, Main
    <2>2. TypeOK' /\ ProcessOK'
      BY <1>1, <2>1 DEF TypeOK, ProcessOK, Serving
    <2>3. \A c \in Connections : ConnectionOK(c)'
      BY <2>1 DEF Inv, ConnectionOK, Is
    <2> QED
      BY <2>1, <2>2, <2>3, ProcessStep
  <1>4. CASE ShutdownTimesOut
    <2>1. /\ main.pc = "draining"
          /\ main'.pc = "return" /\ main'.status = "failed" /\ main' \in Main
          /\ UNCHANGED <<signalled, pool, server, serverError, shutdown, conn, counts>>
      BY <1>1, <1>4 DEF ShutdownTimesOut, Return, Main
    <2>2. TypeOK' /\ ProcessOK'
      BY <1>1, <2>1 DEF TypeOK, ProcessOK, Serving
    <2>3. \A c \in Connections : ConnectionOK(c)'
      BY <2>1 DEF Inv, ConnectionOK, Is
    <2> QED
      BY <2>1, <2>2, <2>3, ProcessStep
  <1> QED
    BY <1>2, <1>3, <1>4

\* The deferred Close preserves the invariant.
LEMMA ClosePoolInv == ASSUME Inv, ClosePool PROVE Inv'
  <1>1. TypeOK' /\ ProcessOK'
    BY DEF Inv, TypeOK, ProcessOK, ClosePool, Serving
  <1>2. \A c \in Connections : ConnectionOK(c)'
    BY DEF Inv, ClosePool, ConnectionOK, Is
  <1> QED
    BY <1>1, <1>2, ProcessStep DEF ClosePool

\* The server's goroutine takes a step towards accepting connections.
LEMMA AdvanceInv ==
    ASSUME Inv, ~shutdown,
           \/ server = "starting" /\ server' = "binding"
           \/ server = "binding" /\ server' = "accepting",
           UNCHANGED <<main, signalled, pool, serverError, shutdown, conn, counts>>
    PROVE  Inv'
  <1>1. TypeOK /\ ProcessOK
    BY DEF Inv
  <1>2. TypeOK'
    BY <1>1 DEF TypeOK
  <1>3. ProcessOK'
    BY <1>1 DEF ProcessOK, Serving, ServerErrors
  <1>4. \A c \in Connections : ConnectionOK(c)'
    BY DEF Inv, ConnectionOK, Is
  <1> QED
    BY <1>2, <1>3, <1>4, ProcessStep

\* The server's goroutine ends; its channel has room.
LEMMA ServerReturnsInv ==
    ASSUME Inv, server \in {"starting", "binding", "accepting"},
           NEW err \in ServerErrors, err = "ErrServerClosed" => shutdown, ServerReturns(err)
    PROVE  Inv'
  <1>1. TypeOK /\ ProcessOK
    BY DEF Inv
  <1>2. serverError' = <<err>> /\ server' = err
        /\ UNCHANGED <<main, signalled, pool, shutdown, conn, counts>>
    <2>1. serverError = <<>>
      BY <1>1 DEF ProcessOK
    <2> QED
      BY <2>1 DEF ServerReturns
  <1>3. TypeOK'
    BY <1>1, <1>2 DEF TypeOK
  <1>4. ProcessOK'
    BY <1>1, <1>2 DEF ProcessOK, Serving, ServerErrors
  <1>5. \A c \in Connections : ConnectionOK(c)'
    BY <1>2 DEF Inv, ConnectionOK, Is, ServerErrors
  <1> QED
    BY <1>2, <1>3, <1>4, <1>5, ProcessStep

\* Every step of ListenAndServe preserves the invariant.
LEMMA ServerInv == ASSUME Inv, ServerStep \/ ServeFails PROVE Inv'
  <1>1. "failed" \in ServerErrors /\ "ErrServerClosed" \in ServerErrors
    BY DEF ServerErrors
  <1>2. CASE Bind
    BY <1>1, <1>2, AdvanceInv, ServerReturnsInv DEF Bind
  <1>3. CASE Listen
    BY <1>1, <1>3, AdvanceInv, ServerReturnsInv DEF Listen
  <1>4. CASE ServeClosed
    BY <1>1, <1>4, ServerReturnsInv DEF ServeClosed
  <1>5. CASE ServeFails
    BY <1>1, <1>5, ServerReturnsInv DEF ServeFails
  <1> QED
    BY <1>2, <1>3, <1>4, <1>5 DEF ServerStep

\* A handler that is only moved keeps everything else, and what was handed over
\* depends on nothing but that.
LEMMA Moved ==
    ASSUME NEW h \in Handler, NEW pc \in {"closed", "cut"}, NEW g, g = [h EXCEPT !.pc = pc]
    PROVE  /\ g \in Handler /\ g.pc = pc
           /\ g.in = h.in /\ g.out = h.out /\ g.sink = h.sink /\ g.seen = h.seen
  BY DEF Handler

LEMMA SameHandover ==
    ASSUME NEW h, NEW g, g.in = h.in, g.out = h.out, g.sink = h.sink, HandedOver(h)
    PROVE  HandedOver(g)
  <1>1. In(g) = In(h) /\ Out(g) = Out(h)
    BY DEF In, Out
  <1> QED
    BY <1>1 DEF HandedOver

\* Shutdown seeing every connection idle preserves the invariant: what it closes
\* has no request yet.
LEMMA DrainedInv == ASSUME Inv, Drained PROVE Inv'
  <1>1. /\ TypeOK /\ ProcessOK /\ main \in Main /\ conn \in [Connections -> Handler]
        /\ \A c \in Connections : ConnectionOK(c) /\ HandlerOK(c, conn[c])
    BY DEF Inv, TypeOK
  <1>2. /\ main.pc = "draining" /\ main'.pc = "await" /\ main'.status = main.status
        /\ main' \in Main
        /\ UNCHANGED <<signalled, pool, server, serverError, shutdown, counts>>
    BY <1>1 DEF Drained, Goto, Main
  <1>3. ASSUME NEW c \in Connections
        PROVE  /\ conn'[c] = IF conn[c].pc = "new" THEN [conn[c] EXCEPT !.pc = "closed"]
                             ELSE conn[c]
               /\ conn[c] \in Handler /\ conn[c].pc \notin Busy
    BY <1>1 DEF Drained, Is, Handling
  <1>4. ASSUME NEW c \in Connections
        PROVE  /\ conn'[c] \in Handler
               /\ conn'[c].in = conn[c].in /\ conn'[c].out = conn[c].out
               /\ conn'[c].sink = conn[c].sink /\ conn'[c].seen = conn[c].seen
               /\ conn'[c].pc = IF conn[c].pc = "new" THEN "closed" ELSE conn[c].pc
    <2>1. CASE conn[c].pc = "new"
      <3>1. conn'[c] = [conn[c] EXCEPT !.pc = "closed"] /\ conn[c] \in Handler
        BY <1>3, <2>1
      <3> QED
        BY ONLY <2>1, <3>1, Moved
    <2>2. CASE conn[c].pc # "new"
      BY <1>3, <2>2
    <2> QED
      BY <2>1, <2>2
  <1>5. TypeOK'
    <2>1. conn' \in [Connections -> Handler]
      BY <1>4 DEF Drained
    <2> QED
      BY <1>1, <1>2, <2>1 DEF TypeOK
  <1>6. ProcessOK'
    BY <1>1, <1>2 DEF ProcessOK, Serving
  <1>7. \A c \in Connections : ConnectionOK(c)'
    <2> SUFFICES ASSUME NEW c \in Connections PROVE ConnectionOK(c)'
      OBVIOUS
    <2>1. conn[c].pc \in {"away", "new", "done", "closed"}
      BY <1>1, <1>2, <1>3 DEF ConnectionOK, Is, Handler, Busy
    <2> QED
      BY <1>1, <1>2, <1>4, <2>1 DEF ConnectionOK, Is
  <1>8. \A c \in Connections : HandlerOK(c, conn[c])'
    <2> SUFFICES ASSUME NEW c \in Connections PROVE HandlerOK(c, conn'[c])
      BY DEF HandlerOK, In
    <2>1. CASE conn[c].pc # "new"
      BY <1>1, <1>3, <2>1
    <2>2. CASE conn[c].pc = "new"
      <3>1. PICK h, n : h = conn[c] /\ n = conn'[c]
        OBVIOUS
      <3>2. /\ HandlerOK(c, h) /\ n.pc = "closed" /\ h.pc = "new"
            /\ n.in = h.in /\ n.out = h.out /\ n.sink = h.sink /\ n.seen = h.seen
        BY <1>1, <1>4, <2>2, <3>1
      <3>3. HandlerOK(c, n)
        BY <3>2 DEF HandlerOK, Busy
      <3> QED
        BY <3>1, <3>3
    <2> QED
      BY <2>1, <2>2
  <1>9. HandoverIsValid'
    BY <1>4, SameHandover DEF Inv, HandoverIsValid
  <1>10. ASSUME NEW k \in Keys PROVE Answered(k)' = Answered(k) /\ Counted(k)' = Counted(k)
    <2>1. Answered(k)' = Answered(k)
      BY <1>4 DEF Answered
    <2> QED
      BY <1>4, <2>1 DEF Counted, Is, Answered
  <1>11. CountsOK' /\ ScrapesAreCoherent'
    BY <1>2, <1>4, <1>10, QuietCounts
  <1> QED
    BY <1>5, <1>6, <1>7, <1>8, <1>9, <1>11 DEF Inv

\* The end of the process preserves the invariant: a successful one cuts nothing.
LEMMA ExitInv == ASSUME Inv, Exit PROVE Inv'
  <1>1. /\ TypeOK /\ ProcessOK /\ main \in Main /\ conn \in [Connections -> Handler]
        /\ \A c \in Connections : ConnectionOK(c) /\ HandlerOK(c, conn[c])
    BY DEF Inv, TypeOK
  <1>2. /\ main.pc = "return" /\ main'.pc = "exit" /\ main'.status = main.status
        /\ main' \in Main
        /\ UNCHANGED <<signalled, pool, server, serverError, shutdown, counts>>
    BY <1>1 DEF Exit, Goto, Main
  <1>3. ASSUME NEW c \in Connections
        PROVE  /\ conn'[c] = IF conn[c].pc \in Busy \/ conn[c].pc = "new"
                             THEN [conn[c] EXCEPT !.pc = "cut"] ELSE conn[c]
               /\ conn[c] \in Handler
    BY <1>1 DEF Exit, Is, Handling
  <1>4. ASSUME NEW c \in Connections
        PROVE  /\ conn'[c] \in Handler
               /\ conn'[c].in = conn[c].in /\ conn'[c].out = conn[c].out
               /\ conn'[c].sink = conn[c].sink /\ conn'[c].seen = conn[c].seen
               /\ conn'[c].pc = IF conn[c].pc \in Busy \/ conn[c].pc = "new"
                                THEN "cut" ELSE conn[c].pc
    <2>1. CASE conn[c].pc \in Busy \/ conn[c].pc = "new"
      <3>1. conn'[c] = [conn[c] EXCEPT !.pc = "cut"] /\ conn[c] \in Handler
        BY <1>3, <2>1
      <3> QED
        BY ONLY <2>1, <3>1, Moved
    <2>2. CASE ~(conn[c].pc \in Busy \/ conn[c].pc = "new")
      BY <1>3, <2>2
    <2> QED
      BY <2>1, <2>2
  <1>5. TypeOK'
    <2>1. conn' \in [Connections -> Handler]
      BY <1>4 DEF Exit
    <2> QED
      BY <1>1, <1>2, <2>1 DEF TypeOK
  <1>6. ProcessOK'
    BY <1>1, <1>2 DEF ProcessOK, Serving
  <1>7. \A c \in Connections : ConnectionOK(c)'
    BY <1>1, <1>2, <1>4 DEF ConnectionOK, Is, Busy
  <1>8. \A c \in Connections : HandlerOK(c, conn[c])'
    <2> SUFFICES ASSUME NEW c \in Connections PROVE HandlerOK(c, conn'[c])
      BY DEF HandlerOK, In
    <2>1. CASE ~(conn[c].pc \in Busy \/ conn[c].pc = "new")
      BY <1>1, <1>3, <2>1
    <2>2. CASE conn[c].pc \in Busy \/ conn[c].pc = "new"
      <3>1. PICK h, n : h = conn[c] /\ n = conn'[c]
        OBVIOUS
      <3>2. /\ HandlerOK(c, h) /\ n.pc = "cut" /\ h.pc \in Busy \cup {"new"}
            /\ n.in = h.in /\ n.out = h.out /\ n.sink = h.sink /\ n.seen = h.seen
        BY <1>1, <1>4, <2>2, <3>1
      <3>3. HandlerOK(c, n)
        BY <3>2 DEF HandlerOK, Busy
      <3> QED
        BY <3>1, <3>3
    <2> QED
      BY <2>1, <2>2
  <1>9. HandoverIsValid'
    BY <1>4, SameHandover DEF Inv, HandoverIsValid
  <1>10. ASSUME NEW k \in Keys PROVE Answered(k)' = Answered(k)
    BY <1>4 DEF Answered
  <1>11. ASSUME NEW k \in Keys, main.status = "ok" PROVE Counted(k)' = Counted(k)
    <2>1. \A c \in Connections : conn'[c].pc = conn[c].pc
      BY <1>1, <1>4, <1>11 DEF ConnectionOK, Busy
    <2> QED
      BY <1>10, <2>1 DEF Counted, Is, Answered
  <1>12. CountsOK' /\ ScrapesAreCoherent'
    BY <1>2, <1>4, <1>10, <1>11, QuietCounts
  <1> QED
    BY <1>5, <1>6, <1>7, <1>8, <1>9, <1>12 DEF Inv

-----------------------------------------------------------------------------

\* The process starts with no connection and counters at zero.
LEMMA InitInv == Init => Inv
  <1> SUFFICES ASSUME Init PROVE Inv
    OBVIOUS
  <1>1. /\ main \in Main /\ main.pc = "prepare" /\ main.status = "none"
        /\ pool = "none" /\ server = "none" /\ serverError = <<>> /\ shutdown = FALSE
        /\ signalled = FALSE
    BY DEF Init, Main
  <1>2. conn = [c \in Connections |-> Away] /\ Away \in Handler
    BY DEF Init, Away, Handler
  <1>3. \A c \in Connections :
           /\ conn[c].pc = "away" /\ conn[c].in = {} /\ conn[c].out = {}
           /\ conn[c].sink = {} /\ conn[c].seen = {}
    BY <1>2 DEF Away
  <1>4. counts = [k \in Keys |-> 0]
    BY DEF Init
  <1>5. TypeOK
    BY <1>1, <1>2, <1>4 DEF TypeOK
  <1>6. ProcessOK
    BY <1>1 DEF ProcessOK, Serving, ServerErrors
  <1>7. \A c \in Connections : ConnectionOK(c) /\ HandlerOK(c, conn[c])
    BY <1>1, <1>3 DEF ConnectionOK, HandlerOK, Is, Busy
  <1>8. HandoverIsValid /\ ScrapesAreCoherent
    BY <1>3 DEF HandoverIsValid, ScrapesAreCoherent
  <1>9. CountsOK
    <2>1. \A k \in Keys : Counted(k) = {}
      BY <1>3 DEF Counted, Answered
    <2> QED
      BY <1>3, <1>4, <2>1, FS_EmptySet DEF CountsOK
  <1> QED
    BY <1>5, <1>6, <1>7, <1>8, <1>9 DEF Inv

\* Every step of run preserves the invariant.
LEMMA RunInv == ASSUME Inv, RunStep PROVE Inv'
  BY PrepareInv, ReceiveInv, ShutdownInv, DrainedInv, ClosePoolInv, ExitInv DEF RunStep

\* Every step of a handler preserves the invariant.
LEMMA HandlerInv == ASSUME Inv, NEW c \in Connections, HandlerStep(c) PROVE Inv'
  BY ServeHTTPInv, ReadBodyInv, EnqueueInv, WriteProblemInv, WriteScrapeInv, RecordInv
     DEF HandlerStep

\* A stuttering step preserves the invariant.
LEMMA StutterInv == ASSUME Inv, UNCHANGED vars PROVE Inv'
  BY DEF Inv, vars, TypeOK, ProcessOK, Serving, ConnectionOK, Is, HandoverIsValid,
         CountsOK, Counted, Answered, ScrapesAreCoherent

\* Whatever the clients send, however many connections there are and in whichever
\* order run, the server's goroutine and the handlers of main.go and httpapi take
\* their steps, the process, its server, its handlers and its counters fit
\* together.
THEOREM Invariance == Spec => []Inv
  <1>1. Inv /\ [Next]_vars => Inv'
    <2> SUFFICES ASSUME Inv, [Next]_vars PROVE Inv'
      OBVIOUS
    <2>1. CASE UNCHANGED vars
      BY <2>1, StutterInv
    <2>2. CASE Signal
      BY <2>2, SignalInv
    <2>3. CASE RunStep
      BY <2>3, RunInv
    <2>4. CASE ServerStep \/ ServeFails
      BY <2>4, ServerInv
    <2>5. ASSUME NEW c \in Connections, Accept(c) \/ HangUp(c) \/ HandlerStep(c)
          PROVE  Inv'
      BY <2>5, AcceptInv, HangUpInv, HandlerInv
    <2>6. ASSUME NEW c \in Connections, NEW r \in Inputs[c], ReadHeader(c, r)
          PROVE  Inv'
      BY <2>6, ReadHeaderInv
    <2> QED
      BY <2>1, <2>2, <2>3, <2>4, <2>5, <2>6 DEF Next
  <1> QED
    BY <1>1, InitInv, PTL DEF Spec

\* The deferred Close of run takes the pool away under a running handler only on
\* the way to a failed exit.
THEOREM PoolSafety == Spec => []PoolOutlivesHandlers
  <1>1. Inv => PoolOutlivesHandlers
    <2> SUFFICES ASSUME Inv, NEW c \in Connections, Handling(c)
                 PROVE  pool = "open" \/ main.status = "failed"
      BY DEF PoolOutlivesHandlers
    <2>1. main \in Main /\ ProcessOK /\ ConnectionOK(c)
      BY DEF Inv, TypeOK
    <2>2. main.status # "ok" /\ main.pc # "prepare"
      BY <2>1 DEF ConnectionOK, ProcessOK, Handling, Busy, Is
    <2> QED
      BY <2>1, <2>2 DEF ProcessOK, Serving, Main
  <1> QED
    BY <1>1, Invariance, PTL

\* A process that exits successfully was told to stop, its server did not fail,
\* and every request that a handler had begun has been answered and counted once,
\* under its own route and result.
THEOREM CleanShutdown == Spec => []CleanExit
  <1>1. Inv => CleanExit
    <2> SUFFICES ASSUME Inv, main.status = "ok" PROVE CleanExit
      BY DEF CleanExit
    <2>1. signalled /\ server = "ErrServerClosed"
      BY DEF Inv, ProcessOK
    <2>2. \A c \in Connections :
             /\ conn[c].pc \in {"away", "done", "closed"}
             /\ conn[c].pc # "done" => conn[c].in = {} /\ conn[c].out = {}
      BY DEF Inv, ConnectionOK, HandlerOK
    <2>3. \A k \in Keys : Counted(k) = Answered(k)
      BY <2>2 DEF Counted, Answered, Is
    <2>4. \A k \in Keys : counts[k] = Cardinality(Answered(k))
      BY <2>3 DEF Inv, CountsOK
    <2> QED
      BY <2>1, <2>2, <2>4 DEF CleanExit, Is
  <1> QED
    BY <1>1, Invariance, PTL

\* ServeHTTP, handleWebhook and decodeEvent hand to the sink exactly the requests
\* that the contract admits, and answer 202 only with a receipt from it.
THEOREM HandoverSafety == Spec => []HandoverIsValid
  <1>1. Inv => HandoverIsValid
    BY DEF Inv
  <1> QED
    BY <1>1, Invariance, PTL

\* With increment under the write lock and render under the read lock, a scrape
\* counts itself, is never ahead of the answers, and any two are ordered.
THEOREM ScrapeCoherence == Spec => []ScrapesAreCoherent
  <1>1. Inv => ScrapesAreCoherent
    BY DEF Inv
  <1> QED
    BY <1>1, Invariance, PTL
=============================================================================
