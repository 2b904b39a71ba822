----------------------------- MODULE HttpIntake -----------------------------
(***************************************************************************)
(* What the HTTP handler decides about one request (httpapi/handler.go): a *)
(* request is the facts that ServeHTTP looks at, an outcome the route, the *)
(* result label and the status of its answer.  Header values are sequences *)
(* of kinds of values; a body is how many bytes arrive and whether the     *)
(* client gets to its end.                                                 *)
(***************************************************************************)
EXTENDS Integers, Sequences

CONSTANT MaxBodyBytes

ASSUME BodyAssumption == MaxBodyBytes \in Nat

\* The ContentLength of a chunked body.
Unknown == -1

Header(kinds) == UNION {[1..n -> kinds] : n \in 0..2}

\* A declared length bounds what can be read; reading less is an error.
Body == {b \in [declared : {Unknown} \cup 0..(MaxBodyBytes + 2),
                sent : 0..(MaxBodyBytes + 2), whole : BOOLEAN] :
            b.declared # Unknown =>
                b.sent <= b.declared /\ (b.whole <=> b.sent = b.declared)}

Request == [path : {"/healthz", "/metrics", "webhook", "other"}, method : {"GET", "POST"},
            query : BOOLEAN, encoding : Header({"identity", "gzip"}),
            type : Header({"json", "json_utf8", "json_latin1", "text"}),
            identity : Header({"uuid", "malformed"}), body : Body,
            decoded : {"event", "unsupported", "invalid"}]

Status == {200, 202, 400, 404, 405, 413, 415, 422, 500, 503}

Routes == {"health", "metrics", "webhook", "not_found"}

Results == {"ok", "accepted", "method_not_allowed", "invalid_request",
            "unsupported_media_type", "request_too_large", "unsupported_event_type",
            "internal_error", "unavailable", "not_found"}

Keys == Routes \X Results

Outcome == [route : Routes, result : Results, status : Status]

Answer(route, result, status) == [route |-> route, result |-> result, status |-> status]

Webhook(result, status) == Answer("webhook", result, status)

Key(out) == <<out.route, out.result>>

\* The error of Enqueue and the receipt of its Acceptance; "nil" is a handler
\* that has no sink to call.
SinkAnswer == [err : {"none", "ErrSinkUnavailable", "other", "nil"}, receipt : {"empty", "receipt"}]

\* UnavailableSink.Enqueue, the sink that the process is wired to.
Unavailable == [err |-> "ErrSinkUnavailable", receipt |-> "empty"]

validContentEncoding(values) == values \in {<<>>, <<"identity">>}

validContentType(values) == values \in {<<"json">>, <<"json_utf8">>}

\* The answer that the handler has before it reads the body, if it has one.
HeadVerdict(r) ==
    CASE r.path = "/healthz" ->
            {IF r.method = "GET" THEN Answer("health", "ok", 200)
             ELSE Answer("health", "method_not_allowed", 405)}
      [] r.path = "/metrics" ->
            {IF r.method = "GET" THEN Answer("metrics", "ok", 200)
             ELSE Answer("metrics", "method_not_allowed", 405)}
      [] r.path = "other" -> {Answer("not_found", "not_found", 404)}
      [] r.path = "webhook" ->
            CASE r.method # "POST" -> {Webhook("method_not_allowed", 405)}
              [] r.method = "POST" /\ r.query -> {Webhook("invalid_request", 400)}
              [] OTHER ->
                   IF ~validContentEncoding(r.encoding) \/ ~validContentType(r.type)
                   THEN {Webhook("unsupported_media_type", 415)}
                   ELSE IF r.identity # <<"uuid">> THEN {Webhook("invalid_request", 400)}
                   ELSE IF r.body.declared > MaxBodyBytes THEN {Webhook("request_too_large", 413)}
                   ELSE {}

\* Mutant: the reader stops at the limit instead of one byte after it.
TruncatedVerdict(r) ==
    IF ~r.body.whole /\ r.body.sent < MaxBodyBytes THEN {Webhook("invalid_request", 400)}
    ELSE IF r.decoded = "unsupported" THEN {Webhook("unsupported_event_type", 422)}
    ELSE IF r.decoded = "invalid" THEN {Webhook("invalid_request", 400)}
    ELSE {}

\* The answer after io.ReadAll of at most MaxBodyBytes + 1 bytes and
\* decodeEvent, if there is no event to hand over.  The reader does not see
\* what happens to a body after that byte.
BodyVerdict(r) ==
    IF r.body.sent > MaxBodyBytes THEN {Webhook("request_too_large", 413)}
    ELSE IF ~r.body.whole THEN {Webhook("invalid_request", 400)}
    ELSE IF r.decoded = "unsupported" THEN {Webhook("unsupported_event_type", 422)}
    ELSE IF r.decoded = "invalid" THEN {Webhook("invalid_request", 400)}
    ELSE {}

\* What the handler makes of the sink's answer.
SinkVerdict(answer) ==
    IF answer.err = "ErrSinkUnavailable" THEN Webhook("unavailable", 503)
    ELSE IF answer.err # "none" \/ answer.receipt = "empty" THEN Webhook("internal_error", 500)
    ELSE Webhook("accepted", 202)

-----------------------------------------------------------------------------

\* The requests that the HTTP contract admits (docs/core-to-gateway-http-contract.md,
\* "Request target and transport").
Contract(r) ==
    /\ r.path = "webhook" /\ r.method = "POST" /\ ~r.query
    /\ Len(r.type) = 1 /\ r.type[1] \in {"json", "json_utf8"}
    /\ Len(r.encoding) <= 1 /\ \A k \in 1..Len(r.encoding) : r.encoding[k] = "identity"
    /\ Len(r.identity) = 1 /\ r.identity[1] = "uuid"
    /\ r.body.whole /\ r.body.sent <= MaxBodyBytes
    /\ r.decoded = "event"
=============================================================================
