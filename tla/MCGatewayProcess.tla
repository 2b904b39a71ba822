-------------------------- MODULE MCGatewayProcess --------------------------
(* Instances of GatewayProcess. *)
EXTENDS GatewayProcess

CONSTANTS c1, c2

\* A request that the contract admits.
Valid == [path |-> "webhook", method |-> "POST", query |-> FALSE, encoding |-> <<>>,
          type |-> <<"json">>, identity |-> <<"uuid">>,
          body |-> [declared |-> 1, sent |-> 1, whole |-> TRUE], decoded |-> "event"]

\* A scrape, a delivery, and one whose client stops in the middle.
Mixed == {[Valid EXCEPT !.path = "/metrics", !.method = "GET"], Valid,
          [Valid EXCEPT !.body.sent = 0, !.body.whole = FALSE]}

\* What each field of a webhook request may be.
Values(f) ==
    CASE f = "path" -> {"webhook", "/healthz", "other"}
      [] f = "method" -> {"GET", "POST"}
      [] f = "query" -> BOOLEAN
      [] f = "encoding" -> {<<>>, <<"identity">>, <<"gzip">>, <<"identity", "identity">>}
      [] f = "type" -> {<<>>, <<"json">>, <<"json_utf8">>, <<"json_latin1">>, <<"json", "json">>}
      [] f = "identity" -> Header({"uuid", "malformed"})
      [] f = "body" -> Body
      [] f = "decoded" -> {"event", "unsupported", "invalid"}

\* The requests that differ from r in at most one field.
Variants(r) == UNION {{[r EXCEPT ![f] = v] : v \in Values(f)} : f \in DOMAIN r}

\* One client sends anything, the other something typical.
MCInputs ==
    [c \in {c1, c2} |->
        IF c = c1 THEN Mixed \cup Variants(Valid) \cup {[Valid EXCEPT !.path = "/healthz", !.method = "GET"]}
        ELSE Mixed]
=============================================================================
