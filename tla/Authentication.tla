--------------------------- MODULE Authentication ---------------------------
(***************************************************************************)
(* Authentication of Core's signed requests (authentication/service.go)    *)
(* over the PostgreSQL state it reads and the nonce it reserves            *)
(* (postgres/authentication_state.go).  Authenticate calls run on several  *)
(* gateway instances, each with a clock of its own; one signed request may *)
(* reach several of them, at any time and any number of times.  Between    *)
(* two calls of a dependency an operator may change what is stored.        *)
(*                                                                         *)
(* A request is [credential, nonce, signedAt, parses, genuine]: parses     *)
(* says that parseRequest accepts it, genuine that its MAC verifies under  *)
(* the secret of its credential.  A credential that does not exist is      *)
(* answered like one that is disabled.  Times are in ticks of the columns' *)
(* precision; a reading between two ticks is truncated when it is stored,  *)
(* which moves no comparison across a second.                              *)
(***************************************************************************)
EXTENDS Integers

CONSTANTS
    Calls,              \* Authenticate calls
    Requests,           \* the signed requests in circulation
    Credentials, Nonces,
    Clock,              \* the clock readings (a bound of the model)
    NotBefore, Expiry,  \* not_before and expires_at of the credentials
    Tick,               \* clock ticks per second
    Window,             \* maximumTimestampDifference, 60 seconds
    Retention,          \* replayReservationLifetime, 5 minutes, in ticks
    Nobody

ASSUME TimeAssumption ==
    /\ Clock \subseteq Nat \ {0} /\ NotBefore \in Nat /\ Expiry \in Nat
    /\ Tick \in Nat \ {0} /\ Window \in Nat /\ Retention \in Nat
    /\ (2 * Window + 1) * Tick <= Retention

ASSUME RequestAssumption ==
    /\ Requests \subseteq [credential : Credentials, nonce : Nonces,
                           signedAt : Nat, parses : BOOLEAN, genuine : BOOLEAN]
    /\ Nobody \notin Calls \cup Requests

VARIABLES
    bound,         \* the security realm is bound to the configured audience
    credential,    \* core_authentication_credentials
    principal,     \* the core_principals row the credentials belong to
    reserved,      \* authentication_replay_reservations
    call,          \* call[a]: the local state of an Authenticate call
    server         \* server[a]: what became of its INSERT on the server

vars == <<bound, credential, principal, reserved, call, server>>

States == {"disabled", "active", "retiring", "revoked"}

Credential == [state : States, activatedAt : Nat, deadline : Nat]

Steps == {"idle", "audience", "credential", "secret", "reserve", "sent",
          "principal", "done"}

\* "failed" is ErrAuthenticationFailed or ErrRequestInvalid, "replayed" is
\* ErrAuthenticationFailed for a ReplayDuplicate; "lost" stands for ErrCanceled
\* and ErrUnavailable, or for no answer at all.
Replies == {"none", "ok", "failed", "replayed", "forbidden", "lost"}

CallRecord == [pc : Steps, request : Requests \cup {Nobody}, now : Nat, reply : Replies]

NoCall == [pc |-> "idle", request |-> Nobody, now |-> 0, reply |-> "none"]

NoReservation == [owner |-> Nobody, expiresAt |-> 0]

Init ==
    /\ bound \in BOOLEAN
    /\ credential = [c \in Credentials |->
                       [state |-> "disabled", activatedAt |-> 0, deadline |-> 0]]
    /\ principal \in [enabled : BOOLEAN, authorized : BOOLEAN]
    /\ reserved = [k \in Credentials \X Nonces |-> NoReservation]
    /\ call = [a \in Calls |-> NoCall]
    /\ server = [a \in Calls |-> "none"]

At(a, pc) == call[a].pc = pc

Goto(a, pc) == call' = [call EXCEPT ![a].pc = pc]

Return(a, reply) == call' = [call EXCEPT ![a].pc = "done", ![a].reply = reply]

\* The primary key of the reservation a request needs.
Key(r) == <<r.credential, r.nonce>>

-----------------------------------------------------------------------------
(* What the service computes.                                              *)

\* uint64(now.Unix())
Unix(t) == t \div Tick

\* timestampWithinWindow
WithinWindow(now, signed) ==
    IF signed > now THEN signed - now <= Window ELSE now - signed <= Window

\* Credential.UsableAt
UsableAt(c, now) ==
    /\ c.state \in {"active", "retiring"}
    /\ NotBefore <= now /\ c.activatedAt <= now /\ now < Expiry
    /\ c.state = "retiring" => now < c.deadline

\* Mutant: the reservation lives as long as the window.
ExpiresWithWindow(now) == now + Window * Tick

\* now.Add(replayReservationLifetime)
Expires(now) == now + Retention

-----------------------------------------------------------------------------
(* Authenticate.                                                           *)

\* The local state of a call that has parsed its request and read the clock,
\* once.
Begun(r, now) ==
    IF r.parses
    THEN [pc |-> "audience", request |-> r, now |-> now, reply |-> "none"]
    ELSE [pc |-> "done", request |-> r, now |-> 0, reply |-> "failed"]

Begin(a, r, now) ==
    /\ At(a, "idle")
    /\ call' = [call EXCEPT ![a] = Begun(r, now)]
    /\ UNCHANGED <<bound, credential, principal, reserved, server>>

BoundAudience(a) ==
    /\ At(a, "audience")
    /\ IF bound THEN Goto(a, "credential") ELSE Return(a, "lost")
    /\ UNCHANGED <<bound, credential, principal, reserved, server>>

\* Mutant: a revoked credential keeps its activation.
ReadCredentialOnce(a) ==
    /\ At(a, "credential")
    /\ IF credential[call[a].request.credential].activatedAt <= call[a].now
       THEN Goto(a, "secret") ELSE Return(a, "failed")
    /\ UNCHANGED <<bound, credential, principal, reserved, server>>

ReadCredential(a) ==
    /\ At(a, "credential")
    /\ IF UsableAt(credential[call[a].request.credential], call[a].now)
       THEN Goto(a, "secret") ELSE Return(a, "failed")
    /\ UNCHANGED <<bound, credential, principal, reserved, server>>

\* The secret is fetched, then the MAC and the timestamp are checked.
VerifyMAC(a) ==
    LET r == call[a].request
    IN  /\ At(a, "secret")
        /\ IF r.genuine /\ WithinWindow(Unix(call[a].now), r.signedAt)
           THEN Goto(a, "reserve") ELSE Return(a, "failed")
        /\ UNCHANGED <<bound, credential, principal, reserved, server>>

SendReserve(a) ==
    /\ At(a, "reserve")
    /\ Goto(a, "sent")
    /\ server' = [server EXCEPT ![a] = "inFlight"]
    /\ UNCHANGED <<bound, credential, principal, reserved>>

\* insert ... on conflict do nothing: one statement, committed by itself,
\* executed even when its client has stopped waiting for it.
Execute(a) ==
    LET k == Key(call[a].request)
    IN  /\ server[a] = "inFlight"
        /\ \/ /\ reserved[k].owner = Nobody
              /\ reserved' = [reserved EXCEPT ![k] =
                                [owner |-> a, expiresAt |-> Expires(call[a].now)]]
              /\ server' = [server EXCEPT ![a] = "inserted"]
           \/ /\ reserved[k].owner # Nobody
              /\ server' = [server EXCEPT ![a] = "duplicate"]
              /\ UNCHANGED reserved
        /\ UNCHANGED <<bound, credential, principal, call>>

\* The statement fails, or the server notices that its client is gone.
Discard(a) ==
    /\ server[a] = "inFlight"
    /\ server' = [server EXCEPT ![a] = "none"]
    /\ IF At(a, "sent") THEN Return(a, "lost") ELSE call' = call
    /\ UNCHANGED <<bound, credential, principal, reserved>>

\* Mutant: no returned row is taken for a reservation.
ReceiveAnyReply(a) ==
    /\ At(a, "sent") /\ server[a] \in {"inserted", "duplicate"}
    /\ Goto(a, "principal")
    /\ UNCHANGED <<bound, credential, principal, reserved, server>>

ReceiveReply(a) ==
    /\ At(a, "sent")
    /\ \/ server[a] = "inserted" /\ Goto(a, "principal")
       \/ server[a] = "duplicate" /\ Return(a, "replayed")
    /\ UNCHANGED <<bound, credential, principal, reserved, server>>

\* Mutant: the call waits for a reply that was lost.
LoseReplyStuck(a) ==
    /\ At(a, "sent")
    /\ server' = [server EXCEPT ![a] = "none"]
    /\ UNCHANGED <<bound, credential, principal, reserved, call>>

\* The connection or the context ends while the INSERT is out: the connection
\* is destroyed and nobody repeats or undoes the statement.
LoseReply(a) ==
    /\ At(a, "sent")
    /\ Return(a, "lost")
    /\ UNCHANGED <<bound, credential, principal, reserved, server>>

LoadPrincipal(a) ==
    /\ At(a, "principal")
    /\ Return(a, IF principal.enabled /\ principal.authorized THEN "ok" ELSE "forbidden")
    /\ UNCHANGED <<bound, credential, principal, reserved, server>>

\* A read fails, the context has ended, or the process dies.
Fail(a) ==
    /\ call[a].pc \in {"audience", "credential", "secret", "reserve", "principal"}
    /\ Return(a, "lost")
    /\ UNCHANGED <<bound, credential, principal, reserved, server>>

-----------------------------------------------------------------------------
(* Operators administer credentials and principals outside the gateway.    *)

Activate(c, at) ==
    /\ credential[c].state = "disabled"
    /\ credential' = [credential EXCEPT ![c] =
                       [state |-> "active", activatedAt |-> at, deadline |-> 0]]
    /\ UNCHANGED <<bound, principal, reserved, call, server>>

Retire(c, deadline) ==
    /\ credential[c].state = "active"
    /\ credential[c].activatedAt < deadline
    /\ credential' = [credential EXCEPT ![c].state = "retiring", ![c].deadline = deadline]
    /\ UNCHANGED <<bound, principal, reserved, call, server>>

Disable(c) ==
    /\ credential[c].state \in {"active", "retiring"}
    /\ credential' = [credential EXCEPT ![c].state = "disabled"]
    /\ UNCHANGED <<bound, principal, reserved, call, server>>

Revoke(c) ==
    /\ credential[c].state # "revoked"
    /\ credential' = [credential EXCEPT ![c].state = "revoked"]
    /\ UNCHANGED <<bound, principal, reserved, call, server>>

ChangePrincipal(enabled, authorized) ==
    /\ principal' = [enabled |-> enabled, authorized |-> authorized]
    /\ UNCHANGED <<bound, credential, reserved, call, server>>

-----------------------------------------------------------------------------

Step(a) ==
    \/ BoundAudience(a) \/ ReadCredential(a) \/ VerifyMAC(a) \/ SendReserve(a)
    \/ ReceiveReply(a) \/ LoseReply(a) \/ LoadPrincipal(a) \/ Fail(a)

Administer ==
    \/ \E c \in Credentials :
          \/ \E at \in Clock : Activate(c, at) \/ Retire(c, at)
          \/ Disable(c) \/ Revoke(c)
    \/ \E enabled, authorized \in BOOLEAN : ChangePrincipal(enabled, authorized)

Next ==
    \/ \E a \in Calls :
          \/ \E r \in Requests, now \in Clock : Begin(a, r, now)
          \/ Step(a) \/ Execute(a) \/ Discard(a)
    \/ Administer

Spec == Init /\ [][Next]_vars

\* Every dependency call returns, at the latest with its context.
FairSpec == Spec /\ \A a \in Calls : WF_vars(Step(a))

-----------------------------------------------------------------------------
(* Properties.                                                             *)

\* Every variable has its type.
TypeOK ==
    /\ bound \in BOOLEAN
    /\ credential \in [Credentials -> Credential]
    /\ principal \in [enabled : BOOLEAN, authorized : BOOLEAN]
    /\ reserved \in [Credentials \X Nonces ->
                        [owner : Calls \cup {Nobody}, expiresAt : Nat]]
    /\ call \in [Calls -> CallRecord]
    /\ server \in [Calls -> {"none", "inFlight", "inserted", "duplicate"}]

\* What call a knows of its nonce, its INSERT and its answer.
CallOK(a) ==
    LET r == call[a].request
    IN  /\ At(a, "idle") <=> r = Nobody
        /\ At(a, "idle") => server[a] = "none"
        /\ call[a].reply # "none" => At(a, "done")
        /\ server[a] # "none" => call[a].pc \in {"sent", "principal", "done"}
        /\ At(a, "reserve") \/ server[a] # "none" =>
              WithinWindow(Unix(call[a].now), r.signedAt)
        /\ server[a] = "inserted" =>
              reserved[Key(r)] = [owner |-> a, expiresAt |-> Expires(call[a].now)]
        /\ server[a] = "duplicate" => reserved[Key(r)].owner \notin {a, Nobody}
        /\ \A k \in Credentials \X Nonces : reserved[k].owner = a =>
              server[a] = "inserted"
        /\ At(a, "principal") \/ call[a].reply \in {"ok", "forbidden"} =>
              server[a] = "inserted"
        /\ call[a].reply = "replayed" => server[a] = "duplicate"

\* What a call knows of the nonce is what is stored: an INSERT took effect
\* exactly when its call owns the row, its request passed the window, and only
\* that call goes on to the principal.
Inv == TypeOK /\ \A a \in Calls : CallOK(a)

\* A nonce authenticates at most one call per credential: however often and to
\* however many instances a request is delivered, and whatever replies and
\* connections are lost, at most one Authenticate call gets past the nonce.
AcceptedOnce ==
    \A a, b \in Calls :
        /\ a # b
        /\ call[a].reply \in {"ok", "forbidden"} /\ call[b].reply \in {"ok", "forbidden"}
        => Key(call[a].request) # Key(call[b].request)

\* A call is refused as a replay only when another call holds the nonce, so a
\* request delivered once is never refused for its own lost INSERT.
DuplicateIsReal ==
    \A a \in Calls : call[a].reply = "replayed" =>
        reserved[Key(call[a].request)].owner \notin {a, Nobody}

\* A reservation outlives every clock reading at which its request would still
\* pass the timestamp window, on whatever instance: 2 * 60 s < 5 min.
ReservationOutlivesWindow ==
    \A a \in Calls, now \in Clock :
        /\ server[a] = "inserted"
        /\ WithinWindow(Unix(now), call[a].request.signedAt)
        => now < reserved[Key(call[a].request)].expiresAt

\* A credential that is revoked before a call begins never authenticates it.
RevokedStaysOut ==
    \A a \in Calls, c \in Credentials :
        [](At(a, "idle") /\ credential[c].state = "revoked" =>
              [](call[a].reply \in {"ok", "forbidden"} => call[a].request.credential # c))

\* Every Authenticate call returns.
AuthenticateReturns == \A a \in Calls : At(a, "audience") ~> At(a, "done")
=============================================================================
