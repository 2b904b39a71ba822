------------------------ MODULE AuthenticationProofs ------------------------
(***************************************************************************)
(* Proofs about Authentication, for any number of calls, requests,         *)
(* credentials and nonces and any clocks.                                  *)
(***************************************************************************)
EXTENDS Authentication, TLAPS

\* The key of a request is a key of the reservation table.
LEMMA KeyType ==
    ASSUME NEW r \in Requests
    PROVE  Key(r) \in Credentials \X Nonces
  BY RequestAssumption DEF Key

\* No call has begun and nothing is reserved when the gateway starts.
LEMMA InitInv == Init => Inv
  <1> SUFFICES ASSUME Init PROVE Inv
    OBVIOUS
  <1>1. TypeOK
    BY DEF Init, TypeOK, CallRecord, NoCall, NoReservation, Credential, States, Steps, Replies
  <1>2. ASSUME NEW a \in Calls PROVE CallOK(a)
    BY RequestAssumption DEF Init, CallOK, NoCall, NoReservation, At
  <1> QED
    BY <1>1, <1>2 DEF Inv

\* A call is not disturbed by a step that leaves it and the reservations alone.
LEMMA Frame ==
    ASSUME NEW b \in Calls, CallOK(b), call'[b] = call[b], server'[b] = server[b],
           reserved' = reserved
    PROVE  CallOK(b)'
  BY DEF CallOK, At

\* What the operators do to credentials and principals touches no call.
LEMMA AdministerInv == Inv /\ Administer => Inv'
  <1> SUFFICES ASSUME Inv, Administer PROVE Inv'
    OBVIOUS
  <1>1. UNCHANGED <<reserved, call, server, bound>>
    BY DEF Administer, Activate, Retire, Disable, Revoke, ChangePrincipal
  <1>2. credential \in [Credentials -> Credential]
    BY DEF Inv, TypeOK
  <1>3. credential' \in [Credentials -> Credential]
    <2>1. ASSUME NEW c \in Credentials, NEW at \in Clock, Activate(c, at)
          PROVE  credential' \in [Credentials -> Credential]
      BY <1>2, <2>1, TimeAssumption DEF Activate, Credential, States
    <2>2. ASSUME NEW c \in Credentials, NEW at \in Clock, Retire(c, at)
          PROVE  credential' \in [Credentials -> Credential]
      BY <1>2, <2>2, TimeAssumption DEF Retire, Credential, States
    <2>3. ASSUME NEW c \in Credentials, Disable(c) \/ Revoke(c)
          PROVE  credential' \in [Credentials -> Credential]
      BY <1>2, <2>3 DEF Disable, Revoke, Credential, States
    <2> QED
      BY <1>2, <2>1, <2>2, <2>3 DEF Administer, ChangePrincipal
  <1>4. principal' \in [enabled : BOOLEAN, authorized : BOOLEAN]
    <2>1. CASE principal' = principal
      BY <2>1 DEF Inv, TypeOK
    <2>2. ASSUME NEW enabled \in BOOLEAN, NEW authorized \in BOOLEAN,
                 ChangePrincipal(enabled, authorized)
          PROVE  principal' \in [enabled : BOOLEAN, authorized : BOOLEAN]
      BY <2>2 DEF ChangePrincipal
    <2> QED
      BY <2>1, <2>2 DEF Administer, Activate, Retire, Disable, Revoke
  <1>5. TypeOK'
    BY <1>1, <1>3, <1>4 DEF Inv, TypeOK
  <1>6. ASSUME NEW a \in Calls PROVE CallOK(a)'
    BY <1>1, Frame DEF Inv
  <1> QED
    BY <1>5, <1>6 DEF Inv

\* What a step within a call changes of it.
LEMMA GotoEffect ==
    ASSUME TypeOK, NEW a \in Calls, NEW pc \in Steps, Goto(a, pc)
    PROVE  /\ call' \in [Calls -> CallRecord]
           /\ call'[a].pc = pc /\ call'[a].reply = call[a].reply
           /\ call'[a].request = call[a].request /\ call'[a].now = call[a].now
           /\ \A b \in Calls : b # a => call'[b] = call[b]
  BY DEF TypeOK, Goto, CallRecord

\* What the return of a call changes of it.
LEMMA ReturnEffect ==
    ASSUME TypeOK, NEW a \in Calls, NEW reply \in Replies, Return(a, reply)
    PROVE  /\ call' \in [Calls -> CallRecord]
           /\ call'[a].pc = "done" /\ call'[a].reply = reply
           /\ call'[a].request = call[a].request /\ call'[a].now = call[a].now
           /\ \A b \in Calls : b # a => call'[b] = call[b]
  <1>1. "done" \in Steps
    BY DEF Steps
  <1>2. call[a] \in CallRecord
    BY DEF TypeOK
  <1>3. [call[a] EXCEPT !.pc = "done", !.reply = reply] \in CallRecord
    BY <1>1, <1>2 DEF CallRecord
  <1>4. call' = [call EXCEPT ![a] = [call[a] EXCEPT !.pc = "done", !.reply = reply]]
    BY <1>2 DEF Return, TypeOK, CallRecord
  <1> QED
    BY <1>2, <1>3, <1>4 DEF TypeOK, CallRecord

\* The beginning of a call preserves the invariant.
LEMMA BeginInv ==
    ASSUME Inv, NEW a \in Calls, NEW r \in Requests, NEW now \in Clock, Begin(a, r, now)
    PROVE  Inv'
  <1>1. Begun(r, now) \in CallRecord
    BY TimeAssumption DEF Begun, CallRecord, Steps, Replies
  <1>2. TypeOK'
    BY <1>1 DEF Inv, TypeOK, Begin
  <1>3. CallOK(a)'
    <2>1. At(a, "idle") /\ CallOK(a) /\ UNCHANGED <<server, reserved>>
      BY DEF Inv, Begin
    <2>2. call'[a] = Begun(r, now)
      BY DEF Inv, TypeOK, Begin
    <2>3. /\ Begun(r, now).request = r
          /\ \/ Begun(r, now).pc = "audience" /\ Begun(r, now).reply = "none"
             \/ Begun(r, now).pc = "done" /\ Begun(r, now).reply = "failed"
      BY DEF Begun
    <2>4. r # Nobody
      BY RequestAssumption
    <2> QED
      BY <2>1, <2>2, <2>3, <2>4 DEF CallOK, At
  <1>4. ASSUME NEW b \in Calls, b # a PROVE CallOK(b)'
    BY <1>4, Frame DEF Inv, TypeOK, Begin
  <1> QED
    BY <1>2, <1>3, <1>4 DEF Inv

\* So do the steps of a call that is under way.
LEMMA StepInv ==
    ASSUME Inv, NEW a \in Calls, Step(a)
    PROVE  Inv'
  <1>1. TypeOK /\ CallOK(a) /\ call[a] \in CallRecord
    BY DEF Inv, TypeOK
  <1>2. (\E pc \in Steps : Goto(a, pc)) \/ (\E reply \in Replies : Return(a, reply))
    BY DEF Step, BoundAudience, ReadCredential, VerifyMAC, SendReserve, ReceiveReply,
           LoseReply, LoadPrincipal, Fail, Steps, Replies
  <1>3. /\ call' \in [Calls -> CallRecord]
        /\ call'[a].request = call[a].request /\ call'[a].now = call[a].now
        /\ \A b \in Calls : b # a => call'[b] = call[b]
    BY <1>1, <1>2, GotoEffect, ReturnEffect
  <1>4. /\ UNCHANGED <<bound, credential, principal, reserved>>
        /\ server' = server \/ server' = [server EXCEPT ![a] = "inFlight"]
    BY DEF Step, BoundAudience, ReadCredential, VerifyMAC, SendReserve, ReceiveReply,
           LoseReply, LoadPrincipal, Fail
  <1>5. TypeOK'
    BY <1>1, <1>3, <1>4 DEF TypeOK
  <1>6. CallOK(a)'
    <2> USE <1>1, <1>3, <1>4
    <2>1. CASE BoundAudience(a)
      BY <2>1, GotoEffect, ReturnEffect
      DEF CallOK, At, BoundAudience, CallRecord, Steps, Replies
    <2>2. CASE ReadCredential(a)
      BY <2>2, GotoEffect, ReturnEffect
      DEF CallOK, At, ReadCredential, CallRecord, Steps, Replies
    <2>3. CASE VerifyMAC(a)
      BY <2>3, GotoEffect, ReturnEffect
      DEF CallOK, At, VerifyMAC, CallRecord, Steps, Replies
    <2>4. CASE SendReserve(a)
      BY <2>4, GotoEffect
      DEF CallOK, At, SendReserve, TypeOK, CallRecord, Steps
    <2>5. CASE ReceiveReply(a)
      BY SMTT(20), <2>5, GotoEffect, ReturnEffect
      DEF CallOK, At, ReceiveReply, CallRecord, Steps, Replies
    <2>6. CASE LoseReply(a) \/ Fail(a)
      BY <2>6, ReturnEffect
      DEF CallOK, At, LoseReply, Fail, CallRecord, Replies
    <2>7. CASE LoadPrincipal(a)
      BY <2>7, ReturnEffect
      DEF CallOK, At, LoadPrincipal, CallRecord, Replies
    <2> QED
      BY <2>1, <2>2, <2>3, <2>4, <2>5, <2>6, <2>7 DEF Step
  <1>7. ASSUME NEW b \in Calls, b # a PROVE CallOK(b)'
    BY <1>1, <1>3, <1>4, <1>7, Frame DEF Inv, TypeOK
  <1> QED
    BY <1>5, <1>6, <1>7 DEF Inv

\* So does an INSERT on the server: a row that is taken is left alone, and a row
\* that is written was nobody's, so no other call loses what it knows.
LEMMA ExecuteInv ==
    ASSUME Inv, NEW a \in Calls, Execute(a)
    PROVE  Inv'
  <1> DEFINE k == Key(call[a].request)
             row == [owner |-> a, expiresAt |-> Expires(call[a].now)]
  <1>1. /\ TypeOK /\ CallOK(a) /\ server[a] = "inFlight"
        /\ UNCHANGED <<bound, credential, principal, call>>
    BY DEF Inv, Execute
  <1>2. call[a].request \in Requests /\ call[a].now \in Nat
    BY <1>1 DEF CallOK, At, TypeOK, CallRecord
  <1>3. k \in Credentials \X Nonces
    BY <1>2, KeyType
  <1>4. row \in [owner : Calls \cup {Nobody}, expiresAt : Nat]
    BY <1>2, TimeAssumption DEF Expires
  <1>5. CASE reserved[k].owner = Nobody
    <2>1. /\ reserved' = [reserved EXCEPT ![k] = row]
          /\ server' = [server EXCEPT ![a] = "inserted"]
      BY <1>5 DEF Execute
    <2>2. TypeOK'
      BY <1>1, <1>3, <1>4, <2>1 DEF TypeOK
    <2>3. reserved'[k] = row /\ server'[a] = "inserted"
      BY <1>1, <1>3, <2>1 DEF TypeOK
    <2>4. CallOK(a)'
      BY <1>1, <2>3 DEF CallOK, At
    <2>5. ASSUME NEW b \in Calls, b # a PROVE CallOK(b)'
      <3>1. CallOK(b) /\ server'[b] = server[b] /\ call'[b] = call[b]
        BY <1>1, <2>1, <2>5 DEF Inv, TypeOK
      <3>2. \A j \in Credentials \X Nonces : reserved'[j].owner = b => reserved[j].owner = b
        BY <1>1, <2>1, <2>3, <2>5 DEF TypeOK
      <3>3. \A j \in Credentials \X Nonces :
               reserved[j].owner # Nobody => reserved'[j] = reserved[j]
        BY <1>1, <1>5, <2>1 DEF TypeOK
      <3>4. server[b] # "none" => Key(call[b].request) \in Credentials \X Nonces
        BY <1>1, <3>1, KeyType DEF CallOK, At, TypeOK, CallRecord
      <3>5. server[b] \in {"inserted", "duplicate"} =>
               reserved[Key(call[b].request)].owner # Nobody
        BY <1>1, <3>1, RequestAssumption DEF CallOK
      <3>6. server[b] \in {"inserted", "duplicate"} =>
               reserved'[Key(call[b].request)] = reserved[Key(call[b].request)]
        BY <3>3, <3>4, <3>5
      <3> QED
        BY <3>1, <3>2, <3>6 DEF CallOK, At
    <2> QED
      BY <2>2, <2>4, <2>5 DEF Inv
  <1>6. CASE reserved[k].owner # Nobody
    <2>1. reserved' = reserved /\ server' = [server EXCEPT ![a] = "duplicate"]
      BY <1>6 DEF Execute
    <2>2. TypeOK' /\ server'[a] = "duplicate"
      BY <1>1, <2>1 DEF TypeOK
    <2>3. reserved[k].owner # a
      BY <1>1, <1>3 DEF CallOK
    <2>4. CallOK(a)'
      BY <1>1, <1>3, <1>6, <2>1, <2>2, <2>3 DEF CallOK, At
    <2>5. ASSUME NEW b \in Calls, b # a PROVE CallOK(b)'
      BY <1>1, <2>1, <2>5, Frame DEF Inv, TypeOK
    <2> QED
      BY <2>2, <2>4, <2>5 DEF Inv
  <1> QED
    BY <1>5, <1>6

\* So does the end of an INSERT that has no effect.
LEMMA DiscardInv ==
    ASSUME Inv, NEW a \in Calls, Discard(a)
    PROVE  Inv'
  <1>1. /\ TypeOK /\ CallOK(a) /\ server[a] = "inFlight"
        /\ UNCHANGED <<bound, credential, principal, reserved>>
        /\ server' = [server EXCEPT ![a] = "none"]
        /\ call' = call \/ Return(a, "lost")
    BY DEF Inv, Discard
  <1>2. /\ call' \in [Calls -> CallRecord]
        /\ \A b \in Calls : b # a => call'[b] = call[b]
    BY <1>1, ReturnEffect DEF TypeOK, Replies
  <1>3. TypeOK' /\ server'[a] = "none"
    BY <1>1, <1>2 DEF TypeOK
  <1>4. CallOK(a)'
    <2>1. CASE At(a, "sent")
      <3>1. Return(a, "lost")
        BY <2>1 DEF Discard
      <3>2. /\ call'[a].pc = "done" /\ call'[a].reply = "lost"
            /\ call'[a].request = call[a].request
        BY <1>1, <3>1, ReturnEffect DEF Replies
      <3> QED
        BY <1>1, <1>3, <3>2 DEF CallOK, At
    <2>2. CASE ~At(a, "sent")
      <3>1. call' = call
        BY <2>2 DEF Discard
      <3> QED
        BY <1>1, <1>3, <2>2, <3>1 DEF CallOK, At
    <2> QED
      BY <2>1, <2>2
  <1>5. ASSUME NEW b \in Calls, b # a PROVE CallOK(b)'
    BY <1>1, <1>2, <1>5, Frame DEF Inv, TypeOK
  <1> QED
    BY <1>3, <1>4, <1>5 DEF Inv

-----------------------------------------------------------------------------

\* What every Authenticate call knows of its nonce is true, always.
THEOREM Invariance == Spec => []Inv
  <1>1. Init => Inv
    BY InitInv
  <1>2. Inv /\ [Next]_vars => Inv'
    <2> SUFFICES ASSUME Inv, [Next]_vars PROVE Inv'
      OBVIOUS
    <2>1. CASE UNCHANGED vars
      BY <2>1 DEF vars, Inv, TypeOK, CallOK, At
    <2>2. CASE Administer
      BY <2>2, AdministerInv
    <2>3. ASSUME NEW a \in Calls,
                 \/ \E r \in Requests, now \in Clock : Begin(a, r, now)
                 \/ Step(a) \/ Execute(a) \/ Discard(a)
          PROVE  Inv'
      BY <2>3, BeginInv, StepInv, ExecuteInv, DiscardInv
    <2> QED
      BY <2>1, <2>2, <2>3 DEF Next
  <1> QED
    BY <1>1, <1>2, PTL DEF Spec

\* Service.Authenticate lets at most one call past each nonce of a credential.
THEOREM NoncesAreSpentOnce == Spec => []AcceptedOnce
  <1>1. Inv => AcceptedOnce
    <2> SUFFICES ASSUME Inv, NEW a \in Calls, NEW b \in Calls, a # b,
                        call[a].reply \in {"ok", "forbidden"},
                        call[b].reply \in {"ok", "forbidden"}
                 PROVE  Key(call[a].request) # Key(call[b].request)
      BY DEF AcceptedOnce
    <2>1. CallOK(a) /\ CallOK(b)
      BY DEF Inv
    <2>2. reserved[Key(call[a].request)].owner = a
      BY <2>1 DEF CallOK
    <2>3. reserved[Key(call[b].request)].owner = b
      BY <2>1 DEF CallOK
    <2> QED
      BY <2>2, <2>3
  <1> QED
    BY <1>1, Invariance, PTL

\* Reserve reports ReplayDuplicate only for a nonce that another call holds.
THEOREM DuplicatesAreReal == Spec => []DuplicateIsReal
  <1>1. Inv => DuplicateIsReal
    BY DEF Inv, CallOK, DuplicateIsReal
  <1> QED
    BY <1>1, Invariance, PTL

\* A clock reading lies within the second that now.Unix() names.
LEMMA UnixBounds ==
    ASSUME NEW t \in Nat
    PROVE  Unix(t) \in Nat /\ Tick * Unix(t) <= t /\ t < Tick * Unix(t) + Tick
  BY TimeAssumption, SMTT(30) DEF Unix

\* Two clock readings that pass the window of one timestamp are less than
\* 2 * Window + 1 seconds apart.
LEMMA WindowSpan ==
    ASSUME NEW s \in Nat, NEW t \in Nat, NEW signed \in Nat,
           WithinWindow(Unix(s), signed), WithinWindow(Unix(t), signed)
    PROVE  t < s + (2 * Window + 1) * Tick
  <1>1. Unix(s) \in Nat /\ Unix(t) \in Nat
    BY UnixBounds
  <1>2. Unix(t) <= Unix(s) + 2 * Window
    BY <1>1, TimeAssumption DEF WithinWindow
  <1>3. Tick * Unix(t) <= Tick * (Unix(s) + 2 * Window)
    BY <1>1, <1>2, TimeAssumption, SMTT(30)
  <1>4. Tick * (Unix(s) + 2 * Window) + Tick = Tick * Unix(s) + (2 * Window + 1) * Tick
    BY <1>1, TimeAssumption, SMTT(30)
  <1>5. t < Tick * Unix(t) + Tick /\ Tick * Unix(s) <= s
    BY UnixBounds
  <1> HIDE DEF Unix
  <1> QED
    BY <1>1, <1>3, <1>4, <1>5, TimeAssumption, SMTT(30)

\* replayReservationLifetime covers the timestamp window: a request that still
\* passes it on some instance has an unexpired reservation.
THEOREM ReservationsOutliveTheWindow == Spec => []ReservationOutlivesWindow
  <1>1. Inv => ReservationOutlivesWindow
    <2> SUFFICES ASSUME Inv, NEW a \in Calls, NEW now \in Clock, server[a] = "inserted",
                        WithinWindow(Unix(now), call[a].request.signedAt)
                 PROVE  now < reserved[Key(call[a].request)].expiresAt
      BY DEF ReservationOutlivesWindow
    <2>1. call[a].request \in Requests /\ call[a].now \in Nat /\ now \in Nat
      <3>1. call[a] \in CallRecord /\ CallOK(a)
        BY DEF Inv, TypeOK
      <3>2. call[a].request # Nobody
        BY <3>1 DEF CallOK, At
      <3> QED
        BY <3>1, <3>2, TimeAssumption DEF CallRecord
    <2>2. call[a].request.signedAt \in Nat
      BY <2>1, RequestAssumption
    <2>3. WithinWindow(Unix(call[a].now), call[a].request.signedAt)
      BY DEF Inv, CallOK
    <2>4. now < call[a].now + (2 * Window + 1) * Tick
      BY <2>1, <2>2, <2>3, WindowSpan
    <2>5. reserved[Key(call[a].request)].expiresAt = call[a].now + Retention
      <3>1. CallOK(a)
        BY DEF Inv
      <3> QED
        BY <3>1 DEF CallOK, Expires
    <2>6. (2 * Window + 1) * Tick \in Nat
      BY TimeAssumption, SMTT(30)
    <2> QED
      BY <2>1, <2>4, <2>5, <2>6, TimeAssumption
  <1> QED
    BY <1>1, Invariance, PTL

-----------------------------------------------------------------------------
(* A call that has not read its credential when that is revoked.           *)

\* Credential c is revoked, and call a has not read it: if its request names c
\* it stops, at the latest, where it reads it.
Barred(a, c) ==
    /\ credential[c].state = "revoked"
    /\ \/ call[a].pc \in {"idle", "audience", "credential"}
       \/ call[a].request.credential # c
       \/ call[a].pc = "done" /\ call[a].reply \notin {"ok", "forbidden"}

\* No operator brings a revoked credential back.
LEMMA RevokedStays ==
    ASSUME Inv, [Next]_vars, NEW c \in Credentials, credential[c].state = "revoked"
    PROVE  credential'[c].state = "revoked"
  <1>1. credential \in [Credentials -> Credential]
    BY DEF Inv, TypeOK
  <1>2. CASE credential' = credential
    BY <1>2
  <1>3. ASSUME NEW d \in Credentials, NEW at \in Clock, Activate(d, at) \/ Retire(d, at)
        PROVE  credential'[c].state = "revoked"
    BY <1>1, <1>3 DEF Activate, Retire
  <1>4. ASSUME NEW d \in Credentials, Disable(d) \/ Revoke(d)
        PROVE  credential'[c].state = "revoked"
    BY <1>1, <1>4 DEF Disable, Revoke
  <1>5. CASE Administer
    BY <1>2, <1>3, <1>4, <1>5 DEF Administer, ChangePrincipal
  <1> QED
    BY <1>2, <1>5
    DEF Next, vars, Begin, Step, BoundAudience, ReadCredential, VerifyMAC, SendReserve,
        ReceiveReply, LoseReply, LoadPrincipal, Fail, Execute, Discard

\* A step of call a itself leaves it barred: ReadCredential is the only way on.
LEMMA OwnStepBarred ==
    ASSUME Inv, NEW a \in Calls, NEW c \in Credentials, Barred(a, c),
           credential'[c].state = "revoked",
           \/ \E r \in Requests, now \in Clock : Begin(a, r, now)
           \/ Step(a) \/ Execute(a) \/ Discard(a)
    PROVE  Barred(a, c)'
  <1>1. TypeOK /\ call \in [Calls -> CallRecord] /\ call[a] \in CallRecord
    BY DEF Inv, TypeOK
  <1>2. ASSUME NEW r \in Requests, NEW now \in Clock, Begin(a, r, now)
        PROVE  Barred(a, c)'
    <2>1. call'[a] = Begun(r, now)
      BY <1>1, <1>2 DEF Begin
    <2> QED
      BY <2>1 DEF Barred, Begun
  <1>3. ASSUME NEW reply \in Replies \ {"ok", "forbidden"}, Return(a, reply)
        PROVE  Barred(a, c)'
    BY <1>1, <1>3, ReturnEffect DEF Barred
  <1>4. ASSUME NEW pc \in Steps, Goto(a, pc), call[a].request.credential # c
        PROVE  Barred(a, c)'
    BY <1>1, <1>4, GotoEffect DEF Barred
  <1>5. CASE BoundAudience(a)
    BY <1>1, <1>3, <1>5, GotoEffect DEF BoundAudience, Barred, Steps, Replies
  <1>6. CASE ReadCredential(a)
    BY <1>1, <1>3, <1>4, <1>6 DEF ReadCredential, Barred, UsableAt, Steps, Replies
  <1>7. CASE VerifyMAC(a) \/ SendReserve(a) \/ ReceiveReply(a)
    BY <1>1, <1>3, <1>4, <1>7
    DEF VerifyMAC, SendReserve, ReceiveReply, At, Barred, Steps, Replies
  <1>8. CASE LoseReply(a) \/ Fail(a)
    BY <1>3, <1>8 DEF LoseReply, Fail, Replies
  <1>9. CASE LoadPrincipal(a)
    BY <1>1, <1>9, ReturnEffect DEF LoadPrincipal, At, Barred, Replies
  <1>10. CASE Execute(a) \/ Discard(a)
    BY <1>3, <1>10 DEF Execute, Discard, Barred, Replies
  <1> QED
    BY <1>2, <1>5, <1>6, <1>7, <1>8, <1>9, <1>10 DEF Step

\* So does every other step.
LEMMA StaysBarred ==
    ASSUME Inv, [Next]_vars, NEW a \in Calls, NEW c \in Credentials, Barred(a, c)
    PROVE  Barred(a, c)'
  <1>1. credential'[c].state = "revoked"
    BY RevokedStays DEF Barred
  <1>2. CASE call'[a] = call[a]
    BY <1>1, <1>2 DEF Barred
  <1>3. CASE UNCHANGED vars \/ Administer
    <2>1. call' = call
      BY <1>3 DEF vars, Administer, Activate, Retire, Disable, Revoke, ChangePrincipal
    <2> QED
      BY <1>2, <2>1
  <1>4. ASSUME NEW b \in Calls, b # a,
               \/ \E r \in Requests, now \in Clock : Begin(b, r, now)
               \/ Step(b) \/ Execute(b) \/ Discard(b)
        PROVE  Barred(a, c)'
    <2>1. TypeOK
      BY DEF Inv
    <2>2. \/ call' = call
          \/ \E pc \in Steps : Goto(b, pc)
          \/ \E reply \in Replies : Return(b, reply)
          \/ \E r \in Requests, now \in Clock : Begin(b, r, now)
      BY <1>4 DEF Step, BoundAudience, ReadCredential, VerifyMAC, SendReserve, ReceiveReply,
         LoseReply, LoadPrincipal, Fail, Steps, Replies, Execute, Discard
    <2>3. call'[a] = call[a]
      BY <1>4, <2>1, <2>2, GotoEffect, ReturnEffect DEF Begin, TypeOK
    <2> QED
      BY <1>2, <2>3
  <1> QED
    BY <1>1, <1>3, <1>4, OwnStepBarred DEF Next

\* Service.Authenticate reads the credential after the request has begun, so a
\* credential that is revoked before that never authenticates the request,
\* whatever the operators and the other calls do in between and afterwards.
THEOREM RevocationIsFinal == Spec => RevokedStaysOut
  <1> SUFFICES ASSUME NEW CONSTANT a \in Calls, NEW CONSTANT c \in Credentials
      PROVE  Spec => [](At(a, "idle") /\ credential[c].state = "revoked" =>
                 [](call[a].reply \in {"ok", "forbidden"} =>
                       call[a].request.credential # c))
    BY DEF RevokedStaysOut
  <1>1. Inv /\ At(a, "idle") /\ credential[c].state = "revoked" => Barred(a, c)
    BY DEF Barred, At
  <1>2. Inv /\ [Next]_vars /\ Barred(a, c) => Barred(a, c)'
    BY StaysBarred
  <1>3. Inv /\ Barred(a, c) =>
            (call[a].reply \in {"ok", "forbidden"} => call[a].request.credential # c)
    BY DEF Inv, CallOK, At, Barred
  <1> QED
    BY <1>1, <1>2, <1>3, Invariance, PTL DEF Spec
=============================================================================
