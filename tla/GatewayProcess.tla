--------------------------- MODULE GatewayProcess ---------------------------
(***************************************************************************)
(* The life of a gateway process (cmd/ms-oncall-gateway/main.go) with the  *)
(* requests it serves: run prepares the database, serveHTTP starts the     *)
(* server in a goroutine and waits for its error or for a signal, shuts    *)
(* down for a bounded time, and the pool is closed on the way out.         *)
(* Handlers run concurrently and share the request counters.               *)
(*                                                                         *)
(* net/http is external: ListenAndServe checks for a shutdown, binds, and  *)
(* accepts until it fails or is shut down; Shutdown closes the listener,   *)
(* waits for Serve to return, then for every connection to be idle.  A     *)
(* connection carries one request.                                         *)
(***************************************************************************)
EXTENDS HttpIntake, FiniteSets

CONSTANTS
    Connections,
    Inputs,        \* Inputs[c]: the requests that the client of c may send
    SinkAnswers    \* what the wired sink may answer: today's, or a later one's

ASSUME InputAssumption ==
    /\ IsFiniteSet(Connections)
    /\ Inputs \in [Connections -> SUBSET Request]
    /\ Unavailable \in SinkAnswers /\ SinkAnswers \subseteq SinkAnswer

VARIABLES
    main,          \* where run is, and the status it exits with
    signalled,     \* the context of the signals is done
    pool,          \* the database pool
    server,        \* the goroutine in ListenAndServe
    serverError,   \* the channel, of capacity 1
    shutdown,      \* Server.inShutdown
    conn,          \* conn[c]: a connection and the handler of its request
    counts         \* requestMetrics.counts

vars == <<main, signalled, pool, server, serverError, shutdown, conn, counts>>

\* What no handler touches, and what only handlers touch.
process == <<main, signalled, pool, server, serverError, shutdown>>

Main == [pc : {"prepare", "select", "closing", "draining", "await", "return", "exit"},
         status : {"none", "ok", "failed"}]

ServerErrors == {"ErrServerClosed", "failed"}

Sent == UNION {Inputs[c] : c \in Connections}

\* Optional parts are sets of at most one element: the request that was read, the
\* outcome that was decided, what the sink answered and what a scrape rendered.
Handler == [pc : {"away", "new", "head", "body", "sink", "answer", "record", "done",
                  "closed", "cut"},
            in : SUBSET Sent, out : SUBSET Outcome, sink : SUBSET SinkAnswers,
            seen : SUBSET [Keys -> Nat]]

Away == [pc |-> "away", in |-> {}, out |-> {}, sink |-> {}, seen |-> {}]

Init ==
    /\ main = [pc |-> "prepare", status |-> "none"]
    /\ signalled = FALSE
    /\ pool = "none"
    /\ server = "none"
    /\ serverError = <<>>
    /\ shutdown = FALSE
    /\ conn = [c \in Connections |-> Away]
    /\ counts = [k \in Keys |-> 0]

Goto(pc) == main' = [main EXCEPT !.pc = pc]

Return(status) == main' = [pc |-> "return", status |-> status]

Is(c, pc) == conn[c].pc = pc

Busy == {"head", "body", "sink", "answer", "record"}

\* The handler of connection c is running.
Handling(c) == conn[c].pc \in Busy

-----------------------------------------------------------------------------
(* run and serveHTTP.                                                      *)

\* A signal, at any time.
Signal ==
    /\ ~signalled /\ main.pc # "exit"
    /\ signalled' = TRUE
    /\ UNCHANGED <<main, pool, server, serverError, shutdown, conn, counts>>

\* ParseStartupTimeout or Prepare fails: the process exits without a pool.
PrepareFails ==
    /\ main.pc = "prepare"
    /\ main' = [pc |-> "exit", status |-> "failed"]
    /\ UNCHANGED <<signalled, pool, server, serverError, shutdown, conn, counts>>

\* Prepare succeeds and serveHTTP starts its goroutine.
Serve ==
    /\ main.pc = "prepare"
    /\ Goto("select")
    /\ pool' = "open"
    /\ server' = "starting"
    /\ UNCHANGED <<signalled, serverError, shutdown, conn, counts>>

\* The select takes the server's error.
SelectError ==
    /\ main.pc = "select" /\ serverError # <<>>
    /\ serverError' = Tail(serverError)
    /\ Return(IF Head(serverError) = "ErrServerClosed" THEN "ok" ELSE "failed")
    /\ UNCHANGED <<signalled, pool, server, shutdown, conn, counts>>

\* Mutant: Shutdown runs in a goroutine of its own, and serveHTTP waits for
\* ListenAndServe only.
SelectDoneDetached ==
    /\ main.pc = "select" /\ signalled
    /\ shutdown' = TRUE
    /\ Goto("await")
    /\ UNCHANGED <<signalled, pool, server, serverError, conn, counts>>

\* The select takes ctx.Done, which is possible whenever it is done: Shutdown.
SelectDone ==
    /\ main.pc = "select" /\ signalled
    /\ shutdown' = TRUE
    /\ Goto("closing")
    /\ UNCHANGED <<signalled, pool, server, serverError, conn, counts>>

\* Shutdown has closed the listener and Serve, if it ran, has returned.
ListenerClosed ==
    /\ main.pc = "closing" /\ server # "accepting"
    /\ Goto("draining")
    /\ UNCHANGED <<signalled, pool, server, serverError, shutdown, conn, counts>>

\* Mutant: Server.Close in place of Server.Shutdown.
DrainedAtOnce ==
    /\ main.pc = "draining"
    /\ conn' = [c \in Connections |-> IF Is(c, "new") \/ Handling(c)
                                      THEN [conn[c] EXCEPT !.pc = "closed"] ELSE conn[c]]
    /\ Goto("await")
    /\ UNCHANGED <<signalled, pool, server, serverError, shutdown, counts>>

\* Shutdown finds every connection idle.  One whose request has not been read
\* for a while counts as idle and is closed.
Drained ==
    /\ main.pc = "draining"
    /\ \A c \in Connections : ~Handling(c)
    /\ conn' = [c \in Connections |-> IF Is(c, "new") THEN [conn[c] EXCEPT !.pc = "closed"]
                                      ELSE conn[c]]
    /\ Goto("await")
    /\ UNCHANGED <<signalled, pool, server, serverError, shutdown, counts>>

\* Mutant: Shutdown is given no deadline.
NeverTimesOut == FALSE /\ UNCHANGED vars

\* The ten seconds are over first.
ShutdownTimesOut ==
    /\ main.pc = "draining"
    /\ Return("failed")
    /\ UNCHANGED <<signalled, pool, server, serverError, shutdown, conn, counts>>

\* <-serverError after Shutdown.
Await ==
    /\ main.pc = "await" /\ serverError # <<>>
    /\ serverError' = Tail(serverError)
    /\ Return(IF Head(serverError) = "ErrServerClosed" THEN "ok" ELSE "failed")
    /\ UNCHANGED <<signalled, pool, server, shutdown, conn, counts>>

\* The deferred database.Close.
ClosePool ==
    /\ main.pc = "return" /\ pool = "open"
    /\ pool' = "closed"
    /\ UNCHANGED <<main, signalled, server, serverError, shutdown, conn, counts>>

\* main returns or calls os.Exit; what is still running ends with it.
Exit ==
    /\ main.pc = "return" /\ pool = "closed"
    /\ Goto("exit")
    /\ conn' = [c \in Connections |->
                  IF Handling(c) \/ Is(c, "new") THEN [conn[c] EXCEPT !.pc = "cut"] ELSE conn[c]]
    /\ UNCHANGED <<signalled, pool, server, serverError, shutdown, counts>>

-----------------------------------------------------------------------------
(* ListenAndServe.                                                         *)

\* The goroutine sends what ListenAndServe returned; the channel has room.
ServerReturns(err) ==
    /\ Len(serverError) < 1
    /\ serverError' = Append(serverError, err)
    /\ server' = err
    /\ UNCHANGED <<main, signalled, pool, shutdown, conn, counts>>

\* ListenAndServe looks for a shutdown, then binds.
Bind ==
    /\ server = "starting" /\ main.pc # "exit"
    /\ \/ shutdown /\ ServerReturns("ErrServerClosed")
       \/ /\ ~shutdown /\ server' = "binding"
          /\ UNCHANGED <<main, signalled, pool, serverError, shutdown, conn, counts>>

\* The address cannot be bound, a shutdown came in between, or Serve starts.
Listen ==
    /\ server = "binding" /\ main.pc # "exit"
    /\ \/ ServerReturns("failed")
       \/ shutdown /\ ServerReturns("ErrServerClosed")
       \/ /\ ~shutdown /\ server' = "accepting"
          /\ UNCHANGED <<main, signalled, pool, serverError, shutdown, conn, counts>>

\* Serve returns because of a shutdown.
ServeClosed ==
    /\ server = "accepting" /\ shutdown /\ main.pc # "exit"
    /\ ServerReturns("ErrServerClosed")

\* Accept fails for good.
ServeFails ==
    /\ server = "accepting" /\ ~shutdown /\ main.pc # "exit"
    /\ ServerReturns("failed")

\* A connection is accepted.
Accept(c) ==
    /\ server = "accepting" /\ ~shutdown /\ main.pc # "exit" /\ Is(c, "away")
    /\ conn' = [conn EXCEPT ![c].pc = "new"]
    /\ UNCHANGED <<process, counts>>

\* Its request is read, or nothing comes within ReadHeaderTimeout.
ReadHeader(c, r) ==
    /\ main.pc # "exit" /\ Is(c, "new")
    /\ conn' = [conn EXCEPT ![c].pc = "head", ![c].in = {r}]
    /\ UNCHANGED <<process, counts>>

HangUp(c) ==
    /\ main.pc # "exit" /\ Is(c, "new")
    /\ conn' = [conn EXCEPT ![c].pc = "closed"]
    /\ UNCHANGED <<process, counts>>

-----------------------------------------------------------------------------
(* The handler.                                                            *)

\* Mutant: a scrape is recorded after it has rendered the counters.
AnswerFirst(out) == "answer"

\* Every answer is written and then recorded, except that of a scrape.
FirstOf(out) == IF Key(out) = <<"metrics", "ok">> THEN "record" ELSE "answer"

Decided(h, out) == [h EXCEPT !.pc = FirstOf(out), !.out = {out}]

In(h) == CHOOSE r \in h.in : TRUE

Out(h) == CHOOSE out \in h.out : TRUE

\* ServeHTTP and handleWebhook up to the body.
ServeHTTP(c) ==
    /\ Is(c, "head")
    /\ conn' = [conn EXCEPT ![c] =
                  IF HeadVerdict(In(conn[c])) = {} THEN [@ EXCEPT !.pc = "body"]
                  ELSE Decided(@, CHOOSE out \in HeadVerdict(In(conn[c])) : TRUE)]
    /\ UNCHANGED <<process, counts>>

\* The body is read and decoded.
ReadBody(c) ==
    /\ Is(c, "body")
    /\ conn' = [conn EXCEPT ![c] =
                  IF BodyVerdict(In(conn[c])) = {} THEN [@ EXCEPT !.pc = "sink"]
                  ELSE Decided(@, CHOOSE out \in BodyVerdict(In(conn[c])) : TRUE)]
    /\ UNCHANGED <<process, counts>>

\* sink.Enqueue
Enqueue(c, answer) ==
    /\ Is(c, "sink")
    /\ conn' = [conn EXCEPT ![c] = Decided([@ EXCEPT !.sink = {answer}], SinkVerdict(answer))]
    /\ UNCHANGED <<process, counts>>

\* render takes its copy of the counters under the read lock.
render == {counts}

\* The status and the body are written; problem and handleHealth record
\* afterwards, handleMetrics has recorded before.
Write(c) ==
    /\ Is(c, "answer")
    /\ conn' = [conn EXCEPT ![c].pc = IF Key(Out(conn[c])) = <<"metrics", "ok">> THEN "done" ELSE "record",
                            ![c].seen = IF Key(Out(conn[c])) = <<"metrics", "ok">> THEN render ELSE {}]
    /\ UNCHANGED <<process, counts>>

\* increment, under the write lock.
increment(key) == [counts EXCEPT ![key] = @ + 1]

record(c) ==
    /\ Is(c, "record")
    /\ counts' = increment(Key(Out(conn[c])))
    /\ conn' = [conn EXCEPT ![c].pc = IF FirstOf(Out(conn[c])) = "record" THEN "answer" ELSE "done"]
    /\ UNCHANGED process

-----------------------------------------------------------------------------

RunStep ==
    \/ PrepareFails \/ Serve \/ SelectError \/ SelectDone \/ ListenerClosed
    \/ Drained \/ ShutdownTimesOut \/ Await \/ ClosePool \/ Exit

ServerStep == Bind \/ Listen \/ ServeClosed

HandlerStep(c) ==
    /\ main.pc # "exit"
    /\ \/ ServeHTTP(c) \/ ReadBody(c) \/ Write(c) \/ record(c)
       \/ \E answer \in SinkAnswers : Enqueue(c, answer)

Next ==
    \/ Signal \/ RunStep \/ ServerStep \/ ServeFails
    \/ \E c \in Connections :
          \/ Accept(c) \/ HangUp(c) \/ HandlerStep(c)
          \/ \E r \in Inputs[c] : ReadHeader(c, r)

Spec == Init /\ [][Next]_vars

\* Main and the server's goroutine are scheduled, Prepare is bounded by the
\* startup timeout and Shutdown by its own.  Nothing is assumed of clients or
\* handlers.
FairSpec == Spec /\ WF_vars(RunStep) /\ WF_vars(ServerStep)

-----------------------------------------------------------------------------
(* Properties.                                                             *)

\* Every variable has its type.
TypeOK ==
    /\ main \in Main
    /\ signalled \in BOOLEAN /\ shutdown \in BOOLEAN
    /\ pool \in {"none", "open", "closed"}
    /\ server \in {"none", "starting", "binding", "accepting"} \cup ServerErrors
    /\ serverError \in {<<>>} \cup {<<err>> : err \in ServerErrors}
    /\ conn \in [Connections -> Handler]
    /\ counts \in [Keys -> Nat]

\* serveHTTP has not returned.
Serving == main.pc \in {"select", "closing", "draining", "await"}

\* Where run is, what the server's goroutine has done and what is in the
\* channel belong together; once Shutdown has seen every connection idle,
\* none becomes active again.
ProcessOK ==
    /\ main.pc = "prepare" => main.status = "none" /\ pool = "none" /\ ~shutdown
    /\ Serving => main.status = "none" /\ pool = "open"
    /\ main.pc \in {"return", "exit"} => main.status # "none"
    /\ pool = "none" <=> server = "none"
    /\ server \in {"none", "starting", "binding", "accepting"} => serverError = <<>>
    /\ Serving /\ server \in ServerErrors => serverError = <<server>>
    /\ Serving => (shutdown <=> main.pc # "select")
    /\ shutdown => signalled
    /\ server = "ErrServerClosed" => shutdown
    /\ main.pc \in {"draining", "await"} => server # "accepting"
    /\ main.status = "ok" => shutdown /\ server = "ErrServerClosed"

\* What connection c may be doing while the process is where it is.
ConnectionOK(c) ==
    /\ server = "none" => Is(c, "away")
    /\ main.pc = "await" \/ main.status = "ok" => conn[c].pc \in {"away", "done", "closed"}
    /\ Is(c, "cut") => main.pc = "exit"

\* A handler has its request, has passed the checks before the step it is at,
\* and has an outcome once it has decided.
HandlerOK(c, h) ==
    /\ h.pc \in {"away", "new", "closed"} => h.in = {}
    /\ h.pc \in Busy \/ h.out # {} => \E r \in Inputs[c] : h.in = {r}
    /\ h.pc \in {"away", "new", "closed", "head", "body", "sink"} => h.out = {} /\ h.sink = {}
    /\ h.pc \in {"body", "sink"} => HeadVerdict(In(h)) = {}
    /\ h.pc = "sink" => BodyVerdict(In(h)) = {}
    /\ h.pc \in {"answer", "record", "done"} => h.out # {}
    /\ h.out # {} => \E out \in Outcome : h.out = {out}
    /\ h.seen # {} => h.pc \in {"done", "cut"}

\* The pool is there for every handler, and is taken away under a running
\* handler only on the way to a failed exit: a server that failed, or a
\* shutdown that ran out of time.
PoolOutlivesHandlers ==
    \A c \in Connections : Handling(c) => pool = "open" \/ main.status = "failed"

\* The connections whose answer, given or about to be, counts under k.
Answered(k) == {c \in Connections : \E out \in conn[c].out : Key(out) = k}

\* A process that exits successfully was told to stop and its server did not
\* fail, even if the select took the signal; by then every request that a
\* handler had begun has been answered, and counted exactly once, under its own
\* route and result.
CleanExit ==
    main.status = "ok" =>
        /\ signalled
        /\ server = "ErrServerClosed"
        /\ \A c \in Connections : conn[c].in # {} => Is(c, "done")
        /\ \A k \in Keys : counts[k] = Cardinality(Answered(k))

HandedOver(h) ==
    /\ h.sink # {} <=> Contract(In(h))
    /\ h.sink # {} <=> Out(h).status \in {202, 500, 503}
    /\ Out(h).status = 202 =>
          \E answer \in h.sink : answer.err = "none" /\ answer.receipt # "empty"

\* The handler turns to its sink for exactly the requests that the HTTP contract
\* admits, an answer that blames the request means that it did not, and 202 means
\* that the sink accepted the delivery and gave a receipt.
HandoverIsValid == \A c \in Connections : conn[c].out # {} => HandedOver(conn[c])

\* A scrape counts itself, counts nothing that was not answered or being
\* answered, and of two scrapes one has seen everything that the other has.
ScrapesAreCoherent ==
    \A c \in Connections : \A s \in conn[c].seen :
        /\ s[<<"metrics", "ok">>] >= 1
        /\ \A k \in Keys : s[k] <= Cardinality(Answered(k))
        /\ \A d \in Connections : \A t \in conn[d].seen :
              (\A k \in Keys : s[k] <= t[k]) \/ (\A k \in Keys : t[k] <= s[k])

\* The connections that have been counted under k: a scrape before it is
\* answered, the others when they are done.
Counted(k) ==
    {c \in Answered(k) : Is(c, "done") \/ (Is(c, "answer") /\ k = <<"metrics", "ok">>)}

\* The counters are the numbers of counted connections, until the process ends
\* under its handlers, and no scrape is ahead of them.
CountsOK ==
    /\ main.pc # "exit" \/ main.status = "ok" =>
          \A k \in Keys : counts[k] = Cardinality(Counted(k))
    /\ \A c \in Connections : \A s \in conn[c].seen : \A k \in Keys : s[k] <= counts[k]

\* The state of the process, its server, its handlers and its counters fit
\* together.
Inv ==
    /\ TypeOK
    /\ ProcessOK
    /\ \A c \in Connections : ConnectionOK(c) /\ HandlerOK(c, conn[c])
    /\ HandoverIsValid
    /\ CountsOK
    /\ ScrapesAreCoherent

\* A signal ends the process, also while it is starting, while the server is
\* binding its address, and when a client never finishes its request.
SignalEndsProcess == signalled ~> main.pc = "exit"
=============================================================================
