------------------------------- MODULE Server -------------------------------
(***************************************************************************)
(* The API process (api/cmd/api/main.go) from its start to its exit, and   *)
(* its requests on their way through the middleware                        *)
(* (api/internal/http/middleware.go), the handlers and the pool of         *)
(* Postgres connections.  What an ingest or a read does to the tables is   *)
(* the subject of Ingest and Reads; here a handler takes a connection,     *)
(* uses the tables and answers.                                            *)
(*                                                                         *)
(* A health check uses nothing, a readiness check a connection, a read and *)
(* an ingest the tables too.  All but the ingest have a deadline; what an  *)
(* ingest waits for is its client (ReadTimeout) and the database.          *)
(***************************************************************************)
EXTENDS Integers, FiniteSets

CONSTANTS Requests,       \* the requests that may arrive
          MaxConns        \* PGMaxConns

ASSUME MaxConnsAssumption == MaxConns \in Nat \ {0}

VARIABLES
    proc,       \* where main() is
    term,       \* SIGTERM or SIGINT has come: ctx is done
    listener,   \* the goroutine in ListenAndServe
    drained,    \* how Shutdown() ended
    exit,       \* the exit code, -1 while the process runs
    at,         \* where each request is
    kind,       \* what it asks for, until its handler has the answer
    label,      \* Content-Encoding, which says whether the gzip writer is on
    data,       \* how the body was written: "none", "plain" or "gzip"
    conns       \* the requests that hold a connection of the pool

life     == <<proc, term, listener, drained, exit>>
answer   == <<label, data>>
requests == <<at, kind, answer, conns>>
server   == <<life, requests>>

\* A path or a method the mux does not know is answered like "health".
Kinds == {"health", "ready", "read", "ingest"}
NeedsConn(r) == kind[r] \in {"ready", "read", "ingest"}
NeedsTables(r) == kind[r] \in {"read", "ingest"}

\* A request that a handler is working on, and one that is over.
Active(r) == at[r] \in {"accepted", "connected", "query", "decided", "writing"}
Ended(r) == at[r] \in {"answered", "recovered", "gone", "cut"}

\* The ingests a panic has answered for, whose transactions it left open.
Leaked == {r \in conns : at[r] = "recovered"}

ServerInit ==
    /\ proc = "start" /\ term = FALSE /\ listener = "none" /\ drained = "no" /\ exit = -1
    /\ at = [r \in Requests |-> "absent"]
    /\ kind = [r \in Requests |-> "none"]
    /\ label = [r \in Requests |-> "none"]
    /\ data = [r \in Requests |-> "none"]
    /\ conns = {}

-----------------------------------------------------------------------------
(* main(). *)

\* os.Exit, the end of main or a signal: whatever was going on is cut off.
Exit(code) ==
    /\ exit' = code /\ proc' = "exited"
    /\ at' = [r \in Requests |-> IF Active(r) THEN "cut" ELSE at[r]]
    /\ kind' = [r \in Requests |-> "none"]
    /\ conns' = {}
    /\ UNCHANGED <<term, listener, drained, answer>>

OpenStore ==
    /\ proc = "start" /\ ~term
    /\ proc' = "opened"
    /\ UNCHANGED <<term, listener, drained, exit, requests>>

\* Postgres cannot be reached, or the signal has cancelled startCtx; or, with
\* the store open, REDIS_URL is malformed.
StartFails ==
    /\ proc \in {"start", "opened"}
    /\ Exit(1)

Serve ==
    /\ proc = "opened"
    /\ proc' = "serving" /\ listener' = "starting"
    /\ UNCHANGED <<term, drained, exit, requests>>

\* ListenAndServe opens its socket, unless Shutdown() was faster ...
Listen ==
    /\ listener = "starting" /\ exit = -1
    /\ listener' = IF proc = "serving" THEN "open" ELSE "closing"
    /\ UNCHANGED <<proc, term, drained, exit, requests>>

\* ... or cannot: the process ends.
ListenFails ==
    /\ listener = "starting" /\ proc = "serving"
    /\ Exit(1)

\* Mutant: http.ErrServerClosed is taken for a failure.
ListenReturnsFatal ==
    /\ listener = "closing" /\ exit = -1
    /\ Exit(1)

\* After Shutdown() it returns http.ErrServerClosed at once, which is no failure.
ListenReturns ==
    /\ listener = "closing" /\ exit = -1
    /\ listener' = "closed"
    /\ UNCHANGED <<proc, term, drained, exit, requests>>

Signal ==
    /\ exit = -1 /\ ~term
    /\ term' = TRUE
    /\ UNCHANGED <<proc, listener, drained, exit, requests>>

Kill ==
    /\ exit = -1
    /\ Exit(137)

Shutdown ==
    /\ proc = "serving" /\ term
    /\ proc' = "draining"
    /\ listener' = IF listener = "open" THEN "closing" ELSE listener
    /\ UNCHANGED <<term, drained, exit, requests>>

\* Shutdown() returns when no request is active, or after 10 seconds.
Drain ==
    /\ proc = "draining"
    /\ proc' = "closing"
    /\ drained' = IF \E r \in Requests : Active(r) THEN "late" ELSE "clean"
    /\ UNCHANGED <<term, listener, exit, requests>>

\* The deferred st.Close() refuses further Acquires, and waits for the
\* connections to be given back.
CloseStore ==
    /\ proc = "closing" /\ conns = {}
    /\ Exit(0)

-----------------------------------------------------------------------------
(* A request. *)

Goto(r, to) == at' = [at EXCEPT ![r] = to]
Leave(r, to) == Goto(r, to) /\ kind' = [kind EXCEPT ![r] = "none"]

Accept(r, k) ==
    /\ at[r] = "absent" /\ listener = "open" /\ exit = -1
    /\ Goto(r, "accepted") /\ kind' = [kind EXCEPT ![r] = k]
    /\ UNCHANGED <<life, answer, conns>>

\* Mutant: nothing is rolled back when the first statement fails.
DecideKeeping(r) ==
    /\ Leave(r, "decided")
    /\ conns' = IF at[r] = "connected" THEN conns ELSE conns \ {r}
    /\ UNCHANGED <<life, answer>>

\* The handler knows its answer, good or bad, and gives its connection back.
Decide(r) ==
    /\ Leave(r, "decided")
    /\ conns' = conns \ {r}
    /\ UNCHANGED <<life, answer>>

\* /healthz touches nothing, and nor does the mux in its own 404 and 405.
DecideAlone(r) ==
    /\ at[r] = "accepted" /\ ~NeedsConn(r)
    /\ Decide(r)

Acquire(r) ==
    /\ at[r] = "accepted" /\ NeedsConn(r)
    /\ proc # "closing" /\ Cardinality(conns) < MaxConns
    /\ conns' = conns \cup {r} /\ Goto(r, "connected")
    /\ UNCHANGED <<life, kind, answer>>

\* No connection: the pool is closed, Postgres is down, or the deadline passes
\* while waiting for one.
AcquireFails(r) ==
    /\ at[r] = "accepted" /\ NeedsConn(r)
    /\ Decide(r)

Pinged(r) ==
    /\ at[r] = "connected" /\ kind[r] = "ready"
    /\ Decide(r)

\* The query or the transaction of r has its first lock on the tables.
Enter(r) ==
    /\ at[r] = "connected" /\ NeedsTables(r)
    /\ Goto(r, "query")
    /\ UNCHANGED <<life, kind, answer, conns>>

\* The deadline passes, or the query is refused, before it gets there.
EnterFails(r) ==
    /\ at[r] = "connected" /\ NeedsTables(r)
    /\ Decide(r)

\* The query ends, well or with an error; the transaction commits or rolls back.
Finish(r) ==
    /\ at[r] = "query"
    /\ Decide(r)

\* Mutant: nobody closes what the client that went away had opened.
ClientGoesSilently(r) ==
    /\ Active(r)
    /\ Leave(r, "gone")
    /\ UNCHANGED <<life, answer, conns>>

\* The client goes away and the context is cancelled.
ClientGoes(r) ==
    /\ Active(r)
    /\ Leave(r, "gone") /\ conns' = conns \ {r}
    /\ UNCHANGED <<life, answer>>

\* Mutant: WithGzip announces gzip before it knows that anything is compressed.
PanicLabelled(r) ==
    /\ at[r] \in {"accepted", "query"}
    /\ Leave(r, "recovered")
    /\ \E encoding \in {"plain", "gzip"} : label' = [label EXCEPT ![r] = encoding]
    /\ data' = [data EXCEPT ![r] = "plain"]
    /\ conns' = IF kind[r] = "ingest" THEN conns ELSE conns \ {r}
    /\ UNCHANGED life

\* The handler panics with nothing sent: the gzip writer, not on, is put back
\* unused, and WithRecovery answers below it.  Rows are closed by a defer; the
\* transaction of an ingest is not, and keeps its connection.
Panic(r) ==
    /\ at[r] \in {"accepted", "query"}
    /\ Leave(r, "recovered")
    /\ label' = [label EXCEPT ![r] = "plain"]
    /\ data' = [data EXCEPT ![r] = "plain"]
    /\ conns' = IF kind[r] = "ingest" THEN conns ELSE conns \ {r}
    /\ UNCHANGED life

\* WriteHeader(): no handler sets Content-Length, so the gzip writer goes on
\* for every client that accepts gzip.
WriteHeader(r) ==
    /\ at[r] = "decided"
    /\ Goto(r, "writing")
    /\ \E encoding \in {"plain", "gzip"} : label' = [label EXCEPT ![r] = encoding]
    /\ UNCHANGED <<life, kind, data, conns>>

\* The body, and the Close() of the gzip writer that ends it.
WriteBody(r) ==
    /\ at[r] = "writing"
    /\ Goto(r, "answered")
    /\ data' = [data EXCEPT ![r] = label[r]]
    /\ UNCHANGED <<life, kind, label, conns>>

Main ==
    \/ OpenStore \/ StartFails \/ Serve \/ Listen \/ ListenFails \/ ListenReturns
    \/ Signal \/ Kill \/ Shutdown \/ Drain \/ CloseStore

\* Steps of a request that do not depend on the tables.
Handle(r) ==
    \/ DecideAlone(r) \/ Acquire(r) \/ AcquireFails(r) \/ Pinged(r) \/ EnterFails(r)
    \/ Panic(r) \/ ClientGoes(r) \/ WriteHeader(r) \/ WriteBody(r)

=============================================================================
