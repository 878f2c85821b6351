------------------------------ MODULE Service -------------------------------
(***************************************************************************)
(* The API process and migrators at work on one database.  They meet in    *)
(* Postgres: a script waits for the transactions that hold a lock it       *)
(* conflicts with, and while it waits, later requests for a conflicting    *)
(* lock wait behind it, holding their connections of the pool.  (A         *)
(* deadlock between an ingest and a rollback that drops the tables one by  *)
(* one is broken by Postgres: one of the two fails, as it may anyway.)     *)
(***************************************************************************)
EXTENDS Server, Migrations

CONSTANT MaxLoad          \* bounds how many of both come, a migrator counting twice

vars == <<server, migrations>>

\* Scripts that drop something exclude readers too; CREATE INDEX only writers.
DropsSomething(m) == GoesDown(m) \/ Version(m) = 3
Conflict(m, r) == kind[r] = "ingest" \/ r \in Leaked \/ DropsSomething(m)

HoldsTables(r) == r \in conns /\ (at[r] = "query" \/ r \in Leaked)
Blocked(m) == \E r \in Requests : HoldsTables(r) /\ Conflict(m, r)
QueuesBehind(r) == \E m \in Migrators : mpc[m] = "locking" /\ Conflict(m, r)

Load == Cardinality({r \in Requests : at[r] # "absent"})
            + 2 * Cardinality({m \in Migrators : mpc[m] # "absent"})

Init == ServerInit /\ MigrationsInit

EnterTables(r) == ~QueuesBehind(r) /\ Enter(r)

\* Main and Handle of Server, with what becomes of the tables.
ServerStep ==
    \/ Main
    \/ \E r \in Requests :
          \/ Load < MaxLoad /\ \E k \in Kinds : Accept(r, k)
          \/ Handle(r) \/ EnterTables(r) \/ Finish(r)

RunScript(m) == mpc[m] = "locking" /\ ~Blocked(m) /\ (ApplyUp(m) \/ ApplyDown(m))
Migrate(m) ==
    ReadApplied(m) \/ Begin(m) \/ RunScript(m) \/ Fail(m) \/ Complete(m)

Next ==
    \/ ServerStep /\ UNCHANGED migrations
    \/ /\ \E m \in Migrators :
             \/ Migrate(m)
             \/ Load + 1 < MaxLoad /\ \E g \in {AllUp, 2} : Start(m, g)
       /\ UNCHANGED server

\* What is certain to happen in a process that is not killed: main() goes on,
\* a handler goes on, and whatever has a deadline gives up waiting.
MainGoesOn ==
    OpenStore \/ StartFails \/ Serve \/ Listen \/ ListenReturns \/ Shutdown \/ Drain \/ CloseStore
HandlerGoesOn(r) ==
    \/ DecideAlone(r) \/ Acquire(r) \/ Pinged(r) \/ EnterTables(r) \/ Finish(r)
    \/ WriteHeader(r) \/ WriteBody(r)
    \/ (kind[r] # "ingest" \/ proc = "closing") /\ AcquireFails(r)
    \/ kind[r] # "ingest" /\ EnterFails(r)

Fairness ==
    /\ WF_vars(MainGoesOn /\ UNCHANGED migrations)
    /\ \A r \in Requests : WF_vars(HandlerGoesOn(r) /\ UNCHANGED migrations)
    /\ \A m \in Migrators : WF_vars(Migrate(m) /\ UNCHANGED server)

Spec == Init /\ [][Next]_vars /\ Fairness

-----------------------------------------------------------------------------
(* Properties. *)

\* Whatever the handler does, panics included, a client that is answered gets
\* a body encoded as it is labelled: recorder, gzipWriter and
\* WithRecovery agree on who has written what.
ResponseWellFormed ==
    \A r \in Requests :
        at[r] \in {"answered", "recovered"} => data[r] # "none" /\ label[r] = data[r]

\* A process that is told to stop finishes what it has accepted: unless it is
\* killed or the drain takes longer than 10 seconds, no request is cut off.
DrainLosesNothing ==
    exit # 137 /\ drained # "late" => \A r \in Requests : at[r] # "cut"

\* SIGTERM ends the process, also one that is still starting or whose pool is
\* exhausted, unless a panic has left a transaction open, for which st.Close()
\* waits for ever.
ShutdownEnds ==
    term ~> (exit # -1 \/ Leaked # {})

\* No waiting for connections, locks or each other lasts for ever: a request
\* that was accepted ends, unless a panic has used up a connection, and so does
\* a migrator.
NobodyWaitsForever ==
    /\ \A r \in Requests : at[r] = "accepted" ~> (Ended(r) \/ Leaked # {})
    /\ \A m \in Migrators : mpc[m] = "reading" ~> ~Running(m)

\* As long as no rollback runs beside another migrator, whatever fails or is
\* killed: the versions recorded are the first few, the database is what these
\* make of it, and a migrator that has gone all the way up leaves it complete.
RecordMatchesSchema ==
    ~overlapped =>
        /\ \E k \in 0..3 : recorded = 1..k /\ schema = SchemaAt(k)
        /\ \A m \in Migrators :
              mpc[m] = "next" /\ ~GoesDown(m) /\ todo[m] = {} => recorded = Versions

-----------------------------------------------------------------------------
(* The inductive invariants behind the safety properties.                   *)

Places == {"absent", "accepted", "connected", "query", "decided", "writing",
           "answered", "recovered", "gone", "cut"}
Encodings == {"none", "plain", "gzip"}

\* What is sent agrees with its label from WriteHeader() on.
AnswerInv ==
    /\ at \in [Requests -> Places]
    /\ label \in [Requests -> Encodings] /\ data \in [Requests -> Encodings]
    /\ \A r \in Requests : at[r] = "writing" => label[r] # "none"
    /\ ResponseWellFormed

\* No request comes before the socket is open, none after it is closed, and it
\* is closed before the drain is waited for.
LifeInv ==
    /\ proc \in {"start", "opened", "serving", "draining", "closing", "exited"}
    /\ exit = -1 <=> proc # "exited"
    /\ exit = -1 => \A r \in Requests : at[r] # "cut"
    /\ proc \in {"start", "opened"} => listener = "none"
    /\ listener \in {"none", "starting"} => \A r \in Requests : at[r] = "absent"
    /\ proc \in {"start", "opened", "serving"} => drained = "no"
    /\ proc = "closing" => drained \in {"clean", "late"}
    /\ drained # "no" \/ proc = "draining" => listener # "open"
    /\ drained = "clean" => \A r \in Requests : ~Active(r)

\* A migrator that goes up has before it all that is not recorded, one that goes
\* down, alone, all that is.
MigratorInv(m) ==
    /\ mpc[m] \in {"next", "locking"} =>
         IF GoesDown(m) THEN todo[m] = recorded
                        ELSE Versions \ recorded \subseteq todo[m]
    /\ \A o \in Migrators \ {m} : Running(m) /\ Running(o) => ~GoesDown(m)

MigrationsTypeOK ==
    /\ recorded \subseteq Versions
    /\ overlapped \in BOOLEAN
    /\ mpc \in [Migrators -> {"absent", "reading", "next", "locking", "failed", "ok"}]
    /\ goal \in [Migrators -> -1..2]
    /\ todo \in [Migrators -> SUBSET Versions]
    /\ \A m \in Migrators : mpc[m] = "locking" => todo[m] # {} /\ goal[m] # 0

Contiguous == \E k \in 0..3 : recorded = 1..k /\ schema = SchemaAt(k)

MigrationsInv ==
    /\ MigrationsTypeOK
    /\ ~overlapped => Contiguous /\ \A m \in Migrators : MigratorInv(m)

IInv == AnswerInv /\ LifeInv /\ DrainLosesNothing /\ MigrationsInv

=============================================================================
