----------------------------- MODULE Migrations -----------------------------
(***************************************************************************)
(* The migrations of the database (api/migrations, api/cmd/migrate), run   *)
(* by any number of processes.  A migrator reads the versions that are     *)
(* recorded once, and then applies or rolls back one after the other, each *)
(* with its record in one transaction.                                     *)
(*                                                                         *)
(* 0001 makes the tables and the first filter index, 0002 the unique index *)
(* measurements_dedup_idx, 0003 exchanges the filter index.  All say IF    *)
(* [NOT] EXISTS; a table that is dropped takes its indexes with it.        *)
(***************************************************************************)
EXTENDS Integers, FiniteSets

CONSTANT Migrators        \* processes that may be started

VARIABLES
    recorded,   \* schema_migrations
    schema,     \* what the database has
    mpc,        \* where each migrator is
    goal,       \* how many versions it still has to roll back, or AllUp
    todo,       \* the versions that, by what it read, it may apply or roll back
    overlapped  \* a rollback has run beside another migrator

migrations == <<recorded, schema, mpc, goal, todo, overlapped>>

Versions == 1..3
AllUp == -1

\* The scripts.  UpScript(v) fails without the tables, DownScript(3) too.
UpFails(v) == v > 1 /\ ~schema.tables
InitUp            == [schema EXCEPT !.tables = TRUE, !.filter = IF @ = "none" THEN "old" ELSE @]
IngestHardeningUp == [schema EXCEPT !.dedup = TRUE]
FilterIndexUp     == [schema EXCEPT !.filter = "new"]
UpScript(v) == CASE v = 1 -> InitUp [] v = 2 -> IngestHardeningUp [] v = 3 -> FilterIndexUp

DownFails(v) == v = 3 /\ ~schema.tables
InitDown            == [tables |-> FALSE, dedup |-> FALSE, filter |-> "none"]
IngestHardeningDown == [schema EXCEPT !.dedup = FALSE]
FilterIndexDown     == [schema EXCEPT !.filter = "old"]
DownScript(v) == CASE v = 1 -> InitDown [] v = 2 -> IngestHardeningDown [] v = 3 -> FilterIndexDown

\* What the first k versions make of an empty database.
SchemaAt(k) ==
    [tables |-> k >= 1, dedup |-> k >= 2,
     filter |-> IF k = 0 THEN "none" ELSE IF k < 3 THEN "old" ELSE "new"]

\* The database is new or up to date.
MigrationsInit ==
    /\ \E k \in {0, 3} : recorded = 1..k /\ schema = SchemaAt(k)
    /\ mpc = [m \in Migrators |-> "absent"]
    /\ goal = [m \in Migrators |-> AllUp]
    /\ todo = [m \in Migrators |-> {}]
    /\ overlapped = FALSE

Running(m) == mpc[m] \in {"reading", "next", "locking"}
GoesDown(m) == goal[m] # AllUp

Start(m, g) ==
    /\ mpc[m] = "absent"
    /\ mpc' = [mpc EXCEPT ![m] = "reading"] /\ goal' = [goal EXCEPT ![m] = g]
    /\ overlapped' = (overlapped \/ \E o \in Migrators \ {m} : Running(o) /\ (g # AllUp \/ GoesDown(o)))
    /\ UNCHANGED <<recorded, schema, todo>>

\* Applied().  The versions to be skipped are known from here on.
ReadApplied(m) ==
    /\ mpc[m] = "reading"
    /\ todo' = [todo EXCEPT ![m] = IF GoesDown(m) THEN recorded ELSE Versions \ recorded]
    /\ mpc' = [mpc EXCEPT ![m] = "next"]
    /\ UNCHANGED <<recorded, schema, goal, overlapped>>

\* The version a migrator comes to next: upwards, or downwards.
Version(m) ==
    CHOOSE v \in todo[m] : \A w \in todo[m] : IF GoesDown(m) THEN w <= v ELSE v <= w

AtEnd(m) == todo[m] = {} \/ goal[m] = 0

\* The transaction begins, and its script asks for its locks.
Begin(m) ==
    /\ mpc[m] = "next" /\ ~AtEnd(m)
    /\ mpc' = [mpc EXCEPT ![m] = "locking"]
    /\ UNCHANGED <<recorded, schema, goal, todo, overlapped>>

Pass(m) ==
    /\ mpc' = [mpc EXCEPT ![m] = "next"]
    /\ todo' = [todo EXCEPT ![m] = @ \ {Version(m)}]

\* Mutant: the version is recorded after the script has been committed, which
\* the process may not live to do.
ApplyUpThenRecord(m) ==
    /\ mpc[m] = "locking" /\ ~GoesDown(m)
    /\ ~UpFails(Version(m)) /\ Version(m) \notin recorded
    /\ schema' = UpScript(Version(m))
    /\ \/ recorded' = recorded \cup {Version(m)} /\ Pass(m)
       \/ mpc' = [mpc EXCEPT ![m] = "failed"] /\ UNCHANGED <<recorded, todo>>
    /\ UNCHANGED <<goal, overlapped>>

\* Up(): script and record, committed together.  The primary key refuses a
\* version that another migrator has recorded in the meantime.
ApplyUp(m) ==
    /\ mpc[m] = "locking" /\ ~GoesDown(m)
    /\ ~UpFails(Version(m)) /\ Version(m) \notin recorded
    /\ schema' = UpScript(Version(m)) /\ recorded' = recorded \cup {Version(m)}
    /\ Pass(m)
    /\ UNCHANGED <<goal, overlapped>>

\* Down().
ApplyDown(m) ==
    /\ mpc[m] = "locking" /\ GoesDown(m)
    /\ ~DownFails(Version(m))
    /\ schema' = DownScript(Version(m)) /\ recorded' = recorded \ {Version(m)}
    /\ goal' = [goal EXCEPT ![m] = @ - 1]
    /\ Pass(m)
    /\ UNCHANGED overlapped

\* The process ends, and forgets.
End(m, how) ==
    /\ mpc' = [mpc EXCEPT ![m] = how]
    /\ goal' = [goal EXCEPT ![m] = AllUp]
    /\ todo' = [todo EXCEPT ![m] = {}]
    /\ UNCHANGED <<recorded, schema, overlapped>>

\* A script fails, the version is recorded already, the database is lost, the
\* 60 seconds are over or the process is killed: what was begun is rolled back.
Fail(m) ==
    /\ Running(m)
    /\ End(m, "failed")

Complete(m) ==
    /\ mpc[m] = "next" /\ AtEnd(m)
    /\ End(m, "ok")

=============================================================================
