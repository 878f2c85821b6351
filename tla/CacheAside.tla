----------------------------- MODULE CacheAside -----------------------------
(***************************************************************************)
(* The Redis cache-aside layer of the API: Fetch, InvalidateMachine and    *)
(* the circuit breaker of api/internal/cache/cache.go, under concurrent    *)
(* request handlers (analytics.go, handleIngestRun).                       *)
(*                                                                         *)
(* The data of a machine is the number of ingests committed for it; an     *)
(* answer is the versions of the machines it was computed from.  A query   *)
(* is its endpoint and the machines of its URL in their order, for a       *)
(* parameter may be repeated; the other parameters are part of the         *)
(* endpoint.  Redis is the cached answers, the key sets and their          *)
(* remaining lifetimes.  Time is counted down in ticks, so there is no     *)
(* bound on how long it runs.                                              *)
(***************************************************************************)
EXTENDS Integers, Sequences, FiniteSets

CONSTANTS Handlers,     \* concurrent request goroutines
          Queries,      \* the queries that are asked
          Machines,     \* machine ids
          TTL,          \* c.ttl
          IndexTTL,     \* c.ttl*10, the lifetime of a key set
          Cooldown,     \* circuitCooldown
          Threshold,    \* circuitThreshold
          Faults,       \* Redis, Postgres or a client may fail
          MaxVersion    \* bound: ingests per machine

Endpoints == {"aggregates", "trials", "compare"}

ASSUME QueriesAssumption ==
    Queries \subseteq [endpoint : Endpoints, machines : Seq(Machines) \ {<<>>}]
ASSUME LifetimesAssumption ==
    /\ TTL \in Nat \ {0} /\ IndexTTL \in Nat /\ IndexTTL > TTL
    /\ Cooldown \in Nat \ {0} /\ Threshold \in Nat \ {0}
    /\ MaxVersion \in Nat /\ Faults \in BOOLEAN

VARIABLES
    version,       \* per machine, the committed ingests (Postgres)
    cached, life,  \* per cache key, the answer and its remaining lifetime
    index, indexLife,   \* keys:machine:<m> and its remaining lifetime
    consecutive, cool,  \* the breaker: failures in a row, time until openUntil
    hpc,           \* where each handler is
    query, machine,  \* what it was asked for
    val,           \* the answer it has loaded
    todel          \* the members InvalidateMachine has read

redis     == <<cached, life, index, indexLife>>
breaker   == <<consecutive, cool>>
request   == <<query, machine, val, todel>>
cacheVars == <<version, redis, breaker, hpc, request>>

None == "none"
NoQuery == [endpoint |-> None, machines |-> <<>>]
NoAnswer == [m \in Machines |-> -1]

\* The machines that the handlers pass to Fetch: aggregates and trials take the
\* first machine_id (q.Get), compare all that are listed.
DependsOn(q) ==
    IF q.endpoint = "compare" THEN {q.machines[i] : i \in DOMAIN q.machines}
                              ELSE {q.machines[1]}

\* cacheKey: the values of a parameter are sorted, after which only how often
\* each one occurs can be told.  compare appends the machines as they are listed.
CacheKey(q) ==
    <<q.endpoint,
      IF q.endpoint = "compare" THEN q.machines
      ELSE [m \in Machines |-> Cardinality({i \in DOMAIN q.machines : q.machines[i] = m})]>>

Keys == {CacheKey(q) : q \in Queries}

CacheInit ==
    /\ version = [m \in Machines |-> 0]
    /\ cached = [k \in Keys |-> NoAnswer] /\ life = [k \in Keys |-> 0]
    /\ index = [m \in Machines |-> {}] /\ indexLife = [m \in Machines |-> 0]
    /\ consecutive = 0 /\ cool = 0
    /\ hpc = [h \in Handlers |-> "idle"]
    /\ query = [h \in Handlers |-> NoQuery] /\ machine = [h \in Handlers |-> None]
    /\ val = [h \in Handlers |-> NoAnswer]
    /\ todel = [h \in Handlers |-> {}]

Goto(h, to) == hpc' = [hpc EXCEPT ![h] = to]
Continue(h, to) == Goto(h, to) /\ UNCHANGED request

\* The handler returns: its locals are gone.
Return(h) ==
    /\ Goto(h, "idle")
    /\ query' = [query EXCEPT ![h] = NoQuery] /\ machine' = [machine EXCEPT ![h] = None]
    /\ val' = [val EXCEPT ![h] = NoAnswer] /\ todel' = [todel EXCEPT ![h] = {}]

\* load(): one statement, over the rows of the query's machines as they are
\* committed now.  -1 where the answer is not about a machine.
Answer(q) == [m \in Machines |-> IF m \in DependsOn(q) THEN version[m] ELSE -1]

-----------------------------------------------------------------------------
(* The breaker *)

Up == cool = 0

\* ok(): only the count of consecutive failures is reset.
Ok ==
    /\ consecutive' = 0
    /\ cool' = cool

\* note(): trips after Threshold failures in a row.
Note ==
    /\ IF consecutive + 1 >= Threshold
       THEN consecutive' = 0 /\ cool' = Cooldown
       ELSE consecutive' = consecutive + 1 /\ cool' = cool

-----------------------------------------------------------------------------
(* Fetch *)

\* !c.up() skips Redis altogether.
Fetch(h) == Goto(h, IF Up THEN "get" ELSE "direct")

\* handleAggregates, handleCompare, handleTrials.  A query that is refused
\* changes nothing and is no step.
HandleRead(h, q) ==
    /\ hpc[h] = "idle"
    /\ query' = [query EXCEPT ![h] = q]
    /\ Fetch(h)
    /\ UNCHANGED <<version, redis, breaker, machine, val, todel>>

\* GET: a hit is the answer; a miss goes on to Postgres.
Get(h) ==
    /\ hpc[h] = "get"
    /\ Ok
    /\ IF cached[CacheKey(query[h])] = NoAnswer THEN Continue(h, "load") ELSE Return(h)
    /\ UNCHANGED <<version, redis>>

\* Mutant: asks again until Redis answers.
GetRetried(h) ==
    /\ hpc[h] = "get" /\ Faults
    /\ Note
    /\ Continue(h, "get")
    /\ UNCHANGED <<version, redis>>

\* GET fails: noted, and on to Postgres all the same.
GetFails(h) ==
    /\ hpc[h] = "get" /\ Faults
    /\ Note
    /\ Continue(h, "load")
    /\ UNCHANGED <<version, redis>>

\* load(): the query, with or without a cache to put its answer in.
Load(h) ==
    /\ hpc[h] \in {"load", "direct"}
    /\ IF hpc[h] = "load"
       THEN /\ val' = [val EXCEPT ![h] = Answer(query[h])]
            /\ Goto(h, "store")
            /\ UNCHANGED <<query, machine, todel>>
       ELSE Return(h)
    /\ UNCHANGED <<version, redis, breaker>>

\* The query fails: the request is answered with an error, nothing is cached.
LoadFails(h) ==
    /\ hpc[h] \in {"load", "direct"} /\ Faults
    /\ Return(h)
    /\ UNCHANGED <<version, redis, breaker>>

\* Mutant: SET without a lifetime.
RegisterForever(h) ==
    LET k == CacheKey(query[h])
        D == DependsOn(query[h])
    IN  /\ cached' = [cached EXCEPT ![k] = val[h]]
        /\ index' = [m \in Machines |-> IF m \in D THEN index[m] \cup {k} ELSE index[m]]
        /\ indexLife' = [m \in Machines |-> IF m \in D THEN IndexTTL ELSE indexLife[m]]
        /\ UNCHANGED life

\* The transaction of SET, SADD and EXPIRE, applied by Redis as a whole.
Register(h) ==
    LET k == CacheKey(query[h])
        D == DependsOn(query[h])
    IN  /\ cached' = [cached EXCEPT ![k] = val[h]]
        /\ life' = [life EXCEPT ![k] = TTL]
        /\ index' = [m \in Machines |-> IF m \in D THEN index[m] \cup {k} ELSE index[m]]
        /\ indexLife' = [m \in Machines |-> IF m \in D THEN IndexTTL ELSE indexLife[m]]

Store(h) ==
    /\ hpc[h] = "store"
    /\ Register(h) /\ Ok
    /\ Return(h)
    /\ UNCHANGED version

\* pipe.Exec reports an error; Redis may have applied the transaction anyway.
StoreFails(h) ==
    /\ hpc[h] = "store" /\ Faults
    /\ Register(h) \/ UNCHANGED redis
    /\ Note
    /\ Return(h)
    /\ UNCHANGED version

-----------------------------------------------------------------------------
(* handleIngestRun and InvalidateMachine *)

\* The transaction of an ingest commits; the invalidation comes after it.
CommitIngest(h, m) ==
    /\ hpc[h] = "idle" /\ version[m] < MaxVersion
    /\ version' = [version EXCEPT ![m] = @ + 1]
    /\ machine' = [machine EXCEPT ![h] = m]
    /\ Goto(h, "invalidate")
    /\ UNCHANGED <<redis, breaker, query, val, todel>>

\* The commit takes effect but is reported as failed, or the process ends: the
\* handler returns before it invalidates.
CommitUnreported(m) ==
    /\ Faults /\ version[m] < MaxVersion
    /\ version' = [version EXCEPT ![m] = @ + 1]
    /\ UNCHANGED <<redis, breaker, hpc, request>>

\* InvalidateMachine returns at once when the circuit is open.
InvalidateMachine(h) ==
    /\ hpc[h] = "invalidate"
    /\ IF Up THEN Continue(h, "smembers") ELSE Return(h)
    /\ UNCHANGED <<version, redis, breaker>>

\* SMEMBERS: the keys to delete.  An empty set ends it, without ok().
SMembers(h) ==
    /\ hpc[h] = "smembers"
    /\ IF index[machine[h]] = {} THEN Return(h)
       ELSE /\ todel' = [todel EXCEPT ![h] = index[machine[h]]]
            /\ Goto(h, "del")
            /\ UNCHANGED <<query, machine, val>>
    /\ UNCHANGED <<version, redis, breaker>>

SMembersFails(h) ==
    /\ hpc[h] = "smembers" /\ Faults
    /\ Note
    /\ Return(h)
    /\ UNCHANGED <<version, redis>>

\* The transaction of DEL keys... and DEL set.
Evict(h) ==
    /\ cached' = [k \in Keys |-> IF k \in todel[h] THEN NoAnswer ELSE cached[k]]
    /\ life' = [k \in Keys |-> IF k \in todel[h] THEN 0 ELSE life[k]]
    /\ index' = [index EXCEPT ![machine[h]] = {}]
    /\ indexLife' = [indexLife EXCEPT ![machine[h]] = 0]

Del(h) ==
    /\ hpc[h] = "del"
    /\ Evict(h) /\ Ok
    /\ Return(h)
    /\ UNCHANGED version

DelFails(h) ==
    /\ hpc[h] = "del" /\ Faults
    /\ Evict(h) \/ UNCHANGED redis
    /\ Note
    /\ Return(h)
    /\ UNCHANGED version

-----------------------------------------------------------------------------

\* Time passes: lifetimes run out in Redis, and the cooldown in the API.
Tick ==
    /\ cool > 0 \/ (\E k \in Keys : life[k] > 0) \/ (\E m \in Machines : indexLife[m] > 0)
    /\ cool' = IF cool > 0 THEN cool - 1 ELSE cool
    /\ life' = [k \in Keys |-> IF life[k] > 0 THEN life[k] - 1 ELSE life[k]]
    /\ cached' = [k \in Keys |-> IF life[k] = 1 THEN NoAnswer ELSE cached[k]]
    /\ indexLife' = [m \in Machines |->
         IF indexLife[m] > 0 THEN indexLife[m] - 1 ELSE 0]
    /\ index' = [m \in Machines |-> IF indexLife[m] = 1 THEN {} ELSE index[m]]
    /\ UNCHANGED <<version, consecutive, hpc, request>>

\* A request that has begun goes on by itself: every call has a timeout.
Proceed(h) ==
    \/ Get(h) \/ GetFails(h) \/ Load(h) \/ LoadFails(h) \/ Store(h) \/ StoreFails(h)
    \/ InvalidateMachine(h) \/ SMembers(h) \/ SMembersFails(h) \/ Del(h) \/ DelFails(h)

CacheNext ==
    \/ Tick
    \/ \E m \in Machines : CommitUnreported(m)
    \/ \E h \in Handlers :
         \/ Proceed(h)
         \/ \E q \in Queries : HandleRead(h, q)
         \/ \E m \in Machines : CommitIngest(h, m)

\* Handlers run and clocks advance.
CacheSpec ==
    /\ CacheInit /\ [][CacheNext]_cacheVars
    /\ WF_cacheVars(Tick)
    /\ \A h \in Handlers : WF_cacheVars(Proceed(h))

-----------------------------------------------------------------------------
(* Properties *)

\* The machines an answer is about.
About(a) == {m \in Machines : a[m] # -1}

Stale(k) == \E m \in About(cached[k]) : cached[k][m] # version[m]

\* "Two requests that mean the same thing must produce the same key, and two
\* that do not must not": what a GET finds was computed for the machines that
\* the handler would have asked Postgres about.
AnswersOwnQuery ==
    \A h \in Handlers : hpc[h] = "get" =>
        cached[CacheKey(query[h])] = NoAnswer
        \/ About(cached[CacheKey(query[h])]) = DependsOn(query[h])

\* "The API must work with Redis down": a request is answered however many
\* Redis operations fail.
EveryRequestAnswered == \A h \in Handlers : (hpc[h] # "idle") ~> (hpc[h] = "idle")

\* Staleness heals: once ingests cease, every stale answer goes away, also
\* those that no invalidation found or reached.
StalenessHeals == <>[](\A k \in Keys : ~Stale(k))

\* "A cached answer must be invalidated by the thing that makes it wrong, which
\* is an ingest for the machine it describes": when no request is being
\* handled, no cached answer is stale.
CoherentAtRest ==
    (\A h \in Handlers : hpc[h] = "idle") => \A k \in Keys : ~Stale(k)

-----------------------------------------------------------------------------
(* Invariants that the theorems of ReadsProofs rest on.                     *)

CacheType ==
    /\ hpc \in [Handlers -> {"idle", "get", "load", "direct", "store",
                             "invalidate", "smembers", "del"}]
    /\ query \in [Handlers -> Queries \cup {NoQuery}]
    /\ machine \in [Handlers -> Machines \cup {None}]
    /\ index \in [Machines -> SUBSET Keys]
    /\ todel \in [Handlers -> SUBSET Keys]

\* Who reads has a query, who invalidates a machine.
CacheInv ==
    /\ CacheType
    /\ \A h \in Handlers :
          /\ hpc[h] \in {"get", "load", "store"} => query[h] \in Queries
          /\ hpc[h] \in {"invalidate", "smembers", "del"} => machine[h] \in Machines

\* What is cached under a key was computed for a query with that key, and what a
\* handler is about to store for its own.
OriginInv ==
    /\ \A k \in Keys : cached[k] = NoAnswer
                       \/ \E q \in Queries : CacheKey(q) = k /\ About(cached[k]) = DependsOn(q)
    /\ \A h \in Handlers : hpc[h] = "store" => About(val[h]) = DependsOn(query[h])

=============================================================================
