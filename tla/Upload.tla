------------------------------- MODULE Upload -------------------------------
(***************************************************************************)
(* The engine's upload (post_envelope in engine/src/main.cpp and post_json *)
(* in engine/src/http.cpp) composed with the API's Ingest.  A run is sent  *)
(* chunk by chunk; each chunk is tried on every address the host resolves  *)
(* to until one attempt brings an answer.  An attempt whose answer is lost *)
(* or late is abandoned while the server may still be working on it, so    *)
(* the same chunk may be processed several times, late and out of order.   *)
(* A user may post a run again after any outcome.                          *)
(***************************************************************************)
EXTENDS Ingest

CONSTANTS Addresses,   \* per run, how many addresses its host resolves to
          MaxPosts     \* bound: how often each run is posted

ASSUME ClientAssumption ==
    /\ Addresses \in [Runs -> Nat \ {0}] /\ MaxPosts \in [Runs -> Nat \ {0}]
    /\ \A rn \in Runs : Chunks[rn] # <<>>

VARIABLES
    cpc,     \* per run, where its client is
    posts,   \* how often it has been started
    part,    \* the chunk in hand (c + 1)
    addr,    \* the address being tried
    cur,     \* the request whose answer is awaited
    rc       \* the exit code so far

client == <<cpc, posts, part, addr, cur, rc>>
allVars == <<vars, client>>

UploadInit ==
    /\ Init
    /\ cpc = [rn \in Runs |-> "idle"]
    /\ posts = [rn \in Runs |-> 0]
    /\ part = [rn \in Runs |-> 1]
    /\ addr = [rn \in Runs |-> 1]
    /\ cur = [rn \in Runs |-> Nobody]
    /\ rc = [rn \in Runs |-> 0]

\* bench ... --post, or the same file posted again.
StartPost(rn) ==
    /\ cpc[rn] \in {"idle", "ended"} /\ posts[rn] < MaxPosts[rn]
    /\ cpc' = [cpc EXCEPT ![rn] = "send"]
    /\ posts' = [posts EXCEPT ![rn] = @ + 1]
    /\ part' = [part EXCEPT ![rn] = 1]
    /\ addr' = [addr EXCEPT ![rn] = 1]
    /\ rc' = [rc EXCEPT ![rn] = 0]
    /\ UNCHANGED <<cur, vars>>

\* parse_url() refuses the URL: nothing is sent.
RefuseUrl(rn) ==
    /\ cpc[rn] \in {"idle", "ended"} /\ posts[rn] < MaxPosts[rn]
    /\ cpc' = [cpc EXCEPT ![rn] = "ended"]
    /\ posts' = [posts EXCEPT ![rn] = @ + 1]
    /\ rc' = [rc EXCEPT ![rn] = 1]
    /\ UNCHANGED <<part, addr, cur, vars>>

\* getaddrinfo() fails: no address to try, and no further chunk either.
ResolveFails(rn) ==
    /\ cpc[rn] = "send" /\ addr[rn] = 1
    /\ cpc' = [cpc EXCEPT ![rn] = "ended"]
    /\ rc' = [rc EXCEPT ![rn] = 1]
    /\ UNCHANGED <<posts, part, addr, cur, vars>>

\* post_json connects and sends the whole request.
SendRequest(rn) ==
    /\ cpc[rn] = "send"
    /\ \E r \in Requests : pc[r] = "absent"
    /\ LET r == CHOOSE x \in Requests : pc[x] = "absent"
       IN  Arrive(r, rn, part[rn]) /\ cur' = [cur EXCEPT ![rn] = r]
    /\ cpc' = [cpc EXCEPT ![rn] = "wait"]
    /\ UNCHANGED <<posts, part, addr, rc>>

\* Mutant: after the last address the first one is tried again.
NextAddressForever(rn) ==
    /\ addr' = [addr EXCEPT ![rn] = IF @ < Addresses[rn] THEN @ + 1 ELSE 1]
    /\ cpc' = [cpc EXCEPT ![rn] = "send"]
    /\ rc' = rc

\* The next address, or the transport error that ends the whole upload.
NextAddress(rn) ==
    IF addr[rn] < Addresses[rn]
    THEN /\ addr' = [addr EXCEPT ![rn] = @ + 1]
         /\ cpc' = [cpc EXCEPT ![rn] = "send"]
         /\ rc' = rc
    ELSE /\ rc' = [rc EXCEPT ![rn] = 1]
         /\ cpc' = [cpc EXCEPT ![rn] = "ended"]
         /\ addr' = addr

\* No connection, or the request could not be sent in full.
ConnectFails(rn) ==
    /\ cpc[rn] = "send"
    /\ NextAddress(rn)
    /\ UNCHANGED <<posts, part, cur, vars>>

\* recv_all times out, the connection breaks, the response is empty or
\* malformed.  The server does not learn of it before it next looks.
LoseAnswer(rn) ==
    /\ cpc[rn] = "wait"
    /\ NextAddress(rn)
    /\ UNCHANGED <<posts, part, cur, vars>>

\* Mutant: the status is not looked at.
AnswerIgnoringStatus(rn) ==
    /\ cpc[rn] = "wait" /\ pc[cur[rn]] = "answered"
    /\ IF part[rn] < Len(Chunks[rn])
       THEN /\ cpc' = [cpc EXCEPT ![rn] = "send"]
            /\ part' = [part EXCEPT ![rn] = @ + 1] /\ addr' = [addr EXCEPT ![rn] = 1]
       ELSE cpc' = [cpc EXCEPT ![rn] = "ended"] /\ UNCHANGED <<part, addr>>
    /\ UNCHANGED <<posts, rc, cur, vars>>

\* An answer: a status other than 2xx spoils the exit code, and either way the
\* next chunk follows.
ReceiveAnswer(rn) ==
    /\ cpc[rn] = "wait" /\ pc[cur[rn]] = "answered"
    /\ rc' = [rc EXCEPT ![rn] = IF reply[cur[rn]] = "stored" THEN @ ELSE 1]
    /\ IF part[rn] < Len(Chunks[rn])
       THEN /\ cpc' = [cpc EXCEPT ![rn] = "send"]
            /\ part' = [part EXCEPT ![rn] = @ + 1] /\ addr' = [addr EXCEPT ![rn] = 1]
       ELSE cpc' = [cpc EXCEPT ![rn] = "ended"] /\ UNCHANGED <<part, addr>>
    /\ UNCHANGED <<posts, cur, vars>>

ClientStep(rn) ==
    \/ ResolveFails(rn) \/ SendRequest(rn) \/ ConnectFails(rn)
    \/ LoseAnswer(rn) \/ ReceiveAnswer(rn)

ServerStep ==
    /\ \E r \in Requests : Serve(r) \/ CommitUnreported(r) \/ Fail(r)
    /\ UNCHANGED client

UploadNext ==
    \/ ServerStep
    \/ \E rn \in Runs : StartPost(rn) \/ RefuseUrl(rn) \/ ClientStep(rn)

\* The client's polls have timeouts, so it always goes on; the server as in
\* Ingest.
UploadSpec ==
    /\ UploadInit /\ [][UploadNext]_allVars
    /\ \A rn \in Runs : WF_allVars(ClientStep(rn))
    /\ \A r \in Requests : SF_allVars(Serve(r) /\ UNCHANGED client)

-----------------------------------------------------------------------------

AllOf(rn) == UNION ChunkRows(rn)

\* Exit code 0 means that the whole run is stored, whatever was lost, retried
\* or answered late in between, also by an earlier post of the same run.
ExitZeroMeansStored ==
    \A rn \in Runs : (cpc[rn] = "ended" /\ rc[rn] = 0) => AllOf(rn) \subseteq rows

\* "a chunk that is sent twice adds nothing, and a run that is half uploaded
\* can be completed by posting it again": under retries and repeated posts the
\* store still changes only by whole chunks, and never shrinks.
UploadImplementsRunStore == Abstract!Spec

\* Every upload ends, with whatever exit code.
UploadEnds == \A rn \in Runs : (cpc[rn] = "send") ~> (cpc[rn] = "ended")

-----------------------------------------------------------------------------
(* Why exit code 0 can be trusted: proved in UploadProofs. *)

\* The rows of the first n chunks of a run are stored.
StoredUpTo(rn, n) ==
    \A c \in DOMAIN Chunks[rn] : c <= n =>
        \A i \in DOMAIN Chunks[rn][c] : <<rn, Chunks[rn][c][i]>> \in rows

ClientType ==
    /\ cpc \in [Runs -> {"idle", "send", "wait", "ended"}]
    /\ part \in [Runs -> Nat \ {0}]
    /\ cur \in [Runs -> Requests \cup {Nobody}]
    /\ rc \in [Runs -> 0..1]

\* While the exit code is still 0, every chunk before the one in hand is stored,
\* and a client that waits, waits for the request that carries its chunk.
ClientInv(rn) ==
    /\ part[rn] \in DOMAIN Chunks[rn]
    /\ rc[rn] = 0 => StoredUpTo(rn, part[rn] - 1)
    /\ (rc[rn] = 0 /\ cpc[rn] = "ended") => StoredUpTo(rn, Len(Chunks[rn]))
    /\ cpc[rn] = "wait" =>
         /\ cur[rn] \in Requests /\ pc[cur[rn]] # "absent"
         /\ run[cur[rn]] = rn /\ chunk[cur[rn]] = Chunks[rn][part[rn]]

UploadInv == IInv /\ ClientType /\ \A rn \in Runs : ClientInv(rn)

=============================================================================
