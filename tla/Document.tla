------------------------------ MODULE Document ------------------------------
(***************************************************************************)
(* The run document on its way from the engine to the store: Command makes *)
(* and sends it, Envelope decodes it.  The two share nothing but the bytes *)
(* in between, and each has its own idea of what a valid document is.      *)
(* Documents of other clients (the seeder's format, other tools) are       *)
(* decoded as well, with members in any order, missing or malformed.       *)
(***************************************************************************)
EXTENDS Command, Envelope

CONSTANT ForeignDocuments   \* documents other clients may send

ASSUME DocumentsAssumption == \A d \in ForeignDocuments : WellFormed(d)

vars == <<engine, decoder>>

\* nlohmann::json keeps the members of an object sorted by their keys.
SortedKeys == <<"argv", "finished_at", "machine", "results", "run_id",
                "schema_version", "started_at", "summary">>

\* Later chunks lack the summary, which is the last of them.
SentKeys(j) == IF "summary" \in DOMAIN j THEN SortedKeys ELSE Front(SortedKeys)

Members(j, keys) ==
    [k \in DOMAIN keys |-> [key |-> keys[k], ok |-> TRUE, val |-> j[keys[k]]]]

\* No engine, but another client with a document of its own.
ForeignInit ==
    /\ cmd = "foreign" /\ opts = <<>>
    /\ specs = <<>> /\ run = <<>> /\ file = "none" /\ sent = 0
    /\ rc = 0 /\ exit = -1 /\ checked = [validate |-> -1, report |-> -1]

Init == DecoderInit /\ (CommandInit \/ ForeignInit)

ForeignPost(d) ==
    /\ cmd = "foreign" /\ phase = "idle"
    /\ Receive(d)
    /\ UNCHANGED engine

Post == Send /\ Receive(Members(Part(sent), SentKeys(Part(sent))))

\* The answer reaches the engine, or is lost or late.
Reply == phase \in {"answered", "broken"} /\ Answered(reply) /\ UNCHANGED decoder
Lose == TransportFails /\ UNCHANGED decoder

Alone ==
    /\ \/ UsageError \/ RunBenchmarks \/ RunThrows \/ Write \/ CannotWrite \/ SkipWrite
       \/ BadUrl \/ Validate \/ Report
    /\ UNCHANGED decoder

Next ==
    \/ Alone \/ Post \/ Reply \/ Lose
    \/ \E d \in ForeignDocuments : ForeignPost(d)
    \/ Decode /\ UNCHANGED engine

Spec == Init /\ [][Next]_vars

-----------------------------------------------------------------------------
(* Properties. *)

\* The results of a document as a decoder that read it whole would see them.
ResultsMembers == {k \in DOMAIN doc : doc[k].key = "results" /\ doc[k].ok}
DocumentRows ==
    IF ResultsMembers = {} THEN <<>>
    ELSE LET list == doc[CHOOSE k \in ResultsMembers : TRUE].val
         IN  [k \in DOMAIN list |-> Decoded(list[k], ResultTexts, ResultNumbers)]
ValueAt(key, none) ==
    LET at_key == {k \in DOMAIN doc : doc[k].key = key}
    IN  IF at_key = {} THEN none ELSE doc[CHOOSE k \in at_key : TRUE].val

\* Whatever the order of the members, the store is handed the results in the
\* order of the document, none twice and none left out: all of them when the
\* answer is 200, whether they were streamed or kept until the header was
\* complete.
HandedInOrder ==
    /\ IsPrefix(handed, DocumentRows)
    /\ reply = 200 => handed = DocumentRows

\* Decoding in a stream accepts no document that reading it whole and checking
\* it would refuse: 200 means that every member is known and well formed, that
\* there are between 1 and MaxResults results and each of them is valid, and
\* that the header is.
OkMeansValid ==
    reply = 200 =>
        /\ \A k \in DOMAIN doc :
              doc[k].ok /\ doc[k].key \in DOMAIN NoHeader \cup {"results"}
        /\ Len(DocumentRows) \in 1..MaxResults
        /\ \A k \in DOMAIN DocumentRows : ValidResult(DocumentRows[k])
        /\ ValueAt("schema_version", 0) = 1 /\ ValueAt("run_id", "") = "uuid"
        /\ ValueAt("started_at", 0) \in 1..ValueAt("finished_at", 0)
        /\ ValidMachine(Decoded(ValueAt("machine", <<>>), MachineTexts, MachineNumbers))

\* The API's enums, struct fields and rules agree with what the engine writes:
\* it refuses a chunk of a run only if the run was stopped before its first
\* trial, the clock was set back under it, the system has an empty name or no
\* processor, or the user asked for more results per POST than the API takes.
EngineRunsAccepted ==
    cmd = "waiting" /\ phase = "answered" /\ reply \in {400, 413} =>
        \/ run.results = <<>>
        \/ run.finished_at < run.started_at
        \/ run.machine.os = "" \/ run.machine.logical_cpus = 0
        \/ reply = 413 /\ Len(DocumentRows) > MaxResults

\* `bench run` never emits what `bench validate` would reject: no run ends with
\* the exit code of its internal validation, and a file that was written whole
\* validates, and reports unless no trial was made.
SelfValidation ==
    /\ exit # 2
    /\ file = "whole" =>
          /\ checked.validate \in {-1, 0}
          /\ checked.report = 1 => run.results = <<>>
          /\ checked.report # 2

\* The key of a row in the store.
KeyOf(r) == <<r.metric, r.thread_count, r.working_set_bytes, r.trial>>

SettingsDistinct ==
    \A a, b \in DOMAIN specs : a # b =>
        <<specs[a].metrics[1], specs[a].threads, specs[a].ws>>
            # <<specs[b].metrics[1], specs[b].threads, specs[b].ws>>

\* If no setting is repeated once the working sets are rounded, no two rows of
\* a run have the key the store takes for one measurement, also where a metric
\* brings a rider along.
NoRowShadowed ==
    SettingsDistinct /\ run # <<>> =>
        Cardinality({KeyOf(run.results[k]) : k \in DOMAIN run.results}) = Len(run.results)

-----------------------------------------------------------------------------
(* The inductive invariant of the decoder: the members before `at` are good  *)
(* and in env, and the results read so far are all handed or all kept.       *)

FirstRows(n) == [k \in 1..n |-> DocumentRows[k]]
RowsValid(n) == n <= MaxResults /\ \A k \in 1..n : ValidResult(DocumentRows[k])
HasRead(f) == \E k \in DOMAIN doc : k < at /\ doc[k].key = f

DecoderTypeOK ==
    /\ WellFormed(doc)
    /\ phase \in {"idle", "members", "results", "replay", "answered", "broken"}
    /\ at \in 1..(Len(doc) + 1) /\ i \in Nat /\ count \in Nat
    /\ reply \in {0, 200, 400, 413, 500}
    /\ DOMAIN env = DOMAIN NoHeader

HeaderInv ==
    /\ \A k \in DOMAIN doc : k < at =>
          \/ doc[k].key = "results" /\ doc[k].ok
          \/ DecodesField(doc[k]) /\ env[doc[k].key] = FieldValue(doc[k])
    /\ \A f \in DOMAIN NoHeader : ~HasRead(f) => env[f] = NoHeader[f]

\* All results are read and were good.
AllRead == count = Len(DocumentRows) /\ RowsValid(count)

MembersInv ==
    phase = "members" =>
        IF HasRead("results")
        THEN AllRead /\ \/ handed = <<>> /\ buffered = DocumentRows
                        \/ handed = DocumentRows /\ buffered = <<>>
        ELSE count = 0 /\ handed = <<>> /\ buffered = <<>>

ResultsInv ==
    phase = "results" =>
        /\ at <= Len(doc) /\ doc[at].key = "results" /\ doc[at].ok
        /\ i <= Len(DocumentRows) /\ RowsValid(i) /\ buffered = <<>>
        /\ IF HeaderDone THEN taken = <<>> /\ handed = FirstRows(i)
                         ELSE taken = FirstRows(i) /\ handed = <<>>

ReplayInv ==
    phase = "replay" =>
        /\ at = Len(doc) + 1 /\ AllRead
        /\ \/ buffered = DocumentRows /\ i <= count /\ handed = FirstRows(i)
           \/ buffered = <<>> /\ i = 0 /\ handed = DocumentRows

AnswerInv ==
    /\ \E n \in 0..Len(DocumentRows) : handed = FirstRows(n)
    /\ reply = 200 =>
          phase = "answered" /\ at = Len(doc) + 1 /\ AllRead /\ HeaderValid(env, count)
          /\ handed = DocumentRows

DecoderInv ==
    DecoderTypeOK /\ HeaderInv /\ MembersInv /\ ResultsInv /\ ReplayInv /\ AnswerInv

=============================================================================
