--------------------------- MODULE ServiceProofs ---------------------------
(***************************************************************************)
(* The API process and the migrators, for any number of requests,          *)
(* connections and migrators: an answer is encoded as it is labelled, a    *)
(* drain that is not cut short loses nothing, and the schema is what the   *)
(* recorded versions say.                                                  *)
(***************************************************************************)
EXTENDS Service, TLAPS

\* The end of the process cuts off those that are active, and answers nobody.
LEMMA ExitCuts ==
    ASSUME AnswerInv, NEW code, Exit(code)
    PROVE  AnswerInv'
<1>1. at' \in [Requests -> Places]
  BY DEF Exit, AnswerInv, Places
<1>2. \A r \in Requests : at'[r] = at[r] \/ at'[r] = "cut"
  BY DEF Exit
<1> QED BY <1>1, <1>2 DEF Exit, AnswerInv, ResponseWellFormed, answer

\* main() leaves the answers alone, but for cutting them off.
LEMMA MainAnswers ==
    ASSUME AnswerInv, Main
    PROVE  AnswerInv'
<1>1. CASE \E code \in {0, 1, 137} : Exit(code)
  BY <1>1, ExitCuts
<1>2. CASE UNCHANGED requests
  BY <1>2 DEF requests, answer, AnswerInv, ResponseWellFormed
<1>3. (\E code \in {0, 1, 137} : Exit(code)) \/ UNCHANGED requests
  BY DEF Main, OpenStore, StartFails, Serve, Listen, ListenFails, ListenReturns, Signal, Kill,
         Shutdown, Drain, CloseStore
<1> QED BY <1>1, <1>2, <1>3

\* A request's steps write what they announce.
LEMMA RequestAnswers ==
    ASSUME AnswerInv, NEW r \in Requests,
           (\E k \in Kinds : Accept(r, k)) \/ Handle(r) \/ EnterTables(r) \/ Finish(r)
    PROVE  AnswerInv'
<1> USE DEF AnswerInv, ResponseWellFormed, Goto, Leave, answer
<1>1. ASSUME NEW k \in Kinds, Accept(r, k) PROVE AnswerInv'
  BY <1>1 DEF Accept, Places
<1>2. CASE Decide(r)
  BY <1>2 DEF Decide, Places
<1>3. CASE Acquire(r) \/ Enter(r)
  BY <1>3 DEF Acquire, Enter, Places
<1>4. CASE Panic(r)
  BY <1>4 DEF Panic, Places, Encodings
<1>5. CASE ClientGoes(r)
  BY <1>5 DEF ClientGoes, Places
<1>6. CASE WriteHeader(r)
  BY <1>6 DEF WriteHeader, Places, Encodings
<1>7. CASE WriteBody(r)
  BY <1>7 DEF WriteBody, Places, Encodings
<1> QED BY <1>1, <1>2, <1>3, <1>4, <1>5, <1>6, <1>7
        DEF Handle, DecideAlone, AcquireFails, Pinged, EnterFails, EnterTables, Finish

\* main() from the start to the exit: it is ready before it listens, and stops
\* listening before it waits.
LEMMA MainLives ==
    ASSUME AnswerInv, LifeInv, DrainLosesNothing, Main
    PROVE  LifeInv' /\ DrainLosesNothing'
<1> USE DEF AnswerInv, LifeInv, DrainLosesNothing, Active, requests
<1>1. CASE OpenStore
  BY <1>1 DEF OpenStore
<1>2. CASE StartFails
  BY <1>2 DEF StartFails, Exit
<1>3. CASE Serve
  BY <1>3 DEF Serve
<1>4. CASE Listen
  BY <1>4 DEF Listen
<1>5. CASE ListenFails
  BY <1>5 DEF ListenFails, Exit
<1>6. CASE ListenReturns
  BY <1>6 DEF ListenReturns
<1>7. CASE Signal
  BY <1>7 DEF Signal
<1>8. CASE Kill
  BY <1>8 DEF Kill, Exit
<1>9. CASE Shutdown
  BY <1>9 DEF Shutdown
<1>10. CASE Drain
  BY <1>10 DEF Drain
<1>11. CASE CloseStore
  BY <1>11 DEF CloseStore, Exit
<1> QED BY <1>1, <1>2, <1>3, <1>4, <1>5, <1>6, <1>7, <1>8, <1>9, <1>10, <1>11 DEF Main

\* A request neither cuts off another nor comes alive when nobody listens.
LEMMA RequestLives ==
    ASSUME AnswerInv, LifeInv, DrainLosesNothing, NEW r \in Requests,
           (\E k \in Kinds : Accept(r, k)) \/ Handle(r) \/ EnterTables(r) \/ Finish(r)
    PROVE  LifeInv' /\ DrainLosesNothing'
<1>1. UNCHANGED life
  BY DEF Accept, Handle, DecideAlone, Acquire, AcquireFails, Pinged, EnterFails, Decide, Panic,
         ClientGoes, WriteHeader, WriteBody, EnterTables, Enter, Finish
<1>2. PICK to \in Places \ {"absent", "cut"} : at' = [at EXCEPT ![r] = to]
  BY DEF Accept, Handle, DecideAlone, Acquire, AcquireFails, Pinged, EnterFails, Decide, Panic,
         ClientGoes, WriteHeader, WriteBody, EnterTables, Enter, Finish, Goto, Leave, Places
<1>3. Active(r) \/ (at[r] = "absent" /\ listener = "open")
  BY DEF Accept, Handle, DecideAlone, Acquire, AcquireFails, Pinged, EnterFails, Panic,
         ClientGoes, WriteHeader, WriteBody, EnterTables, Enter, Finish, Active
<1>4. at[r] # "absent" \/ listener = "open"
  BY <1>3 DEF Active
<1> QED BY <1>1, <1>2, <1>3, <1>4 DEF AnswerInv, LifeInv, DrainLosesNothing, life, Active

-----------------------------------------------------------------------------
(* The migrators. *)

\* The next version of a migrator that has one is the lowest or the highest it
\* has to do.
LEMMA NextVersion ==
    ASSUME MigrationsTypeOK, NEW m \in Migrators, todo[m] # {}
    PROVE  /\ Version(m) \in todo[m]
           /\ \A w \in todo[m] : IF GoesDown(m) THEN w <= Version(m) ELSE Version(m) <= w
<1>1. todo[m] \subseteq 1..3
  BY DEF MigrationsTypeOK, Versions
<1>2. \E v \in todo[m] : \A w \in todo[m] : IF GoesDown(m) THEN w <= v ELSE v <= w
  <2>1. CASE GoesDown(m)
    <3>1. CASE 3 \in todo[m]
      BY <1>1, <2>1, <3>1
    <3>2. CASE 3 \notin todo[m] /\ 2 \in todo[m]
      BY <1>1, <2>1, <3>2
    <3>3. CASE 3 \notin todo[m] /\ 2 \notin todo[m]
      BY <1>1, <2>1, <3>3
    <3> QED BY <3>1, <3>2, <3>3
  <2>2. CASE ~GoesDown(m)
    <3>1. CASE 1 \in todo[m]
      BY <1>1, <2>2, <3>1
    <3>2. CASE 1 \notin todo[m] /\ 2 \in todo[m]
      BY <1>1, <2>2, <3>2
    <3>3. CASE 1 \notin todo[m] /\ 2 \notin todo[m]
      BY <1>1, <2>2, <3>3
    <3> QED BY <3>1, <3>2, <3>3
  <2> QED BY <2>1, <2>2
<1> QED BY <1>2 DEF Version

\* A schema as a function of its parts.
Parts == {"tables", "dedup", "filter"}
IsSchema(s) == DOMAIN s = Parts /\ s = [k \in Parts |-> s[k]]

\* Schemas with the same parts are the same.
LEMMA SameSchema ==
    ASSUME NEW s, NEW n, IsSchema(s), IsSchema(n),
           s.tables = n.tables, s.dedup = n.dedup, s.filter = n.filter
    PROVE  s = n
<1>1. \A k \in Parts : s[k] = n[k]
  BY Zenon DEF Parts
<1> QED BY <1>1, Zenon DEF IsSchema

\* The parts of the schemas the versions make.
LEMMA PartsAt ==
    ASSUME NEW k \in 0..3
    PROVE  /\ IsSchema(SchemaAt(k))
           /\ SchemaAt(k).tables = (k >= 1) /\ SchemaAt(k).dedup = (k >= 2)
           /\ SchemaAt(k).filter = IF k = 0 THEN "none" ELSE IF k < 3 THEN "old" ELSE "new"
<1>1. IsSchema(SchemaAt(k))
  BY DEF IsSchema, Parts, SchemaAt
<1>2. SchemaAt(k).tables = (k >= 1) /\ SchemaAt(k).dedup = (k >= 2)
  BY DEF SchemaAt
<1>3. SchemaAt(k).filter = IF k = 0 THEN "none" ELSE IF k < 3 THEN "old" ELSE "new"
  BY DEF SchemaAt
<1> QED BY <1>1, <1>2, <1>3

\* A script sets the parts it names and leaves the others.
LEMMA PartsOfScripts ==
    ASSUME IsSchema(schema)
    PROVE  /\ LET n == UpScript(1)
              IN  IsSchema(n) /\ n.tables = TRUE /\ n.dedup = schema.dedup
                  /\ n.filter = IF schema.filter = "none" THEN "old" ELSE schema.filter
           /\ LET n == UpScript(2)
              IN  IsSchema(n) /\ n.tables = schema.tables /\ n.dedup = TRUE /\ n.filter = schema.filter
           /\ LET n == UpScript(3)
              IN  IsSchema(n) /\ n.tables = schema.tables /\ n.dedup = schema.dedup /\ n.filter = "new"
           /\ LET n == DownScript(2)
              IN  IsSchema(n) /\ n.tables = schema.tables /\ n.dedup = FALSE /\ n.filter = schema.filter
           /\ LET n == DownScript(3)
              IN  IsSchema(n) /\ n.tables = schema.tables /\ n.dedup = schema.dedup /\ n.filter = "old"
<1>1. LET n == [schema EXCEPT !.tables = TRUE, !.filter = IF @ = "none" THEN "old" ELSE @]
      IN  IsSchema(n) /\ n.tables = TRUE /\ n.dedup = schema.dedup
          /\ n.filter = IF schema.filter = "none" THEN "old" ELSE schema.filter
  BY DEF IsSchema, Parts
<1>2. LET n == [schema EXCEPT !.dedup = TRUE]
      IN  IsSchema(n) /\ n.tables = schema.tables /\ n.dedup = TRUE /\ n.filter = schema.filter
  BY DEF IsSchema, Parts
<1>3. LET n == [schema EXCEPT !.filter = "new"]
      IN  IsSchema(n) /\ n.tables = schema.tables /\ n.dedup = schema.dedup /\ n.filter = "new"
  BY DEF IsSchema, Parts
<1>4. LET n == [schema EXCEPT !.dedup = FALSE]
      IN  IsSchema(n) /\ n.tables = schema.tables /\ n.dedup = FALSE /\ n.filter = schema.filter
  BY DEF IsSchema, Parts
<1>5. LET n == [schema EXCEPT !.filter = "old"]
      IN  IsSchema(n) /\ n.tables = schema.tables /\ n.dedup = schema.dedup /\ n.filter = "old"
  BY DEF IsSchema, Parts
<1>6. /\ UpScript(1) = [schema EXCEPT !.tables = TRUE, !.filter = IF @ = "none" THEN "old" ELSE @]
      /\ UpScript(2) = [schema EXCEPT !.dedup = TRUE]
      /\ UpScript(3) = [schema EXCEPT !.filter = "new"]
      /\ DownScript(2) = [schema EXCEPT !.dedup = FALSE]
      /\ DownScript(3) = [schema EXCEPT !.filter = "old"]
  BY DEF UpScript, DownScript, InitUp, IngestHardeningUp, FilterIndexUp,
         IngestHardeningDown, FilterIndexDown
<1> QED BY <1>1, <1>2, <1>3, <1>4, <1>5, <1>6, Zenon

\* The scripts step between the schemas of neighbouring versions.
LEMMA Scripts ==
    ASSUME NEW k \in 0..3, schema = SchemaAt(k)
    PROVE  /\ k < 3 => UpScript(k + 1) = SchemaAt(k + 1)
           /\ k > 0 => DownScript(k) = SchemaAt(k - 1)
<1>1. /\ IsSchema(schema)
      /\ schema.tables = (k >= 1) /\ schema.dedup = (k >= 2)
      /\ schema.filter = IF k = 0 THEN "none" ELSE IF k < 3 THEN "old" ELSE "new"
  BY PartsAt
<1>2. DownScript(1) = SchemaAt(0)
  <2>1. DownScript(1) = [tables |-> FALSE, dedup |-> FALSE, filter |-> "none"]
    BY DEF DownScript, InitDown
  <2>2. (0 >= 1) = FALSE /\ (0 >= 2) = FALSE
    OBVIOUS
  <2> QED BY <2>1, <2>2, Zenon DEF SchemaAt
<1>3. CASE k = 0
  <2>1. UpScript(1) = SchemaAt(1)
    <3>1. /\ IsSchema(UpScript(1)) /\ IsSchema(SchemaAt(1))
          /\ UpScript(1).dedup = SchemaAt(1).dedup /\ UpScript(1).filter = SchemaAt(1).filter
      BY <1>1, <1>3, PartsAt, PartsOfScripts
    <3>2. UpScript(1).tables = TRUE
      BY <1>1, PartsOfScripts, Zenon
    <3>3. SchemaAt(1).tables = TRUE
      <4>1. SchemaAt(1).tables = (1 >= 1)
        BY PartsAt
      <4>2. (1 >= 1) = TRUE
        OBVIOUS
      <4> QED BY <4>1, <4>2, Zenon
    <3> QED BY <3>1, <3>2, <3>3, SameSchema, Zenon
  <2> QED BY <1>2, <1>3, <2>1
<1>4. CASE k = 1
  <2>1. UpScript(2) = SchemaAt(2)
    <3>1. /\ IsSchema(UpScript(2)) /\ IsSchema(SchemaAt(2))
          /\ UpScript(2).tables = SchemaAt(2).tables /\ UpScript(2).filter = SchemaAt(2).filter
      BY <1>1, <1>4, PartsAt, PartsOfScripts
    <3>2. UpScript(2).dedup = TRUE
      BY <1>1, PartsOfScripts, Zenon
    <3>3. SchemaAt(2).dedup = TRUE
      <4>1. SchemaAt(2).dedup = (2 >= 2)
        BY PartsAt
      <4>2. (2 >= 2) = TRUE
        OBVIOUS
      <4> QED BY <4>1, <4>2, Zenon
    <3> QED BY <3>1, <3>2, <3>3, SameSchema, Zenon
  <2> QED BY <1>2, <1>4, <2>1
<1>5. CASE k = 2
  <2>1. UpScript(3) = SchemaAt(3)
    <3>1. /\ IsSchema(UpScript(3)) /\ IsSchema(SchemaAt(3))
          /\ UpScript(3).tables = SchemaAt(3).tables /\ UpScript(3).dedup = SchemaAt(3).dedup
          /\ UpScript(3).filter = SchemaAt(3).filter
      BY <1>1, <1>5, PartsAt, PartsOfScripts
    <3> QED BY <3>1, SameSchema, Zenon
  <2>2. DownScript(2) = SchemaAt(1)
    <3>1. /\ IsSchema(DownScript(2)) /\ IsSchema(SchemaAt(1))
          /\ DownScript(2).tables = SchemaAt(1).tables /\ DownScript(2).filter = SchemaAt(1).filter
      BY <1>1, <1>5, PartsAt, PartsOfScripts
    <3>2. DownScript(2).dedup = FALSE
      BY <1>1, PartsOfScripts, Zenon
    <3>3. SchemaAt(1).dedup = FALSE
      <4>1. SchemaAt(1).dedup = (1 >= 2)
        BY PartsAt
      <4>2. (1 >= 2) = FALSE
        OBVIOUS
      <4> QED BY <4>1, <4>2, Zenon
    <3> QED BY <3>1, <3>2, <3>3, SameSchema, Zenon
  <2> QED BY <1>2, <1>5, <2>1, <2>2
<1>6. CASE k = 3
  <2>1. DownScript(3) = SchemaAt(2)
    <3>1. /\ IsSchema(DownScript(3)) /\ IsSchema(SchemaAt(2))
          /\ DownScript(3).tables = SchemaAt(2).tables /\ DownScript(3).dedup = SchemaAt(2).dedup
          /\ DownScript(3).filter = SchemaAt(2).filter
      BY <1>1, <1>6, PartsAt, PartsOfScripts
    <3> QED BY <3>1, SameSchema, Zenon
  <2> QED BY <1>2, <1>6, <2>1
<1> QED BY <1>3, <1>4, <1>5, <1>6

\* Up(): what is applied is the first version that is not recorded.
LEMMA AppliesNext ==
    ASSUME MigrationsInv, NEW m \in Migrators, ApplyUp(m)
    PROVE  MigrationsInv'
<1> USE DEF ApplyUp, Pass
<1>1. Version(m) \in todo[m] /\ \A w \in todo[m] : Version(m) <= w
  BY NextVersion DEF MigrationsInv, MigrationsTypeOK
<1>2. Version(m) \in Versions
  BY <1>1 DEF MigrationsInv, MigrationsTypeOK
<1>3. MigrationsTypeOK'
  <2> HIDE DEF Pass
  <2>1. recorded' \subseteq Versions /\ overlapped' \in BOOLEAN /\ goal' = goal
    BY <1>2 DEF MigrationsInv, MigrationsTypeOK
  <2>2. mpc' = [mpc EXCEPT ![m] = "next"] /\ todo' = [todo EXCEPT ![m] = todo[m] \ {Version(m)}]
    BY DEF Pass
  <2> QED BY <2>1, <2>2 DEF MigrationsInv, MigrationsTypeOK
<1>4. ASSUME ~overlapped' PROVE Contiguous' /\ \A o \in Migrators : MigratorInv(o)'
  <2>1. PICK k \in 0..3 : recorded = 1..k /\ schema = SchemaAt(k)
    BY <1>4 DEF MigrationsInv, Contiguous
  <2>2. \A o \in Migrators : MigratorInv(o)
    BY <1>4 DEF MigrationsInv
  <2>3. Versions \ recorded \subseteq todo[m]
    BY <2>2 DEF MigratorInv
  <2>4. Version(m) = k + 1
    BY <1>1, <1>2, <2>1, <2>3 DEF Versions
  <2>5. recorded' = 1..(k + 1) /\ k < 3
    BY <1>2, <2>1, <2>4 DEF Versions
  <2>6. schema' = SchemaAt(k + 1)
    BY <2>1, <2>4, <2>5, Scripts
  <2>7. Contiguous'
    <3>1. k + 1 \in 0..3
      BY <2>5
    <3> QED BY <3>1, <2>5, <2>6 DEF Contiguous, SchemaAt
  <2>8. ASSUME NEW o \in Migrators PROVE MigratorInv(o)'
    <3>1. \A p \in Migrators : Running(p)' <=> Running(p)
      BY DEF Running, MigrationsInv, MigrationsTypeOK
    <3>2. \A p \in Migrators : GoesDown(p)' <=> GoesDown(p)
      BY DEF GoesDown
    <3>3. Running(m) /\ ~GoesDown(m)
      BY DEF Running
    <3>4. Running(o) => ~GoesDown(o)
      BY <2>2, <3>3 DEF MigratorInv
    <3>5. mpc'[o] \in {"next", "locking"} => Versions \ recorded' \subseteq todo'[o]
      <4>1. CASE o = m
        BY <4>1, <2>3 DEF MigrationsInv, MigrationsTypeOK
      <4>2. CASE o # m
        BY <4>2, <2>2, <3>4 DEF MigratorInv, Running, MigrationsInv, MigrationsTypeOK
      <4> QED BY <4>1, <4>2
    <3>6. mpc'[o] \in {"next", "locking"} => ~GoesDown(o)'
      BY <3>1, <3>2, <3>4 DEF Running
    <3>7. \A p \in Migrators \ {o} : Running(o)' /\ Running(p)' => ~GoesDown(o)'
      BY <2>2, <3>1, <3>2 DEF MigratorInv
    <3> QED BY <3>5, <3>6, <3>7 DEF MigratorInv
  <2> QED BY <2>7, <2>8
<1> QED BY <1>3, <1>4 DEF MigrationsInv

\* Down(): what is rolled back is the last version recorded, and nobody else is
\* at work.
LEMMA RollsBackLast ==
    ASSUME MigrationsInv, NEW m \in Migrators, ApplyDown(m)
    PROVE  MigrationsInv'
<1> USE DEF ApplyDown, Pass
<1>1. Version(m) \in todo[m] /\ \A w \in todo[m] : w <= Version(m)
  BY NextVersion DEF MigrationsInv, MigrationsTypeOK
<1>2. goal[m] \in 1..2
  BY DEF MigrationsInv, MigrationsTypeOK, GoesDown, AllUp
<1>3. MigrationsTypeOK'
  <2> HIDE DEF Pass
  <2>1. recorded' \subseteq Versions /\ overlapped' \in BOOLEAN
    BY DEF MigrationsInv, MigrationsTypeOK
  <2>2. mpc' = [mpc EXCEPT ![m] = "next"] /\ todo' = [todo EXCEPT ![m] = todo[m] \ {Version(m)}]
    BY DEF Pass
  <2>3. goal' = [goal EXCEPT ![m] = goal[m] - 1] /\ goal[m] - 1 \in -1..2
    BY <1>2
  <2> QED BY <2>1, <2>2, <2>3 DEF MigrationsInv, MigrationsTypeOK
<1>4. ASSUME ~overlapped' PROVE Contiguous' /\ \A o \in Migrators : MigratorInv(o)'
  <2>1. PICK k \in 0..3 : recorded = 1..k /\ schema = SchemaAt(k)
    BY <1>4 DEF MigrationsInv, Contiguous
  <2>2. \A o \in Migrators : MigratorInv(o)
    BY <1>4 DEF MigrationsInv
  <2>3. todo[m] = recorded
    BY <2>2 DEF MigratorInv
  <2>4. Version(m) = k /\ k > 0
    BY <1>1, <2>1, <2>3
  <2>5. recorded' = 1..(k - 1)
    BY <2>1, <2>4
  <2>6. schema' = SchemaAt(k - 1)
    BY <2>1, <2>4, Scripts
  <2>7. Contiguous'
    <3>1. k - 1 \in 0..3
      BY <2>4
    <3> QED BY <3>1, <2>5, <2>6 DEF Contiguous, SchemaAt
  <2>8. ASSUME NEW o \in Migrators PROVE MigratorInv(o)'
    <3>1. \A p \in Migrators : Running(p)' <=> Running(p)
      BY DEF Running, MigrationsInv, MigrationsTypeOK
    <3>2. \A p \in Migrators \ {m} : ~Running(p)
      BY <2>2 DEF MigratorInv, Running
    <3>3. CASE o = m
      <4>1. GoesDown(m)' /\ todo'[m] = recorded'
        BY <1>2, <2>3 DEF GoesDown, AllUp, MigrationsInv, MigrationsTypeOK
      <4> QED BY <3>1, <3>2, <3>3, <4>1 DEF MigratorInv
    <3>4. CASE o # m
      <4>1. ~Running(o)'
        BY <3>1, <3>2, <3>4
      <4> QED BY <4>1 DEF MigratorInv, Running
    <3> QED BY <3>3, <3>4
  <2> QED BY <2>7, <2>8
<1> QED BY <1>3, <1>4 DEF MigrationsInv

\* A migrator that starts beside others counts as overlapping if one of them is
\* going down.
LEMMA StartsBeside ==
    ASSUME MigrationsInv, NEW m \in Migrators, NEW g \in {AllUp, 2}, Start(m, g)
    PROVE  MigrationsInv'
<1> USE DEF Start
<1>1. MigrationsTypeOK'
  BY DEF MigrationsInv, MigrationsTypeOK, AllUp
<1>2. ASSUME ~overlapped' PROVE Contiguous' /\ \A o \in Migrators : MigratorInv(o)'
  <2>1. ~overlapped /\ \A o \in Migrators \ {m} : Running(o) => g = AllUp /\ ~GoesDown(o)
    BY <1>2 DEF MigrationsInv, MigrationsTypeOK
  <2>2. Contiguous'
    BY <2>1 DEF MigrationsInv, Contiguous, SchemaAt
  <2>3. \A o \in Migrators \ {m} : mpc'[o] = mpc[o] /\ goal'[o] = goal[o] /\ todo'[o] = todo[o]
    BY DEF MigrationsInv, MigrationsTypeOK
  <2>4. mpc'[m] = "reading" /\ goal'[m] = g
    BY DEF MigrationsInv, MigrationsTypeOK
  <2>5. ASSUME NEW o \in Migrators PROVE MigratorInv(o)'
    <3>1. CASE o = m
      BY <2>1, <2>3, <2>4, <3>1 DEF MigratorInv, Running, GoesDown
    <3>2. CASE o # m
      BY <2>1, <2>3, <2>4, <3>2 DEF MigrationsInv, MigratorInv, Running, GoesDown
    <3> QED BY <3>1, <3>2
  <2> QED BY <2>2, <2>5
<1> QED BY <1>1, <1>2 DEF MigrationsInv

\* The steps of a migrator that leave the database alone.
LEMMA MigratorAlone ==
    ASSUME MigrationsInv, NEW m \in Migrators,
           ReadApplied(m) \/ Begin(m) \/ Fail(m) \/ Complete(m)
    PROVE  MigrationsInv'
<1> USE DEF ReadApplied, Begin, Fail, Complete, End, AtEnd
<1>1. MigrationsTypeOK'
  BY DEF MigrationsInv, MigrationsTypeOK, AllUp
<1>2. ASSUME ~overlapped' PROVE Contiguous' /\ \A o \in Migrators : MigratorInv(o)'
  <2>1. ~overlapped /\ Running(m)
    BY <1>2 DEF Running
  <2>2. Contiguous'
    BY <2>1 DEF MigrationsInv, Contiguous, SchemaAt
  <2>3. ASSUME NEW o \in Migrators PROVE MigratorInv(o)'
    <3>1. \A p \in Migrators : MigratorInv(p)
      BY <2>1 DEF MigrationsInv
    <3>2. \A p \in Migrators \ {m} : mpc'[p] = mpc[p] /\ goal'[p] = goal[p] /\ todo'[p] = todo[p]
      BY DEF MigrationsInv, MigrationsTypeOK
    <3>3. CASE ReadApplied(m)
      BY <3>1, <3>2, <3>3 DEF MigratorInv, Running, GoesDown, MigrationsInv, MigrationsTypeOK
    <3>4. CASE Begin(m)
      BY <3>1, <3>2, <3>4 DEF MigratorInv, Running, GoesDown, MigrationsInv, MigrationsTypeOK
    <3>5. CASE Fail(m) \/ Complete(m)
      BY <3>1, <3>2, <3>5 DEF MigratorInv, Running, GoesDown, MigrationsInv, MigrationsTypeOK
    <3> QED BY <3>3, <3>4, <3>5
  <2> QED BY <2>2, <2>3
<1> QED BY <1>1, <1>2 DEF MigrationsInv

-----------------------------------------------------------------------------
(* The composition. *)

\* Nothing has been asked, sent or migrated, and the database is new or complete.
LEMMA InitIInv == Init => IInv
<1> SUFFICES ASSUME Init PROVE IInv
  OBVIOUS
<1>1. AnswerInv /\ LifeInv /\ DrainLosesNothing
  BY DEF Init, ServerInit, AnswerInv, LifeInv, DrainLosesNothing, ResponseWellFormed, Places,
         Encodings, Active
<1>2. MigrationsTypeOK
  <2>1. PICK k \in {0, 3} : recorded = 1..k
    BY DEF Init, MigrationsInit
  <2>2. recorded \subseteq Versions
    BY <2>1 DEF Versions
  <2>3. goal \in [Migrators -> -1..2] /\ todo \in [Migrators -> SUBSET Versions]
    BY DEF Init, MigrationsInit, AllUp
  <2>4. /\ mpc \in [Migrators -> {"absent", "reading", "next", "locking", "failed", "ok"}]
        /\ \A m \in Migrators : mpc[m] # "locking"
    BY DEF Init, MigrationsInit
  <2> QED BY <2>2, <2>3, <2>4 DEF Init, MigrationsInit, MigrationsTypeOK
<1>3. Contiguous
  BY DEF Init, MigrationsInit, Contiguous
<1>4. \A m \in Migrators : MigratorInv(m)
  BY DEF Init, MigrationsInit, MigratorInv, Running
<1> QED BY <1>1, <1>2, <1>3, <1>4 DEF IInv, MigrationsInv

\* What the server keeps when its variables do not change.
LEMMA ServerStutters ==
    ASSUME AnswerInv, LifeInv, DrainLosesNothing, UNCHANGED server
    PROVE  AnswerInv' /\ LifeInv' /\ DrainLosesNothing'
BY DEF server, life, requests, answer, AnswerInv, LifeInv, DrainLosesNothing, ResponseWellFormed, Active

\* ... and the migrators.
LEMMA MigrationsStutter ==
    ASSUME MigrationsInv, UNCHANGED migrations
    PROVE  MigrationsInv'
BY DEF migrations, MigrationsInv, MigrationsTypeOK, Contiguous, SchemaAt, MigratorInv, Running, GoesDown

\* Every step of the process, its requests and the migrators keeps the invariants.
LEMMA NextIInv ==
    ASSUME IInv, [Next]_vars
    PROVE  IInv'
<1> USE DEF IInv
<1>1. CASE ServerStep /\ UNCHANGED migrations
  BY <1>1, MainAnswers, RequestAnswers, MainLives, RequestLives, MigrationsStutter DEF ServerStep
<1>2. CASE /\ \E m \in Migrators : Migrate(m) \/ (\E g \in {AllUp, 2} : Start(m, g))
           /\ UNCHANGED server
  <2>1. MigrationsInv'
    BY <1>2, AppliesNext, RollsBackLast, StartsBeside, MigratorAlone DEF Migrate, RunScript
  <2> QED BY <1>2, <2>1, ServerStutters
<1>3. CASE UNCHANGED vars
  BY <1>3, ServerStutters, MigrationsStutter DEF vars
<1> QED BY <1>1, <1>2, <1>3 DEF Next

\* The service keeps its invariants.
THEOREM Invariance == Spec => []IInv
<1> QED BY InitIInv, NextIInv, PTL DEF Spec

\* An answered client gets a body encoded as its header says, whatever the handler
\* did, panics included (middleware.go: recorder, gzipWriter, WithRecovery).
THEOREM AnswersAreWellFormed == Spec => []ResponseWellFormed
<1>1. IInv => ResponseWellFormed
  BY DEF IInv, AnswerInv
<1> QED BY <1>1, Invariance, PTL

\* Unless the process is killed or the drain times out, no request that was
\* accepted is cut off (main.go: Shutdown() before the deferred Close()).
THEOREM StopsWithoutLoss == Spec => []DrainLosesNothing
<1>1. IInv => DrainLosesNothing
  BY DEF IInv
<1> QED BY <1>1, Invariance, PTL

\* Any number of migrators, started, failing and killed at any time: unless one
\* rolls back beside another, the schema is what the record says (migrate: Up, Down).
THEOREM SchemaFollowsRecord == Spec => []RecordMatchesSchema
<1>1. IInv => RecordMatchesSchema
  <2> SUFFICES ASSUME IInv, ~overlapped PROVE RecordMatchesSchema
    BY DEF RecordMatchesSchema
  <2>1. Contiguous /\ recorded \subseteq Versions /\ \A m \in Migrators : MigratorInv(m)
    BY DEF IInv, MigrationsInv, MigrationsTypeOK
  <2>2. \A m \in Migrators :
           mpc[m] = "next" /\ ~GoesDown(m) /\ todo[m] = {} => recorded = Versions
    BY <2>1 DEF MigratorInv
  <2> QED BY <2>1, <2>2 DEF RecordMatchesSchema, Contiguous
<1> QED BY <1>1, Invariance, PTL

=============================================================================
