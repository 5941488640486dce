---------------------------- MODULE AddTableProofs ----------------------------
(***************************************************************************)
(* Theorems of AddTable: what is in the target of a table that is being    *)
(* added, for every source, every set of tables and indexes, and every     *)
(* number of failures and crashes.                                         *)
(***************************************************************************)
EXTENDS AddTable, UpdateDatabaseProofs

\* A transaction of addTable is open on PostgreSQL.
Adds == step \in {"recorded", "copied", "indexed"}

\* The rows of the table being added are those of a quiet moment of the source.
CopiedAtMoment(n, rows, from) ==
  \E i \in 0..Len(log) :
    from <= i /\ Quiet(i) /\ rows = history[i + 1][<<Database, n>>]

(* What the connection sees differs from what is committed by the one table that   *)
(* is being added, as far as addTable has got.                                     *)
Drafted ==
  /\ ~Adds => draft = catalog /\ (~SetUpOver => session = committed)
  /\ step \in {"locked", "positioned"} \/ Adds => adding \in Added
  /\ step = "positioned" \/ Adds => start <= Len(log)
  /\ Adds =>
       /\ adding \notin Named(catalog)
       /\ \E id \in Nat :
            draft.tables = catalog.tables \union
              {[table_id |-> id, name |-> adding, start_position |-> start]}
       /\ draft.relations = catalog.relations \union {adding}
            \union (IF step = "indexed" THEN Indexes[adding] ELSE {})
       /\ \A n \in Added \ {adding} : session.data[n] = committed.data[n]
  /\ step \in {"copied", "indexed"} =>
       CopiedAtMoment(adding, session.data[adding], start)

SetUpTypes == TypeInv /\ SetUpTypeOK

SetUpInv == SetUpTypes /\ Drafted /\ WholeOrNothing /\ TablesKnown

-----------------------------------------------------------------------------
LEMMA SetUpKeepsTypes ==
  ASSUME TypeInv, UNCHANGED <<sourceVars, noProcess>>,
         session' \in Target, committed' \in Target,
         session'.file \in 1..Len(starts), committed'.file \in 1..Len(starts),
         pgtx' \in BOOLEAN, applied' \in Nat, crashes' \in Nat
  PROVE  TypeInv'
BY TypeOKParts DEF TypeInv, TypeOK, SourceTypeOK, ReplicatorTypeOK, FilesOfLog,
   FilesOfReplicator, InHand, sourceVars, noProcess

LEMMA ReplicatorUnchanged ==
  ASSUME TypeInv, UNCHANGED <<sourceVars, replicatorVars>>
  PROVE  TypeInv'
BY TypeStep DEF vars

LEMMA NamedTables ==
  ASSUME NEW c \in Catalog
  PROVE  Named(c) \subseteq Added
BY DEF Catalog, TableRow, Named

LEMMA RefuseTypes ==
  ASSUME SetUpTypes, NEW why \in Refusals, Refuse(why), lastid' \in Nat, UNCHANGED sourceVars
  PROVE  SetUpTypes'
<1>1. session' = committed /\ committed' = committed /\ pgtx' = FALSE
      /\ applied' = applied /\ crashes' = crashes /\ UNCHANGED noProcess
  BY DEF Refuse
<1>2. TypeInv'
  BY <1>1, SetUpKeepsTypes DEF SetUpTypes, TypeInv, TypeOK, FilesOfReplicator
<1>3. SetUpTypeOK'
  BY DEF SetUpTypes, SetUpTypeOK, Refuse
<1>4. QED BY <1>2, <1>3 DEF SetUpTypes

\* The steps of the set-up keep every type.
LEMMA SetUpTypesStep ==
  ASSUME SetUpTypes, Drafted, SetUp, UNCHANGED sourceVars
  PROVE  SetUpTypes'
<1>1. /\ session \in Target /\ committed \in Target
      /\ session.file \in 1..Len(starts) /\ committed.file \in 1..Len(starts)
      /\ pgtx \in BOOLEAN /\ applied \in Nat /\ crashes \in Nat
      /\ SourceTypeOK /\ FilesOfLog /\ TypeInv /\ SetUpTypeOK
  BY DEF SetUpTypes, TypeInv, TypeOK, FilesOfReplicator
<1>2. /\ Len(log) \in Nat /\ Len(starts) \in Nat /\ Len(starts) > 0
      /\ Len(log) - starts[Len(starts)] \in Nat
  <2>1. Len(log) \in Nat /\ Len(starts) \in Nat /\ Len(starts) > 0
    BY <1>1 DEF SourceTypeOK
  <2>2. starts[Len(starts)] \in Nat
    BY <1>1, <2>1 DEF SourceTypeOK
  <2>3. starts[Len(starts)] <= Len(log)
    BY <1>1, <2>1 DEF FilesOfLog
  <2>4. QED BY <2>1, <2>2, <2>3
<1>3. CASE CreateNew
  <2>1. committed' \in Target /\ committed'.file \in 1..Len(starts)
    <3>1. committed' = [committed EXCEPT !.file = Len(starts),
                                         !.pos = Len(log) - starts[Len(starts)]]
      BY <1>3 DEF CreateNew
    <3>2. committed.data \in [Added -> [Keys -> Vals \union {None}]]
      BY <1>1 DEF Target
    <3>3. committed' = [data |-> committed.data, file |-> Len(starts),
                        pos |-> Len(log) - starts[Len(starts)]]
      BY <1>1, <3>1 DEF Target
    <3>4. QED BY <1>2, <3>2, <3>3 DEF Target
  <2>2. TypeInv'
    BY <1>1, <1>2, <1>3, <2>1, SetUpKeepsTypes DEF CreateNew
  <2>3. SetUpTypeOK'
    BY <1>1, <1>3 DEF CreateNew, SetUpTypeOK
  <2>4. QED BY <2>2, <2>3 DEF SetUpTypes
<1>4. CASE CreateOther
  BY <1>1, <1>4, ReplicatorUnchanged DEF CreateOther, SetUpTypeOK, SetUpTypes
<1>5. ASSUME NEW n \in Added, LockTable(n) PROVE SetUpTypes'
  BY <1>1, <1>5, ReplicatorUnchanged DEF LockTable, SetUpTypeOK, SetUpTypes
<1>6. CASE ReadPosition
  BY <1>1, <1>2, <1>6, ReplicatorUnchanged DEF ReadPosition, SetUpTypeOK, SetUpTypes
<1>7. CASE RecordTable
  <2>1. adding \in Added /\ adding \in Names /\ start \in Nat /\ lastid + 1 \in Nat
    BY <1>1, <1>7, ReplicatorAssumption DEF RecordTable, Drafted, SetUpTypeOK
  <2>2. [table_id |-> lastid + 1, name |-> adding, start_position |-> start] \in TableRow
    BY <2>1 DEF TableRow
  <2>3. draft' \in Catalog
    BY <1>1, <1>7, <2>1, <2>2 DEF RecordTable, Catalog, SetUpTypeOK
  <2>4. TypeInv'
    BY <1>1, <1>7, SetUpKeepsTypes DEF RecordTable
  <2>5. SetUpTypeOK'
    BY <1>1, <1>7, <2>1, <2>3 DEF RecordTable, SetUpTypeOK
  <2>6. QED BY <2>4, <2>5 DEF SetUpTypes
<1>8. CASE RecordTableFails
  <2>1. TableRefusal \in Refusals
    BY DEF TableRefusal, Refusals
  <2>2. Refuse(TableRefusal) /\ lastid' \in Nat
    BY <1>1, <1>8 DEF RecordTableFails, SetUpTypeOK
  <2>3. QED BY <2>1, <2>2, RefuseTypes
<1>9. CASE CopyTableContent
  <2>1. adding \in Added
    BY <1>9 DEF CopyTableContent, Drafted, Adds
  <2>2. Current[<<Database, adding>>] \in [Keys -> Vals \union {None}]
    BY <1>1, <2>1, CurrentType, ReplicatorAssumption DEF Content
  <2>3. session' \in Target /\ session'.file = session.file
    BY <1>1, <1>9, <2>1, <2>2 DEF CopyTableContent, Target
  <2>4. TypeInv'
    BY <1>1, <1>9, <2>3, SetUpKeepsTypes DEF CopyTableContent
  <2>5. SetUpTypeOK'
    BY <1>1, <1>9 DEF CopyTableContent, SetUpTypeOK
  <2>6. QED BY <2>4, <2>5 DEF SetUpTypes
<1>10. CASE CopyIndexes
  <2>1. Indexes[adding] \subseteq IndexNames
    BY <1>10, SetUpAssumption DEF CopyIndexes, Drafted, Adds
  <2>2. draft' \in Catalog
    BY <1>1, <1>10, <2>1 DEF CopyIndexes, Catalog, SetUpTypeOK
  <2>3. QED BY <1>1, <1>10, <2>2, ReplicatorUnchanged DEF CopyIndexes, SetUpTypeOK, SetUpTypes
<1>11. CASE CopyIndexesFails
  BY <1>1, <1>11, RefuseTypes DEF CopyIndexesFails, SetUpTypeOK, Refusals
<1>12. CASE CommitAdd
  <2>1. TypeInv'
    BY <1>1, <1>12, SetUpKeepsTypes DEF CommitAdd
  <2>2. SetUpTypeOK'
    BY <1>1, <1>12 DEF CommitAdd, SetUpTypeOK, Drafted, Adds
  <2>3. QED BY <2>1, <2>2 DEF SetUpTypes
<1>13. CASE SetUpCrash
  <2>1. TypeInv'
    <3>1. session' = committed /\ committed' = committed /\ pgtx' = FALSE
          /\ applied' = applied /\ crashes' = crashes + 1 /\ UNCHANGED noProcess
      BY <1>13 DEF SetUpCrash
    <3>2. crashes' \in Nat /\ applied' \in Nat
      <4>1. crashes' = crashes + 1 /\ crashes \in Nat /\ applied' = applied /\ applied \in Nat
        BY <1>1, <3>1, Zenon
      <4>2. QED BY <4>1
    <3>3. /\ session' \in Target /\ committed' \in Target
          /\ session'.file \in 1..Len(starts) /\ committed'.file \in 1..Len(starts)
      BY <1>1, <3>1
    <3>4. pgtx' \in BOOLEAN
      BY <3>1, Zenon
    <3>5. QED BY <1>1, <3>1, <3>2, <3>3, <3>4, SetUpKeepsTypes
  <2>2. SetUpTypeOK'
    BY <1>1, <1>13, NamedTables DEF SetUpCrash, SetUpTypeOK
  <2>3. QED BY <2>1, <2>2 DEF SetUpTypes
<1>14. CASE BeginReplication
  BY <1>1, <1>14, ReplicatorUnchanged DEF BeginReplication, SetUpTypeOK, SetUpTypes
<1>15. QED
  BY <1>3, <1>4, <1>5, <1>6, <1>7, <1>8, <1>9, <1>10, <1>11, <1>12, <1>13, <1>14 DEF SetUp

-----------------------------------------------------------------------------
\* The two halves of WholeOrNothing.
RelationsWhole ==
  catalog.relations = Named(catalog) \union UNION {Indexes[n] : n \in Named(catalog)}

TablesWhole ==
  \A n \in Added :
    IF n \in Named(catalog)
    THEN \E row \in catalog.tables :
           row.name = n /\ CopiedAtMoment(n, committed.data[n], row.start_position)
    ELSE committed.data[n] = [k \in Keys |-> None]

LEMMA WholeParts == WholeOrNothing <=> RelationsWhole /\ (~SetUpOver => TablesWhole)
BY DEF WholeOrNothing, RelationsWhole, TablesWhole, CopiedAtMoment

LEMMA WholePartsNext ==
  (RelationsWhole /\ (~SetUpOver => TablesWhole))' => WholeOrNothing'
BY DEF WholeOrNothing, RelationsWhole, TablesWhole, CopiedAtMoment

LEMMA UnionWith ==
  ASSUME NEW S, NEW x
  PROVE  UNION {Indexes[n] : n \in S \union {x}}
           = (UNION {Indexes[n] : n \in S}) \union Indexes[x]
<1> DEFINE all == UNION {Indexes[n] : n \in S \union {x}}
           some == UNION {Indexes[n] : n \in S}
<1>1. \A i : i \in all <=> \E n \in S \union {x} : i \in Indexes[n]
  BY Zenon
<1>2. \A i : i \in some <=> \E n \in S : i \in Indexes[n]
  BY Zenon
<1> HIDE DEF all, some
<1>3. \A i : i \in all <=> i \in some \union Indexes[x]
  BY <1>1, <1>2
<1>4. all = some \union Indexes[x]
  BY <1>3
<1>5. QED BY <1>4 DEF all, some

\* A step after which as much is committed of every table as before it.
LEMMA NothingCommitted ==
  ASSUME WholeOrNothing, UNCHANGED <<catalog, log, history>>,
         committed'.data = committed.data, SetUpOver => SetUpOver'
  PROVE  WholeOrNothing'
<1>1. RelationsWhole'
  BY WholeParts DEF RelationsWhole, Named
<1>2. ASSUME ~SetUpOver' PROVE TablesWhole'
  BY <1>2, WholeParts DEF TablesWhole, CopiedAtMoment, Named, Quiet
<1>3. QED BY <1>1, <1>2, WholePartsNext

\* COMMIT adds exactly the table that was drafted.
LEMMA CommitsWhole ==
  ASSUME SetUpTypes, Drafted, WholeOrNothing, CommitAdd, UNCHANGED sourceVars
  PROVE  WholeOrNothing' /\ Named(catalog') = Named(catalog) \union {adding}
<1>1. /\ step = "indexed" /\ step' = "idle"
      /\ catalog' = draft /\ committed' = session
      /\ log' = log /\ history' = history
  BY DEF CommitAdd, sourceVars
<1>2. PICK id \in Nat :
        draft.tables = catalog.tables \union
          {[table_id |-> id, name |-> adding, start_position |-> start]}
  BY <1>1 DEF Drafted, Adds
<1>3. /\ adding \in Added /\ adding \notin Named(catalog)
      /\ draft.relations = catalog.relations \union {adding} \union Indexes[adding]
      /\ \A n \in Added \ {adding} : session.data[n] = committed.data[n]
      /\ CopiedAtMoment(adding, session.data[adding], start)
  BY <1>1 DEF Drafted, Adds
<1>4. Named(catalog') = Named(catalog) \union {adding}
  <2> DEFINE new == [table_id |-> id, name |-> adding, start_position |-> start]
  <2>1. catalog'.tables = catalog.tables \union {new} /\ new.name = adding
    BY <1>1, <1>2
  <2> HIDE DEF new
  <2>2. QED BY <2>1 DEF Named
<1>5. RelationsWhole'
  <2>1. UNION {Indexes[n] : n \in Named(catalog) \union {adding}}
          = (UNION {Indexes[n] : n \in Named(catalog)}) \union Indexes[adding]
    BY UnionWith
  <2>2. RelationsWhole
    BY WholeParts
  <2>3. QED BY <1>1, <1>3, <1>4, <2>1, <2>2 DEF RelationsWhole
<1>6. TablesWhole
  BY <1>1, WholeParts DEF SetUpOver
<1>7. TablesWhole'
  <2> SUFFICES ASSUME NEW n \in Added
               PROVE  IF n \in Named(catalog')
                      THEN \E row \in catalog'.tables :
                             /\ row.name = n
                             /\ CopiedAtMoment(n, committed.data[n], row.start_position)'
                      ELSE committed'.data[n] = [k \in Keys |-> None]
    BY DEF TablesWhole, Named
  <2>1. CASE n = adding
    <3>1. PICK row \in catalog'.tables : row.name = n /\ row.start_position = start'
      <4> DEFINE new == [table_id |-> id, name |-> adding, start_position |-> start]
      <4>1. new.name = n /\ new.start_position = start'
        BY <2>1 DEF CommitAdd
      <4>2. new \in catalog'.tables
        BY <1>1, <1>2
      <4> HIDE DEF new
      <4>3. QED BY <4>1, <4>2
    <3>2. CopiedAtMoment(n, committed.data[n], start)'
      BY <1>1, <1>3, <2>1 DEF CopiedAtMoment, Quiet, CommitAdd
    <3>3. CopiedAtMoment(n, committed.data[n], row.start_position)'
      BY <3>1, <3>2 DEF CopiedAtMoment
    <3>4. QED BY <1>4, <2>1, <3>1, <3>3
  <2>2. CASE n # adding
    <3>1. committed'.data[n] = committed.data[n] /\ (n \in Named(catalog') <=> n \in Named(catalog))
      BY <1>1, <1>3, <1>4, <2>2
    <3>2. CASE n \in Named(catalog)
      <4>1. PICK row \in catalog.tables :
              row.name = n /\ CopiedAtMoment(n, committed.data[n], row.start_position)
        BY <1>6, <3>2 DEF TablesWhole
      <4>2. row \in catalog'.tables
        BY <1>1, <1>2
      <4>3. CopiedAtMoment(n, committed.data[n], row.start_position)'
        BY <1>1, <3>1, <4>1 DEF CopiedAtMoment, Quiet
      <4>4. QED BY <3>1, <3>2, <4>1, <4>2, <4>3
    <3>3. CASE n \notin Named(catalog)
      BY <1>6, <3>1, <3>3 DEF TablesWhole
    <3>4. QED BY <3>2, <3>3
  <2>3. QED BY <2>1, <2>2
<1>8. QED BY <1>4, <1>5, <1>7, WholePartsNext

-----------------------------------------------------------------------------
\* The source never changes what was: its past moments stay quiet and what they were.
LEMMA PastKept ==
  ASSUME SourceTypeOK, FilesOfLog, SourceNext
  PROVE  /\ Len(log) \in Nat /\ Len(log') \in Nat /\ Len(log) <= Len(log')
         /\ \A i \in 0..Len(log) : Quiet(i) => Quiet(i)' /\ history'[i + 1] = history[i + 1]
<1>1. CASE RestartServer
  BY <1>1 DEF RestartServer, SourceTypeOK, Quiet
<1>2. CASE Appends
  <2>1. PICK e \in Event, c \in Content :
          log' = Append(log, e) /\ history' = Append(history, c)
    BY <1>2 DEF Appends
  <2>2. /\ Len(log') = Len(log) + 1 /\ Len(log) \in Nat
        /\ \A i \in 1..Len(log) : log'[i] = log[i]
    BY <2>1, Appended DEF SourceTypeOK
  <2>3. /\ Len(history) = Len(log) + 1
        /\ \A i \in 1..Len(history) : history'[i] = history[i]
    BY <2>1, Appended DEF SourceTypeOK
  <2>4. ASSUME NEW i \in 0..Len(log), Quiet(i)
        PROVE  Quiet(i)' /\ history'[i + 1] = history[i + 1]
    <3>1. i + 1 \in 1..Len(history)
      BY <2>2, <2>3
    <3>2. i > 0 => log'[i] = log[i]
      BY <2>2
    <3>3. QED BY <2>3, <2>4, <3>1, <3>2 DEF Quiet
  <2>5. QED BY <2>2, <2>4
<1>3. QED BY <1>1, <1>2, SourceStep

LEMMA MomentKept ==
  ASSUME SourceTypeOK, FilesOfLog, SourceNext,
         NEW n, NEW rows, NEW from, CopiedAtMoment(n, rows, from)
  PROVE  \E i \in 0..Len(log') :
           from <= i /\ Quiet(i)' /\ rows = history'[i + 1][<<Database, n>>]
<1>1. PICK i \in 0..Len(log) :
        from <= i /\ Quiet(i) /\ rows = history[i + 1][<<Database, n>>]
  BY DEF CopiedAtMoment
<1>2. i \in 0..Len(log')
  BY PastKept
<1>3. QED BY <1>1, <1>2, PastKept

LEMMA SourceKeepsSetUp ==
  ASSUME SetUpInv, SourceMoves
  PROVE  SetUpInv'
<1>1. /\ SourceTypeOK /\ FilesOfLog /\ SourceNext /\ TypeInv /\ SetUpTypeOK
      /\ UNCHANGED <<replicatorVars, setUpVars>>
  BY DEF SetUpInv, SetUpTypes, TypeInv, TypeOK, SourceMoves
<1>2. SetUpTypes'
  <2>1. TypeInv'
    BY <1>1, SourceKeepsTypes
  <2>2. SetUpTypeOK'
    BY <1>1 DEF SetUpTypeOK, setUpVars
  <2>3. QED BY <2>1, <2>2 DEF SetUpTypes
<1>3. /\ UNCHANGED <<step, adding, start, tables, catalog, draft>>
      /\ UNCHANGED <<session, committed>>
  BY <1>1 DEF replicatorVars, setUpVars
<1>4. Drafted'
  <2>1. step \in {"copied", "indexed"} =>
          \E i \in 0..Len(log') :
            /\ start <= i /\ Quiet(i)'
            /\ session.data[adding] = history'[i + 1][<<Database, adding>>]
    BY <1>1, MomentKept DEF SetUpInv, Drafted
  <2>2. step = "positioned" \/ Adds => start <= Len(log')
    BY <1>1, PastKept DEF SetUpInv, Drafted, SetUpTypeOK
  <2>3. QED BY <1>3, <2>1, <2>2 DEF SetUpInv, Drafted, Adds, SetUpOver, CopiedAtMoment, Named
<1>5. WholeOrNothing'
  <2>1. RelationsWhole'
    BY <1>3, WholeParts DEF SetUpInv, RelationsWhole, Named
  <2>2. ASSUME ~SetUpOver' PROVE TablesWhole'
    <3>1. TablesWhole
      BY <1>3, <2>2, WholeParts DEF SetUpInv, SetUpOver
    <3>2. ASSUME NEW n \in Added, n \in Named(catalog)
          PROVE  \E row \in catalog.tables :
                   row.name = n /\ CopiedAtMoment(n, committed.data[n], row.start_position)'
      <4>1. PICK row \in catalog.tables :
              row.name = n /\ CopiedAtMoment(n, committed.data[n], row.start_position)
        BY <3>1, <3>2 DEF TablesWhole
      <4>2. \E i \in 0..Len(log') :
              /\ row.start_position <= i /\ Quiet(i)'
              /\ committed.data[n] = history'[i + 1][<<Database, n>>]
        BY <1>1, <4>1, MomentKept
      <4>3. QED BY <1>3, <4>1, <4>2 DEF CopiedAtMoment
    <3>3. QED BY <1>3, <3>1, <3>2 DEF TablesWhole, Named
  <2>3. QED BY <2>1, <2>2, WholePartsNext
<1>6. TablesKnown'
  BY <1>3 DEF SetUpInv, TablesKnown, Named
<1>7. QED BY <1>2, <1>4, <1>5, <1>6 DEF SetUpInv

-----------------------------------------------------------------------------
LEMMA RefuseKeeps ==
  ASSUME SetUpInv, NEW why, Refuse(why), ~SetUpOver, UNCHANGED sourceVars
  PROVE  Drafted' /\ WholeOrNothing' /\ TablesKnown'
<1>1. /\ step' = "idle" /\ draft' = catalog /\ catalog' = catalog
      /\ session' = committed /\ committed' = committed /\ tables' = tables
      /\ log' = log /\ history' = history
  BY DEF Refuse, sourceVars
<1>2. Drafted'
  BY <1>1 DEF Drafted, Adds
<1>3. WholeOrNothing'
  BY <1>1, NothingCommitted DEF SetUpInv
<1>4. TablesKnown'
  BY <1>1 DEF SetUpInv, TablesKnown, Named
<1>5. QED BY <1>2, <1>3, <1>4

\* Every step of the set-up but CommitAdd leaves what is committed of the tables.
LEMMA SetUpKeeps ==
  ASSUME SetUpInv, SetUp, UNCHANGED sourceVars
  PROVE  Drafted' /\ WholeOrNothing' /\ TablesKnown'
<1>1. /\ Drafted /\ WholeOrNothing /\ TablesKnown /\ SetUpTypes
      /\ log' = log /\ history' = history /\ Len(log) \in Nat
      /\ session \in Target /\ committed \in Target /\ draft \in Catalog
  BY DEF SetUpInv, sourceVars, SetUpTypes, TypeInv, TypeOK, SourceTypeOK, SetUpTypeOK
<1>2. CASE CreateNew
  <2>1. /\ step = "none" /\ step' = "idle" /\ draft' = draft /\ catalog' = catalog
        /\ session' = committed' /\ committed'.data = committed.data /\ tables' = tables
    BY <1>1, <1>2 DEF CreateNew, Target
  <2>2. QED BY <1>1, <2>1, NothingCommitted DEF Drafted, Adds, SetUpOver, TablesKnown, Named
<1>3. CASE CreateOther
  <2>1. /\ UNCHANGED <<step, adding, start, tables, catalog, draft, session, committed>>
    BY <1>3 DEF CreateOther, replicatorVars
  <2>2. Drafted'
    BY <1>1, <2>1 DEF Drafted, Adds, SetUpOver, CopiedAtMoment, Quiet, Named
  <2>3. QED BY <1>1, <2>1, <2>2, NothingCommitted DEF SetUpOver, TablesKnown, Named
<1>4. ASSUME NEW n \in Added, LockTable(n) PROVE Drafted' /\ WholeOrNothing' /\ TablesKnown'
  <2>1. /\ step = "idle" /\ step' = "locked" /\ adding' = n
        /\ UNCHANGED <<tables, catalog, draft, session, committed>>
    BY <1>4 DEF LockTable, replicatorVars
  <2>2. QED BY <1>1, <2>1, NothingCommitted DEF Drafted, Adds, SetUpOver, TablesKnown, Named
<1>5. CASE ReadPosition
  <2>1. /\ step = "locked" /\ step' = "positioned" /\ start' = Len(log)
        /\ UNCHANGED <<adding, tables, catalog, draft, session, committed>>
    BY <1>5 DEF ReadPosition, replicatorVars
  <2>2. QED BY <1>1, <2>1, NothingCommitted DEF Drafted, Adds, SetUpOver, TablesKnown, Named
<1>6. CASE RecordTable
  <2>1. /\ step = "positioned" /\ step' = "recorded"
        /\ UNCHANGED <<adding, start, tables, catalog, session, committed>>
        /\ draft' =
             [tables |-> draft.tables \union
                {[table_id |-> lastid + 1, name |-> adding, start_position |-> start]},
              relations |-> draft.relations \union {adding}]
    BY <1>6 DEF RecordTable
  <2>2. adding \notin Named(catalog) /\ lastid + 1 \in Nat
    BY <1>1, <1>6 DEF RecordTable, TableRefusal, SetUpTypes, SetUpTypeOK
  <2>3. draft = catalog /\ session = committed /\ adding \in Added /\ start <= Len(log)
    BY <1>1, <2>1 DEF Drafted, Adds, SetUpOver
  <2>4. \E id \in Nat :
          draft'.tables = catalog'.tables \union
            {[table_id |-> id, name |-> adding', start_position |-> start']}
    BY <2>1, <2>2, <2>3
  <2>5. Drafted'
    BY <1>1, <2>1, <2>2, <2>3, <2>4 DEF Drafted, Adds, SetUpOver, Named
  <2>6. QED BY <1>1, <2>1, <2>5, NothingCommitted DEF SetUpOver, TablesKnown, Named
<1>7. CASE RecordTableFails
  BY <1>7, RefuseKeeps DEF RecordTableFails, SetUpOver
<1>8. CASE CopyTableContent
  <2>1. /\ step = "recorded" /\ step' = "copied" /\ Idle
        /\ UNCHANGED <<adding, start, tables, catalog, draft, committed>>
        /\ session' = [session EXCEPT !.data[adding] = Current[<<Database, adding>>]]
    BY <1>8 DEF CopyTableContent
  <2>2. adding \in Added /\ start <= Len(log)
    BY <1>1, <2>1 DEF Drafted, Adds
  <2>3. /\ session'.data[adding] = history[Len(log) + 1][<<Database, adding>>]
        /\ \A n \in Added \ {adding} : session'.data[n] = session.data[n]
    BY <1>1, <2>1, <2>2 DEF Target, Current
  <2>4. CopiedAtMoment(adding, session.data[adding], start)'
    BY <1>1, <2>1, <2>2, <2>3 DEF CopiedAtMoment, Idle, Quiet
  <2>5. Drafted'
    BY <1>1, <2>1, <2>3, <2>4 DEF Drafted, Adds, SetUpOver, Named
  <2>6. QED BY <1>1, <2>1, <2>5, NothingCommitted DEF SetUpOver, TablesKnown, Named
<1>9. CASE CopyIndexes
  <2>1. /\ step = "copied" /\ step' = "indexed"
        /\ UNCHANGED <<adding, start, tables, catalog, session, committed>>
        /\ draft'.tables = draft.tables
        /\ draft'.relations = draft.relations \union Indexes[adding]
    BY <1>1, <1>9 DEF CopyIndexes, replicatorVars, Catalog
  <2>2. CopiedAtMoment(adding, session.data[adding], start)'
    BY <1>1, <2>1 DEF Drafted, CopiedAtMoment, Quiet
  <2>3. draft'.relations = catalog'.relations \union {adding'} \union Indexes[adding']
    BY <1>1, <2>1 DEF Drafted, Adds
  <2>4. Drafted'
    BY <1>1, <2>1, <2>2, <2>3 DEF Drafted, Adds, SetUpOver, Named
  <2>5. QED BY <1>1, <2>1, <2>4, NothingCommitted DEF SetUpOver, TablesKnown, Named
<1>10. CASE CopyIndexesFails
  BY <1>10, RefuseKeeps DEF CopyIndexesFails, SetUpOver
<1>11. CASE CommitAdd
  <2>1. /\ step' = "idle" /\ catalog' = draft /\ draft' = draft
        /\ committed' = session /\ session' = session /\ tables' = tables \union {adding}
    BY <1>11 DEF CommitAdd
  <2>2. WholeOrNothing' /\ Named(catalog') = Named(catalog) \union {adding}
    BY <1>1, <1>11, CommitsWhole
  <2>3. Drafted'
    BY <2>1 DEF Drafted, Adds
  <2>4. TablesKnown'
    BY <1>1, <2>1, <2>2 DEF TablesKnown, Named
  <2>5. QED BY <2>2, <2>3, <2>4
<1>12. CASE SetUpCrash
  <2>1. /\ step' = "idle" /\ draft' = catalog /\ catalog' = catalog /\ ~SetUpOver
        /\ session' = committed /\ committed' = committed /\ tables' = Named(catalog)
    BY <1>12 DEF SetUpCrash, SetUpOver
  <2>2. QED BY <1>1, <2>1, NothingCommitted DEF Drafted, Adds, TablesKnown, Named
<1>13. CASE BeginReplication
  <2>1. /\ step = "idle" /\ step' = "replicating"
        /\ UNCHANGED <<tables, catalog, draft, session, committed>>
    BY <1>13 DEF BeginReplication, replicatorVars
  <2>2. QED BY <1>1, <2>1, NothingCommitted DEF Drafted, Adds, SetUpOver, TablesKnown, Named
<1>14. QED
  BY <1>2, <1>3, <1>4, <1>5, <1>6, <1>7, <1>8, <1>9, <1>10, <1>11, <1>12, <1>13 DEF SetUp

\* Replication leaves the catalog alone.
LEMMA ReplicationKeepsSetUp ==
  ASSUME SetUpInv, Replicates
  PROVE  SetUpInv'
<1>1. /\ step = "replicating" /\ Replicator
      /\ UNCHANGED <<sourceVars, step, adding, start, tables, sources, lastid, catalog,
                     draft, refused>>
  BY DEF Replicates, SetUpOver, setUpVars
<1>2. SetUpTypes'
  BY <1>1, ReplicatorKeepsTypes DEF SetUpInv, SetUpTypes, SetUpTypeOK
<1>3. Drafted'
  BY <1>1 DEF SetUpInv, Drafted, Adds, SetUpOver
<1>4. WholeOrNothing'
  <2>1. RelationsWhole'
    BY <1>1, WholeParts DEF SetUpInv, RelationsWhole, Named
  <2>2. QED BY <1>1, <2>1, WholePartsNext DEF SetUpOver
<1>5. TablesKnown'
  BY <1>1 DEF SetUpInv, TablesKnown, Named
<1>6. QED BY <1>2, <1>3, <1>4, <1>5 DEF SetUpInv

-----------------------------------------------------------------------------
LEMMA SetUpInitInv == SetUpInit => SetUpInv
<1> SUFFICES ASSUME SetUpInit PROVE SetUpInv
  OBVIOUS
<1>1. PICK c \in Content : history = <<c>>
  BY SourceAssumption DEF SetUpInit, SourceInit
<1>2. /\ log \in Seq(Event) /\ Len(log) = 0
      /\ starts \in Seq(Nat) /\ Len(starts) = 1 /\ starts[1] = 0
      /\ history \in Seq(Content) /\ Len(history) = 1 /\ mapped = {}
  BY <1>1 DEF SetUpInit, SourceInit
<1>3. SourceTypeOK /\ FilesOfLog
  BY <1>2 DEF SourceTypeOK, FilesOfLog
<1>4. committed \in Target /\ session = committed /\ committed.file = 1
  BY DEF SetUpInit, Target
<1>5. TypeOK
  BY <1>3, <1>4 DEF SetUpInit, TypeOK, Failures
<1>6. TypeInv
  BY <1>2, <1>3, <1>4, <1>5 DEF SetUpInit, FilesOfReplicator, InHand, TypeInv
<1>7. /\ step = "none" /\ tables = {} /\ draft = catalog /\ session = committed
      /\ catalog.tables = {} /\ catalog.relations = {}
  BY DEF SetUpInit
<1>8. Named(catalog) = {}
  BY <1>7 DEF Named
<1>9. SetUpTypeOK
  BY DEF SetUpInit, SetUpTypeOK, Catalog, Refusals
<1>10. Drafted
  BY <1>7 DEF Drafted, Adds
<1>11. WholeOrNothing
  <2>1. RelationsWhole
    BY <1>7, <1>8 DEF RelationsWhole
  <2>2. \A n \in Added : committed.data[n] = [k \in Keys |-> None]
    BY DEF SetUpInit
  <2>3. TablesWhole
    BY <1>8, <2>2 DEF TablesWhole
  <2>4. QED BY <2>1, <2>3, WholeParts
<1>12. QED BY <1>6, <1>7, <1>8, <1>9, <1>10, <1>11 DEF SetUpInv, SetUpTypes, TablesKnown

LEMMA SetUpInvStep ==
  ASSUME SetUpInv, [SetUpNext]_allVars
  PROVE  SetUpInv'
<1>1. CASE SetUp /\ UNCHANGED sourceVars
  BY <1>1, SetUpTypesStep, SetUpKeeps DEF SetUpInv
<1>2. CASE SourceMoves
  BY <1>2, SourceKeepsSetUp
<1>3. CASE Replicates
  BY <1>3, ReplicationKeepsSetUp
<1>4. CASE UNCHANGED allVars
  <2>1. UNCHANGED <<sourceVars, replicatorVars, setUpVars>>
    BY <1>4 DEF allVars, vars
  <2>2. TypeInv'
    BY <2>1, ReplicatorUnchanged DEF SetUpInv, SetUpTypes
  <2>3. /\ UNCHANGED <<step, adding, start, tables, sources, lastid, catalog, draft, refused>>
        /\ UNCHANGED <<session, committed>> /\ UNCHANGED <<log, history>>
    BY <2>1 DEF sourceVars, replicatorVars, setUpVars
  <2>4. SetUpTypeOK'
    BY <2>3 DEF SetUpInv, SetUpTypes, SetUpTypeOK
  <2>5. Drafted'
    BY <2>3 DEF SetUpInv, Drafted, Adds, SetUpOver, CopiedAtMoment, Quiet, Named
  <2>6. WholeOrNothing'
    BY <2>3, NothingCommitted DEF SetUpInv, SetUpOver
  <2>7. TablesKnown'
    BY <2>3 DEF SetUpInv, TablesKnown, Named
  <2>8. QED BY <2>2, <2>4, <2>5, <2>6, <2>7 DEF SetUpInv, SetUpTypes
<1>5. QED BY <1>1, <1>2, <1>3, <1>4 DEF SetUpNext

(* What addTable has drafted, committed and remembered, in every reachable state.  *)
THEOREM SetUpCorrect == SetUpSpec => []SetUpInv
<1>1. SetUpInit => SetUpInv
  BY SetUpInitInv
<1>2. SetUpInv /\ [SetUpNext]_allVars => SetUpInv'
  BY SetUpInvStep
<1>3. QED BY <1>1, <1>2, PTL DEF SetUpSpec

(* The type invariant the runs of the set-up check. *)
COROLLARY SetUpTyped == SetUpSpec => []SetUpTypeOK
<1>1. SetUpInv => SetUpTypeOK
  BY DEF SetUpInv, SetUpTypes
<1>2. QED BY <1>1, SetUpCorrect, PTL

(* A table reaches the target as a whole or not at all, however many of its        *)
(* statements were sent when addTable failed or its process died.                  *)
COROLLARY AddedWhole == SetUpSpec => []WholeOrNothing
<1>1. SetUpInv => WholeOrNothing
  BY DEF SetUpInv
<1>2. QED BY <1>1, SetUpCorrect, PTL

(* The process remembers exactly the tables a new process would read back, so the  *)
(* events it skips are those of tables the target does not have.                   *)
COROLLARY Remembered == SetUpSpec => []TablesKnown
<1>1. SetUpInv => TablesKnown
  BY DEF SetUpInv
<1>2. QED BY <1>1, SetUpCorrect, PTL
=============================================================================
