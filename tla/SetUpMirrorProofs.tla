--------------------------- MODULE SetUpMirrorProofs ---------------------------
(***************************************************************************)
(* A source whose tables rest while they are added is mirrored from the    *)
(* first event on, although each table was copied at a moment of its own   *)
(* and createNew read the position before all of them: for every set of    *)
(* tables, every order in which they are added, and any number of refused  *)
(* and killed attempts at it.                                              *)
(***************************************************************************)
EXTENDS AddTableProofs, MirrorProofs

\* The rows of table n have been what they are since event h.
Rested(n, h) ==
  \A i \in h..Len(log) : history[i + 1][<<Database, n>>] = history[h + 1][<<Database, n>>]

\* No process replicates yet, and only addTable's transaction can be open.
Unstarted ==
  /\ pc = "down" /\ cur = NoEvent
  /\ intx = FALSE /\ failure = "none"
  /\ ~Adds => pgtx = FALSE

(* The position createNew has read stays that of the next event to apply, since     *)
(* no statement of addTable touches it, and each table that was copied since then   *)
(* holds what it held there, since nothing has written it.                          *)
Registered ==
  IF step = "none" THEN Named(catalog) = {}
  ELSE
    /\ applied <= Len(log) /\ Quiet(applied)
    /\ NextIn(committed.file, applied) /\ Resumes(committed, applied)
    /\ session.file = committed.file /\ session.pos = committed.pos
    /\ \A n \in Added : <<Database, n>> \notin mapped /\ Rested(n, applied)
    /\ \A n \in Named(catalog) :
         committed.data[n] = history[applied + 1][<<Database, n>>]
    /\ step \in {"copied", "indexed"} =>
         session.data[adding] = history[applied + 1][<<Database, adding>>]

SetUpMirrorInv ==
  /\ SetUpInv /\ Bracket /\ PlainLog
  /\ IF SetUpOver THEN InStep /\ Following ELSE Unstarted /\ Registered

-----------------------------------------------------------------------------
\* An event changes the rows of no table that its statement has not mapped.
LEMMA OthersRest ==
  ASSUME SourceTypeOK, SourceNext, NEW t \in Tables, t \notin mapped
  PROVE  \/ log' = log /\ history' = history
         \/ \E c \in Content : /\ \E e : log' = Append(log, e)
                              /\ history' = Append(history, c)
                              /\ c[t] = Current[t]
<1> DEFINE Rests == \E c \in Content : /\ \E e : log' = Append(log, e)
                                     /\ history' = Append(history, c)
                                     /\ c[t] = Current[t]
<1>1. Current \in Content
  BY CurrentType
<1>2. ASSUME NEW e, Write(e, Current) PROVE Rests
  BY <1>1, <1>2 DEF Write
<1>3. ASSUME NEW m \in mapped, NEW type, NEW x \in Image, NEW y \in Image,
             WriteRows(m, type, x, y)
      PROVE  Rests
  <2> DEFINE c == Changed(Current, type, m, x, y)
             e == [type |-> type, table |-> m, before |-> x, after |-> y,
                   next_event_pos |-> NextEventPos]
  <2>1. m \in Tables /\ m # t
    BY DEF SourceTypeOK
  <2>2. c \in Content
    BY <1>1, <2>1, ChangedType
  <2>3. c[t] = Current[t]
    BY <1>1, <2>1 DEF Changed, Content
  <2>4. log' = Append(log, e) /\ history' = Append(history, c)
    BY <1>3 DEF WriteRows, Write
  <2> HIDE DEF c, e
  <2>5. QED BY <2>2, <2>3, <2>4
<1>4. CASE ChangeRow
  <2>1. PICK m \in mapped, k \in Keys :
          \/ \E v \in Vals : InsertSource(m, k, v)
          \/ \E newkey \in Keys, v \in Vals : UpdateSource(m, k, newkey, v)
          \/ DeleteSource(m, k)
    BY <1>4 DEF ChangeRow
  <2>2. Current[m][k] \in Vals \union {None}
    BY <1>1 DEF SourceTypeOK, Content
  <2>3. ASSUME NEW v \in Vals, InsertSource(m, k, v) PROVE Rests
    <3>1. [key |-> k, val |-> v] \in Image
      BY DEF Image
    <3>2. QED BY <1>3, <2>3, <3>1 DEF InsertSource
  <2>4. ASSUME NEW newkey \in Keys, NEW v \in Vals, UpdateSource(m, k, newkey, v) PROVE Rests
    <3>1. [key |-> k, val |-> Current[m][k]] \in Image /\ [key |-> newkey, val |-> v] \in Image
      BY <2>2, <2>4 DEF Image, UpdateSource
    <3>2. QED BY <1>3, <2>4, <3>1 DEF UpdateSource
  <2>5. ASSUME DeleteSource(m, k) PROVE Rests
    <3>1. [key |-> k, val |-> Current[m][k]] \in Image
      BY <2>2, <2>5 DEF Image, DeleteSource
    <3>2. QED BY <1>3, <2>5, <3>1 DEF DeleteSource
  <2>6. QED BY <2>1, <2>3, <2>4, <2>5
<1>5. CASE RestartServer
  BY <1>5 DEF RestartServer
<1>6. CASE \E standalone \in BOOLEAN : BeginGroup(standalone)
  BY <1>2, <1>6 DEF BeginGroup
<1>7. CASE \E m \in Tables : MapTable(m)
  BY <1>2, <1>7 DEF MapTable
<1>8. CASE \E type \in {"xid", "query"} : EndGroup(type)
  BY <1>2, <1>8 DEF EndGroup
<1>9. CASE DdlQuery \/ RotateLog \/ StopServer
  BY <1>2, <1>9 DEF DdlQuery, RotateLog, StopServer
<1>10. QED
  BY <1>4, <1>5, <1>6, <1>7, <1>8, <1>9 DEF SourceNext

\* The rows of a table that is not mapped go on resting.
LEMMA RestsOn ==
  ASSUME SourceTypeOK, SourceNext, NEW n \in Added, <<Database, n>> \notin mapped,
         NEW h \in 0..Len(log), Rested(n, h)
  PROVE  Rested(n, h)'
<1> DEFINE t == <<Database, n>>
<1>1. /\ Len(log) \in Nat /\ Len(history) = Len(log) + 1 /\ t \in Tables
      /\ history \in Seq(Content) /\ log \in Seq(Event)
  BY ReplicatorAssumption DEF SourceTypeOK
<1>2. CASE log' = log /\ history' = history
  BY <1>2 DEF Rested
<1>3. CASE \E c \in Content : /\ \E e : log' = Append(log, e)
                             /\ history' = Append(history, c)
                             /\ c[t] = Current[t]
  <2>1. PICK c \in Content : /\ \E e : log' = Append(log, e)
                            /\ history' = Append(history, c)
                            /\ c[t] = Current[t]
    BY <1>3
  <2>2. Len(log') = Len(log) + 1
    BY <1>1, <2>1
  <2>3. /\ history'[Len(log) + 2] = c
        /\ \A i \in 1..Len(history) : history'[i] = history[i]
    BY <1>1, <2>1, Appended
  <2>4. Current[t] = history[h + 1][t]
    <3>1. Len(log) \in h..Len(log)
      BY <1>1
    <3>2. QED BY <3>1 DEF Rested, Current
  <2>5. ASSUME NEW i \in h..Len(log') PROVE history'[i + 1][t] = history'[h + 1][t]
    <3>1. h + 1 \in 1..Len(history) /\ history'[h + 1] = history[h + 1]
      BY <1>1, <2>3
    <3>2. CASE i \in h..Len(log)
      <4>1. i + 1 \in 1..Len(history)
        BY <1>1, <3>2
      <4>2. history[i + 1][t] = history[h + 1][t]
        BY <3>2 DEF Rested
      <4>3. QED BY <2>3, <3>1, <4>1, <4>2
    <3>3. CASE i = Len(log) + 1
      <4>1. i + 1 = Len(log) + 2
        BY <1>1, <3>3
      <4>2. QED BY <2>1, <2>3, <2>4, <3>1, <4>1
    <3>4. QED BY <1>1, <2>2, <3>2, <3>3
  <2>6. QED BY <2>5 DEF Rested
<1>4. QED BY <1>1, <1>2, <1>3, OthersRest

-----------------------------------------------------------------------------
LEMMA SetUpMirrorInit == ASSUME SetUpInit PROVE SetUpMirrorInv
<1>1. SetUpInv /\ step = "none" /\ Named(catalog) = {}
  BY SetUpInitInv DEF SetUpInit, Named
<1>2. /\ Len(log) = 0 /\ starts = <<0>> /\ mapped = {}
  BY DEF SetUpInit, SourceInit
<1>3. PlainFiles
  BY <1>2 DEF PlainFiles
<1>4. PlainLog
  BY <1>2, <1>3 DEF PlainLog
<1>5. Unstarted /\ Bracket
  BY DEF SetUpInit, Unstarted, Bracket
<1>6. Registered
  BY <1>1 DEF Registered
<1>7. QED BY <1>1, <1>4, <1>5, <1>6 DEF SetUpMirrorInv, SetUpOver

\* What the invariant says while tables are added.
LEMMA BeforeReplication ==
  ASSUME SetUpMirrorInv, ~SetUpOver
  PROVE  /\ TypeInv /\ SetUpTypeOK /\ Drafted /\ TablesKnown /\ WholeOrNothing
         /\ SetUpTypes /\ PlainLog /\ Unstarted /\ Registered
         /\ SourceTypeOK /\ FilesOfLog
         /\ Len(log) \in Nat /\ Len(starts) \in Nat /\ Len(starts) > 0 /\ applied \in Nat
         /\ step # "none" => applied \in 0..Len(log)
         /\ committed \in Target /\ session \in Target /\ Named(catalog) \subseteq Added
<1>1. /\ TypeInv /\ SetUpTypeOK /\ Drafted /\ TablesKnown /\ WholeOrNothing /\ SetUpTypes
      /\ PlainLog /\ Unstarted /\ Registered
  BY DEF SetUpMirrorInv, SetUpInv, SetUpTypes
<1>2. Len(log) \in Nat /\ Len(starts) \in Nat /\ Len(starts) > 0 /\ applied \in Nat
  BY <1>1, Numbers
<1>3. /\ SourceTypeOK /\ FilesOfLog /\ committed \in Target /\ session \in Target
  BY <1>1 DEF TypeInv, TypeOK
<1>4. Named(catalog) \subseteq Added
  BY <1>1, NamedTables DEF SetUpTypeOK
<1>5. step # "none" => applied \in 0..Len(log)
  BY <1>1, <1>2 DEF Registered
<1>6. QED BY <1>1, <1>2, <1>3, <1>4, <1>5

LEMMA SourceKeepsRegistered ==
  ASSUME PlainWorkload, ReadOnly, SetUpMirrorInv, ~SetUpOver, SourceMoves
  PROVE  PlainLog' /\ Unstarted' /\ Registered'
<1>1. /\ TypeInv /\ Unstarted /\ Registered /\ SourceTypeOK /\ FilesOfLog /\ PlainLog
      /\ Len(log) \in Nat /\ Len(starts) \in Nat
      /\ committed \in Target /\ session \in Target /\ Named(catalog) \subseteq Added
      /\ step # "none" => applied \in 0..Len(log)
  BY BeforeReplication
<1>2. /\ SourceNext /\ UNCHANGED replicatorVars /\ UNCHANGED setUpVars
      /\ \A t \in mapped' \ mapped : Writable(t)
  BY DEF SourceMoves
<1>3. PlainLog' /\ KeepsPast
  BY <1>1, <1>2, PlainSourceStep
<1>4. SourceTypeOK' /\ Len(log') \in Nat
  BY <1>1, <1>2, SourceTypeStep DEF SourceTypeOK
<1>5. /\ UNCHANGED <<pc, cur, intx, failure, pgtx, session, committed, applied>>
      /\ UNCHANGED <<step, adding, catalog>>
  BY <1>2 DEF replicatorVars, setUpVars
<1>6. Unstarted'
  BY <1>1, <1>5 DEF Unstarted, Adds
<1>7. CASE step = "none"
  BY <1>1, <1>3, <1>5, <1>6, <1>7 DEF Registered, Named
<1>8. CASE step # "none"
  <2>1. /\ applied <= Len(log) /\ Quiet(applied)
        /\ NextIn(committed.file, applied) /\ Resumes(committed, applied)
        /\ session.file = committed.file /\ session.pos = committed.pos
        /\ \A n \in Added : <<Database, n>> \notin mapped /\ Rested(n, applied)
        /\ \A n \in Named(catalog) :
             committed.data[n] = history[applied + 1][<<Database, n>>]
        /\ step \in {"copied", "indexed"} =>
             session.data[adding] = history[applied + 1][<<Database, adding>>]
    BY <1>1, <1>8 DEF Registered
  <2>2. PICK a \in 0..Len(log) : a = applied
    BY <1>1, <1>8
  <2>3. PICK f \in 1..Len(starts) : f = committed.file
    BY <2>1 DEF NextIn
  <2>4. /\ Quiet(a)' <=> Quiet(a)
        /\ history'[a + 1] = history[a + 1]
        /\ NextIn(f, a)' <=> NextIn(f, a)
    BY <1>1, <1>3, <1>4, PastReadAlike
  <2>5. applied' <= Len(log') /\ Quiet(applied)' /\ NextIn(committed.file, applied)'
    <3>1. Len(log) <= Len(log')
      BY <1>3 DEF KeepsPast
    <3>2. QED BY <1>1, <1>4, <1>5, <2>1, <2>2, <2>3, <2>4, <3>1 DEF Quiet, NextIn
  <2>6. Resumes(committed, applied)'
    <3>1. starts'[f] = starts[f]
      BY <1>3 DEF KeepsPast
    <3>2. QED BY <1>5, <2>1, <2>3, <3>1 DEF Resumes
  <2>7. ASSUME NEW n \in Added PROVE <<Database, n>> \notin mapped' /\ Rested(n, applied)'
    <3>1. ~Writable(<<Database, n>>)
      BY <1>8 DEF Writable
    <3>2. <<Database, n>> \notin mapped'
      BY <1>2, <2>1, <3>1
    <3>3. Rested(n, a)'
      BY <1>1, <1>2, <2>1, <2>2, RestsOn
    <3>4. QED BY <1>5, <2>2, <3>2, <3>3 DEF Rested
  <2>8. Registered'
    BY <1>5, <1>8, <2>1, <2>2, <2>4, <2>5, <2>6, <2>7 DEF Registered, Named
  <2>9. QED BY <1>3, <1>6, <2>8
<1>9. QED BY <1>7, <1>8

-----------------------------------------------------------------------------
\* A step that commits nothing, and after which the table in hand is copied right.
LEMMA StaysRegistered ==
  ASSUME Registered, step # "none", step' # "none",
         UNCHANGED <<sourceVars, applied, committed, catalog>>,
         session'.file = committed.file, session'.pos = committed.pos,
         step' \in {"copied", "indexed"} =>
           session'.data[adding'] = history[applied + 1][<<Database, adding'>>]
  PROVE  Registered'
BY DEF Registered, Rested, Quiet, NextIn, Resumes, Named, sourceVars

LEMMA CreateNewRegisters ==
  ASSUME SetUpMirrorInv, ~SetUpOver, CreateNew, UNCHANGED sourceVars
  PROVE  Registered'
<1>1. /\ TypeInv /\ SourceTypeOK /\ PlainLog /\ Registered /\ step = "none"
      /\ Len(log) \in Nat /\ Len(starts) \in Nat /\ Len(starts) > 0
      /\ committed \in Target
  BY BeforeReplication DEF CreateNew
<1>2. /\ step' = "idle" /\ Idle /\ applied' = Len(log) /\ session' = committed'
      /\ committed' = [committed EXCEPT !.file = Len(starts),
                                        !.pos = Len(log) - starts[Len(starts)]]
      /\ log' = log /\ starts' = starts /\ history' = history /\ mapped' = mapped
      /\ catalog' = catalog
  BY DEF CreateNew, sourceVars
<1>3. committed'.file = Len(starts) /\ committed'.pos = Len(log) - starts[Len(starts)]
  BY <1>1, <1>2 DEF Target
<1>4. starts[Len(starts)] \in Nat /\ starts[Len(starts)] <= Len(log)
  BY <1>1, Numbers
<1>5. Quiet(applied)' /\ NextIn(committed.file, applied)' /\ Resumes(committed, applied)'
  BY <1>1, <1>2, <1>3, <1>4 DEF Idle, Quiet, NextIn, Resumes
<1>6. mapped = {}
  BY <1>1, <1>2 DEF Idle, Quiet, PlainLog
<1>7. \A n \in Added : Rested(n, applied)'
  BY <1>1, <1>2 DEF Rested
<1>8. Named(catalog') = {}
  BY <1>1, <1>2 DEF Registered
<1>9. \A n \in Named(catalog)' : committed'.data[n] = history'[applied' + 1][<<Database, n>>]
  BY <1>8 DEF Named
<1>10. step' # "none" /\ step' \notin {"copied", "indexed"} /\ applied' <= Len(log')
       /\ session'.file = committed'.file /\ session'.pos = committed'.pos
  BY <1>1, <1>2
<1>11. \A n \in Added : <<Database, n>> \notin mapped'
  BY <1>2, <1>6
<1>12. QED BY <1>5, <1>7, <1>9, <1>10, <1>11 DEF Registered

\* COMMIT adds the one table that was copied to those that were right already.
LEMMA CommitRegisters ==
  ASSUME SetUpMirrorInv, ~SetUpOver, CommitAdd, UNCHANGED sourceVars
  PROVE  Registered'
<1>1. /\ Drafted /\ Registered /\ step = "indexed" /\ step' = "idle"
      /\ Named(catalog) \subseteq Added /\ Adds
      /\ committed' = session /\ session' = session /\ applied' = applied
      /\ log' = log /\ starts' = starts /\ history' = history /\ mapped' = mapped
  BY BeforeReplication DEF CommitAdd, sourceVars, Adds
<1>2. Named(catalog') = Named(catalog) \union {adding}
  BY BeforeReplication, CommitsWhole
<1>3. /\ adding \notin Named(catalog)
      /\ \A n \in Added \ {adding} : session.data[n] = committed.data[n]
  BY <1>1 DEF Drafted
<1>4. \A n \in Named(catalog') : session.data[n] = history[applied + 1][<<Database, n>>]
  BY <1>1, <1>2, <1>3 DEF Registered
<1>5. QED
  BY <1>1, <1>4 DEF Registered, Rested, Quiet, NextIn, Resumes, Named

\* Every step of the set-up but the last keeps what was registered and copied.
LEMMA SetUpKeepsRegistered ==
  ASSUME SetUpMirrorInv, ~SetUpOver, SetUp, ~BeginReplication, UNCHANGED sourceVars
  PROVE  Unstarted' /\ Registered' /\ ~SetUpOver'
<1>1. /\ TypeInv /\ SetUpTypeOK /\ Drafted /\ Unstarted /\ Registered
      /\ SourceTypeOK /\ Len(log) \in Nat /\ committed \in Target /\ session \in Target
      /\ step # "none" => applied \in 0..Len(log)
  BY BeforeReplication
<1>2. step # "none" => session.file = committed.file /\ session.pos = committed.pos
  BY <1>1 DEF Registered
<1>3. CASE CreateNew
  <2>1. Unstarted' /\ ~SetUpOver'
    BY <1>1, <1>3 DEF CreateNew, Unstarted, Adds, SetUpOver, noProcess
  <2>2. QED BY <1>3, <2>1, CreateNewRegisters
<1>4. CASE CreateOther
  <2>1. /\ UNCHANGED <<pc, cur, intx, failure, pgtx, session, committed, applied>>
        /\ UNCHANGED <<step, adding, catalog>>
    BY <1>4 DEF CreateOther, replicatorVars
  <2>2. Unstarted' /\ ~SetUpOver'
    BY <1>1, <2>1 DEF Unstarted, Adds, SetUpOver
  <2>3. Registered'
    BY <1>1, <2>1 DEF Registered, Rested, Quiet, NextIn, Resumes, Named, sourceVars
  <2>4. QED BY <2>2, <2>3
<1>5. ASSUME NEW n \in Added, LockTable(n) PROVE Unstarted' /\ Registered' /\ ~SetUpOver'
  <2>1. /\ UNCHANGED <<pc, cur, intx, failure, pgtx, session, committed, applied, catalog>>
        /\ step = "idle" /\ step' = "locked"
    BY <1>5 DEF LockTable, replicatorVars
  <2>2. Unstarted' /\ ~SetUpOver'
    BY <1>1, <2>1 DEF Unstarted, Adds, SetUpOver
  <2>3. QED BY <1>1, <1>2, <2>1, <2>2, StaysRegistered
<1>6. CASE ReadPosition
  <2>1. /\ UNCHANGED <<pc, cur, intx, failure, pgtx, session, committed, applied, catalog>>
        /\ step = "locked" /\ step' = "positioned"
    BY <1>6 DEF ReadPosition, replicatorVars
  <2>2. Unstarted' /\ ~SetUpOver'
    BY <1>1, <2>1 DEF Unstarted, Adds, SetUpOver
  <2>3. QED BY <1>1, <1>2, <2>1, <2>2, StaysRegistered
<1>7. CASE RecordTable
  <2>1. /\ UNCHANGED <<pc, cur, intx, failure, session, committed, applied, catalog>>
        /\ step = "positioned" /\ step' = "recorded"
    BY <1>7 DEF RecordTable, noProcess
  <2>2. Unstarted' /\ ~SetUpOver'
    BY <1>1, <2>1 DEF Unstarted, Adds, SetUpOver
  <2>3. QED BY <1>1, <1>2, <2>1, <2>2, StaysRegistered
<1>8. ASSUME NEW why, step \in {"positioned", "copied"}, Refuse(why)
      PROVE  Unstarted' /\ Registered' /\ ~SetUpOver'
  <2>1. /\ UNCHANGED <<pc, cur, intx, failure, committed, applied, catalog>>
        /\ pgtx' = FALSE /\ session' = committed /\ step' = "idle" /\ step # "none"
    BY <1>8 DEF Refuse, noProcess
  <2>2. Unstarted' /\ ~SetUpOver'
    BY <1>1, <2>1 DEF Unstarted, Adds, SetUpOver
  <2>3. QED BY <1>1, <2>1, <2>2, StaysRegistered
<1>9. CASE CopyTableContent
  <2>1. /\ UNCHANGED <<pc, cur, intx, failure, pgtx, committed, applied, catalog, adding>>
        /\ session' = [session EXCEPT !.data[adding] = Current[<<Database, adding>>]]
        /\ step = "recorded" /\ step' = "copied"
    BY <1>9 DEF CopyTableContent, noProcess
  <2>2. Unstarted' /\ ~SetUpOver'
    BY <1>1, <2>1 DEF Unstarted, Adds, SetUpOver
  <2>3. adding \in Added
    BY <1>1, <2>1 DEF Drafted, Adds
  <2>4. /\ session'.file = session.file /\ session'.pos = session.pos
        /\ session'.data[adding] = Current[<<Database, adding>>]
    BY <1>1, <2>1, <2>3 DEF Target
  <2>5. Current[<<Database, adding>>] = history[applied + 1][<<Database, adding>>]
    <3>1. Rested(adding, applied) /\ applied \in 0..Len(log)
      BY <1>1, <2>1, <2>3 DEF Registered
    <3>2. Len(log) \in applied..Len(log)
      BY <1>1, <3>1
    <3>3. QED BY <3>1, <3>2 DEF Rested, Current
  <2>6. QED BY <1>1, <1>2, <2>1, <2>2, <2>4, <2>5, StaysRegistered
<1>10. CASE CopyIndexes
  <2>1. /\ UNCHANGED <<pc, cur, intx, failure, pgtx, session, committed, applied, catalog,
                       adding>>
        /\ step = "copied" /\ step' = "indexed"
    BY <1>10 DEF CopyIndexes, replicatorVars
  <2>2. Unstarted' /\ ~SetUpOver'
    BY <1>1, <2>1 DEF Unstarted, Adds, SetUpOver
  <2>3. session.data[adding] = history[applied + 1][<<Database, adding>>]
    BY <1>1, <2>1 DEF Registered
  <2>4. QED BY <1>1, <1>2, <2>1, <2>2, <2>3, StaysRegistered
<1>11. CASE CommitAdd
  <2>1. Unstarted' /\ ~SetUpOver'
    BY <1>1, <1>11 DEF CommitAdd, Unstarted, Adds, SetUpOver, noProcess
  <2>2. QED BY <1>11, <2>1, CommitRegisters
<1>12. CASE SetUpCrash
  <2>1. /\ UNCHANGED <<pc, cur, intx, failure, committed, applied, catalog>>
        /\ pgtx' = FALSE /\ session' = committed /\ step' = "idle" /\ step # "none"
    BY <1>12 DEF SetUpCrash, noProcess
  <2>2. Unstarted' /\ ~SetUpOver'
    BY <1>1, <2>1 DEF Unstarted, Adds, SetUpOver
  <2>3. QED BY <1>1, <2>1, <2>2, StaysRegistered
<1>13. QED
  BY <1>3, <1>4, <1>5, <1>6, <1>7, <1>8, <1>9, <1>10, <1>11, <1>12
  DEF SetUp, RecordTableFails, CopyIndexesFails

\* Once every table has been added the target is where replication may begin.
LEMMA ReadyToReplicate ==
  ASSUME SetUpMirrorInv, ~SetUpOver, BeginReplication
  PROVE  MirrorInv
<1>1. /\ TypeInv /\ Drafted /\ TablesKnown /\ PlainLog /\ Unstarted /\ Registered
      /\ committed \in Target
  BY BeforeReplication
<1>2. step = "idle" /\ tables = Added
  BY DEF BeginReplication
<1>3. /\ session = committed /\ pgtx = FALSE /\ pc = "down" /\ cur = NoEvent
      /\ intx = FALSE /\ failure = "none"
  BY <1>1, <1>2 DEF Drafted, Unstarted, Adds, SetUpOver
<1>4. committed.data = Replicated(history[applied + 1])
  <2>1. \A n \in Added : committed.data[n] = history[applied + 1][<<Database, n>>]
    BY <1>1, <1>2 DEF Registered, TablesKnown
  <2>2. committed.data = [n \in Added |-> committed.data[n]]
    BY <1>1 DEF Target
  <2>3. QED BY <2>1, <2>2 DEF Replicated
<1>5. InStep
  BY <1>1, <1>2, <1>3, <1>4 DEF InStep, Registered
<1>6. Following
  BY <1>3 DEF Following
<1>7. QED BY <1>1, <1>5, <1>6 DEF MirrorInv, SetUpMirrorInv

LEMMA SetUpMirrorStep ==
  ASSUME PlainWorkload, ReadOnly, SetUpMirrorInv, [SetUpNext]_allVars
  PROVE  SetUpMirrorInv'
<1>1. SetUpInv'
  BY SetUpInvStep DEF SetUpMirrorInv
<1>2. ASSUME MirrorInv, [Next]_vars, SetUpOver' PROVE SetUpMirrorInv'
  <2>1. MirrorInv'
    BY <1>2, MirrorNext
  <2>2. QED BY <1>1, <1>2, <2>1 DEF SetUpMirrorInv, MirrorInv
<1>3. ASSUME Unstarted', Registered', ~SetUpOver', PlainLog' PROVE SetUpMirrorInv'
  <2>1. Bracket'
    BY <1>3 DEF Unstarted, Bracket
  <2>2. QED BY <1>1, <1>3, <2>1 DEF SetUpMirrorInv
<1>4. SetUpOver => MirrorInv
  BY DEF SetUpMirrorInv, SetUpInv, SetUpTypes, MirrorInv
<1>5. CASE SetUp /\ UNCHANGED sourceVars
  <2>1. CASE BeginReplication
    <3>1. UNCHANGED vars /\ step' = "replicating" /\ ~SetUpOver
      BY <1>5, <2>1 DEF BeginReplication, vars, SetUpOver
    <3>2. QED BY <1>2, <2>1, <3>1, ReadyToReplicate DEF SetUpOver
  <2>2. CASE ~BeginReplication /\ ~SetUpOver
    <3>1. PlainLog'
      BY <1>5, SameLog DEF SetUpMirrorInv
    <3>2. QED BY <1>3, <1>5, <2>2, <3>1, SetUpKeepsRegistered
  <2>3. CASE ~BeginReplication /\ SetUpOver
    <3>1. CreateOther
      BY <1>5, <2>3 DEF SetUp, SetUpOver, CreateNew, LockTable, ReadPosition, RecordTable,
         RecordTableFails, CopyTableContent, CopyIndexes, CopyIndexesFails, CommitAdd, SetUpCrash
    <3>2. UNCHANGED vars /\ step' = step
      BY <1>5, <3>1 DEF CreateOther, vars
    <3>3. QED BY <1>2, <1>4, <2>3, <3>2 DEF SetUpOver
  <2>4. QED BY <2>1, <2>2, <2>3
<1>6. CASE SourceMoves
  <2>1. CASE SetUpOver
    <3>1. Next /\ step' = step
      BY <1>6 DEF SourceMoves, Next, setUpVars
    <3>2. QED BY <1>2, <1>4, <2>1, <3>1 DEF SetUpOver
  <2>2. CASE ~SetUpOver
    <3>1. ~SetUpOver'
      BY <1>6, <2>2 DEF SourceMoves, setUpVars, SetUpOver
    <3>2. QED BY <1>3, <1>6, <2>2, <3>1, SourceKeepsRegistered
  <2>3. QED BY <2>1, <2>2
<1>7. CASE Replicates
  <2>1. Next /\ step' = step /\ SetUpOver
    BY <1>7 DEF Replicates, Next, setUpVars
  <2>2. QED BY <1>2, <1>4, <2>1 DEF SetUpOver
<1>8. CASE UNCHANGED allVars
  <2>1. UNCHANGED vars /\ UNCHANGED <<sourceVars, replicatorVars, setUpVars>>
    BY <1>8 DEF allVars, vars
  <2>2. CASE SetUpOver
    <3>1. step' = step
      BY <2>1 DEF setUpVars
    <3>2. QED BY <1>2, <1>4, <2>1, <2>2, <3>1 DEF SetUpOver
  <2>3. CASE ~SetUpOver
    <3>1. /\ UNCHANGED <<pc, cur, intx, failure, pgtx, session, committed, applied>>
          /\ UNCHANGED <<step, adding, catalog>> /\ UNCHANGED sourceVars
      BY <2>1 DEF replicatorVars, setUpVars
    <3>2. Unstarted /\ Registered /\ PlainLog
      BY <2>3, BeforeReplication
    <3>3. Unstarted' /\ ~SetUpOver'
      BY <2>3, <3>1, <3>2 DEF Unstarted, Adds, SetUpOver
    <3>4. Registered'
      BY <3>1, <3>2 DEF Registered, Rested, Quiet, NextIn, Resumes, Named, sourceVars
    <3>5. QED BY <1>3, <3>1, <3>2, <3>3, <3>4, SameLog
  <2>4. QED BY <2>2, <2>3
<1>9. QED BY <1>5, <1>6, <1>7, <1>8 DEF SetUpNext

LEMMA SetUpMirrorInvariant ==
  ASSUME PlainWorkload, ReadOnly
  PROVE  SetUpSpec => []SetUpMirrorInv
<1>1. SetUpInit => SetUpMirrorInv
  BY SetUpMirrorInit
<1>2. SetUpMirrorInv /\ [SetUpNext]_allVars => SetUpMirrorInv'
  BY SetUpMirrorStep
<1>3. QED BY <1>1, <1>2, PTL DEF SetUpSpec

(* A source whose tables rest while they are added is mirrored from the first event *)
(* behind createNew's position on, for a plain workload of any other table.         *)
THEOREM MirrorsAfterSetUp ==
  ASSUME PlainWorkload, ReadOnly
  PROVE  SetUpSpec => []MirrorAfterSetUp
<1>1. SetUpMirrorInv => MirrorAfterSetUp
  BY DEF SetUpMirrorInv, InStep, Resumes, MirrorAfterSetUp, AtomicMirror, PositionTrue
<1>2. QED BY <1>1, SetUpMirrorInvariant, PTL

(* Nor does any verify fail after such a set-up: the rows that were copied are      *)
(* those which the first events behind the position change.                         *)
THEOREM SetUpNeverFails ==
  ASSUME PlainWorkload, ReadOnly
  PROVE  SetUpSpec => []NoFailure
<1>1. SetUpMirrorInv => NoFailure
  BY DEF SetUpMirrorInv, Unstarted, InStep, NoFailure
<1>2. QED BY <1>1, SetUpMirrorInvariant, PTL
=============================================================================
