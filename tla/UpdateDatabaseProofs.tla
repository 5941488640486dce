------------------------- MODULE UpdateDatabaseProofs -------------------------
(***************************************************************************)
(* Theorems of UpdateDatabase, for every set of tables, keys and values and *)
(* every number of crashes.                                                 *)
(***************************************************************************)
EXTENDS UpdateDatabase, TLAPS

(* No file begins behind the end of the log, and a ROTATE event names a file that  *)
(* exists.                                                                         *)
FilesOfLog ==
  /\ \A f \in 1..Len(starts) : starts[f] <= Len(log)
  /\ \A i \in 1..Len(log) :
       log[i].type = "rotate" => log[i].filename \in 1..Len(starts)

(* Every file mygrate reads from, or has stored to resume from, exists. *)
FilesOfReplicator ==
  /\ committed.file \in 1..Len(starts)
  /\ session.file \in 1..Len(starts)
  /\ pc # "down" => rfile \in 1..Len(starts)
  /\ pc \in {"handle", "body"} /\ cur.type = "rotate" => cur.filename \in 1..Len(starts)

(* A handler that has begun has an event, and rows that are written go to a table  *)
(* that was added.                                                                 *)
InHand ==
  /\ pc \in {"handle", "body", "after", "commit"} => cur \in Event
  /\ pc = "body" /\ cur.type \in RowsTypes => selected \in Added

TypeInv == TypeOK /\ FilesOfLog /\ FilesOfReplicator /\ InHand

-----------------------------------------------------------------------------
LEMMA Appended ==
  ASSUME NEW S, NEW s \in Seq(S), NEW x \in S
  PROVE  /\ Append(s, x) \in Seq(S)
         /\ Len(Append(s, x)) = Len(s) + 1
         /\ \A i \in 1..Len(s) : Append(s, x)[i] = s[i]
         /\ Append(s, x)[Len(s) + 1] = x
OBVIOUS

LEMMA ChangedType ==
  ASSUME NEW c \in Content, NEW type, NEW t \in Tables,
         NEW before \in Image, NEW after \in Image
  PROVE  Changed(c, type, t, before, after) \in Content
<1> DEFINE rows == [k \in Keys |-> IF type # "delete" /\ k = after.key THEN after.val
                                   ELSE IF type # "write" /\ k = before.key THEN None
                                   ELSE c[t][k]]
<1>1. rows \in [Keys -> Vals \union {None}]
  BY SourceAssumption DEF Content, Image
<1>2. Changed(c, type, t, before, after) = [c EXCEPT ![t] = rows]
  BY DEF Changed
<1> HIDE DEF rows
<1>3. QED BY <1>1, <1>2 DEF Content

LEMMA CurrentType ==
  ASSUME SourceTypeOK
  PROVE  Current \in Content
BY DEF SourceTypeOK, Current

LEMMA EventKinds ==
  /\ \A s \in BOOLEAN, n \in Nat : [type |-> "gtid", standalone |-> s, next_event_pos |-> n] \in Event
  /\ \A t \in Tables, n \in Nat : [type |-> "table_map", table |-> t, next_event_pos |-> n] \in Event
  /\ \A type \in RowsTypes, t \in Tables, x \in Image, y \in Image, n \in Nat :
       [type |-> type, table |-> t, before |-> x, after |-> y, next_event_pos |-> n] \in Event
  /\ \A g \in BOOLEAN, f \in Nat, p \in Nat, n \in Nat :
       [type |-> "rotate", artificial |-> g, filename |-> f, position |-> p,
        next_event_pos |-> n] \in Event
  /\ \A type \in {"xid", "query", "stop"}, n \in Nat :
       [type |-> type, next_event_pos |-> n] \in Event
BY DEF Event, GtidEvent, TableMapEvent, RowsEvent, RotateEvent, PlainEvent

LEMMA EventFields ==
  ASSUME NEW e \in Event
  PROVE  /\ e.next_event_pos \in Nat
         /\ e.type \in {"gtid", "table_map", "rotate", "xid", "query", "stop"} \union RowsTypes
         /\ e.type = "gtid" => e.standalone \in BOOLEAN
         /\ e.type = "table_map" => e.table \in Tables
         /\ e.type \in RowsTypes => /\ e.table \in Tables
                                    /\ e.before \in Image /\ e.after \in Image
         /\ e.type = "rotate" => /\ e.artificial \in BOOLEAN
                                 /\ e.filename \in Nat /\ e.position \in Nat
BY DEF Event, GtidEvent, TableMapEvent, RowsEvent, RotateEvent, PlainEvent, RowsTypes

(* Every event is written with what the tables hold after it, behind the others;  *)
(* nothing that was written is changed.                                           *)
Appends ==
  /\ \E e \in Event, c \in Content :
       /\ log' = Append(log, e) /\ history' = Append(history, c)
       /\ e.type = "rotate" => e.filename = Len(starts) + 1
       /\ \/ starts' = starts /\ e.type # "rotate"
          \/ starts' = Append(starts, Len(log) + 1) /\ e.type = "rotate"
  /\ mapped' \subseteq Tables

LEMMA SourceStep ==
  ASSUME SourceTypeOK, FilesOfLog, SourceNext
  PROVE  Appends \/ RestartServer
<1> USE DEF Appends
<1>1. Current \in Content
  BY CurrentType
<1>2. NextEventPos \in Nat
  BY DEF SourceTypeOK, FilesOfLog, NextEventPos
<1>3. ASSUME NEW s \in BOOLEAN, BeginGroup(s) PROVE Appends
  BY <1>1, <1>2, <1>3, EventKinds DEF BeginGroup, Write, SourceTypeOK
<1>4. ASSUME NEW t \in Tables, MapTable(t) PROVE Appends
  BY <1>1, <1>2, <1>4, EventKinds DEF MapTable, Write, SourceTypeOK
<1>5. ASSUME NEW t \in mapped, NEW type \in RowsTypes, NEW x \in Image, NEW y \in Image,
             WriteRows(t, type, x, y)
      PROVE  Appends
  <2> DEFINE e == [type |-> type, table |-> t, before |-> x, after |-> y,
                   next_event_pos |-> NextEventPos]
  <2>1. t \in Tables
    BY DEF SourceTypeOK
  <2>2. e \in Event /\ e.type # "rotate"
    BY <1>2, <2>1, EventKinds DEF RowsTypes
  <2>3. Changed(Current, type, t, x, y) \in Content
    BY <1>1, <2>1, ChangedType
  <2>4. log' = Append(log, e) /\ history' = Append(history, Changed(Current, type, t, x, y))
    BY <1>5 DEF WriteRows, Write
  <2>5. starts' = starts /\ mapped' \subseteq Tables
    BY <1>5 DEF WriteRows, SourceTypeOK
  <2>6. QED BY <2>2, <2>3, <2>4, <2>5
<1>6. ASSUME ChangeRow PROVE Appends
  <2>1. PICK t \in mapped, k \in Keys :
          \/ \E v \in Vals : InsertSource(t, k, v)
          \/ \E newkey \in Keys, v \in Vals : UpdateSource(t, k, newkey, v)
          \/ DeleteSource(t, k)
    BY <1>6 DEF ChangeRow
  <2>2. t \in Tables /\ Current[t][k] \in Vals \union {None}
    BY <1>1 DEF SourceTypeOK, Content
  <2>3. CASE \E v \in Vals : InsertSource(t, k, v)
    BY <1>5, <2>3 DEF InsertSource, Image, RowsTypes
  <2>4. CASE \E newkey \in Keys, v \in Vals : UpdateSource(t, k, newkey, v)
    BY <1>5, <2>2, <2>4 DEF UpdateSource, Image, RowsTypes
  <2>5. CASE DeleteSource(t, k)
    BY <1>5, <2>2, <2>5 DEF DeleteSource, Image, RowsTypes
  <2>6. QED BY <2>1, <2>3, <2>4, <2>5
<1>7. ASSUME NEW type \in {"xid", "query"}, EndGroup(type) PROVE Appends
  BY <1>1, <1>2, <1>7, EventKinds DEF EndGroup, Write, SourceTypeOK
<1>8. ASSUME DdlQuery PROVE Appends
  BY <1>1, <1>2, <1>8, EventKinds DEF DdlQuery, Write, SourceTypeOK
<1>9. ASSUME RotateLog PROVE Appends
  <2> DEFINE e == [type |-> "rotate", artificial |-> FALSE, filename |-> Len(starts) + 1,
                   position |-> 0, next_event_pos |-> NextEventPos]
  <2>1. Len(starts) + 1 \in Nat
    BY DEF SourceTypeOK
  <2>2. e \in Event
    BY <1>2, <2>1, EventKinds
  <2>3. e.type = "rotate" /\ e.filename = Len(starts) + 1
    OBVIOUS
  <2>4. log' = Append(log, e) /\ history' = Append(history, Current)
    BY <1>9 DEF RotateLog, Write
  <2>5. starts' = Append(starts, Len(log) + 1) /\ mapped' \subseteq Tables
    BY <1>9 DEF RotateLog, SourceTypeOK
  <2> HIDE DEF e
  <2>6. QED BY <1>1, <2>2, <2>3, <2>4, <2>5
<1>10. ASSUME StopServer PROVE Appends
  BY <1>1, <1>2, <1>10, EventKinds DEF StopServer, Write, SourceTypeOK
<1>11. QED
  BY <1>3, <1>4, <1>6, <1>7, <1>8, <1>9, <1>10 DEF SourceNext

LEMMA SourceTypeStep ==
  ASSUME SourceTypeOK, FilesOfLog, SourceNext
  PROVE  SourceTypeOK' /\ FilesOfLog' /\ Len(starts') >= Len(starts)
<1>1. CASE RestartServer
  BY <1>1 DEF RestartServer, SourceTypeOK, FilesOfLog
<1>2. CASE Appends
  <2>1. PICK e \in Event, c \in Content :
          /\ log' = Append(log, e) /\ history' = Append(history, c)
          /\ e.type = "rotate" => e.filename = Len(starts) + 1
          /\ \/ starts' = starts /\ e.type # "rotate"
             \/ starts' = Append(starts, Len(log) + 1) /\ e.type = "rotate"
    BY <1>2 DEF Appends
  <2>2. /\ log \in Seq(Event) /\ history \in Seq(Content) /\ starts \in Seq(Nat)
        /\ Len(log) \in Nat /\ Len(starts) \in Nat /\ Len(starts) > 0
        /\ Len(history) = Len(log) + 1
    BY DEF SourceTypeOK
  <2>3. /\ log' \in Seq(Event) /\ Len(log') = Len(log) + 1
        /\ \A i \in 1..Len(log) : log'[i] = log[i]
        /\ log'[Len(log) + 1] = e
    BY <2>1, <2>2, Appended
  <2>4. history' \in Seq(Content) /\ Len(history') = Len(history) + 1
    BY <2>1, <2>2, Appended
  <2>5. CASE starts' = starts /\ e.type # "rotate"
    <3>1. SourceTypeOK'
      BY <1>2, <2>2, <2>3, <2>4, <2>5 DEF Appends, SourceTypeOK
    <3>2. ASSUME NEW f \in 1..Len(starts') PROVE starts'[f] <= Len(log')
      BY <2>2, <2>3, <2>5 DEF FilesOfLog
    <3>3. ASSUME NEW i \in 1..Len(log'), log'[i].type = "rotate"
          PROVE  log'[i].filename \in 1..Len(starts')
      <4>1. i \in 1..Len(log)
        BY <2>2, <2>3, <2>5, <3>3
      <4>2. QED BY <2>3, <2>5, <3>3, <4>1 DEF FilesOfLog
    <3>4. QED BY <2>5, <2>2, <3>1, <3>2, <3>3 DEF FilesOfLog
  <2>6. CASE starts' = Append(starts, Len(log) + 1) /\ e.type = "rotate"
    <3>1. /\ starts' \in Seq(Nat) /\ Len(starts') = Len(starts) + 1
          /\ \A f \in 1..Len(starts) : starts'[f] = starts[f]
          /\ starts'[Len(starts) + 1] = Len(log) + 1
      BY <2>2, <2>6, Appended
    <3>2. SourceTypeOK'
      BY <1>2, <2>2, <2>3, <2>4, <3>1 DEF Appends, SourceTypeOK
    <3>3. ASSUME NEW f \in 1..Len(starts') PROVE starts'[f] <= Len(log')
      <4>1. CASE f \in 1..Len(starts)
        <5>1. starts'[f] = starts[f] /\ starts[f] <= Len(log) /\ starts[f] \in Nat
          BY <2>2, <3>1, <4>1 DEF FilesOfLog
        <5>2. QED BY <5>1, <2>2, <2>3
      <4>2. CASE f = Len(starts) + 1
        BY <2>2, <2>3, <3>1, <4>2
      <4>3. QED BY <2>2, <3>1, <4>1, <4>2
    <3>4. ASSUME NEW i \in 1..Len(log'), log'[i].type = "rotate"
          PROVE  log'[i].filename \in 1..Len(starts')
      BY <2>1, <2>2, <2>3, <3>1, <3>4 DEF FilesOfLog
    <3>5. Len(starts') >= Len(starts)
      BY <2>2, <3>1
    <3>6. QED BY <3>2, <3>3, <3>4, <3>5 DEF FilesOfLog
  <2>7. QED BY <2>1, <2>5, <2>6
<1>3. QED BY <1>1, <1>2, SourceStep

-----------------------------------------------------------------------------
LEMMA TypeInit == Init => TypeInv
<1> SUFFICES ASSUME Init PROVE TypeInv
  OBVIOUS
<1>1. PICK c \in Content : history = <<c>>
  BY SourceAssumption DEF Init, SourceInit
<1>2. /\ log \in Seq(Event) /\ Len(log) = 0
      /\ starts \in Seq(Nat) /\ Len(starts) = 1 /\ starts[1] = 0
      /\ history \in Seq(Content) /\ Len(history) = 1 /\ mapped = {}
  BY <1>1 DEF Init, SourceInit
<1>3. SourceTypeOK /\ FilesOfLog
  BY <1>2 DEF SourceTypeOK, FilesOfLog
<1>4. Replicated(Current) \in [Added -> [Keys -> Vals \union {None}]]
  BY <1>3, CurrentType, ReplicatorAssumption DEF Replicated, Content
<1>5. committed \in Target /\ session = committed /\ committed.file = 1
  BY <1>4 DEF Init, Target
<1>6. TypeOK
  BY <1>3, <1>5 DEF Init, TypeOK, Failures
<1>7. FilesOfReplicator /\ InHand
  BY <1>2, <1>5 DEF Init, FilesOfReplicator, InHand
<1>8. QED
  BY <1>3, <1>6, <1>7 DEF TypeInv

\* What the process may change of its own state, as far as types go.
ReplicatorTypeOK ==
  /\ pc \in {"down", "open", "fetch", "handle", "body", "after", "commit"}
  /\ cur \in Event \union {NoEvent}
  /\ rfile \in Nat /\ rpos \in Nat
  /\ selected \in Added \union {NoTable}
  /\ intx \in BOOLEAN /\ pgtx \in BOOLEAN
  /\ session \in Target /\ committed \in Target
  /\ applied \in Nat
  /\ failure \in Failures
  /\ crashes \in Nat

LEMMA TypeOKParts == TypeOK <=> SourceTypeOK /\ ReplicatorTypeOK
BY DEF TypeOK, ReplicatorTypeOK

LEMMA SourceKeepsTypes ==
  ASSUME TypeInv, SourceNext, UNCHANGED replicatorVars
  PROVE  TypeInv'
<1>1. SourceTypeOK' /\ FilesOfLog' /\ Len(starts') >= Len(starts)
  BY SourceTypeStep DEF TypeInv, TypeOK
<1>2. Len(starts) \in Nat /\ Len(starts') \in Nat
  BY <1>1 DEF TypeInv, TypeOK, SourceTypeOK
<1>3. ReplicatorTypeOK'
  BY DEF TypeInv, TypeOK, ReplicatorTypeOK, replicatorVars
<1>4. FilesOfReplicator'
  BY <1>1, <1>2 DEF TypeInv, FilesOfReplicator, replicatorVars
<1>5. InHand'
  BY DEF TypeInv, InHand, replicatorVars
<1>6. QED
  BY <1>1, <1>3, <1>4, <1>5, TypeOKParts DEF TypeInv, TypeOK, ReplicatorTypeOK

\* The types of the process after a step that leaves the source alone.
ProcessTypes == ReplicatorTypeOK /\ FilesOfReplicator /\ InHand

LEMMA GoneKeepsTypes ==
  ASSUME TypeInv, ProcessGone, UNCHANGED <<sourceVars, committed, applied>>,
         failure' \in Failures, crashes' \in Nat
  PROVE  ProcessTypes'
BY DEF TypeInv, TypeOK, ReplicatorTypeOK, FilesOfReplicator, InHand, ProcessTypes,
       ProcessGone, sourceVars

\* The result of a statement has the type of what it was executed on.
LEMMA ExecutedTypes ==
  ASSUME TypeInv, pc = "body" \/ pc = "after", NEW result \in Target,
         result.file \in 1..Len(starts), Executed(result),
         pc' \in {"after", "commit"},
         UNCHANGED <<sourceVars, stream, memory, pgtx, applied, ghosts>>
  PROVE  ProcessTypes'
BY DEF TypeInv, TypeOK, ReplicatorTypeOK, FilesOfReplicator, InHand, ProcessTypes,
       Executed, sourceVars, stream, memory, ghosts

LEMMA StoredType ==
  ASSUME TypeInv, pc = "body", cur.type \in RowsTypes, NEW k \in Keys,
         NEW v \in Vals \union {None}
  PROVE  /\ [session EXCEPT !.data[selected][k] = v] \in Target
         /\ [session EXCEPT !.data[selected][k] = v].file = session.file
BY DEF TypeInv, TypeOK, InHand, Target

LEMMA ReplicatorKeepsTypes ==
  ASSUME TypeInv, Replicator, UNCHANGED sourceVars
  PROVE  TypeInv'
<1> USE DEF stream, memory, target, ghosts
<1> DEFINE Parts == /\ TypeInv /\ TypeOK /\ SourceTypeOK /\ ReplicatorTypeOK
                    /\ FilesOfLog /\ FilesOfReplicator /\ InHand
<1>1. Parts
  BY TypeOKParts DEF TypeInv
<1>2. \A f \in 1..Len(starts) : starts[f] \in Nat
  BY <1>1 DEF SourceTypeOK
<1>3. \A f \in Nat : ArtificialRotate(f) \in Event /\ ArtificialRotate(f).filename = f
  BY EventKinds DEF ArtificialRotate
<1> SUFFICES ProcessTypes'
  <2>1. SourceTypeOK' /\ FilesOfLog'
    BY <1>1 DEF SourceTypeOK, FilesOfLog, sourceVars
  <2>2. QED
    BY <2>1, TypeOKParts DEF TypeInv, ProcessTypes, TypeOK, ReplicatorTypeOK
<1>4. /\ Failures = {"none", "columns", "inserted", "updated", "deleted"}
      /\ crashes + 1 \in Nat /\ crashes \in Nat /\ failure \in Failures
  BY <1>1 DEF Failures, ReplicatorTypeOK
<1>5. ASSUME NEW cause \in Failures, Throw(cause) PROVE ProcessTypes'
  BY <1>1, <1>4, <1>5, GoneKeepsTypes DEF Throw
<1>6. CASE Start
  BY <1>1, <1>2, <1>6 DEF Start, ProcessTypes, ReplicatorTypeOK, FilesOfReplicator, InHand,
     Target, sourceVars
<1>7. CASE OpenStream
  BY <1>1, <1>3, <1>7 DEF OpenStream, ProcessTypes, ReplicatorTypeOK, FilesOfReplicator,
     InHand, sourceVars
<1>8. CASE StreamRefused
  BY <1>1, <1>4, <1>8, GoneKeepsTypes DEF StreamRefused
<1>9. CASE Fetch
  <2>1. rpos + 1 \in 1..Len(log)
    <3>1. rfile \in 1..Len(starts) /\ rpos \in Nat /\ Len(log) \in Nat /\ Len(starts) \in Nat
      BY <1>1, <1>9 DEF Fetch, SourceTypeOK, ReplicatorTypeOK, FilesOfReplicator
    <3>2. FileEnd(rfile) \in Int /\ FileEnd(rfile) <= Len(log)
      <4>1. CASE rfile < Len(starts)
        <5>1. rfile + 1 \in 1..Len(starts)
          BY <3>1, <4>1
        <5>2. starts[rfile + 1] \in Nat /\ starts[rfile + 1] <= Len(log)
          BY <1>1, <1>2, <5>1 DEF FilesOfLog
        <5>3. QED BY <4>1, <5>2 DEF FileEnd
      <4>2. CASE ~(rfile < Len(starts))
        BY <3>1, <4>2 DEF FileEnd
      <4>3. QED BY <4>1, <4>2
    <3>3. QED BY <1>9, <3>1, <3>2 DEF Fetch
  <2>2. log[rpos + 1] \in Event
    BY <1>1, <2>1 DEF SourceTypeOK
  <2>3. QED
    BY <1>1, <1>9, <2>1, <2>2 DEF Fetch, ProcessTypes, ReplicatorTypeOK, FilesOfLog,
       FilesOfReplicator, InHand, sourceVars
<1>10. CASE FetchNextFile
  <2>1. rfile' \in 1..Len(starts) /\ Len(starts') = Len(starts)
    BY <1>1, <1>10 DEF FetchNextFile, SourceTypeOK, FilesOfReplicator, sourceVars
  <2>2. cur' \in Event /\ cur'.filename = rfile'
    BY <1>3, <1>10, <2>1 DEF FetchNextFile, ArtificialRotate
  <2>3. pc' = "handle" /\ UNCHANGED <<rpos, memory, target, ghosts>>
    BY <1>10 DEF FetchNextFile
  <2>4. ReplicatorTypeOK'
    BY <1>1, <2>1, <2>2, <2>3 DEF ReplicatorTypeOK
  <2>5. FilesOfReplicator' /\ InHand'
    BY <1>1, <2>1, <2>2, <2>3 DEF FilesOfReplicator, InHand
  <2>6. QED BY <2>4, <2>5 DEF ProcessTypes
<1>11. CASE TableMap
  BY <1>1, <1>11 DEF TableMap, ProcessTypes, ReplicatorTypeOK, FilesOfReplicator, InHand,
     sourceVars
<1>12. CASE IgnoreEvent
  BY <1>1, <1>12 DEF IgnoreEvent, ProcessTypes, ReplicatorTypeOK, FilesOfReplicator,
     InHand, sourceVars
<1>13. CASE VerifyRowFails
  BY <1>4, <1>5, <1>13 DEF VerifyRowFails
<1>14. CASE BeforeEvent
  BY <1>1, <1>14 DEF BeforeEvent, Ignored, ProcessTypes, ReplicatorTypeOK,
     FilesOfReplicator, InHand, sourceVars
<1>15. CASE InsertRow \/ UpdateRow \/ DeleteRow
  <2>1. pc = "body" /\ cur.type \in RowsTypes /\ cur \in Event
    BY <1>1, <1>15 DEF InsertRow, UpdateRow, DeleteRow, InBody, RowsTypes, InHand
  <2>2. cur.before \in Image /\ cur.after \in Image
    BY <2>1, EventFields
  <2>3. /\ cur.before.key \in Keys /\ cur.before.val \in Vals \union {None}
        /\ cur.after.key \in Keys /\ cur.after.val \in Vals \union {None}
    BY <2>2 DEF Image
  <2>4. session.file \in 1..Len(starts) /\ selected \in Added /\ session \in Target
    BY <1>1, <2>1 DEF FilesOfReplicator, InHand, ReplicatorTypeOK
  <2>5. CASE InsertRow
    BY <1>1, <2>1, <2>3, <2>4, <2>5, StoredType, ExecutedTypes DEF InsertRow, InBody
  <2>6. CASE UpdateRow
    <3> DEFINE first == [session EXCEPT !.data[selected][cur.before.key] = cur.before.val]
               second == [first EXCEPT !.data[selected][cur.after.key] = cur.after.val]
    <3>1. first \in Target /\ first.file = session.file
      BY <1>1, <2>1, <2>3, StoredType
    <3>2. second \in Target /\ second.file = session.file
      BY <2>3, <2>4, <3>1 DEF Target
    <3>3. Executed(second)
      BY <2>6 DEF UpdateRow
    <3> HIDE DEF first, second
    <3>4. QED
      BY <1>1, <2>1, <2>4, <2>6, <3>2, <3>3, ExecutedTypes DEF UpdateRow, InBody
  <2>7. CASE DeleteRow
    BY <1>1, <2>1, <2>3, <2>4, <2>7, StoredType, ExecutedTypes DEF DeleteRow, InBody
  <2>8. QED BY <1>15, <2>5, <2>6, <2>7
<1>16. CASE InsertRowFails \/ UpdateRowFails \/ DeleteRowFails
  BY <1>4, <1>5, <1>16 DEF InsertRowFails, UpdateRowFails, DeleteRowFails
<1>17. CASE Rotate
  <2> DEFINE result == [session EXCEPT !.file = cur.filename, !.pos = cur.position]
  <2>1. cur \in Event /\ pc = "body" /\ cur.type = "rotate"
    BY <1>1, <1>17 DEF Rotate, InBody, InHand
  <2>2. cur.filename \in 1..Len(starts) /\ cur.filename \in Nat /\ cur.position \in Nat
    BY <1>1, <2>1, EventFields DEF FilesOfReplicator
  <2>3. result \in Target /\ result.file \in 1..Len(starts)
    BY <1>1, <2>2 DEF Target, ReplicatorTypeOK
  <2> HIDE DEF result
  <2>4. Executed(result)
    BY <1>17 DEF Rotate, result
  <2>5. QED
    BY <1>1, <1>17, <2>1, <2>3, <2>4, ExecutedTypes DEF Rotate
<1>18. CASE Gtid \/ Xid
  BY <1>1, <1>18 DEF Gtid, Xid, InBody, ProcessTypes, ReplicatorTypeOK, FilesOfReplicator,
     InHand, sourceVars
<1>19. CASE StayInTx
  BY <1>1, <1>19 DEF StayInTx, ProcessTypes, ReplicatorTypeOK, FilesOfReplicator, InHand,
     sourceVars
<1>20. CASE SavePosition
  <2> DEFINE result == [session EXCEPT !.pos = cur.next_event_pos]
  <2>1. pc = "after" /\ cur.next_event_pos \in Nat
    BY <1>1, <1>20, EventFields DEF SavePosition, InHand
  <2>2. result \in Target /\ result.file \in 1..Len(starts)
    BY <1>1, <2>1 DEF Target, ReplicatorTypeOK, FilesOfReplicator
  <2> HIDE DEF result
  <2>3. Executed(result)
    BY <1>20 DEF SavePosition, result
  <2>4. QED
    BY <1>1, <1>20, <2>1, <2>2, <2>3, ExecutedTypes DEF SavePosition
<1>21. CASE CommitTx
  BY <1>1, <1>21 DEF CommitTx, ProcessTypes, ReplicatorTypeOK, FilesOfReplicator, InHand,
     sourceVars
<1>22. CASE Crash
  BY <1>1, <1>4, <1>22, GoneKeepsTypes DEF Crash
<1>23. QED
  BY <1>6, <1>7, <1>8, <1>9, <1>10, <1>11, <1>12, <1>13, <1>14, <1>15, <1>16, <1>17,
     <1>18, <1>19, <1>20, <1>21, <1>22 DEF Replicator, Process

LEMMA TypeStep ==
  ASSUME TypeInv, [Next]_vars
  PROVE  TypeInv'
<1>1. CASE SourceNext /\ UNCHANGED replicatorVars
  BY <1>1, SourceKeepsTypes
<1>2. CASE Replicator /\ UNCHANGED sourceVars
  BY <1>2, ReplicatorKeepsTypes
<1>3. CASE UNCHANGED vars
  BY <1>3 DEF vars, sourceVars, replicatorVars, TypeInv, TypeOK, SourceTypeOK,
     FilesOfLog, FilesOfReplicator, InHand
<1>4. QED BY <1>1, <1>2, <1>3 DEF Next

(* Every reachable state has the declared types, and every file a stored position, *)
(* a ROTATE event or the dump thread names is there to be read.                    *)
THEOREM TypeCorrect == Spec => []TypeInv
<1>1. Init => TypeInv
  BY TypeInit
<1>2. TypeInv /\ [Next]_vars => TypeInv'
  BY TypeStep
<1>3. QED BY <1>1, <1>2, PTL DEF Spec

(* The type invariant the runs check. *)
COROLLARY Typed == Spec => []TypeOK
<1>1. TypeInv => TypeOK
  BY DEF TypeInv
<1>2. QED BY <1>1, TypeCorrect, PTL

-----------------------------------------------------------------------------
(* What keeps the statements inside a transaction: mygrate's own flag is only set  *)
(* while one is open, and a handler that has begun has one.                        *)
Bracket ==
  /\ intx => pgtx
  /\ pc \in {"body", "after", "commit"} => pgtx
  /\ pc = "commit" => ~intx

LEMMA BracketStep ==
  ASSUME Bracket, Replicator
  PROVE  Bracket' /\ (committed' # committed => pc = "commit" /\ pgtx)
<1> USE DEF Bracket, stream, memory, target, ghosts
<1>1. CASE Start \/ OpenStream \/ Fetch \/ FetchNextFile
  BY <1>1 DEF Start, OpenStream, Fetch, FetchNextFile
<1>2. CASE StreamRefused \/ VerifyRowFails \/ InsertRowFails \/ UpdateRowFails
             \/ DeleteRowFails \/ Crash
  BY <1>2 DEF StreamRefused, VerifyRowFails, InsertRowFails, UpdateRowFails,
     DeleteRowFails, Crash, Throw, ProcessGone
<1>3. CASE TableMap \/ IgnoreEvent
  BY <1>3 DEF TableMap, IgnoreEvent
<1>8. CASE BeforeEvent
  <2>1. pgtx' /\ intx' = intx /\ pc' = "body" /\ committed' = committed
    BY <1>8, Zenon DEF BeforeEvent
  <2>2. QED BY <2>1
<1>4. CASE InsertRow \/ UpdateRow \/ DeleteRow \/ Rotate
  BY <1>4 DEF InsertRow, UpdateRow, DeleteRow, Rotate, Executed, InBody
<1>5. CASE Gtid \/ Xid
  BY <1>5 DEF Gtid, Xid, InBody
<1>6. CASE StayInTx \/ SavePosition \/ CommitTx
  BY <1>6 DEF StayInTx, SavePosition, CommitTx, Executed
<1>7. QED
  BY <1>1, <1>2, <1>3, <1>4, <1>5, <1>6, <1>8 DEF Replicator, Process

LEMMA BracketNext ==
  ASSUME Bracket, [Next]_vars
  PROVE  Bracket' /\ [committed' # committed => pc = "commit" /\ pgtx]_vars
<1>1. CASE SourceNext /\ UNCHANGED replicatorVars
  BY <1>1 DEF Bracket, replicatorVars
<1>2. CASE Replicator /\ UNCHANGED sourceVars
  BY <1>2, BracketStep
<1>3. CASE UNCHANGED vars
  BY <1>3 DEF Bracket, vars, replicatorVars
<1>4. QED BY <1>1, <1>2, <1>3 DEF Next

(* The committed content of PostgreSQL changes at COMMIT alone, and only where     *)
(* BEGIN came before, whatever the source's workload: a failing verify, a refused  *)
(* statement or a crash never leaves part of an event behind.                      *)
THEOREM CommitsAlone == Spec => ChangesAtCommit
<1>1. Init => Bracket
  BY DEF Init, Bracket
<1>2. Bracket /\ [Next]_vars
        => Bracket' /\ [committed' # committed => pc = "commit" /\ pgtx]_vars
  BY BracketNext
<1>3. QED BY <1>1, <1>2, PTL DEF Spec, ChangesAtCommit
=============================================================================
