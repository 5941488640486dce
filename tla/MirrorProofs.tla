----------------------------- MODULE MirrorProofs -----------------------------
(***************************************************************************)
(* The replica is never wrong while each of the source's statements changes *)
(* rows of one table under the keys they have: for every set of tables,    *)
(* keys and values, any number of groups, and either any number of crashes *)
(* between any two steps, or any number of files.                          *)
(***************************************************************************)
EXTENDS UpdateDatabaseProofs

(* The workload under which the replica is right.  TLC shows what each of the     *)
(* others does to it: a STOP, or a crash behind a ROTATE, spoils the stored       *)
(* position, a statement over several tables or a changed key the rows.           *)
PlainWorkload ==
  /\ Workload \subseteq {"ddl", "nontrans", "rotate"}
  /\ "rotate" \in Workload => MaxCrashes = 0

\* A rows event e takes content c to content d, and fits the rows of c.
RowsFit(e, c, d) ==
  /\ d = Changed(c, e.type, e.table, e.before, e.after)
  /\ e.type = "write" => e.before = e.after /\ c[e.table][e.after.key] = None
  /\ e.type = "update" =>
       e.before.key = e.after.key /\ c[e.table][e.before.key] = e.before.val
  /\ e.type = "delete" => c[e.table][e.before.key] # None

\* The event behind the first h is one of file f.
NextIn(f, h) ==
  /\ f \in 1..Len(starts) /\ starts[f] <= h
  /\ f < Len(starts) => h < starts[f + 1]

\* An event begins a group, or ends it, or is inside it.
InPlace(i) ==
  /\ log[i].type \in {"gtid", "rotate"} => Quiet(i - 1)
  /\ log[i].type = "query" =>
       /\ i > 1
       /\ log[i - 1].type \in RowsTypes \/ (log[i - 1].type = "gtid" /\ Quiet(i - 1))
  /\ log[i].type = "table_map" => ~Quiet(i - 1)

PlainEventAt(i) ==
  /\ log[i].type # "stop"
  /\ log[i].type = "rotate" =>
       /\ "rotate" \in Workload /\ ~log[i].artificial
       /\ log[i].filename \in 1..Len(starts) /\ starts[log[i].filename] = i
  /\ IF log[i].type \in RowsTypes
     THEN /\ i > 1 /\ log[i - 1].type = "table_map" /\ log[i - 1].table = log[i].table
          /\ RowsFit(log[i], history[i], history[i + 1])
     ELSE history[i + 1] = history[i]

(* The files follow each other, each ends with the ROTATE that names the next, and *)
(* an event's position is the one behind it in its own file.                       *)
PlainFiles ==
  /\ starts[1] = 0
  /\ \A f, g \in 1..Len(starts) : f < g => starts[f] < starts[g]
  /\ \A f \in 2..Len(starts) : log[starts[f]].type = "rotate"
  /\ \A f \in 1..Len(starts), i \in 1..Len(log) :
       NextIn(f, i - 1) => log[i].next_event_pos = i - starts[f]

(* What the binlog of a plain workload looks like: whole files, in which every     *)
(* rows event follows the TABLE_MAP of its table, inside a group.                  *)
PlainLog ==
  /\ PlainFiles
  /\ \A i \in 1..Len(log) : PlainEventAt(i) /\ InPlace(i)
  /\ \/ mapped = {}
     \/ /\ Len(log) > 0 /\ log[Len(log)].type = "table_map"
        /\ mapped = {log[Len(log)].table}

\* The past of the source stays what it was, and a new file begins behind it.
KeepsPast ==
  /\ Len(log') >= Len(log)
  /\ \A i \in 1..Len(log) : log'[i] = log[i]
  /\ \A i \in 1..Len(history) : history'[i] = history[i]
  /\ Len(starts') >= Len(starts)
  /\ \A f \in 1..Len(starts) : starts'[f] = starts[f]
  /\ \A f \in (Len(starts) + 1)..Len(starts') : starts'[f] > Len(log)

-----------------------------------------------------------------------------
\* What has been written of the log is read as it was before the source went on.
LEMMA PastReadAlike ==
  ASSUME SourceTypeOK, SourceTypeOK', KeepsPast
  PROVE  /\ \A i \in 0..Len(log) : /\ Quiet(i)' <=> Quiet(i)
                                   /\ history'[i + 1] = history[i + 1]
                                   /\ i > 0 => log'[i] = log[i]
         /\ \A f \in 1..Len(starts), h \in 0..Len(log) : NextIn(f, h)' <=> NextIn(f, h)
<1>1. /\ Len(log) \in Nat /\ Len(log') \in Nat /\ Len(history) = Len(log) + 1
      /\ Len(starts) \in Nat /\ Len(starts') \in Nat
      /\ starts \in Seq(Nat) /\ starts' \in Seq(Nat)
  BY DEF SourceTypeOK
<1>2. ASSUME NEW i \in 0..Len(log)
      PROVE  /\ Quiet(i)' <=> Quiet(i)
             /\ history'[i + 1] = history[i + 1]
             /\ i > 0 => log'[i] = log[i]
  BY <1>1 DEF KeepsPast, Quiet
<1>3. ASSUME NEW f \in 1..Len(starts), NEW h \in 0..Len(log)
      PROVE  NextIn(f, h)' <=> NextIn(f, h)
  <2>1. starts'[f] = starts[f] /\ f \in 1..Len(starts')
    BY <1>1 DEF KeepsPast
  <2>2. CASE f < Len(starts)
    <3>1. f + 1 \in 1..Len(starts) /\ f < Len(starts')
      <4>1. Len(starts') >= Len(starts)
        BY DEF KeepsPast
      <4>2. QED BY <1>1, <2>2, <4>1
    <3>2. starts'[f + 1] = starts[f + 1]
      BY <3>1 DEF KeepsPast
    <3>3. QED BY <2>1, <2>2, <3>1, <3>2 DEF NextIn
  <2>3. CASE f = Len(starts)
    <3>1. f < Len(starts') => starts'[f + 1] \in Nat /\ starts'[f + 1] > Len(log)
      <4>1. f < Len(starts') => f + 1 \in (Len(starts) + 1)..Len(starts')
                                  /\ f + 1 \in 1..Len(starts')
        BY <1>1, <2>3
      <4>2. QED BY <1>1, <4>1 DEF KeepsPast
    <3>2. f < Len(starts') => h < starts'[f + 1]
      <4>1. h \in Nat /\ h <= Len(log)
        BY <1>1
      <4>2. \A s \in Nat : s > Len(log) => h < s
        BY <1>1, <4>1
      <4>3. QED BY <3>1, <4>2
    <3>3. QED BY <1>1, <2>1, <2>3, <3>2 DEF NextIn
  <2>4. QED BY <1>1, <2>2, <2>3
<1>4. QED BY <1>2, <1>3

LEMMA FilesAppend ==
  ASSUME SourceTypeOK, FilesOfLog, PlainFiles, NEW e \in Event,
         log' = Append(log, e),
         starts' = IF e.type = "rotate" THEN Append(starts, Len(log) + 1) ELSE starts,
         e.next_event_pos = NextEventPos
  PROVE  /\ PlainFiles'
         /\ Len(starts') >= Len(starts)
         /\ \A f \in 1..Len(starts) : starts'[f] = starts[f]
         /\ \A f \in (Len(starts) + 1)..Len(starts') :
              e.type = "rotate" /\ f = Len(starts) + 1 /\ starts'[f] = Len(log) + 1
         /\ e.type = "rotate" => Len(starts') = Len(starts) + 1
<1>1. /\ log \in Seq(Event) /\ starts \in Seq(Nat) /\ Len(log) \in Nat
      /\ Len(starts) \in Nat /\ Len(starts) > 0
      /\ \A f \in 1..Len(starts) : starts[f] \in Nat /\ starts[f] <= Len(log)
  BY DEF SourceTypeOK, FilesOfLog
<1> PICK n \in Nat : n = Len(log)
  BY <1>1
<1> PICK last \in Nat : last = Len(starts)
  BY <1>1
<1>2. /\ Len(log') = n + 1 /\ log'[n + 1] = e
      /\ \A i \in 1..n : log'[i] = log[i]
  BY <1>1, Appended
<1>3. /\ \A f \in 1..last : starts'[f] = starts[f]
      /\ \/ e.type # "rotate" /\ Len(starts') = last
         \/ e.type = "rotate" /\ Len(starts') = last + 1 /\ starts'[last + 1] = n + 1
  BY <1>1, Appended
<1>4. starts'[1] = 0
  BY <1>1, <1>3 DEF PlainFiles
<1>5. ASSUME NEW f \in 1..Len(starts'), NEW g \in 1..Len(starts'), f < g
      PROVE  starts'[f] < starts'[g]
  <2>1. f \in 1..last
    BY <1>3, <1>5
  <2>2. CASE g \in 1..last
    BY <1>3, <1>5, <2>1, <2>2 DEF PlainFiles
  <2>3. CASE g = last + 1
    <3>1. starts'[g] = n + 1 /\ starts'[f] = starts[f] /\ starts[f] \in Nat /\ starts[f] <= n
      BY <1>1, <1>3, <2>1, <2>3
    <3>2. QED BY <3>1
  <2>4. QED BY <1>3, <2>2, <2>3
<1>6. ASSUME NEW f \in 2..Len(starts') PROVE log'[starts'[f]].type = "rotate"
  <2>1. CASE f \in 1..last
    <3>1. starts'[f] = starts[f] /\ log[starts[f]].type = "rotate"
      BY <1>1, <1>3, <2>1 DEF PlainFiles
    <3>2. starts[1] < starts[f] /\ starts[1] = 0 /\ starts[f] \in Nat /\ starts[f] <= n
      BY <1>1, <2>1 DEF PlainFiles
    <3>3. starts[f] \in 1..n
      BY <3>2
    <3>4. QED BY <1>2, <3>1, <3>3
  <2>2. CASE f = last + 1
    BY <1>2, <1>3, <2>2
  <2>3. f \in 1..last \/ f = last + 1
    BY <1>3
  <2>4. QED BY <2>1, <2>2, <2>3
<1>7. ASSUME NEW f \in 1..Len(starts'), NEW i \in 1..Len(log'), NextIn(f, i - 1)'
      PROVE  log'[i].next_event_pos = i - starts'[f]
  <2>1. starts'[f] <= i - 1 /\ i <= n + 1 /\ (f < Len(starts') => i - 1 < starts'[f + 1])
    BY <1>2, <1>7 DEF NextIn
  <2>2. f \in 1..last /\ starts'[f] = starts[f]
    BY <1>3, <2>1
  <2>3. f < last => i - 1 < starts[f + 1]
    <3>1. f < last => f + 1 \in 1..last /\ f < Len(starts')
      BY <1>3, <2>2
    <3>2. QED BY <1>3, <2>1, <3>1
  <2>4. CASE i = n + 1
    <3>1. f = last
      <4>1. f < last => starts[f + 1] <= n
        BY <1>1, <2>2
      <4>2. f < last => f + 1 \in 1..last
        BY <2>2
      <4>3. QED BY <1>1, <2>2, <2>3, <2>4, <4>1, <4>2
    <3>2. log'[i] = e /\ e.next_event_pos = n + 1 - starts[last]
      BY <1>2, <2>4 DEF NextEventPos
    <3>3. starts'[f] = starts[last] /\ starts[last] \in Nat
      BY <1>1, <2>2, <3>1
    <3>4. log'[i].next_event_pos = n + 1 - starts[last]
      BY <3>2, Zenon
    <3>5. i - starts'[f] = n + 1 - starts[last]
      BY <2>4, <3>3
    <3>6. QED BY <3>4, <3>5, Zenon
  <2>5. CASE i \in 1..n
    <3>1. NextIn(f, i - 1)
      BY <2>1, <2>2, <2>3, <1>1 DEF NextIn
    <3>2. QED BY <1>2, <2>2, <2>5, <3>1 DEF PlainFiles
  <2>6. QED BY <1>2, <2>4, <2>5
<1>8. PlainFiles'
  BY <1>4, <1>5, <1>6, <1>7 DEF PlainFiles
<1>9. QED BY <1>3, <1>8

LEMMA PlainAppend ==
  ASSUME SourceTypeOK, FilesOfLog, PlainLog, NEW e \in Event, NEW c \in Content,
         log' = Append(log, e), history' = Append(history, c),
         starts' = IF e.type = "rotate" THEN Append(starts, Len(log) + 1) ELSE starts,
         e.type # "stop", e.next_event_pos = NextEventPos,
         e.type = "rotate" => /\ "rotate" \in Workload /\ ~e.artificial
                              /\ e.filename = Len(starts) + 1,
         e.type \in {"gtid", "rotate"} => Quiet(Len(log)),
         e.type = "query" => /\ Len(log) > 0
                             /\ log[Len(log)].type \in RowsTypes \/ AwaitsQuery,
         e.type = "table_map" => ~Quiet(Len(log)) /\ mapped' = {e.table},
         e.type # "table_map" => mapped' = {},
         e.type \in RowsTypes => /\ Len(log) > 0 /\ log[Len(log)].type = "table_map"
                                 /\ log[Len(log)].table = e.table
                                 /\ RowsFit(e, Current, c),
         e.type \notin RowsTypes => c = Current
  PROVE  PlainLog' /\ KeepsPast
<1>1. /\ log \in Seq(Event) /\ history \in Seq(Content) /\ Len(log) \in Nat
      /\ Len(history) = Len(log) + 1 /\ Len(starts) \in Nat /\ Len(starts) > 0
  BY DEF SourceTypeOK
<1> PICK n \in Nat : n = Len(log)
  BY <1>1
<1>2. /\ Len(log') = Len(log) + 1 /\ log'[Len(log) + 1] = e
      /\ \A i \in 1..Len(log) : log'[i] = log[i]
  BY <1>1, Appended
<1>3. /\ Len(history') = Len(history) + 1 /\ history'[Len(log) + 2] = c
      /\ \A i \in 1..Len(history) : history'[i] = history[i]
  BY <1>1, Appended
<1>f. /\ PlainFiles'
      /\ Len(starts') >= Len(starts)
      /\ \A f \in 1..Len(starts) : starts'[f] = starts[f]
      /\ \A f \in (Len(starts) + 1)..Len(starts') :
           e.type = "rotate" /\ f = Len(starts) + 1 /\ starts'[f] = Len(log) + 1
      /\ e.type = "rotate" => Len(starts') = Len(starts) + 1
  BY FilesAppend DEF PlainLog
<1>4. KeepsPast
  BY <1>1, <1>2, <1>3, <1>f DEF KeepsPast
<1>5. \A i \in 0..Len(log) : Quiet(i)' <=> Quiet(i)
  BY <1>1, <1>2 DEF Quiet
<1>6. ASSUME NEW i \in 1..Len(log) PROVE PlainEventAt(i)' /\ InPlace(i)'
  <2>1. /\ i \in Int /\ i - 1 \in 0..Len(log) /\ i \in 1..Len(history)
        /\ i + 1 \in 1..Len(history) /\ (i > 1 => i - 1 \in 1..Len(log))
    BY <1>1
  <2>2. log'[i] = log[i] /\ history'[i] = history[i] /\ history'[i + 1] = history[i + 1]
    BY <1>2, <1>3, <2>1
  <2>3. (i > 1 => log'[i - 1] = log[i - 1]) /\ (Quiet(i - 1)' <=> Quiet(i - 1))
    BY <1>2, <1>5, <2>1
  <2>4. PlainEventAt(i) /\ InPlace(i)
    BY DEF PlainLog
  <2>5. log'[i].type = "rotate" =>
          log'[i].filename \in 1..Len(starts') /\ starts'[log'[i].filename] = i
    BY <1>1, <1>f, <2>2, <2>4 DEF PlainEventAt
  <2>6. PlainEventAt(i)'
    BY <2>2, <2>3, <2>4, <2>5 DEF PlainEventAt, RowsFit
  <2>7. InPlace(i)'
    BY <2>2, <2>3, <2>4 DEF InPlace
  <2>8. QED BY <2>6, <2>7
<1>7. PlainEventAt(n + 1)' /\ InPlace(n + 1)'
  <2>1. /\ history'[n + 1] = Current /\ history'[n + 2] = c /\ log'[n + 1] = e
        /\ n + 1 - 1 = n /\ n + 1 + 1 = n + 2
        /\ n > 0 => log'[n] = log[n]
    BY <1>1, <1>2, <1>3 DEF Current
  <2>2. Quiet(n)' <=> Quiet(n)
    BY <1>1, <1>5
  <2>3. e.type = "rotate" => e.filename \in 1..Len(starts') /\ starts'[e.filename] = n + 1
    BY <1>1, <1>f
  <2>4. (Quiet(n + 1 - 1))' <=> Quiet(n)
    BY <2>1, <2>2
  <2>5. InPlace(n + 1)'
    <3>1. e.type = "query" => n > 0 /\ (log[n].type \in RowsTypes \/ (log[n].type = "gtid" /\ Quiet(n)))
      BY DEF AwaitsQuery, Quiet
    <3>2. e.type = "query" => n + 1 > 1
      BY <3>1
    <3>3. QED BY <2>1, <2>4, <3>1, <3>2 DEF InPlace
  <2>6. CASE e.type \in RowsTypes
    <3>1. n > 0 /\ log[n].type = "table_map" /\ log[n].table = e.table
      BY <2>6
    <3>2. n + 1 > 1 /\ log'[n + 1 - 1] = log[n]
      BY <2>1, <3>1
    <3>3. RowsFit(e, Current, c)
      BY <2>6
    <3>4. RowsFit(e, history'[n + 1], history'[n + 1 + 1])
      BY <2>1, <3>3
    <3>5. QED
      BY <2>1, <2>3, <2>5, <2>6, <3>1, <3>2, <3>4 DEF PlainEventAt, RowsFit
  <2>7. CASE e.type \notin RowsTypes
    <3>1. history'[n + 1 + 1] = history'[n + 1]
      BY <2>1, <2>7
    <3>2. QED
      BY <2>1, <2>3, <2>5, <2>7, <3>1 DEF PlainEventAt
  <2>8. QED BY <2>6, <2>7
<1>8. \A i \in 1..Len(log') : PlainEventAt(i)' /\ InPlace(i)'
  BY <1>1, <1>2, <1>6, <1>7
<1>9. QED
  BY <1>1, <1>2, <1>4, <1>8, <1>f DEF PlainLog

LEMMA PlainPositions ==
  ASSUME SourceTypeOK, FilesOfLog
  PROVE  NextEventPos \in Nat /\ Current \in Content /\ Len(log) \in Nat
<1>1. /\ Len(log) \in Nat /\ Len(starts) \in 1..Len(starts)
      /\ starts[Len(starts)] \in Nat /\ starts[Len(starts)] <= Len(log)
  BY DEF SourceTypeOK, FilesOfLog
<1>2. QED BY <1>1, CurrentType DEF NextEventPos

LEMMA PlainSourceStep ==
  ASSUME PlainWorkload, SourceTypeOK, FilesOfLog, PlainLog, SourceNext
  PROVE  PlainLog' /\ KeepsPast
<1>1. NextEventPos \in Nat /\ Current \in Content /\ Len(log) \in Nat /\ Len(starts) \in Nat
  BY PlainPositions DEF SourceTypeOK
<1>2. ~Stopped
  BY <1>1 DEF PlainLog, PlainEventAt, Stopped
<1>3. ASSUME NEW s \in BOOLEAN, BeginGroup(s) PROVE PlainLog' /\ KeepsPast
  <2> DEFINE e == [type |-> "gtid", standalone |-> s, next_event_pos |-> NextEventPos]
  <2>1. /\ log' = Append(log, e) /\ history' = Append(history, Current)
        /\ starts' = starts /\ mapped' = mapped /\ Quiet(Len(log))
    BY <1>3 DEF BeginGroup, Write, Idle
  <2>2. mapped = {}
    BY <1>1, <2>1 DEF Quiet, PlainLog
  <2>3. e \in Event /\ e.type = "gtid" /\ e.next_event_pos = NextEventPos
    BY <1>1, EventKinds
  <2> HIDE DEF e
  <2>4. QED BY <1>1, <2>1, <2>2, <2>3, PlainAppend DEF RowsTypes
<1>4. ASSUME NEW t \in Tables, MapTable(t) PROVE PlainLog' /\ KeepsPast
  <2> DEFINE e == [type |-> "table_map", table |-> t, next_event_pos |-> NextEventPos]
  <2>1. /\ log' = Append(log, e) /\ history' = Append(history, Current)
        /\ starts' = starts /\ mapped' = {t} /\ ~Quiet(Len(log))
    BY <1>4 DEF MapTable, Write, Idle, PlainWorkload
  <2>2. /\ e \in Event /\ e.type = "table_map" /\ e.next_event_pos = NextEventPos
        /\ e.table = t
    BY <1>1, EventKinds
  <2> HIDE DEF e
  <2>3. QED BY <1>1, <2>1, <2>2, PlainAppend DEF RowsTypes
<1>5. ASSUME NEW t \in Tables, NEW type \in RowsTypes, NEW x \in Image, NEW y \in Image,
             WriteRows(t, type, x, y),
             type = "write" => x = y /\ Current[t][y.key] = None,
             type = "update" => x.key = y.key /\ Current[t][x.key] = x.val,
             type = "delete" => Current[t][x.key] # None
      PROVE  PlainLog' /\ KeepsPast
  <2> DEFINE e == [type |-> type, table |-> t, before |-> x, after |-> y,
                   next_event_pos |-> NextEventPos]
             c == Changed(Current, type, t, x, y)
  <2>1. log' = Append(log, e) /\ history' = Append(history, c) /\ starts' = starts
    BY <1>5 DEF WriteRows, Write
  <2>2. /\ Len(log) > 0 /\ log[Len(log)].type = "table_map" /\ log[Len(log)].table = t
        /\ mapped' = {}
    BY <1>5 DEF WriteRows, PlainLog
  <2>3. e \in Event /\ c \in Content
    BY <1>1, EventKinds, ChangedType
  <2>4. e.type = type /\ e.next_event_pos = NextEventPos /\ e.table = t
    OBVIOUS
  <2>5. RowsFit(e, Current, c)
    BY <1>5 DEF RowsFit
  <2> HIDE DEF e, c
  <2>6. QED BY <2>1, <2>2, <2>3, <2>4, <2>5, PlainAppend DEF RowsTypes
<1>6. ASSUME ChangeRow PROVE PlainLog' /\ KeepsPast
  <2>1. PICK t \in mapped, k \in Keys :
          \/ \E v \in Vals : InsertSource(t, k, v)
          \/ \E newkey \in Keys, v \in Vals : UpdateSource(t, k, newkey, v)
          \/ DeleteSource(t, k)
    BY <1>6 DEF ChangeRow
  <2>2. t \in Tables /\ Current[t][k] \in Vals \union {None}
    BY <1>1 DEF SourceTypeOK, Content
  <2>3. CASE \E v \in Vals : InsertSource(t, k, v)
    BY <1>5, <2>2, <2>3 DEF InsertSource, Image, RowsTypes
  <2>4. CASE \E newkey \in Keys, v \in Vals : UpdateSource(t, k, newkey, v)
    BY <1>5, <2>2, <2>4 DEF UpdateSource, Image, RowsTypes, PlainWorkload
  <2>5. CASE DeleteSource(t, k)
    BY <1>5, <2>2, <2>5 DEF DeleteSource, Image, RowsTypes
  <2>6. QED BY <2>1, <2>3, <2>4, <2>5
<1>7. ASSUME NEW type \in {"xid", "query"},
             EndGroup(type) \/ (type = "query" /\ DdlQuery)
      PROVE  PlainLog' /\ KeepsPast
  <2> DEFINE e == [type |-> type, next_event_pos |-> NextEventPos]
  <2>1. /\ log' = Append(log, e) /\ history' = Append(history, Current)
        /\ starts' = starts /\ mapped' = mapped
        /\ type = "query" => Len(log) > 0 /\ (log[Len(log)].type \in RowsTypes \/ AwaitsQuery)
    BY <1>1, <1>7 DEF EndGroup, DdlQuery, AwaitsQuery, Write, Idle, Quiet
  <2>2. mapped = {}
    BY <1>7 DEF EndGroup, DdlQuery, AwaitsQuery, PlainLog
  <2>3. e \in Event /\ e.type = type /\ e.next_event_pos = NextEventPos
    BY <1>1, EventKinds
  <2> HIDE DEF e
  <2>4. QED BY <1>1, <2>1, <2>2, <2>3, PlainAppend DEF RowsTypes
<1>8. ~StopServer /\ ~RestartServer
  BY <1>2 DEF StopServer, RestartServer, PlainWorkload
<1>r. ASSUME RotateLog PROVE PlainLog' /\ KeepsPast
  <2> DEFINE e == [type |-> "rotate", artificial |-> FALSE, filename |-> Len(starts) + 1,
                   position |-> 0, next_event_pos |-> NextEventPos]
  <2>1. /\ log' = Append(log, e) /\ history' = Append(history, Current)
        /\ starts' = Append(starts, Len(log) + 1) /\ mapped' = mapped
        /\ "rotate" \in Workload /\ Quiet(Len(log))
    BY <1>r DEF RotateLog, Write, Idle
  <2>2. mapped = {}
    BY <1>1, <2>1 DEF Quiet, PlainLog
  <2>3. e \in Event
    <3>1. Len(starts) + 1 \in Nat
      BY <1>1
    <3>2. QED BY <1>1, <3>1, EventKinds
  <2>4. /\ e.type = "rotate" /\ e.next_event_pos = NextEventPos
        /\ e.artificial = FALSE /\ e.filename = Len(starts) + 1
    OBVIOUS
  <2> HIDE DEF e
  <2>5. QED BY <1>1, <2>1, <2>2, <2>3, <2>4, PlainAppend DEF RowsTypes
<1>9. CASE DdlQuery
  BY <1>7, <1>9
<1>10. CASE \E type \in {"xid", "query"} : EndGroup(type)
  <2>1. PICK type \in {"xid", "query"} : EndGroup(type)
    BY <1>10
  <2>2. QED BY <1>7, <2>1
<1>11. CASE ChangeRow
  BY <1>6, <1>11
<1>12. CASE \E standalone \in BOOLEAN : BeginGroup(standalone)
  BY <1>3, <1>12
<1>13. CASE \E t \in Tables : MapTable(t)
  BY <1>4, <1>13
<1>14. QED
  BY <1>8, <1>r, <1>9, <1>10, <1>11, <1>12, <1>13 DEF SourceNext

-----------------------------------------------------------------------------
\* The table tableMap selects for a TABLE_MAP event of table t.
Selection(t) == IF t[1] = Database /\ t[2] \in Added THEN t[2] ELSE NoTable

\* The event in hand is none of the log: it opens a dump or the next file.
Announced == cur.type = "rotate" /\ cur.artificial

\* How many events of the log the connection's session stands for.
Handled == IF pc \in {"handle", "body"} /\ ~Announced THEN rpos - 1 ELSE rpos

\* The file and position t has stored are those of event h.
Resumes(t, h) == starts[t.file] + t.pos = h

(* The target and the event in hand, while the binlog is plain. *)
InStep ==
  /\ applied <= Len(log) /\ Quiet(applied)
  /\ NextIn(committed.file, applied)
  /\ pc = "down" \/ applied = 0 \/ log[applied].type # "rotate"
       => Resumes(committed, applied)
  /\ committed.data = Replicated(history[applied + 1])
  /\ ~pgtx => session = committed
  /\ failure = "none"
  /\ pc = "down" => ~pgtx /\ ~intx /\ cur = NoEvent
  /\ pc = "open" => rpos = applied /\ ~pgtx
  /\ pc \in {"handle", "body", "after", "commit"} =>
       \/ ~Announced /\ rpos > 0 /\ cur = log[rpos] /\ NextIn(rfile, rpos - 1)
       \/ pc = "handle" /\ Announced
  /\ pc = "commit" /\ cur.type # "rotate" => Resumes(session, rpos)

(* What the process has read, what the connection shows, and what it remembers    *)
(* belong together: the session is the source after the handled events and names  *)
(* the file the next one is in, a group of the source that is open has set intx,  *)
(* and the table whose rows follow is the selected one.                           *)
Following ==
  pc # "down" =>
    /\ starts[rfile] <= rpos /\ rpos <= FileEnd(rfile)
    /\ session.data = Replicated(history[Handled + 1])
    /\ NextIn(session.file, Handled)
    /\ ~Quiet(Handled) => intx
    /\ Handled > 0 /\ log[Handled].type = "table_map"
         => selected = Selection(log[Handled].table)

MirrorInv == TypeInv /\ Bracket /\ PlainLog /\ InStep /\ Following

\* The numbers that the lemmas below compute with.
LEMMA Numbers ==
  ASSUME TypeInv
  PROVE  /\ Len(log) \in Nat /\ Len(starts) \in Nat /\ Len(starts) > 0
         /\ Len(history) = Len(log) + 1 /\ rpos \in Nat /\ applied \in Nat
         /\ \A f \in 1..Len(starts) : /\ starts[f] \in Nat /\ starts[f] <= Len(log)
                                      /\ FileEnd(f) \in Nat /\ FileEnd(f) <= Len(log)
                                      /\ f < Len(starts) => FileEnd(f) = starts[f + 1]
                                      /\ f = Len(starts) => FileEnd(f) = Len(log)
<1>1. /\ Len(log) \in Nat /\ Len(starts) \in Nat /\ Len(starts) > 0
      /\ Len(history) = Len(log) + 1 /\ rpos \in Nat /\ applied \in Nat
      /\ \A f \in 1..Len(starts) : starts[f] \in Nat /\ starts[f] <= Len(log)
  BY DEF TypeInv, TypeOK, SourceTypeOK, FilesOfLog
<1>2. ASSUME NEW f \in 1..Len(starts)
      PROVE  /\ FileEnd(f) \in Nat /\ FileEnd(f) <= Len(log)
             /\ f < Len(starts) => FileEnd(f) = starts[f + 1]
             /\ f = Len(starts) => FileEnd(f) = Len(log)
  <2>1. f < Len(starts) => f + 1 \in 1..Len(starts)
    BY <1>1
  <2>2. QED BY <1>1, <2>1 DEF FileEnd
<1>3. QED BY <1>1, <1>2

LEMMA HandledRange ==
  ASSUME TypeInv, InStep, Following, pc # "down"
  PROVE  /\ Handled \in 0..Len(log) /\ rpos \in 0..Len(log) /\ rfile \in 1..Len(starts)
         /\ session.file \in 1..Len(starts)
<1>1. rfile \in 1..Len(starts) /\ session.file \in 1..Len(starts)
  BY DEF TypeInv, FilesOfReplicator
<1>2. rpos \in 0..Len(log)
  BY <1>1, Numbers DEF Following
<1>3. pc \in {"handle", "body"} /\ ~Announced => rpos > 0
  BY DEF InStep
<1>4. QED BY <1>1, <1>2, <1>3, Numbers DEF Handled

\* Only one file holds the next event.
LEMMA OneNext ==
  ASSUME TypeInv, PlainLog, NEW f, NEW g, NEW h \in Nat, NextIn(f, h), NextIn(g, h)
  PROVE  f = g
<1>1. f \in 1..Len(starts) /\ g \in 1..Len(starts) /\ Len(starts) \in Nat
  BY Numbers DEF NextIn
<1>2. ASSUME NEW x \in 1..Len(starts), NEW y \in 1..Len(starts), x < y,
             NextIn(x, h), NextIn(y, h)
      PROVE  FALSE
  <2>1. x + 1 \in 1..Len(starts) /\ x < Len(starts)
    BY <1>1, <1>2
  <2>2. starts[x + 1] <= starts[y]
    <3>1. CASE x + 1 = y
      BY <1>2, <3>1, Numbers
    <3>2. CASE x + 1 < y
      <4>1. starts[x + 1] < starts[y]
        BY <1>2, <2>1, <3>2 DEF PlainLog, PlainFiles
      <4>2. starts[x + 1] \in Nat /\ starts[y] \in Nat
        BY <2>1, Numbers
      <4>3. QED BY <4>1, <4>2
    <3>3. QED BY <1>1, <1>2, <3>1, <3>2
  <2>3. h < starts[x + 1] /\ starts[y] <= h
    BY <1>2, <2>1 DEF NextIn
  <2>4. starts[x + 1] \in Nat /\ starts[y] \in Nat
    BY <2>1, Numbers
  <2>5. QED BY <2>2, <2>3, <2>4
<1>3. QED BY <1>1, <1>2

\* Only a ROTATE event has the next file behind it.
LEMMA FileGoesOn ==
  ASSUME TypeInv, PlainLog, NEW f, NEW i \in 1..Len(log), NextIn(f, i - 1),
         log[i].type # "rotate"
  PROVE  NextIn(f, i)
<1>1. f \in 1..Len(starts) /\ starts[f] <= i - 1 /\ starts[f] \in Nat /\ Len(starts) \in Nat
  BY Numbers DEF NextIn
<1>2. ASSUME f < Len(starts) PROVE i < starts[f + 1]
  <2>1. f + 1 \in 2..Len(starts) /\ f + 1 \in 1..Len(starts)
    BY <1>1, <1>2
  <2>2. starts[f + 1] # i
    BY <2>1 DEF PlainLog, PlainFiles
  <2>3. i - 1 < starts[f + 1] /\ starts[f + 1] \in Nat
    BY <1>2, <2>1, Numbers DEF NextIn
  <2>4. QED BY <2>2, <2>3
<1>3. QED BY <1>1, <1>2 DEF NextIn

\* Behind a ROTATE event the next one is in the file it names.
LEMMA FileBegins ==
  ASSUME TypeInv, PlainLog, NEW i \in 1..Len(log), log[i].type = "rotate"
  PROVE  NextIn(log[i].filename, i)
<1> DEFINE f == log[i].filename
<1>1. f \in 1..Len(starts) /\ starts[f] = i /\ Len(starts) \in Nat
  BY Numbers DEF PlainLog, PlainEventAt
<1>2. f < Len(starts) => i < starts[f + 1]
  <2>1. f < Len(starts) => f + 1 \in 1..Len(starts) /\ f < f + 1
    BY <1>1
  <2>2. QED BY <1>1, <2>1 DEF PlainLog, PlainFiles
<1>3. QED BY <1>1, <1>2 DEF NextIn

LEMMA SourceKeepsMirror ==
  ASSUME MirrorInv, PlainWorkload, SourceNext, UNCHANGED replicatorVars
  PROVE  PlainLog' /\ InStep' /\ Following'
<1>1. PlainLog' /\ KeepsPast
  BY PlainSourceStep DEF MirrorInv, TypeInv, TypeOK
<1>t. TypeInv' /\ SourceTypeOK /\ SourceTypeOK'
  BY SourceKeepsTypes DEF MirrorInv, TypeInv, TypeOK
<1>2. /\ Len(log) \in Nat /\ Len(log') \in Nat /\ Len(history) = Len(log) + 1
      /\ Len(log') >= Len(log) /\ applied \in 0..Len(log)
      /\ Len(starts) \in Nat /\ Len(starts') \in Nat /\ Len(starts') >= Len(starts)
      /\ \A f \in 1..Len(starts) : starts'[f] = starts[f]
  <2>1. /\ Len(log) \in Nat /\ Len(history) = Len(log) + 1 /\ Len(starts) \in Nat
        /\ applied \in Nat
    BY Numbers DEF MirrorInv
  <2>2. Len(log') \in Nat /\ Len(starts') \in Nat
    BY <1>t DEF SourceTypeOK
  <2>3. applied <= Len(log)
    BY DEF MirrorInv, InStep
  <2>4. QED BY <1>1, <2>1, <2>2, <2>3 DEF KeepsPast
<1>3. /\ \A i \in 0..Len(log) : /\ Quiet(i)' <=> Quiet(i)
                                /\ history'[i + 1] = history[i + 1]
                                /\ i > 0 => log'[i] = log[i]
      /\ \A f \in 1..Len(starts), h \in 0..Len(log) : NextIn(f, h)' <=> NextIn(f, h)
  BY <1>1, <1>t, PastReadAlike
<1>4. PICK a \in 0..Len(log) : a = applied
  BY <1>2
<1>5. InStep'
  <2>1. (Quiet(a)' <=> Quiet(a)) /\ history'[a + 1] = history[a + 1]
        /\ (a > 0 => log'[a] = log[a])
    BY <1>3
  <2>2. /\ Quiet(applied)' <=> Quiet(applied)
        /\ (Replicated(history[applied + 1]))' = Replicated(history[applied + 1])
    BY <1>4, <2>1 DEF replicatorVars, Replicated, Quiet
  <2>3. NextIn(committed.file, applied)' /\ starts'[committed.file] = starts[committed.file]
    <3>1. PICK f \in 1..Len(starts) : f = committed.file
      BY DEF MirrorInv, TypeInv, FilesOfReplicator
    <3>2. NextIn(f, a)' <=> NextIn(f, a)
      BY <1>3
    <3>3. NextIn(f, a)
      BY <1>4, <3>1 DEF MirrorInv, InStep
    <3>4. committed' = committed /\ applied' = applied
      BY DEF replicatorVars
    <3>5. QED BY <1>2, <1>4, <3>1, <3>2, <3>3, <3>4 DEF NextIn
  <2>4. ASSUME pc \in {"handle", "body", "after", "commit"}, rpos > 0
        PROVE  /\ log'[rpos] = log[rpos]
               /\ NextIn(rfile, rpos - 1) => NextIn(rfile, rpos - 1)'
    <3>1. rpos \in 1..Len(log) /\ rpos - 1 \in 0..Len(log) /\ rfile \in 1..Len(starts)
      BY <1>2, <2>4, HandledRange DEF MirrorInv
    <3>2. PICK f \in 1..Len(starts), h \in 0..Len(log) : f = rfile /\ h = rpos - 1
      BY <3>1
    <3>3. NextIn(f, h)' <=> NextIn(f, h)
      BY <1>3
    <3>4. rfile' = rfile /\ rpos' = rpos
      BY DEF replicatorVars
    <3>5. QED BY <1>3, <3>1, <3>2, <3>3, <3>4 DEF NextIn
  <2>5. starts'[session.file] = starts[session.file]
    BY <1>2 DEF MirrorInv, TypeInv, FilesOfReplicator
  <2>6. Announced' = Announced /\ Resumes(committed, applied)' = Resumes(committed, applied)
        /\ Resumes(session, rpos)' = Resumes(session, rpos)
    BY <2>3, <2>5 DEF Announced, Resumes, replicatorVars
  <2>7. (pc = "down" \/ applied = 0 \/ log[applied].type # "rotate"
           => Resumes(committed, applied))'
    BY <1>4, <2>1, <2>6 DEF MirrorInv, InStep, replicatorVars
  <2>8. (pc \in {"handle", "body", "after", "commit"} =>
           \/ ~Announced /\ rpos > 0 /\ cur = log[rpos] /\ NextIn(rfile, rpos - 1)
           \/ pc = "handle" /\ Announced)'
    BY <2>4, <2>6 DEF MirrorInv, InStep, replicatorVars
  <2>9. QED
    BY <1>2, <2>2, <2>3, <2>6, <2>7, <2>8 DEF MirrorInv, InStep, replicatorVars
<1>6. Following'
  <2> SUFFICES ASSUME pc # "down" PROVE Following'
    BY DEF Following, replicatorVars
  <2>1. PICK h \in 0..Len(log) : h = Handled
    BY HandledRange DEF MirrorInv
  <2>2. /\ Quiet(h)' <=> Quiet(h)
        /\ history'[h + 1] = history[h + 1]
        /\ h > 0 => log'[h] = log[h]
    BY <1>3
  <2>3. Handled' = Handled
    BY DEF Handled, Announced, replicatorVars
  <2>4. Quiet(Handled)' <=> Quiet(Handled)
    BY <2>1, <2>2, <2>3 DEF Quiet
  <2>5. /\ starts[rfile] <= rpos /\ rpos <= FileEnd(rfile) /\ rpos \in Nat
        /\ rfile \in 1..Len(starts) /\ session.file \in 1..Len(starts)
        /\ session.data = Replicated(history[h + 1])
        /\ NextIn(session.file, h)
        /\ ~Quiet(Handled) => intx
        /\ h > 0 /\ log[h].type = "table_map" => selected = Selection(log[h].table)
    BY <2>1, HandledRange DEF MirrorInv, Following
  <2>6. (Replicated(history[Handled + 1]))' = Replicated(history[h + 1])
    BY <2>1, <2>2, <2>3 DEF Replicated
  <2>7. (Handled > 0 /\ log[Handled].type = "table_map"
           => selected = Selection(log[Handled].table))'
    BY <2>1, <2>2, <2>3, <2>5 DEF replicatorVars, Selection
  <2>8. NextIn(session.file, Handled)'
    <3>1. PICK f \in 1..Len(starts) : f = session.file
      BY <2>5
    <3>2. (NextIn(f, h)' <=> NextIn(f, h)) /\ session' = session
      BY <1>3 DEF replicatorVars
    <3>3. QED BY <2>1, <2>3, <2>5, <3>1, <3>2 DEF NextIn
  <2>9. rpos <= FileEnd(rfile)'
    <3>1. CASE rfile < Len(starts)
      <4>1. rfile + 1 \in 1..Len(starts) /\ rfile < Len(starts')
        <5>1. /\ rfile \in 1..Len(starts) /\ Len(starts') >= Len(starts)
              /\ Len(starts) \in Nat /\ Len(starts') \in Nat
          BY <1>2, <2>5
        <5>2. QED BY <3>1, <5>1
      <4>2. QED BY <1>2, <2>5, <3>1, <4>1 DEF FileEnd, replicatorVars
    <3>2. CASE rfile = Len(starts)
      <4>1. rpos <= Len(log)
        BY <2>5, <3>2 DEF FileEnd
      <4>2. rfile < Len(starts') => starts'[rfile + 1] > Len(log) /\ starts'[rfile + 1] \in Nat
        <5>1. rfile < Len(starts') => rfile + 1 \in (Len(starts) + 1)..Len(starts')
                                       /\ rfile + 1 \in 1..Len(starts')
          BY <1>2, <3>2
        <5>2. /\ \A f \in (Len(starts) + 1)..Len(starts') : starts'[f] > Len(log)
              /\ \A f \in 1..Len(starts') : starts'[f] \in Nat
          <6>1. starts' \in Seq(Nat)
            BY <1>t DEF SourceTypeOK
          <6>2. \A f \in (Len(starts) + 1)..Len(starts') : starts'[f] > Len(log)
            BY <1>1 DEF KeepsPast
          <6>3. QED BY <6>1, <6>2
        <5>3. QED BY <5>1, <5>2
      <4>3. QED BY <1>2, <2>5, <4>1, <4>2 DEF FileEnd, replicatorVars
    <3>3. QED BY <1>2, <2>5, <3>1, <3>2
  <2>10. QED
    BY <1>2, <2>4, <2>5, <2>6, <2>7, <2>8, <2>9 DEF Following, replicatorVars
<1>7. QED BY <1>1, <1>5, <1>6

-----------------------------------------------------------------------------
\* A change of one table changes the replicated content at that table's name, if at all.
LEMMA OtherTables ==
  ASSUME NEW c \in Content, NEW t \in Tables, NEW d, NEW rows,
         d = [c EXCEPT ![t] = rows]
  PROVE  \A n \in Added : /\ <<Database, n>> = t <=> t[1] = Database /\ t[2] = n
                          /\ d[<<Database, n>>]
                               = IF <<Database, n>> = t THEN rows ELSE c[<<Database, n>>]
<1>1. t = <<t[1], t[2]>> /\ \A n \in Added : <<Database, n>> \in Tables
  BY SourceAssumption, ReplicatorAssumption
<1>2. \A n \in Added : <<Database, n>> = t <=> t[1] = Database /\ t[2] = n
  BY <1>1
<1>3. QED BY <1>1, <1>2 DEF Content

LEMMA UnselectedChange ==
  ASSUME NEW c \in Content, NEW t \in Tables, NEW d, NEW rows,
         d = [c EXCEPT ![t] = rows], Selection(t) = NoTable
  PROVE  Replicated(d) = Replicated(c)
<1>1. \A n \in Added : <<Database, n>> # t
  BY OtherTables, ReplicatorAssumption DEF Selection
<1>2. \A n \in Added : d[<<Database, n>>] = c[<<Database, n>>]
  BY <1>1, OtherTables
<1>3. QED BY <1>2 DEF Replicated

LEMMA SelectedTable ==
  ASSUME NEW t \in Tables, Selection(t) \in Added
  PROVE  t = <<Database, Selection(t)>> /\ t[2] = Selection(t)
<1>1. t[1] = Database /\ t[2] = Selection(t)
  BY ReplicatorAssumption DEF Selection
<1>2. QED BY <1>1, SourceAssumption

\* What a handler finds when the event in hand is one of the log.
LEMMA EventInHand ==
  ASSUME MirrorInv, pc \in {"handle", "body", "after", "commit"}, ~Announced
  PROVE  /\ rpos \in 1..Len(log) /\ cur = log[rpos] /\ PlainEventAt(rpos) /\ InPlace(rpos)
         /\ history[rpos] \in Content /\ history[rpos + 1] \in Content
         /\ pc \in {"handle", "body"} => Handled = rpos - 1
         /\ pc \in {"after", "commit"} => Handled = rpos
         /\ NextIn(rfile, rpos - 1) /\ rpos \in Nat /\ Len(log) \in Nat
<1>1. /\ rpos \in 0..Len(log) /\ Len(log) \in Nat /\ Len(history) = Len(log) + 1
      /\ history \in Seq(Content) /\ rpos > 0 /\ cur = log[rpos] /\ NextIn(rfile, rpos - 1)
  BY HandledRange, Numbers DEF MirrorInv, InStep, TypeInv, TypeOK, SourceTypeOK
<1>2. rpos \in 1..Len(log) /\ rpos \in 1..Len(history) /\ rpos + 1 \in 1..Len(history)
  BY <1>1
<1>3. PlainEventAt(rpos) /\ InPlace(rpos)
  BY <1>2 DEF MirrorInv, PlainLog
<1>4. QED BY <1>1, <1>2, <1>3 DEF Handled

\* Where mygrate's own position stands after the event in hand, unless that ends a file.
LEMMA SameFile ==
  ASSUME MirrorInv, pc \in {"handle", "body", "after", "commit"}, cur.type # "rotate"
  PROVE  /\ NextIn(session.file, rpos) /\ session.file = rfile
         /\ cur.next_event_pos = rpos - starts[rfile]
<1>1. ~Announced
  BY DEF Announced
<1>2. /\ rpos \in 1..Len(log) /\ cur = log[rpos] /\ NextIn(rfile, rpos - 1)
      /\ TypeInv /\ PlainLog
  BY <1>1, EventInHand DEF MirrorInv
<1>3. NextIn(rfile, rpos)
  BY <1>2, FileGoesOn
<1>4. NextIn(session.file, Handled) /\ (Handled = rpos \/ Handled = rpos - 1)
  BY <1>1 DEF MirrorInv, Following, Handled
<1>5. NextIn(session.file, rpos)
  BY <1>2, <1>4, FileGoesOn
<1>6. session.file = rfile
  BY <1>2, <1>3, <1>5, OneNext
<1>7. cur.next_event_pos = rpos - starts[rfile]
  BY <1>2 DEF PlainLog, PlainFiles, NextIn
<1>8. QED BY <1>5, <1>6, <1>7

LEMMA RowsInHand ==
  ASSUME MirrorInv, pc \in {"handle", "body"}, cur.type \in RowsTypes
  PROVE  /\ rpos > 1 /\ RowsFit(cur, history[rpos], history[rpos + 1])
         /\ session.data = Replicated(history[rpos])
         /\ selected = Selection(cur.table) /\ intx
         /\ cur.table \in Tables /\ cur.before \in Image /\ cur.after \in Image
<1>1. ~Announced
  BY DEF Announced, RowsTypes
<1>2. /\ rpos \in 1..Len(log) /\ cur = log[rpos] /\ PlainEventAt(rpos)
      /\ Handled = rpos - 1 /\ rpos \in Nat /\ Len(log) \in Nat
  BY <1>1, EventInHand
<1>3. /\ rpos > 1 /\ log[rpos - 1].type = "table_map" /\ log[rpos - 1].table = cur.table
      /\ RowsFit(cur, history[rpos], history[rpos + 1])
  BY <1>2 DEF PlainEventAt
<1>4. ~Quiet(rpos - 1)
  BY <1>2, <1>3 DEF Quiet
<1>5. rpos - 1 + 1 = rpos
  BY <1>2
<1>6. session.data = Replicated(history[rpos]) /\ selected = Selection(cur.table) /\ intx
  BY <1>2, <1>3, <1>4, <1>5 DEF MirrorInv, Following
<1>7. cur \in Event
  BY DEF MirrorInv, TypeInv, InHand
<1>8. QED BY <1>3, <1>6, <1>7, EventFields

\* The rows of the selected table are those of the event's table on the source.
LEMMA RowsSelected ==
  ASSUME MirrorInv, pc \in {"handle", "body"}, cur.type \in RowsTypes, selected # NoTable
  PROVE  /\ selected \in Added /\ cur.table = <<Database, selected>>
         /\ session.data[selected] = history[rpos][cur.table]
         /\ history[rpos] \in Content
         /\ history[rpos][cur.table] \in [Keys -> Vals \union {None}]
<1>1. selected \in Added
  BY DEF MirrorInv, TypeInv, TypeOK
<1>2. ~Announced
  BY DEF Announced, RowsTypes
<1>3. history[rpos] \in Content
  BY <1>2, EventInHand
<1>4. history[rpos][cur.table] \in [Keys -> Vals \union {None}]
  BY <1>3, RowsInHand DEF Content
<1>5. /\ cur.table \in Tables /\ Selection(cur.table) = selected
      /\ session.data = Replicated(history[rpos])
  BY RowsInHand
<1>6. /\ Replicated(history[rpos])[selected] = history[rpos][cur.table]
      /\ cur.table = <<Database, selected>>
  <2>1. cur.table = <<Database, selected>>
    BY <1>1, <1>5, SelectedTable
  <2>2. QED BY <1>1, <1>5, <2>1 DEF Replicated
<1>7. QED BY <1>1, <1>3, <1>4, <1>5, <1>6

\* A statement that leaves the selected table with the rows the source has after
\* the event leaves the session where the source is after it.
LEMMA RowsApplied ==
  ASSUME MirrorInv, pc = "body", cur.type \in RowsTypes,
         NEW rows \in [Keys -> Vals \union {None}],
         history[rpos + 1] = [history[rpos] EXCEPT ![cur.table] = rows]
  PROVE  [session.data EXCEPT ![selected] = rows] = Replicated(history[rpos + 1])
<1>1. selected \in Added /\ selected # NoTable
  BY ReplicatorAssumption DEF MirrorInv, TypeInv, InHand
<1>2. /\ cur.table \in Tables /\ Selection(cur.table) = selected
      /\ session.data = Replicated(history[rpos])
  BY RowsInHand
<1>3. history[rpos] \in Content
  BY <1>1, RowsSelected
<1>4. cur.table = <<Database, selected>> /\ cur.table[2] = selected
  BY <1>1, <1>2, SelectedTable
<1>5. ASSUME NEW n \in Added
      PROVE  history[rpos + 1][<<Database, n>>]
               = IF n = selected THEN rows ELSE history[rpos][<<Database, n>>]
  <2>1. <<Database, n>> = cur.table <=> n = selected
    BY <1>4
  <2>2. history[rpos + 1][<<Database, n>>]
          = IF <<Database, n>> = cur.table THEN rows ELSE history[rpos][<<Database, n>>]
    BY <1>2, <1>3, ReplicatorAssumption DEF Content
  <2>3. QED BY <2>1, <2>2
<1>6. Replicated(history[rpos + 1])
        = [n \in Added |-> IF n = selected THEN rows ELSE history[rpos][<<Database, n>>]]
  BY <1>5 DEF Replicated
<1>7. [session.data EXCEPT ![selected] = rows]
        = [n \in Added |-> IF n = selected THEN rows ELSE history[rpos][<<Database, n>>]]
  BY <1>1, <1>2 DEF Replicated
<1>8. QED BY <1>6, <1>7

LEMMA BodyStep ==
  ASSUME MirrorInv, InsertRow \/ UpdateRow \/ DeleteRow, UNCHANGED sourceVars
  PROVE  InStep' /\ Following'
<1> USE DEF stream, memory, target, ghosts, sourceVars
<1>1. pc = "body" /\ cur.type \in RowsTypes /\ cur.type \notin {"rotate", "table_map"}
  BY DEF InsertRow, UpdateRow, DeleteRow, InBody, RowsTypes
<1>2. /\ pgtx /\ intx /\ rpos \in 1..Len(log) /\ rpos \in Nat /\ cur = log[rpos]
      /\ ~Announced /\ NextIn(rfile, rpos - 1) /\ NextIn(session.file, rpos)
      /\ starts[rfile] <= rpos /\ rpos <= FileEnd(rfile)
  <2>1. ~Announced
    BY <1>1 DEF Announced
  <2>2. QED BY <1>1, <2>1, EventInHand, RowsInHand, SameFile DEF MirrorInv, Bracket, Following
<1>3. /\ pc' = "after" /\ cur' = cur /\ rpos' = rpos /\ rfile' = rfile
      /\ UNCHANGED <<selected, intx, pgtx, applied, failure, committed>>
  BY <1>2 DEF InsertRow, UpdateRow, DeleteRow, Executed
<1> DEFINE c == history[rpos]
           old == c[cur.table]
           bk == cur.before.key
           ak == cur.after.key
<1>4. /\ selected \in Added /\ session.data[selected] = old
      /\ old \in [Keys -> Vals \union {None}] /\ c \in Content
  <2>1. selected \in Added /\ selected # NoTable
    BY <1>1, ReplicatorAssumption DEF MirrorInv, TypeInv, InHand
  <2>2. QED BY <1>1, <2>1, RowsSelected
<1>5. /\ RowsFit(cur, c, history[rpos + 1])
      /\ cur.before \in Image /\ cur.after \in Image
      /\ bk \in Keys /\ ak \in Keys
      /\ cur.before.val \in Vals /\ cur.after.val \in Vals
  BY <1>1, RowsInHand DEF Image
<1>6. session \in Target /\ session.data \in [Added -> [Keys -> Vals \union {None}]]
  BY DEF MirrorInv, TypeInv, TypeOK, Target
<1>7. ASSUME NEW rows \in [Keys -> Vals \union {None}],
             history[rpos + 1] = [c EXCEPT ![cur.table] = rows],
             session'.data = [session.data EXCEPT ![selected] = rows],
             session'.file = session.file
      PROVE  session'.data = Replicated(history[rpos + 1]) /\ session'.file = session.file
  BY <1>1, <1>7, RowsApplied
<1>8. session'.data = Replicated(history[rpos + 1]) /\ session'.file = session.file
  <2>1. CASE InsertRow
    <3> DEFINE rows == [old EXCEPT ![ak] = cur.after.val]
    <3>1. cur.type = "write" /\ bk = ak
      BY <1>5, <2>1 DEF InsertRow, InBody, RowsFit
    <3>2. rows \in [Keys -> Vals \union {None}]
      BY <1>4, <1>5
    <3>3. rows = [k \in Keys |-> IF cur.type # "delete" /\ k = ak THEN cur.after.val
                                 ELSE IF cur.type # "write" /\ k = bk THEN None
                                 ELSE old[k]]
      BY <1>4, <1>5, <3>1
    <3>4. history[rpos + 1] = [c EXCEPT ![cur.table] = rows]
      BY <1>5, <3>3 DEF RowsFit, Changed
    <3>5. /\ session'.data = [session.data EXCEPT ![selected] = rows]
          /\ session'.file = session.file
      BY <1>4, <1>6, <2>1 DEF InsertRow, Executed, Target
    <3> HIDE DEF rows
    <3>6. QED BY <1>7, <3>2, <3>4, <3>5
  <2>2. CASE UpdateRow
    <3> DEFINE rows == [[old EXCEPT ![bk] = cur.before.val] EXCEPT ![ak] = cur.after.val]
    <3>1. cur.type = "update" /\ bk = ak
      BY <1>5, <2>2 DEF UpdateRow, InBody, RowsFit
    <3>2. rows \in [Keys -> Vals \union {None}]
      BY <1>4, <1>5
    <3>3. rows = [k \in Keys |-> IF cur.type # "delete" /\ k = ak THEN cur.after.val
                                 ELSE IF cur.type # "write" /\ k = bk THEN None
                                 ELSE old[k]]
      BY <1>4, <1>5, <3>1
    <3>4. history[rpos + 1] = [c EXCEPT ![cur.table] = rows]
      BY <1>5, <3>3 DEF RowsFit, Changed
    <3>5. /\ session'.data = [session.data EXCEPT ![selected] = rows]
          /\ session'.file = session.file
      BY <1>4, <1>6, <2>2 DEF UpdateRow, Executed, Target
    <3> HIDE DEF rows
    <3>6. QED BY <1>7, <3>2, <3>4, <3>5
  <2>3. CASE DeleteRow
    <3> DEFINE rows == [old EXCEPT ![bk] = None]
    <3>1. cur.type = "delete"
      BY <2>3 DEF DeleteRow, InBody
    <3>2. rows \in [Keys -> Vals \union {None}]
      BY <1>4, <1>5
    <3>3. rows = [k \in Keys |-> IF cur.type # "delete" /\ k = ak THEN cur.after.val
                                 ELSE IF cur.type # "write" /\ k = bk THEN None
                                 ELSE old[k]]
      BY <1>4, <1>5, <3>1
    <3>4. history[rpos + 1] = [c EXCEPT ![cur.table] = rows]
      BY <1>5, <3>3 DEF RowsFit, Changed
    <3>5. /\ session'.data = [session.data EXCEPT ![selected] = rows]
          /\ session'.file = session.file
      BY <1>4, <1>6, <2>3 DEF DeleteRow, Executed, Target
    <3> HIDE DEF rows
    <3>6. QED BY <1>7, <3>2, <3>4, <3>5
  <2>4. QED BY <2>1, <2>2, <2>3
<1>9. InStep'
  BY <1>1, <1>2, <1>3, <1>8 DEF MirrorInv, InStep, Quiet, Replicated, NextIn, Resumes,
     Announced
<1>10. Handled' = rpos
  BY <1>3 DEF Handled
<1>11. Following'
  BY <1>1, <1>2, <1>3, <1>8, <1>10 DEF Following, Replicated, NextIn, FileEnd
<1>12. QED BY <1>9, <1>11

\* No verify and no constraint fails: the row of the event is as the event says.
LEMMA NothingFails ==
  ASSUME MirrorInv
  PROVE  ~VerifyRowFails /\ ~InsertRowFails /\ ~UpdateRowFails /\ ~DeleteRowFails
<1>1. ASSUME VerifyRowFails PROVE FALSE
  <2>1. pc = "handle" /\ cur.type \in RowsTypes /\ selected # NoTable
    BY <1>1 DEF VerifyRowFails, Ignored, ColumnsAgree
  <2>2. cur.table = <<Database, selected>>
    BY <2>1, RowsSelected
  <2>3. QED BY <1>1, <2>2 DEF VerifyRowFails, ColumnsAgree
<1>2. ASSUME InsertRowFails \/ UpdateRowFails \/ DeleteRowFails PROVE FALSE
  <2>1. pc = "body" /\ cur.type \in RowsTypes
    BY <1>2 DEF InsertRowFails, UpdateRowFails, DeleteRowFails, InBody, RowsTypes
  <2>2. selected # NoTable
    BY <2>1, ReplicatorAssumption DEF MirrorInv, TypeInv, InHand
  <2>3. session.data[selected] = history[rpos][cur.table]
    BY <2>1, <2>2, RowsSelected
  <2>4. RowsFit(cur, history[rpos], history[rpos + 1]) /\ cur.before \in Image
    BY <2>1, RowsInHand
  <2>5. cur.before.val \in Vals /\ None \notin Vals
    BY <2>4, SourceAssumption DEF Image
  <2>6. QED
    BY <1>2, <2>3, <2>4, <2>5 DEF InsertRowFails, UpdateRowFails, DeleteRowFails, InBody,
       Stored, RowsFit
<1>3. QED BY <1>1, <1>2

LEMMA StreamStep ==
  ASSUME MirrorInv, PlainWorkload, UNCHANGED sourceVars,
         Start \/ OpenStream \/ Fetch \/ FetchNextFile \/ Crash
  PROVE  InStep' /\ Following'
<1> USE DEF memory, target, ghosts, sourceVars
<1>1. /\ Len(log) \in Nat /\ applied \in 0..Len(log) /\ rpos \in Nat /\ Len(starts) \in Nat
      /\ Quiet(applied) /\ PlainLog /\ InStep /\ Following /\ TypeInv
      /\ NextIn(committed.file, applied) /\ log \in Seq(Event)
      /\ \A f \in 1..Len(starts) : /\ starts[f] \in Nat
                                   /\ f < Len(starts) => FileEnd(f) = starts[f + 1]
                                   /\ f = Len(starts) => FileEnd(f) = Len(log)
  <2>1. PlainLog /\ InStep /\ Following /\ TypeInv
    BY DEF MirrorInv
  <2>2. applied <= Len(log) /\ Quiet(applied) /\ NextIn(committed.file, applied)
    BY <2>1 DEF InStep
  <2>3. log \in Seq(Event)
    BY <2>1 DEF TypeInv, TypeOK, SourceTypeOK
  <2>4. QED BY <2>1, <2>2, <2>3, Numbers
<1>2. Quiet(applied)' <=> Quiet(applied')
  BY DEF Quiet
<1>3. CASE Start
  <2>1. /\ pc' = "open" /\ rfile' = committed.file /\ pc = "down" /\ rpos' = applied
        /\ UNCHANGED <<cur, selected, intx, pgtx, session, committed, applied, failure>>
        /\ session = committed /\ ~pgtx /\ ~intx
    BY <1>1, <1>3 DEF Start, InStep, Resumes
  <2>2. Handled' = applied
    BY <2>1 DEF Handled
  <2>3. applied > 0 => log[applied].type # "table_map"
    BY <1>1 DEF Quiet
  <2>4. starts[rfile'] <= rpos' /\ rpos' <= FileEnd(rfile')
    BY <1>1, <2>1 DEF NextIn
  <2>5. InStep'
    BY <1>1, <2>1 DEF InStep, Quiet, Replicated, NextIn, Resumes
  <2>6. Following'
    BY <1>1, <2>1, <2>2, <2>3, <2>4 DEF InStep, Following, Quiet, Replicated, NextIn, FileEnd
  <2>7. QED BY <2>5, <2>6
<1>4. CASE OpenStream
  <2>1. /\ pc = "open" /\ pc' = "handle" /\ Announced'
        /\ UNCHANGED <<rfile, rpos, selected, intx, pgtx, session, committed, applied, failure>>
    BY <1>4 DEF OpenStream, ArtificialRotate, Announced
  <2>2. Handled' = Handled
    BY <2>1 DEF Handled
  <2>3. InStep'
    BY <1>1, <2>1 DEF InStep, Quiet, Replicated, NextIn, Resumes
  <2>4. Following'
    BY <1>1, <2>1, <2>2 DEF Following, Quiet, Replicated, Selection, NextIn, FileEnd
  <2>5. QED BY <2>3, <2>4
<1>5. CASE Fetch
  <2>1. /\ pc = "fetch" /\ pc' = "handle" /\ rpos' = rpos + 1 /\ cur' = log[rpos + 1]
        /\ rpos < FileEnd(rfile) /\ starts[rfile] <= rpos /\ rfile \in 1..Len(starts)
        /\ UNCHANGED <<rfile, selected, intx, pgtx, session, committed, applied, failure>>
    BY <1>1, <1>5 DEF Fetch, Following, TypeInv, FilesOfReplicator
  <2>2. rpos + 1 \in 1..Len(log) /\ NextIn(rfile, rpos)
    BY <1>1, <2>1, Numbers DEF NextIn
  <2>3. ~Announced'
    <3>1. PlainEventAt(rpos + 1)
      BY <1>1, <2>2 DEF PlainLog
    <3>2. QED BY <2>1, <3>1 DEF PlainEventAt, Announced
  <2>4. Handled' = rpos /\ Handled = rpos
    BY <1>1, <2>1, <2>3 DEF Handled
  <2>5. NextIn(rfile, rpos - 1)'
    BY <1>1, <2>1, <2>2 DEF NextIn
  <2>6. InStep'
    BY <1>1, <2>1, <2>2, <2>3, <2>5 DEF InStep, Quiet, Replicated, NextIn, Resumes
  <2>7. Following'
    BY <1>1, <2>1, <2>2, <2>4 DEF Following, Quiet, Replicated, Selection, NextIn, FileEnd
  <2>8. QED BY <2>6, <2>7
<1>6. CASE FetchNextFile
  <2>1. /\ pc = "fetch" /\ pc' = "handle" /\ rfile' = rfile + 1 /\ Announced'
        /\ rfile \in 1..Len(starts) /\ rfile + 1 \in 1..Len(starts) /\ rpos = starts[rfile + 1]
        /\ UNCHANGED <<rpos, selected, intx, pgtx, session, committed, applied, failure>>
    BY <1>1, <1>6 DEF FetchNextFile, ArtificialRotate, Announced, TypeInv, FilesOfReplicator
  <2>2. Handled' = Handled
    BY <2>1 DEF Handled
  <2>3. starts[rfile'] <= rpos' /\ rpos' <= FileEnd(rfile')
    <3>1. rfile + 1 < Len(starts) => starts[rfile + 1] < starts[rfile + 2]
      <4>1. rfile + 1 < Len(starts) => rfile + 2 \in 1..Len(starts) /\ rfile + 1 < rfile + 2
        BY <1>1, <2>1
      <4>2. QED BY <1>1, <2>1, <4>1 DEF PlainLog, PlainFiles
    <3>2. rfile + 1 < Len(starts) => starts[rfile + 1 + 1] = starts[rfile + 2]
      BY <2>1
    <3>3. rfile + 1 < Len(starts) => starts[rfile + 2] \in Nat
      BY <1>1, <2>1
    <3>4. starts[rfile + 1] \in Nat /\ starts[rfile + 1] <= Len(log)
      BY <2>1, <1>1, Numbers
    <3>5. QED BY <1>1, <2>1, <3>1, <3>2, <3>3, <3>4
  <2>4. InStep'
    BY <1>1, <2>1 DEF InStep, Quiet, Replicated, NextIn, Resumes
  <2>5. Following'
    BY <1>1, <2>1, <2>2, <2>3 DEF Following, Quiet, Replicated, Selection, NextIn, FileEnd
  <2>6. QED BY <2>4, <2>5
<1>7. CASE Crash
  <2>1. /\ pc' = "down" /\ session' = committed /\ ~pgtx' /\ ~intx' /\ cur' = NoEvent
        /\ UNCHANGED <<committed, applied, failure>> /\ MaxCrashes > 0
    BY <1>1, <1>7, ReplicatorAssumption DEF Crash, ProcessGone, TypeInv, TypeOK
  <2>2. applied = 0 \/ log[applied].type # "rotate"
    <3>1. "rotate" \notin Workload
      BY <2>1 DEF PlainWorkload
    <3>2. applied > 0 => PlainEventAt(applied)
      BY <1>1 DEF PlainLog
    <3>3. QED BY <1>1, <3>1, <3>2 DEF PlainEventAt
  <2>3. QED
    BY <1>1, <2>1, <2>2 DEF InStep, Following, Quiet, Replicated, NextIn, Resumes
<1>8. QED BY <1>3, <1>4, <1>5, <1>6, <1>7

\* A plain binlog can always be opened where it was left.
LEMMA NeverRefused ==
  ASSUME MirrorInv
  PROVE  ~StreamRefused
<1>1. pc = "open" => rpos <= FileEnd(rfile) /\ rpos \in Nat /\ FileEnd(rfile) \in Nat
  BY Numbers DEF MirrorInv, Following, TypeInv, FilesOfReplicator
<1>2. QED BY <1>1 DEF StreamRefused

\* After an event that changes no row the session stands one event further.
LEMMA Further ==
  ASSUME MirrorInv, UNCHANGED sourceVars,
         pc \in {"handle", "body"}, cur.type \notin RowsTypes, ~Announced,
         pc' \in {"fetch", "after"},
         UNCHANGED <<cur, rfile, rpos, pgtx, committed, applied, failure>>,
         session'.data = session.data, pgtx \/ session' = session,
         IF cur.type = "rotate" THEN session'.file = cur.filename ELSE session' = session,
         cur.type = "table_map" => selected' = Selection(cur.table),
         cur.type = "table_map" => intx' = intx,
         ~Quiet(rpos) /\ cur.type # "table_map" => intx'
  PROVE  InStep' /\ Following'
<1> USE DEF sourceVars
<1>1. /\ rpos \in 1..Len(log) /\ cur = log[rpos] /\ PlainEventAt(rpos) /\ Handled = rpos - 1
      /\ NextIn(rfile, rpos - 1) /\ rpos \in Nat /\ InPlace(rpos)
      /\ starts[rfile] <= rpos /\ rpos <= FileEnd(rfile) /\ TypeInv /\ PlainLog
  BY EventInHand DEF MirrorInv, Following
<1>2. Handled' = rpos
  BY DEF Handled
<1>3. history[rpos + 1] = history[rpos] /\ rpos - 1 + 1 = rpos
  BY <1>1 DEF PlainEventAt
<1>4. session.data = Replicated(history[rpos]) /\ (~Quiet(rpos - 1) => intx)
  BY <1>1, <1>3 DEF MirrorInv, Following
<1>5. cur.type = "table_map" => intx
  BY <1>1, <1>4 DEF InPlace
<1>6. NextIn(session'.file, rpos)
  <2>1. CASE cur.type = "rotate"
    BY <1>1, <2>1, FileBegins
  <2>2. CASE cur.type # "rotate"
    BY <2>2, SameFile
  <2>3. QED BY <2>1, <2>2
<1>7. InStep'
  BY <1>1 DEF MirrorInv, InStep, Quiet, Replicated, NextIn, Resumes, Announced
<1>8. Following'
  BY <1>1, <1>2, <1>3, <1>4, <1>5, <1>6 DEF Following, Quiet, Replicated, Selection, NextIn,
     FileEnd
<1>9. QED BY <1>7, <1>8

LEMMA HandlerStep ==
  ASSUME MirrorInv, UNCHANGED sourceVars,
         TableMap \/ IgnoreEvent \/ BeforeEvent \/ Gtid \/ Xid \/ Rotate
  PROVE  InStep' /\ Following'
<1> USE DEF stream, memory, target, ghosts
<1>1. CASE TableMap
  <2>1. /\ pc = "handle" /\ pc' = "fetch" /\ cur.type = "table_map"
        /\ cur.type \notin RowsTypes /\ cur.type # "rotate" /\ ~Announced
        /\ UNCHANGED <<cur, rfile, rpos, intx, pgtx, session, committed, applied, failure>>
        /\ selected' = Selection(cur.table)
    BY <1>1 DEF TableMap, Selection, RowsTypes, Announced
  <2>2. QED BY <2>1, Further
<1>2. CASE IgnoreEvent
  <2>1. /\ pc = "handle" /\ pc' = "fetch"
        /\ UNCHANGED <<cur, rfile, rpos, selected, intx, pgtx, session, committed, applied,
                       failure>>
    BY <1>2 DEF IgnoreEvent
  <2>2. CASE cur.type \in {"query", "stop"}
    <3>0. ~Announced
      BY <2>2 DEF Announced
    <3>1. cur = log[rpos]
      BY <2>1, <3>0, EventInHand
    <3>2. Quiet(rpos)
      BY <2>2, <3>1 DEF Quiet
    <3>3. cur.type \notin RowsTypes /\ cur.type \notin {"rotate", "table_map"}
      BY <2>2 DEF RowsTypes
    <3>4. QED BY <2>1, <3>0, <3>2, <3>3, Further
  <2>3. CASE cur.type = "rotate" /\ cur.artificial
    <3>1. Handled' = Handled
      BY <2>1, <2>3 DEF Handled, Announced
    <3>2. QED
      BY <2>1, <2>3, <3>1 DEF MirrorInv, InStep, Following, Quiet, Replicated, Selection,
         NextIn, Resumes, FileEnd, sourceVars
  <2>4. CASE cur.type \in RowsTypes /\ selected = NoTable
    <3>1. cur.type \notin {"rotate", "table_map"} /\ ~Announced
      BY <2>4 DEF RowsTypes, Announced
    <3>2. /\ rpos \in 1..Len(log) /\ cur = log[rpos] /\ NextIn(session.file, rpos)
          /\ history[rpos] \in Content /\ rpos \in Nat
          /\ starts[rfile] <= rpos /\ rpos <= FileEnd(rfile)
      BY <2>1, <3>1, EventInHand, SameFile DEF MirrorInv, Following
    <3>3. /\ session.data = Replicated(history[rpos]) /\ intx
          /\ Selection(cur.table) = NoTable /\ cur.table \in Tables
          /\ cur.before \in Image /\ cur.after \in Image
          /\ RowsFit(cur, history[rpos], history[rpos + 1])
      BY <2>1, <2>4, RowsInHand
    <3>4. PICK rows \in [Keys -> Vals \union {None}] :
            history[rpos + 1] = [history[rpos] EXCEPT ![cur.table] = rows]
      <4> DEFINE w == [k \in Keys |->
                         IF cur.type # "delete" /\ k = cur.after.key THEN cur.after.val
                         ELSE IF cur.type # "write" /\ k = cur.before.key THEN None
                         ELSE history[rpos][cur.table][k]]
      <4>1. w \in [Keys -> Vals \union {None}]
        BY <3>2, <3>3 DEF Content, Image
      <4>2. history[rpos + 1] = [history[rpos] EXCEPT ![cur.table] = w]
        BY <3>3 DEF RowsFit, Changed
      <4> HIDE DEF w
      <4>3. QED BY <4>1, <4>2
    <3>5. history[rpos + 1] \in Content
      BY <2>1, <3>1, EventInHand
    <3>6. Replicated(history[rpos + 1]) = Replicated(history[rpos])
      BY <3>2, <3>3, <3>4, <3>5, UnselectedChange
    <3>7. Handled' = rpos
      BY <2>1 DEF Handled
    <3>8. InStep'
      BY <2>1, <3>1, <3>2 DEF MirrorInv, InStep, Quiet, Replicated, NextIn, Resumes, sourceVars
    <3>9. Following'
      BY <2>1, <2>4, <3>1, <3>2, <3>3, <3>6, <3>7 DEF Following, Replicated, NextIn, FileEnd,
         RowsTypes, sourceVars
    <3>10. QED BY <3>8, <3>9
  <2>5. QED BY <1>2, <2>2, <2>3, <2>4 DEF IgnoreEvent, Ignored
<1>3. CASE BeforeEvent
  <2>1. /\ pc = "handle" /\ pc' = "body" /\ pgtx'
        /\ UNCHANGED <<cur, rfile, rpos, selected, intx, session, committed, applied, failure>>
    BY <1>3, Zenon DEF BeforeEvent, MirrorInv, Bracket
  <2>2. ~Announced
    BY <1>3 DEF BeforeEvent, Ignored, Announced
  <2>3. Handled' = Handled /\ Announced' = Announced
    BY <2>1, <2>2 DEF Handled, Announced
  <2>4. InStep'
    BY <2>1, <2>2, <2>3 DEF MirrorInv, InStep, Quiet, Replicated, NextIn, Resumes, sourceVars
  <2>5. Following'
    BY <2>1, <2>2, <2>3 DEF MirrorInv, Following, Quiet, Replicated, Selection, NextIn,
       FileEnd, sourceVars
  <2>6. QED BY <2>4, <2>5
<1>4. CASE Gtid \/ Xid
  <2>1. /\ pc = "body" /\ pc' = "after" /\ cur.type \in {"gtid", "xid"}
        /\ UNCHANGED <<cur, rfile, rpos, selected, pgtx, session, committed, applied, failure>>
    BY <1>4 DEF Gtid, Xid, InBody
  <2>2. /\ cur = log[rpos] /\ ~Announced
        /\ cur.type \notin RowsTypes /\ cur.type \notin {"rotate", "table_map"}
    BY <2>1, EventInHand DEF RowsTypes, Announced
  <2>3. ~Quiet(rpos) => cur.type = "gtid" /\ ~cur.standalone
    BY <2>1, <2>2 DEF Quiet
  <2>4. ~Quiet(rpos) => intx'
    BY <1>4, <2>3 DEF Gtid, Xid, InBody
  <2>5. QED BY <2>1, <2>2, <2>4, Further
<1>5. CASE Rotate
  <2>1. pc = "body" /\ cur.type = "rotate" /\ pgtx /\ ~Announced
    BY <1>5 DEF Rotate, InBody, MirrorInv, Bracket, InStep
  <2>2. /\ pc' = "after"
        /\ UNCHANGED <<cur, rfile, rpos, selected, intx, pgtx, committed, applied, failure>>
        /\ session'.data = session.data /\ session'.file = cur.filename
    BY <1>5, <2>1 DEF Rotate, Executed, MirrorInv, TypeInv, TypeOK, Target
  <2>3. cur = log[rpos] /\ Quiet(rpos) /\ cur.type \notin RowsTypes
    BY <2>1, EventInHand DEF Quiet, RowsTypes
  <2>4. QED BY <2>1, <2>2, <2>3, Further
<1>6. QED BY <1>1, <1>2, <1>3, <1>4, <1>5

LEMMA AfterStep ==
  ASSUME MirrorInv, UNCHANGED sourceVars, StayInTx \/ SavePosition \/ CommitTx
  PROVE  InStep' /\ Following'
<1> USE DEF stream, memory, target, ghosts, sourceVars
<1>1. /\ pc \in {"after", "commit"} /\ ~Announced
      /\ UNCHANGED <<cur, rfile, rpos, selected, intx, failure>>
  BY DEF StayInTx, SavePosition, CommitTx, MirrorInv, InStep
<1>2. /\ rpos \in 1..Len(log) /\ cur = log[rpos] /\ PlainEventAt(rpos) /\ Handled = rpos
      /\ NextIn(rfile, rpos - 1) /\ rpos \in Nat
  BY <1>1, EventInHand
<1>3. Handled' = rpos /\ Announced' = Announced
  BY <1>1, <1>2 DEF Handled, Announced, StayInTx, SavePosition, CommitTx
<1>4. CASE StayInTx
  <2>1. UNCHANGED <<session, pgtx, committed, applied>> /\ pc = "after" /\ pc' = "fetch"
    BY <1>4 DEF StayInTx
  <2>2. InStep'
    BY <1>1, <1>2, <1>3, <2>1 DEF MirrorInv, InStep, Quiet, Replicated, NextIn, Resumes
  <2>3. Following'
    BY <1>1, <1>2, <1>3, <2>1 DEF MirrorInv, Following, Quiet, Replicated, Selection, NextIn,
       FileEnd
  <2>4. QED BY <2>2, <2>3
<1>5. CASE SavePosition
  <2>1. /\ session' = [session EXCEPT !.pos = cur.next_event_pos] /\ pgtx /\ ~intx
        /\ committed' = committed /\ pc' = "commit" /\ pgtx' = pgtx /\ applied' = applied
    BY <1>5 DEF SavePosition, Executed, MirrorInv, Bracket
  <2>2. /\ session'.data = session.data /\ session'.file = session.file
        /\ session'.pos = cur.next_event_pos
    BY <2>1 DEF MirrorInv, TypeInv, TypeOK, Target
  <2>3. cur.type # "rotate" => Resumes(session, rpos)'
    <3>1. cur.type # "rotate" => session.file = rfile /\ cur.next_event_pos = rpos - starts[rfile]
      BY <1>1, SameFile
    <3>2. starts[rfile] \in Nat
      BY <1>2, Numbers DEF NextIn, MirrorInv
    <3>3. QED BY <1>1, <1>2, <2>2, <3>1, <3>2 DEF Resumes
  <2>4. InStep'
    BY <1>1, <1>2, <1>3, <2>1, <2>3 DEF MirrorInv, InStep, Quiet, Replicated, NextIn, Resumes
  <2>5. Following'
    BY <1>1, <1>2, <1>3, <2>1, <2>2 DEF MirrorInv, Following, Quiet, Replicated, Selection,
       NextIn, FileEnd
  <2>6. QED BY <2>4, <2>5
<1>6. CASE CommitTx
  <2>1. /\ committed' = session /\ session' = session /\ ~pgtx' /\ applied' = rpos
        /\ pc = "commit" /\ pc' = "fetch" /\ ~intx
    BY <1>6 DEF CommitTx, MirrorInv, Bracket
  <2>2. /\ session.data = Replicated(history[rpos + 1]) /\ Quiet(rpos)
        /\ NextIn(session.file, rpos)
        /\ cur.type # "rotate" => Resumes(session, rpos)
    BY <1>2, <2>1 DEF MirrorInv, Following, InStep
  <2>3. InStep'
    BY <1>1, <1>2, <2>1, <2>2 DEF MirrorInv, InStep, Quiet, Replicated, NextIn, Resumes
  <2>4. Following'
    BY <1>1, <1>2, <1>3, <2>1, <2>2 DEF MirrorInv, Following, Quiet, Replicated, Selection,
       NextIn, FileEnd
  <2>5. QED BY <2>3, <2>4
<1>7. QED BY <1>4, <1>5, <1>6

-----------------------------------------------------------------------------
LEMMA MirrorInit == ASSUME Init PROVE PlainLog /\ InStep /\ Following
<1>1. /\ log = <<>> /\ Len(log) = 0 /\ starts = <<0>> /\ mapped = {}
      /\ Current = history[1]
  BY DEF Init, SourceInit, Current
<1>2. PlainLog
  <2>1. PlainFiles
    BY <1>1 DEF PlainFiles
  <2>2. QED BY <1>1, <2>1 DEF PlainLog
<1>3. Quiet(0) /\ NextIn(1, 0)
  BY <1>1 DEF Quiet, NextIn
<1>4. InStep
  BY <1>1, <1>3 DEF Init, InStep, Resumes
<1>5. Following
  BY DEF Init, Following
<1>6. QED BY <1>2, <1>4, <1>5

LEMMA SameLog ==
  ASSUME PlainLog, UNCHANGED sourceVars
  PROVE  PlainLog'
<1> USE DEF sourceVars
<1>1. PlainFiles'
  BY DEF PlainLog, PlainFiles, NextIn
<1>2. ASSUME NEW i \in 1..Len(log) PROVE PlainEventAt(i)' /\ InPlace(i)'
  <2>1. PlainEventAt(i) /\ InPlace(i)
    BY DEF PlainLog
  <2>2. Quiet(i - 1)' <=> Quiet(i - 1)
    BY DEF Quiet
  <2>3. PlainEventAt(i)'
    BY <2>1 DEF PlainEventAt, RowsFit
  <2>4. QED BY <2>1, <2>2, <2>3 DEF InPlace
<1>3. QED BY <1>1, <1>2 DEF PlainLog

LEMMA MirrorStep ==
  ASSUME PlainWorkload, MirrorInv, [Next]_vars
  PROVE  PlainLog' /\ InStep' /\ Following'
<1>1. CASE SourceNext /\ UNCHANGED replicatorVars
  BY <1>1, SourceKeepsMirror
<1>2. CASE Replicator /\ UNCHANGED sourceVars
  <2>1. PlainLog'
    BY <1>2, SameLog DEF MirrorInv
  <2>2. InStep' /\ Following'
    BY <1>2, StreamStep, HandlerStep, BodyStep, AfterStep, NothingFails, NeverRefused
    DEF Replicator, Process
  <2>3. QED BY <2>1, <2>2
<1>3. CASE UNCHANGED vars
  <2>1. UNCHANGED sourceVars /\ UNCHANGED replicatorVars
    BY <1>3 DEF vars
  <2>2. PlainLog'
    BY <2>1, SameLog DEF MirrorInv
  <2>3. InStep'
    BY <2>1 DEF MirrorInv, InStep, Quiet, Replicated, NextIn, Resumes, Announced, sourceVars,
       replicatorVars
  <2>4. Following'
    BY <2>1 DEF MirrorInv, Following, Handled, Announced, Quiet, Replicated, Selection, NextIn,
       FileEnd, sourceVars, replicatorVars
  <2>5. QED BY <2>2, <2>3, <2>4
<1>4. QED BY <1>1, <1>2, <1>3 DEF Next

LEMMA MirrorNext ==
  ASSUME PlainWorkload, MirrorInv, [Next]_vars
  PROVE  MirrorInv'
<1>1. TypeInv'
  BY TypeStep DEF MirrorInv
<1>2. Bracket'
  BY BracketNext DEF MirrorInv
<1>3. PlainLog' /\ InStep' /\ Following'
  BY MirrorStep
<1>4. QED BY <1>1, <1>2, <1>3 DEF MirrorInv

LEMMA MirrorInvariant ==
  ASSUME PlainWorkload
  PROVE  Spec => []MirrorInv
<1>1. Init => MirrorInv
  BY TypeInit, MirrorInit DEF MirrorInv, Bracket, Init
<1>2. MirrorInv /\ [Next]_vars => MirrorInv'
  BY MirrorNext
<1>3. QED BY <1>1, <1>2, PTL DEF Spec

(* For a plain workload what PostgreSQL has committed is, in every reachable state, *)
(* what the source held at one of its quiet points, however often the process was   *)
(* lost between two statements, or over however many files the binlog goes.         *)
THEOREM Mirrors ==
  ASSUME PlainWorkload
  PROVE  Spec => []AtomicMirror
<1>1. MirrorInv => AtomicMirror
  BY DEF MirrorInv, InStep, AtomicMirror
<1>2. QED BY <1>1, MirrorInvariant, PTL

(* For a plain workload a restart resumes exactly behind what was committed last,   *)
(* unless that was the ROTATE at the end of a file.                                 *)
THEOREM ResumesRight ==
  ASSUME PlainWorkload
  PROVE  Spec => []PositionTrue
<1>1. MirrorInv => PositionTrue
  BY DEF MirrorInv, InStep, Resumes, PositionTrue
<1>2. QED BY <1>1, MirrorInvariant, PTL

(* For a plain workload no verify of a handler fails and no constraint is violated. *)
THEOREM NeverFails ==
  ASSUME PlainWorkload
  PROVE  Spec => []NoFailure
<1>1. MirrorInv => NoFailure
  BY DEF MirrorInv, InStep, NoFailure
<1>2. QED BY <1>1, MirrorInvariant, PTL
=============================================================================
