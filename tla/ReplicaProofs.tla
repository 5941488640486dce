----------------------------- MODULE ReplicaProofs -----------------------------
(***************************************************************************)
(* UpdateDatabase implements Replica for a plain workload, and holds a     *)
(* transaction open between events only where one of the source's groups   *)
(* is open or has ended unseen.                                            *)
(***************************************************************************)
EXTENDS MirrorProofs

\* A group has ended unseen since the last commit.
Unseen(h) == \E i \in (applied + 1)..h : EndsUnseen(i)

\* What the target owes a commit to after h events.
Owed(h) == ~Quiet(h) \/ Unseen(h)

(* mygrate's own flag is set exactly while the target owes a commit to what it has *)
(* handled; between two events the transaction is open with it.                    *)
Opened ==
  /\ pc \in {"open", "fetch", "handle"} => (pgtx => intx)
  /\ pc \in {"open", "fetch", "handle", "body"} => (intx <=> Owed(Handled))
  /\ pc = "after" => (intx => Owed(Handled))
  /\ pc # "down" => applied <= Handled
  /\ pc \in {"after", "commit"} => applied < rpos

OpenedInv == MirrorInv /\ Opened

-----------------------------------------------------------------------------
\* One more event ends unseen, or none.
LEMMA UnseenNext ==
  ASSUME TypeInv, NEW h \in Nat, h > 0, applied <= h - 1
  PROVE  Unseen(h) <=> Unseen(h - 1) \/ EndsUnseen(h)
<1>1. applied \in Nat
  BY Numbers
<1>2. (applied + 1)..h = ((applied + 1)..(h - 1)) \union {h}
  BY <1>1
<1>3. QED BY <1>2 DEF Unseen

\* An event that leaves the source quiet but is no XID changes nothing of what is owed.
LEMMA OwedNext ==
  ASSUME MirrorInv, pc \in {"handle", "body"}, ~Announced, applied <= rpos - 1,
         cur.type # "xid", Quiet(rpos)
  PROVE  Owed(rpos) <=> Owed(rpos - 1)
<1>1. /\ rpos \in 1..Len(log) /\ cur = log[rpos] /\ PlainEventAt(rpos) /\ InPlace(rpos)
      /\ rpos \in Nat /\ TypeInv /\ cur \in Event
  BY EventInHand DEF MirrorInv, TypeInv, InHand
<1>2. Unseen(rpos) <=> Unseen(rpos - 1) \/ EndsUnseen(rpos)
  BY <1>1, UnseenNext
<1>3. cur.type \in {"gtid", "rotate", "query"}
  BY <1>1 DEF Quiet, PlainEventAt
<1>4. CASE cur.type \in {"gtid", "rotate"}
  <2>1. Quiet(rpos - 1) /\ ~EndsUnseen(rpos)
    BY <1>1, <1>4 DEF InPlace, EndsUnseen
  <2>2. QED BY <1>2, <2>1 DEF Owed
<1>5. CASE cur.type = "query"
  <2>1. rpos > 1 /\ (log[rpos - 1].type \in RowsTypes \/ (log[rpos - 1].type = "gtid" /\ Quiet(rpos - 1)))
    BY <1>1, <1>5 DEF InPlace
  <2>2. CASE log[rpos - 1].type \in RowsTypes
    <3>1. ~Quiet(rpos - 1)
      BY <1>1, <2>1, <2>2 DEF Quiet, RowsTypes
    <3>2. EndsUnseen(rpos)
      BY <1>1, <1>5, <2>2 DEF EndsUnseen, RowsTypes
    <3>3. QED BY <1>2, <3>1, <3>2 DEF Owed
  <2>3. CASE log[rpos - 1].type = "gtid" /\ Quiet(rpos - 1)
    <3>1. ~EndsUnseen(rpos)
      BY <2>3 DEF EndsUnseen
    <3>2. QED BY <1>2, <2>3, <3>1 DEF Owed
  <2>4. QED BY <2>1, <2>2, <2>3
<1>6. QED BY <1>3, <1>4, <1>5

\* While nothing is committed, the same events are owed for before and after a step.
LEMMA OwedAlike ==
  ASSUME UNCHANGED <<log, applied>>
  PROVE  \A h : Owed(h)' <=> Owed(h)
BY DEF Owed, Unseen, EndsUnseen, Quiet

LEMMA SourceKeepsOpened ==
  ASSUME OpenedInv, PlainWorkload, SourceNext, UNCHANGED replicatorVars
  PROVE  Opened'
<1>1. KeepsPast /\ SourceTypeOK /\ SourceTypeOK' /\ TypeInv /\ InStep /\ Following /\ PlainLog
  BY PlainSourceStep, SourceTypeStep DEF OpenedInv, MirrorInv, TypeInv, TypeOK
<1>2. Len(log) \in Nat /\ applied \in Nat
  BY <1>1, Numbers
<1>3. \A i \in 0..Len(log) : (Quiet(i)' <=> Quiet(i)) /\ (i > 0 => log'[i] = log[i])
  BY <1>1, PastReadAlike
<1>4. ASSUME NEW i \in 1..Len(log) PROVE EndsUnseen(i)' <=> EndsUnseen(i)
  <2>1. log'[i] = log[i]
    BY <1>2, <1>3
  <2>2. log[i].type = "query" => i > 1
    BY <1>1 DEF PlainLog, InPlace
  <2>3. i > 1 => log'[i - 1] = log[i - 1]
    BY <1>2, <1>3
  <2>4. QED BY <2>1, <2>2, <2>3 DEF EndsUnseen
<1>5. ASSUME NEW h \in 0..Len(log) PROVE Owed(h)' <=> Owed(h)
  <2>1. applied' = applied /\ (applied + 1)..h \subseteq 1..Len(log)
    BY <1>2 DEF replicatorVars
  <2>2. Unseen(h)' <=> Unseen(h)
    BY <1>4, <2>1 DEF Unseen
  <2>3. QED BY <1>3, <2>2 DEF Owed
<1>6. Handled' = Handled
  BY DEF Handled, Announced, replicatorVars
<1>7. pc # "down" => (Owed(Handled)' <=> Owed(Handled))
  <2> SUFFICES ASSUME pc # "down" PROVE Owed(Handled)' <=> Owed(Handled)
    OBVIOUS
  <2>1. PICK h \in 0..Len(log) : h = Handled
    BY <1>1, HandledRange
  <2>2. Owed(h)' <=> Owed(h)
    BY <1>5
  <2>3. QED BY <1>6, <2>1, <2>2 DEF Owed, Unseen, Quiet, EndsUnseen
<1>8. UNCHANGED <<pc, intx, pgtx, applied, rpos>>
  BY DEF replicatorVars
<1>9. QED BY <1>6, <1>7, <1>8 DEF OpenedInv, Opened

\* The process reads on, or ends: no more is owed, or nothing is left to say.
LEMMA StreamKeepsOpened ==
  ASSUME OpenedInv, UNCHANGED sourceVars,
         \/ Start \/ OpenStream \/ Fetch \/ FetchNextFile
         \/ StreamRefused \/ VerifyRowFails \/ InsertRowFails \/ UpdateRowFails
         \/ DeleteRowFails \/ Crash
  PROVE  Opened'
<1> USE DEF memory, target, ghosts, sourceVars
<1>1. CASE Start
  <2>1. /\ pc' = "open" /\ rpos' = applied /\ pc = "down" /\ ~intx /\ ~pgtx
        /\ UNCHANGED <<intx, pgtx, applied>> /\ Quiet(applied) /\ applied \in Nat
    BY <1>1, Numbers DEF Start, OpenedInv, MirrorInv, InStep, Resumes
  <2>2. Handled' = applied
    BY <2>1 DEF Handled
  <2>3. ~Owed(applied)
    BY <2>1 DEF Owed, Unseen
  <2>4. ~Owed(applied)' /\ applied' = applied
    BY <2>1, <2>3 DEF Owed, Unseen, EndsUnseen, Quiet
  <2>5. ~Owed(Handled)'
    BY <2>2, <2>4 DEF Owed, Unseen, EndsUnseen, Quiet
  <2>6. QED BY <2>1, <2>2, <2>5 DEF Opened
<1>2. CASE OpenStream \/ Fetch \/ FetchNextFile
  <2>1. /\ pc' = "handle" /\ pc \in {"open", "fetch"} /\ UNCHANGED <<intx, pgtx, applied>>
    BY <1>2 DEF OpenStream, Fetch, FetchNextFile
  <2>2. Handled' = Handled
    <3>1. CASE OpenStream \/ FetchNextFile
      <4>1. Announced' /\ rpos' = rpos
        BY <3>1 DEF OpenStream, FetchNextFile, ArtificialRotate, Announced
      <4>2. QED BY <2>1, <4>1 DEF Handled
    <3>2. CASE Fetch
      <4>1. rpos' = rpos + 1 /\ rpos \in Nat /\ cur' = log[rpos + 1]
        BY <3>2, Numbers DEF Fetch, OpenedInv, MirrorInv
      <4>2. ~Announced'
        <5>1. rfile \in 1..Len(starts) /\ rpos < FileEnd(rfile) /\ FileEnd(rfile) <= Len(log)
              /\ FileEnd(rfile) \in Nat /\ Len(log) \in Nat
          BY <3>2, Numbers DEF Fetch, OpenedInv, MirrorInv, TypeInv, FilesOfReplicator
        <5>2. rpos + 1 \in 1..Len(log)
          BY <4>1, <5>1
        <5>3. PlainEventAt(rpos + 1)
          BY <5>2 DEF OpenedInv, MirrorInv, PlainLog
        <5>4. QED BY <4>1, <5>3 DEF PlainEventAt, Announced
      <4>3. QED BY <2>1, <4>1, <4>2 DEF Handled
    <3>3. QED BY <1>2, <3>1, <3>2
  <2>3. Owed(Handled)' <=> Owed(Handled)
    BY <2>1, <2>2 DEF Owed, Unseen, EndsUnseen, Quiet
  <2>4. QED BY <2>1, <2>2, <2>3 DEF OpenedInv, Opened
<1>3. CASE \/ StreamRefused \/ VerifyRowFails \/ InsertRowFails \/ UpdateRowFails
           \/ DeleteRowFails \/ Crash
  <2>1. pc' = "down"
    BY <1>3 DEF StreamRefused, VerifyRowFails, InsertRowFails, UpdateRowFails, DeleteRowFails,
       Crash, Throw, ProcessGone
  <2>2. QED BY <2>1 DEF Opened
<1>4. QED BY <1>1, <1>2, <1>3

LEMMA HandlerKeepsOpened ==
  ASSUME OpenedInv, UNCHANGED sourceVars,
         \/ TableMap \/ IgnoreEvent \/ BeforeEvent
         \/ InsertRow \/ UpdateRow \/ DeleteRow \/ Rotate \/ Gtid \/ Xid
  PROVE  Opened'
<1> USE DEF stream, memory, target, ghosts, sourceVars
<1>1. /\ pc \in {"handle", "body"} /\ UNCHANGED <<cur, rpos, applied>> /\ MirrorInv
      /\ rpos \in Nat /\ applied \in Nat /\ TypeInv
  BY Numbers DEF TableMap, IgnoreEvent, BeforeEvent, InsertRow, UpdateRow, DeleteRow, Rotate,
     Gtid, Xid, InBody, OpenedInv, MirrorInv
<1>2. \A h : Owed(h)' <=> Owed(h)
  BY <1>1, OwedAlike
<1>3. CASE Announced
  <2>1. IgnoreEvent
    BY <1>1, <1>3 DEF TableMap, BeforeEvent, Ignored, InsertRow, UpdateRow, DeleteRow, Rotate,
       Gtid, Xid, InBody, Announced, MirrorInv, InStep, RowsTypes
  <2>2. /\ pc = "handle" /\ pc' = "fetch" /\ UNCHANGED <<intx, pgtx>>
        /\ Handled' = rpos /\ Handled = rpos
    BY <1>1, <1>3, <2>1 DEF IgnoreEvent, Handled
  <2>3. Owed(Handled)' <=> Owed(Handled)
    BY <1>1, <2>2 DEF Owed, Unseen, EndsUnseen, Quiet
  <2>4. QED BY <1>1, <2>2, <2>3 DEF OpenedInv, Opened
<1>4. CASE ~Announced
  <2>1. /\ rpos \in 1..Len(log) /\ cur = log[rpos] /\ InPlace(rpos) /\ Handled = rpos - 1
        /\ PlainEventAt(rpos)
    BY <1>1, <1>4, EventInHand
  <2>2. /\ applied <= rpos - 1 /\ (intx <=> Owed(rpos - 1))
        /\ pc = "handle" => (pgtx => intx)
    BY <1>1, <2>1 DEF OpenedInv, Opened
  <2>3. CASE BeforeEvent
    <3>1. pc' = "body" /\ UNCHANGED <<intx, cur>>
      BY <2>3 DEF BeforeEvent
    <3>2. Handled' = rpos - 1
      BY <1>1, <1>4, <3>1 DEF Handled, Announced
    <3>3. Owed(Handled)' <=> Owed(rpos - 1)
      BY <1>1, <3>2 DEF Owed, Unseen, EndsUnseen, Quiet
    <3>4. QED BY <1>1, <2>2, <3>1, <3>2, <3>3 DEF Opened
  <2>4. CASE ~BeforeEvent
    <3>1. \/ pc = "handle" /\ pc' = "fetch" /\ UNCHANGED <<intx, pgtx>> /\ cur.type \in {"table_map", "query", "stop"} \union RowsTypes
          \/ pc = "body" /\ pc' = "after"
      BY <1>4, <2>4 DEF TableMap, IgnoreEvent, Ignored, InsertRow, UpdateRow, DeleteRow, Rotate,
         Gtid, Xid, InBody, Announced
    <3>2. Handled' = rpos
      BY <1>1, <3>1 DEF Handled
    <3>3. Owed(Handled)' <=> Owed(rpos)
      BY <1>1, <3>2 DEF Owed, Unseen, EndsUnseen, Quiet
    <3>4. applied < rpos
      BY <1>1, <2>2
    <3>5. CASE ~Quiet(rpos)
      <4>1. Owed(rpos)
        BY <3>5 DEF Owed
      <4>2. pc = "handle" => intx
        <5>1. ASSUME pc = "handle" PROVE intx
          <6>1. cur.type \in {"table_map"} \union RowsTypes
            BY <2>1, <3>1, <3>5, <5>1 DEF Quiet
          <6>2. CASE cur.type = "table_map"
            BY <2>1, <2>2, <6>2 DEF InPlace, Owed
          <6>3. CASE cur.type \in RowsTypes
            BY <1>1, <6>3, RowsInHand
          <6>4. QED BY <6>1, <6>2, <6>3
        <5>2. QED BY <5>1
      <4>3. QED BY <1>1, <3>1, <3>2, <3>3, <3>4, <4>1, <4>2 DEF Opened
    <3>6. CASE Quiet(rpos) /\ cur.type = "xid"
      <4>1. Xid
        BY <1>4, <2>4, <3>6 DEF TableMap, IgnoreEvent, Ignored, InsertRow, UpdateRow, DeleteRow,
           Rotate, Gtid, InBody, Announced, RowsTypes
      <4>2. pc' = "after" /\ ~intx'
        BY <4>1 DEF Xid
      <4>3. QED BY <1>1, <3>2, <3>4, <4>2 DEF Opened
    <3>7. CASE Quiet(rpos) /\ cur.type # "xid"
      <4>1. Owed(rpos) <=> Owed(rpos - 1)
        BY <1>1, <1>4, <2>2, <3>7, OwedNext
      <4>2. intx' <=> intx
        <5>1. CASE Gtid
          <6>1. cur.standalone
            BY <2>1, <3>7, <5>1 DEF Quiet, Gtid, InBody
          <6>2. QED BY <5>1, <6>1, Zenon DEF Gtid
        <5>2. CASE ~Gtid
          BY <2>4, <3>7, <5>2 DEF TableMap, IgnoreEvent, InsertRow, UpdateRow, DeleteRow,
             Rotate, Xid, InBody
        <5>3. QED BY <5>1, <5>2
      <4>3. QED BY <1>1, <2>2, <3>1, <3>2, <3>3, <3>4, <4>1, <4>2 DEF Opened
    <3>8. QED BY <3>5, <3>6, <3>7
  <2>5. QED BY <2>3, <2>4
<1>5. QED BY <1>3, <1>4

LEMMA AfterKeepsOpened ==
  ASSUME OpenedInv, UNCHANGED sourceVars, StayInTx \/ SavePosition \/ CommitTx
  PROVE  Opened'
<1> USE DEF stream, memory, target, ghosts, sourceVars
<1>1. /\ pc \in {"after", "commit"} /\ UNCHANGED <<rpos, intx>> /\ rpos \in Nat
      /\ Handled = rpos /\ applied < rpos /\ applied \in Nat
  BY Numbers DEF StayInTx, SavePosition, CommitTx, OpenedInv, Opened, MirrorInv, Handled
<1>2. Handled' = rpos
  BY <1>1 DEF StayInTx, SavePosition, CommitTx, Handled
<1>3. CASE StayInTx
  <2>1. /\ pc = "after" /\ pc' = "fetch" /\ intx /\ applied' = applied /\ Owed(rpos)
    BY <1>1, <1>3 DEF StayInTx, OpenedInv, Opened
  <2>2. Owed(Handled)'
    BY <1>2, <2>1 DEF Owed, Unseen, EndsUnseen, Quiet
  <2>3. QED BY <1>1, <1>2, <2>1, <2>2 DEF Opened
<1>4. CASE SavePosition
  <2>1. pc' = "commit" /\ applied' = applied
    BY <1>4 DEF SavePosition
  <2>2. QED BY <1>1, <1>2, <2>1 DEF Opened
<1>5. CASE CommitTx
  <2>1. pc = "commit" /\ pc' = "fetch" /\ applied' = rpos /\ ~pgtx' /\ ~intx /\ Quiet(rpos)
    BY <1>1, <1>5 DEF CommitTx, OpenedInv, MirrorInv, Bracket, Following
  <2>2. Quiet(rpos)' /\ (applied + 1)'..rpos = {}
    BY <1>1, <2>1 DEF Quiet
  <2>3. ~Owed(Handled)'
    BY <1>1, <1>2, <2>1, <2>2 DEF Owed, Unseen, Quiet
  <2>4. QED BY <1>1, <1>2, <2>1, <2>3 DEF Opened
<1>6. QED BY <1>3, <1>4, <1>5

LEMMA OpenedInvariant ==
  ASSUME PlainWorkload
  PROVE  Spec => []OpenedInv
<1>1. Init => OpenedInv
  <2> SUFFICES ASSUME Init PROVE OpenedInv
    OBVIOUS
  <2>1. MirrorInv
    BY TypeInit, MirrorInit DEF MirrorInv, Bracket, Init
  <2>2. Opened
    BY DEF Init, Opened
  <2>3. QED BY <2>1, <2>2 DEF OpenedInv
<1>2. OpenedInv /\ [Next]_vars => OpenedInv'
  <2> SUFFICES ASSUME OpenedInv, [Next]_vars PROVE OpenedInv'
    OBVIOUS
  <2>1. MirrorInv'
    BY MirrorNext DEF OpenedInv
  <2>2. CASE SourceNext /\ UNCHANGED replicatorVars
    BY <2>1, <2>2, SourceKeepsOpened DEF OpenedInv
  <2>3. CASE Replicator /\ UNCHANGED sourceVars
    BY <2>1, <2>3, StreamKeepsOpened, HandlerKeepsOpened, AfterKeepsOpened
    DEF OpenedInv, Replicator, Process
  <2>4. CASE UNCHANGED vars
    BY <2>1, <2>4 DEF OpenedInv, Opened, Owed, Unseen, EndsUnseen, Quiet, Handled, Announced,
       vars, sourceVars, replicatorVars
  <2>5. QED BY <2>2, <2>3, <2>4 DEF Next
<1>3. QED BY <1>1, <1>2, PTL DEF Spec

(* For a plain workload PostgreSQL has a transaction open between two events exactly *)
(* while one of the source's groups is open or has ended with a QUERY since the last *)
(* commit: none is left open for another reason while mygrate waits.                 *)
THEOREM OpenWithGroup ==
  ASSUME PlainWorkload
  PROVE  Spec => []TransactionPerGroup
<1>1. OpenedInv => TransactionPerGroup
  <2> SUFFICES ASSUME OpenedInv, pc = "fetch"
               PROVE  pgtx <=> ~Quiet(rpos) \/ \E i \in (applied + 1)..rpos : EndsUnseen(i)
    BY DEF TransactionPerGroup
  <2>1. Handled = rpos
    BY DEF Handled
  <2>2. (pgtx => intx) /\ (intx => pgtx) /\ (intx <=> Owed(rpos))
    BY <2>1 DEF OpenedInv, Opened, MirrorInv, Bracket
  <2>3. QED BY <2>2 DEF Owed, Unseen
<1>2. QED BY <1>1, OpenedInvariant, PTL

-----------------------------------------------------------------------------
\* The quiet moments of the source so far.
QuietMoments == {i \in 0..Len(log) : Quiet(i)}

LEMMA ReplicaInit ==
  ASSUME Init
  PROVE  Promise!Init
<1>1. /\ log = <<>> /\ Len(log) = 0 /\ Len(history) = 1 /\ Current = history[1]
  BY DEF Init, SourceInit, Current
<1>2. QuietMoments = {0}
  BY <1>1 DEF QuietMoments, Quiet
<1>3. applied = 0 /\ committed.data = Replicated(history[1])
  BY <1>1 DEF Init
<1>4. QED BY <1>1, <1>2, <1>3 DEF Promise!Init, QuietMoments

\* What Replica sees of a state.
replicaVars == <<history, QuietMoments, applied, committed.data>>

\* The source writes one event: Replica's past goes on by one change.
LEMMA SourceIsChange ==
  ASSUME TypeInv, PlainLog, PlainWorkload, SourceNext, UNCHANGED replicatorVars
  PROVE  Promise!Change
<1>1. KeepsPast /\ SourceTypeOK /\ SourceTypeOK' /\ FilesOfLog
  BY PlainSourceStep, SourceTypeStep DEF TypeInv, TypeOK
<1>2. ~RestartServer
  BY <1>1 DEF RestartServer, Stopped, PlainLog, PlainEventAt, SourceTypeOK
<1>3. PICK e \in Event, c \in Content : log' = Append(log, e) /\ history' = Append(history, c)
  BY <1>1, <1>2, SourceStep DEF Appends
<1>4. /\ Len(log) \in Nat /\ Len(log') = Len(log) + 1 /\ Len(history) = Len(log) + 1
      /\ Len(history') = Len(history) + 1
  BY <1>1, <1>3, Appended DEF SourceTypeOK
<1>5. \A i \in 1..Len(history) : history'[i] = history[i]
  BY <1>1 DEF KeepsPast
<1>6. \A i \in 0..Len(log) : Quiet(i)' <=> Quiet(i)
  BY <1>1, PastReadAlike
<1>7. PICK n \in Nat : n = Len(log)
  BY <1>4
<1>8. {i \in 0..Len(log') : Quiet(i)'}
        = QuietMoments \union (IF Quiet(n + 1)' THEN {n + 1} ELSE {})
  <2>1. 0..Len(log') = (0..n) \union {n + 1}
    BY <1>4, <1>7
  <2>2. \A i : i \in {j \in 0..Len(log') : Quiet(j)'}
                <=> i \in QuietMoments \union (IF Quiet(n + 1)' THEN {n + 1} ELSE {})
    BY <1>6, <1>7, <2>1 DEF QuietMoments
  <2>3. QED BY <2>2
<1>9. QuietMoments' = {i \in 0..Len(log') : Quiet(i)'}
  BY DEF QuietMoments
<1>10. QuietMoments' \in {QuietMoments, QuietMoments \union {Len(history)}}
  BY <1>4, <1>7, <1>8, <1>9
<1>11. UNCHANGED <<applied, committed>>
  BY DEF replicatorVars
<1>12. QED
  BY <1>4, <1>5, <1>10, <1>11 DEF Promise!Change, QuietMoments

\* The commit of a group is the one step that moves the copy, and moves it on.
LEMMA CommitIsAdvance ==
  ASSUME OpenedInv, OpenedInv', CommitTx, UNCHANGED sourceVars
  PROVE  Promise!Advance
<1>1. /\ pc = "commit" /\ pc' = "fetch" /\ applied' = rpos /\ committed' = session /\ ~intx
  BY DEF CommitTx, OpenedInv, MirrorInv, Bracket
<1>2. /\ rpos \in 0..Len(log) /\ applied < rpos /\ Handled = rpos /\ Quiet(rpos)
      /\ session.data = Replicated(history[rpos + 1])
  BY <1>1, HandledRange DEF OpenedInv, Opened, MirrorInv, Following, Handled
<1>3. rpos \in QuietMoments
  BY <1>2 DEF QuietMoments
<1>4. UNCHANGED <<log, history>>
  BY DEF sourceVars
<1>5. QuietMoments' = QuietMoments
  BY <1>4 DEF QuietMoments, Quiet
<1>6. committed'.data = Replicated(history[applied' + 1])
  BY <1>1, <1>2
<1>7. \E i \in QuietMoments : i > applied /\ applied' = i
  BY <1>1, <1>2, <1>3
<1>8. QED BY <1>4, <1>5, <1>6, <1>7 DEF Promise!Advance, QuietMoments

\* No other step of the process is seen.
LEMMA ProcessIsUnseen ==
  ASSUME Bracket, Replicator, ~CommitTx, UNCHANGED sourceVars
  PROVE  UNCHANGED replicaVars
<1> USE DEF stream, memory, target, ghosts
<1>1. committed' = committed
  <2>1. pc = "commit" => pc' = "down" /\ committed' = committed
    BY DEF Replicator, Process, Start, OpenStream, StreamRefused, Fetch, FetchNextFile, TableMap,
       IgnoreEvent, VerifyRowFails, BeforeEvent, InsertRow, InsertRowFails, UpdateRow,
       UpdateRowFails, DeleteRow, DeleteRowFails, Rotate, Gtid, Xid, StayInTx, SavePosition,
       Crash, ProcessGone, InBody
  <2>2. QED BY <2>1, BracketStep
<1>2. applied' = applied
  BY DEF Replicator, Process, Start, OpenStream, StreamRefused, Fetch, FetchNextFile, TableMap,
     IgnoreEvent, VerifyRowFails, BeforeEvent, InsertRow, InsertRowFails, UpdateRow,
     UpdateRowFails, DeleteRow, DeleteRowFails, Rotate, Gtid, Xid, StayInTx, SavePosition,
     Crash, Throw
<1>3. UNCHANGED <<log, history>>
  BY DEF sourceVars
<1>4. QuietMoments' = QuietMoments
  BY <1>3 DEF QuietMoments, Quiet
<1>5. QED BY <1>1, <1>2, <1>3, <1>4 DEF replicaVars

(* For a plain workload the replicator keeps Replica's promise: its every step, of the *)
(* source, of a handler or a crash, is one of Replica's or unseen there, and only the  *)
(* COMMIT of updateSourcePosition's transaction moves the copy, from one quiet moment  *)
(* of the source to a later one.                                                       *)
THEOREM KeepsPromise ==
  ASSUME PlainWorkload
  PROVE  Spec => ImplementsReplica
<1>1. Init => Promise!Init
  BY ReplicaInit
<1>2. OpenedInv /\ OpenedInv' /\ [Next]_vars => [Promise!Next]_replicaVars
  <2> SUFFICES ASSUME OpenedInv, OpenedInv', [Next]_vars
               PROVE  [Promise!Next]_replicaVars
    OBVIOUS
  <2>1. CASE SourceNext /\ UNCHANGED replicatorVars
    BY <2>1, SourceIsChange DEF OpenedInv, MirrorInv, Promise!Next
  <2>2. CASE Replicator /\ UNCHANGED sourceVars
    <3>1. CASE CommitTx
      BY <2>2, <3>1, CommitIsAdvance DEF Promise!Next
    <3>2. CASE ~CommitTx
      BY <2>2, <3>2, ProcessIsUnseen DEF OpenedInv, MirrorInv
    <3>3. QED BY <3>1, <3>2
  <2>3. CASE UNCHANGED vars
    BY <2>3 DEF vars, sourceVars, replicatorVars, replicaVars, QuietMoments, Quiet
  <2>4. QED BY <2>1, <2>2, <2>3 DEF Next
<1>3. QED
  BY <1>1, <1>2, OpenedInvariant, PTL DEF Spec, ImplementsReplica, Promise!Spec,
     replicaVars, QuietMoments
=============================================================================
