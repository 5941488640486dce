----------------------------- MODULE EndToEndProofs -----------------------------
(***************************************************************************)
(* No notification of the harness is lost, and what a test waited for is   *)
(* committed when its wait returns, whatever the source writes and         *)
(* whatever the test waits for.                                            *)
(***************************************************************************)
EXTENDS EndToEnd, FiniteSetTheorems, TLAPS

\* Who is inside the lock holds it, the test goes to sleep only inside it and on a
\* target that is not reached, and is asleep nowhere but in the wait.
LockHeld ==
  /\ rpc = "after" <=> mutex = "repl"
  /\ tpc \in {"predicate", "sleep"} <=> mutex = "test"
  /\ tpc = "sleep" => ~AtLeast(processed, target)
  /\ asleep => tpc = "waiting"

WakeInv == LockHeld /\ NoLostWakeup

LEMMA InitWakeInv == Init => WakeInv
  BY DEF Init, WakeInv, LockHeld, NoLostWakeup

LEMMA ReplWakeInv == WakeInv /\ ReplThread => WakeInv'
<1> SUFFICES ASSUME WakeInv, ReplThread PROVE WakeInv'
  OBVIOUS
<1>a. CASE GetSource \/ Open \/ OpenFails \/ FetchEvent \/ FetchNull \/ Body \/ BodyFails
  BY <1>a DEF WakeInv, LockHeld, NoLostWakeup, AtLeast, GetSource, Open, OpenFails, Caught,
              FetchEvent, FetchNull, Body, BodyFails
<1>b. CASE Lock
  BY <1>b DEF WakeInv, LockHeld, NoLostWakeup, AtLeast, Lock
<1>c. CASE AfterEvent
  <2>1. mutex = "repl" /\ tpc # "sleep" /\ rpc' = "notify" /\ mutex' = "free"
    BY <1>c DEF WakeInv, LockHeld, AfterEvent
  <2>. QED
    BY <1>c, <2>1 DEF WakeInv, LockHeld, NoLostWakeup, AfterEvent
<1>d. CASE NotifyAll
  BY <1>d DEF WakeInv, LockHeld, NoLostWakeup, AtLeast, NotifyAll
<1>. QED
  BY <1>a, <1>b, <1>c, <1>d DEF ReplThread

LEMMA TestWakeInv == WakeInv /\ (TestThread \/ WakeForNothing) => WakeInv'
<1> SUFFICES ASSUME WakeInv, TestThread \/ WakeForNothing PROVE WakeInv'
  OBVIOUS
<1>a. CASE Write \/ StopAfter \/ LockToWait \/ Wake \/ WakeForNothing \/ StopEvents \/ Join
  BY <1>a DEF WakeInv, LockHeld, NoLostWakeup, AtLeast, replVars, Write, StopAfter, LockToWait,
              Wake, WakeForNothing, StopEvents, Join
<1>b. CASE Predicate
  BY <1>b DEF WakeInv, LockHeld, NoLostWakeup, AtLeast, replVars, Predicate
<1>c. CASE Sleep
  <2>1. ~AtLeast(processed, target) /\ UNCHANGED <<processed, target>>
    BY <1>c DEF WakeInv, LockHeld, Sleep, replVars
  <2>2. ~AtLeast(processed, target)'
    BY <2>1 DEF AtLeast
  <2>. QED
    BY <1>c, <2>2 DEF WakeInv, LockHeld, NoLostWakeup, replVars, Sleep
<1>. QED
  BY <1>a, <1>b, <1>c DEF TestThread

(* No notification falls between the test of waitFor's predicate and its sleep      *)
(* (test-e2e.cpp:29-45): a sleeper whose target is reached is about to be woken.    *)
THEOREM Awoken == Spec => []NoLostWakeup
<1>1. WakeInv /\ UNCHANGED vars => WakeInv'
  BY DEF WakeInv, LockHeld, NoLostWakeup, AtLeast, vars, replVars
<1>2. WakeInv /\ [Next]_vars => WakeInv'
  BY <1>1, ReplWakeInv, TestWakeInv DEF Next
<1>3. WakeInv => NoLostWakeup
  BY DEF WakeInv
<1>. QED
  BY InitWakeInv, <1>2, <1>3, PTL DEF Spec

-----------------------------------------------------------------------------
\* How many of the fetched events have gone through afterEvent, or need not.
Done == IF rpc \in {"body", "lock", "after"} THEN fetched - 1 ELSE fetched

HarnessTypes ==
  /\ written \in 0..Len(Log) /\ fetched \in 0..written /\ committed \in 0..fetched
  /\ target \in [EventType -> Nat] /\ processed \in [EventType -> Nat]
  /\ rpc \in {"body", "lock", "after"} => fetched > 0 /\ Log[fetched] \notin Unhandled

\* Wherever a handled event leaves no transaction open, it has committed.
CommittedTo(k) ==
  \A j \in 0..k : (j > 0 => Log[j] \notin Unhandled) /\ ~InTx(j) => committed >= j

(* The counters, intx and the last commit are those of the events that are done,    *)
(* and the test has left its wait only with the counters it waited for.             *)
Counted ==
  ~failed =>
    /\ processed = CountsOf(Done)
    /\ intx <=> InTx(IF rpc = "body" THEN fetched - 1 ELSE fetched)
    /\ CommittedTo(Done)
    /\ tpc \in {"stop", "join", "returned"} => AtLeast(processed, target)

Returned == tpc = "returned" => rpc = "ended" /\ ~failed

CommitInv == HarnessTypes /\ Counted /\ Returned

-----------------------------------------------------------------------------
\* The events of type e among the first k that count.
CountedOf(e, k) == {i \in 1..k : Log[i] = e /\ e \notin Unhandled}

LEMMA CountsAre ==
  ASSUME NEW k \in Nat, NEW e \in EventType
  PROVE  /\ CountsOf(k)[e] = Cardinality(CountedOf(e, k))
         /\ IsFiniteSet(CountedOf(e, k)) /\ Cardinality(CountedOf(e, k)) \in Nat
<1>1. IsFiniteSet(1..k)
  BY FS_Interval
<1>2. IsFiniteSet(CountedOf(e, k))
  BY <1>1, FS_Subset DEF CountedOf
<1>3. QED BY <1>2, FS_CardinalityType DEF CountsOf, CountedOf

\* A handled event adds one to its counter, any other changes none.
LEMMA CountsNext ==
  ASSUME NEW k \in 1..Len(Log)
  PROVE  CountsOf(k) = IF Log[k] \in Unhandled THEN CountsOf(k - 1)
                       ELSE tick(CountsOf(k - 1), Log[k])
<1>1. k \in Nat /\ k - 1 \in Nat /\ Log[k] \in EventType
  BY HarnessAssumption
<1>2. ASSUME NEW e \in EventType
      PROVE  CountsOf(k)[e] = IF Log[k] \notin Unhandled /\ e = Log[k]
                              THEN CountsOf(k - 1)[e] + 1 ELSE CountsOf(k - 1)[e]
  <2>1. CASE Log[k] \notin Unhandled /\ e = Log[k]
    <3>1. CountedOf(e, k) = CountedOf(e, k - 1) \union {k}
      BY <1>1, <2>1 DEF CountedOf
    <3>2. k \notin CountedOf(e, k - 1)
      BY <1>1 DEF CountedOf
    <3>3. Cardinality(CountedOf(e, k)) = Cardinality(CountedOf(e, k - 1)) + 1
      BY <1>1, <3>1, <3>2, CountsAre, FS_AddElement
    <3>4. QED BY <1>1, <2>1, <3>3, CountsAre
  <2>2. CASE ~(Log[k] \notin Unhandled /\ e = Log[k])
    <3>1. CountedOf(e, k) = CountedOf(e, k - 1)
      BY <1>1, <2>2 DEF CountedOf
    <3>2. CountsOf(k)[e] = CountsOf(k - 1)[e]
      BY <1>1, <3>1, CountsAre, Zenon
    <3>3. QED BY <2>2, <3>2
  <2>3. QED BY <2>1, <2>2
<1>3. /\ CountsOf(k) = [e \in EventType |-> CountsOf(k)[e]]
      /\ CountsOf(k - 1) = [e \in EventType |-> CountsOf(k - 1)[e]]
  BY DEF CountsOf
<1>4. CASE Log[k] \in Unhandled
  BY <1>2, <1>3, <1>4
<1>5. CASE Log[k] \notin Unhandled
  <2>1. tick(CountsOf(k - 1), Log[k])
          = [e \in EventType |-> IF e = Log[k] THEN CountsOf(k - 1)[e] + 1
                                 ELSE CountsOf(k - 1)[e]]
    BY <1>1, <1>3 DEF tick
  <2>2. QED BY <1>2, <1>3, <1>5, <2>1
<1>6. QED BY <1>4, <1>5

LEMMA CountsGrow ==
  ASSUME NEW k \in Nat, NEW j \in 0..k, NEW e \in EventType
  PROVE  CountsOf(j)[e] <= CountsOf(k)[e]
<1>1. CountedOf(e, j) \in SUBSET CountedOf(e, k)
  BY DEF CountedOf
<1>2. Cardinality(CountedOf(e, j)) <= Cardinality(CountedOf(e, k))
  BY <1>1, CountsAre, FS_Subset
<1>3. QED BY <1>2, CountsAre

LEMMA CountsStart == CountsOf(0) = [e \in EventType |-> 0]
<1>1. ASSUME NEW e \in EventType PROVE CountsOf(0)[e] = 0
  <2>1. CountedOf(e, 0) = {}
    BY DEF CountedOf
  <2>2. QED BY <2>1, CountsAre, FS_EmptySet
<1>2. QED BY <1>1 DEF CountsOf

\* An event opens a transaction, closes it, or leaves it as it is.
LEMMA InTxNext ==
  ASSUME NEW k \in 1..Len(Log)
  PROVE  InTx(k) <=> (InTx(k - 1) \/ Log[k] \in Opens) /\ Log[k] \notin Closes
<1>1. k \in Nat /\ k - 1 \in Nat /\ Len(Log) \in Nat
  BY HarnessAssumption
<1>2. ASSUME Log[k] \in Closes PROVE ~InTx(k)
  BY <1>1, <1>2, HarnessAssumption DEF InTx
<1>3. ASSUME Log[k] \notin Closes, Log[k] \in Opens PROVE InTx(k)
  <2>1. k \in 1..k /\ (k + 1)..k = {}
    BY <1>1
  <2>2. QED BY <1>3, <2>1 DEF InTx
<1>4. ASSUME Log[k] \notin Closes, Log[k] \notin Opens PROVE InTx(k) <=> InTx(k - 1)
  <2>1. ASSUME NEW i \in 1..(k - 1)
        PROVE  (\A j \in (i + 1)..k : Log[j] \notin Closes)
                 <=> \A j \in (i + 1)..(k - 1) : Log[j] \notin Closes
    <3>1. (i + 1)..k = ((i + 1)..(k - 1)) \union {k}
      BY <1>1
    <3>2. QED BY <1>4, <3>1
  <2>2. 1..k = (1..(k - 1)) \union {k}
    BY <1>1
  <2>3. QED BY <1>4, <2>1, <2>2 DEF InTx
<1>5. QED BY <1>2, <1>3, <1>4

-----------------------------------------------------------------------------
LEMMA InitCommitInv == Init => CommitInv
<1> SUFFICES ASSUME Init PROVE CommitInv
  OBVIOUS
<1>1. /\ written = 0 /\ fetched = 0 /\ committed = 0 /\ rpc = "source" /\ tpc = "write"
      /\ target \in [EventType -> Nat] /\ processed = [e \in EventType |-> 0] /\ intx = FALSE
  BY HarnessAssumption DEF Init
<1>2. HarnessTypes
  BY <1>1, HarnessAssumption DEF HarnessTypes
<1>3. Done = 0 /\ CommittedTo(0)
  BY <1>1 DEF Done, CommittedTo
<1>4. ~InTx(0)
  BY DEF InTx
<1>5. Counted
  BY <1>1, <1>3, <1>4, CountsStart DEF Counted
<1>6. QED BY <1>1, <1>2, <1>5 DEF CommitInv, Returned

\* The events are numbered 1..fetched, and those done are a beginning of them.
LEMMA DoneRange ==
  ASSUME HarnessTypes
  PROVE  /\ Len(Log) \in Nat /\ written \in Nat /\ fetched \in 0..Len(Log)
         /\ committed \in Nat /\ Done \in 0..fetched
         /\ rpc \in {"body", "lock", "after"} => fetched \in 1..Len(Log) /\ Done = fetched - 1
BY HarnessAssumption DEF HarnessTypes, Done

\* A counter that is counted further goes on reaching what it has reached.
LEMMA StillAtLeast ==
  ASSUME NEW counters \in [EventType -> Nat], NEW e \in EventType,
         NEW goal \in [EventType -> Nat], AtLeast(counters, goal)
  PROVE  AtLeast(tick(counters, e), goal)
<1>1. \A x \in EventType : tick(counters, e)[x] >= counters[x] /\ counters[x] >= goal[x]
                             /\ tick(counters, e)[x] \in Nat /\ counters[x] \in Nat
                             /\ goal[x] \in Nat
  BY DEF tick, AtLeast
<1>2. QED BY <1>1 DEF AtLeast

\* Every event that is done has been committed where it had to be.
LEMMA ReplCommitInv ==
  ASSUME CommitInv, ReplThread
  PROVE  CommitInv'
<1>1. HarnessTypes /\ Counted /\ Returned
  BY DEF CommitInv
<1>2. /\ Len(Log) \in Nat /\ written \in Nat /\ fetched \in 0..Len(Log)
      /\ committed \in Nat /\ Done \in 0..fetched
      /\ rpc \in {"body", "lock", "after"} => fetched \in 1..Len(Log) /\ Done = fetched - 1
  BY <1>1, DoneRange
<1>3. CASE GetSource \/ Open \/ FetchNull \/ NotifyAll
  <2>1. /\ rpc \in {"source", "open", "fetch", "notify"}
        /\ rpc' \in {"open", "fetch", "ended"}
        /\ UNCHANGED <<written, target, failed, fetched, intx, processed, committed, tpc>>
    BY <1>3 DEF GetSource, Open, FetchNull, NotifyAll
  <2>2. Done' = Done /\ rpc # "body" /\ rpc' # "body"
    BY <2>1 DEF Done
  <2>3. Counted'
    BY <1>1, <2>1, <2>2 DEF Counted, CommittedTo, AtLeast
  <2>4. HarnessTypes'
    BY <1>1, <2>1 DEF HarnessTypes
  <2>5. Returned'
    BY <1>1, <2>1 DEF Returned
  <2>6. QED BY <2>3, <2>4, <2>5 DEF CommitInv
<1>4. CASE OpenFails \/ BodyFails
  <2>1. /\ rpc \in {"open", "body"} /\ rpc' = "ended" /\ failed' = TRUE
        /\ UNCHANGED <<written, target, fetched, processed, committed, tpc>>
    BY <1>4 DEF OpenFails, BodyFails, Caught
  <2>2. QED BY <1>1, <2>1 DEF CommitInv, HarnessTypes, Counted, Returned
<1>5. CASE FetchEvent
  <2>1. /\ rpc = "fetch" /\ fetched < written /\ fetched' = fetched + 1
        /\ rpc' = IF Log[fetched + 1] \in Unhandled THEN "fetch" ELSE "body"
        /\ UNCHANGED <<written, target, failed, intx, processed, committed, tpc>>
    BY <1>5 DEF FetchEvent
  <2>2. Done = fetched /\ fetched + 1 \in 1..Len(Log) /\ fetched + 1 - 1 = fetched
    BY <1>1, <1>2, <2>1 DEF Done, HarnessTypes
  <2>3. HarnessTypes'
    BY <1>1, <1>2, <2>1, <2>2 DEF HarnessTypes
  <2>4. Returned'
    BY <1>1, <2>1 DEF Returned
  <2>5. CASE Log[fetched + 1] \in Unhandled
    <3>1. rpc' = "fetch" /\ Done' = fetched + 1
      BY <2>1, <2>5 DEF Done
    <3> PICK k \in 1..Len(Log) : k = fetched + 1 /\ k - 1 = fetched
      BY <1>2, <2>2
    <3>2. CountsOf(fetched + 1) = CountsOf(fetched)
      BY <2>5, CountsNext
    <3>3. InTx(fetched + 1) <=> InTx(fetched)
      BY <2>5, InTxNext, HarnessAssumption
    <3>4. CommittedTo(fetched) => CommittedTo(fetched + 1)
      <4>1. \A j \in 0..(fetched + 1) : j \in 0..fetched \/ j = fetched + 1
        BY <1>2
      <4>2. QED BY <1>2, <2>5, <4>1 DEF CommittedTo
    <3>5. Counted'
      BY <1>1, <2>1, <2>2, <3>1, <3>2, <3>3, <3>4 DEF Counted, CommittedTo, AtLeast
    <3>6. QED BY <2>3, <2>4, <3>5 DEF CommitInv
  <2>6. CASE Log[fetched + 1] \notin Unhandled
    <3>1. rpc' = "body" /\ Done' = fetched
      BY <1>2, <2>1, <2>6 DEF Done
    <3>2. Counted'
      BY <1>1, <1>2, <2>1, <2>2, <3>1 DEF Counted, CommittedTo, AtLeast
    <3>3. QED BY <2>3, <2>4, <3>2 DEF CommitInv
  <2>7. QED BY <2>5, <2>6
<1>6. CASE Body
  <2>1. /\ rpc = "body" /\ rpc' = "lock"
        /\ intx' <=> (intx \/ Log[fetched] \in Opens) /\ Log[fetched] \notin Closes
        /\ UNCHANGED <<written, target, failed, fetched, processed, committed, tpc>>
    BY <1>6 DEF Body
  <2>2. Done' = Done
    BY <2>1 DEF Done
  <2>3. ~failed => (intx' <=> InTx(fetched))
    BY <1>1, <1>2, <2>1, InTxNext DEF Counted
  <2>4. Counted'
    BY <1>1, <2>1, <2>2, <2>3 DEF Counted, CommittedTo, AtLeast
  <2>5. HarnessTypes' /\ Returned'
    BY <1>1, <2>1 DEF HarnessTypes, Returned
  <2>6. QED BY <2>4, <2>5 DEF CommitInv
<1>7. CASE Lock
  <2>1. /\ rpc = "lock" /\ rpc' = "after"
        /\ UNCHANGED <<written, target, failed, fetched, intx, processed, committed, tpc>>
    BY <1>7 DEF Lock
  <2>2. Done' = Done
    BY <2>1 DEF Done
  <2>3. QED
    BY <1>1, <2>1, <2>2 DEF CommitInv, HarnessTypes, Returned, Counted, CommittedTo, AtLeast
<1>8. CASE AfterEvent
  <2>1. /\ rpc = "after" /\ rpc' = "notify"
        /\ processed' = tick(processed, Log[fetched])
        /\ committed' = IF intx THEN committed ELSE fetched
        /\ UNCHANGED <<written, target, failed, fetched, intx, tpc>>
    BY <1>8 DEF AfterEvent
  <2>2. /\ Done = fetched - 1 /\ Done' = fetched /\ fetched \in 1..Len(Log)
        /\ Log[fetched] \notin Unhandled /\ Log[fetched] \in EventType
    BY <1>1, <1>2, <2>1, HarnessAssumption DEF Done, HarnessTypes
  <2>3. HarnessTypes'
    <3>1. processed' \in [EventType -> Nat]
      BY <1>1, <2>1, <2>2 DEF HarnessTypes, tick
    <3>2. committed' \in 0..fetched
      BY <1>1, <1>2, <2>1 DEF HarnessTypes
    <3>3. QED BY <1>1, <2>1, <3>1, <3>2 DEF HarnessTypes
  <2>4. Returned'
    BY <1>1, <2>1 DEF Returned
  <2>5. ASSUME ~failed PROVE processed' = CountsOf(fetched)
    BY <1>1, <2>1, <2>2, <2>5, CountsNext DEF Counted
  <2>6. ASSUME ~failed PROVE CommittedTo(fetched)'
    <3> SUFFICES ASSUME NEW j \in 0..fetched, j > 0 => Log[j] \notin Unhandled, ~InTx(j)
                 PROVE  committed' >= j
      BY <2>1 DEF CommittedTo, InTx
    <3>1. CASE j = fetched
      BY <1>1, <1>2, <2>1, <2>6, <3>1 DEF Counted
    <3>2. CASE j \in 0..(fetched - 1)
      <4>1. committed >= j
        BY <1>1, <2>2, <2>6, <3>2 DEF Counted, CommittedTo
      <4>2. committed' >= committed
        BY <1>1, <1>2, <2>1 DEF HarnessTypes
      <4>3. committed' \in Nat /\ committed \in Nat /\ j \in Nat
        BY <1>2, <2>1, <3>2
      <4>4. QED BY <4>1, <4>2, <4>3
    <3>3. QED BY <1>2, <3>1, <3>2
  <2>7. ASSUME AtLeast(processed, target) PROVE AtLeast(processed, target)'
    <3>1. AtLeast(tick(processed, Log[fetched]), target)
      BY <1>1, <2>2, <2>7, StillAtLeast DEF HarnessTypes
    <3>2. QED BY <2>1, <3>1 DEF AtLeast
  <2>8. Counted'
    BY <1>1, <2>1, <2>2, <2>5, <2>6, <2>7 DEF Counted
  <2>9. QED BY <2>3, <2>4, <2>8 DEF CommitInv
<1>9. QED
  BY <1>3, <1>4, <1>5, <1>6, <1>7, <1>8 DEF ReplThread

LEMMA TestCommitInv ==
  ASSUME CommitInv, TestThread \/ WakeForNothing \/ UNCHANGED vars
  PROVE  CommitInv'
<1>1. HarnessTypes /\ Counted /\ Returned
  BY DEF CommitInv
<1>2. /\ UNCHANGED <<target, failed, rpc, fetched, intx, processed, committed>>
      /\ written' \in 0..Len(Log) /\ fetched \in 0..written'
  <2>1. UNCHANGED <<target, failed, rpc, fetched, intx, processed, committed>>
    BY DEF TestThread, Write, StopAfter, LockToWait, Predicate, Sleep, Wake, WakeForNothing,
       StopEvents, Join, vars, replVars
  <2>2. written' = written \/ (written < Len(Log) /\ written' = written + 1)
    BY DEF TestThread, Write, StopAfter, LockToWait, Predicate, Sleep, Wake, WakeForNothing,
       StopEvents, Join, vars
  <2>3. Len(Log) \in Nat /\ written \in 0..Len(Log) /\ fetched \in 0..written
    BY <1>1, HarnessAssumption DEF HarnessTypes
  <2>4. QED BY <2>1, <2>2, <2>3
<1>3. HarnessTypes' /\ Done' = Done
  BY <1>1, <1>2 DEF HarnessTypes, Done
<1>4. ~failed /\ tpc' \in {"stop", "join", "returned"} => AtLeast(processed, target)
  BY <1>1 DEF Counted, TestThread, Write, StopAfter, LockToWait, Predicate, Sleep, Wake,
     WakeForNothing, StopEvents, Join, vars
<1>5. Counted'
  BY <1>1, <1>2, <1>3, <1>4 DEF Counted, CommittedTo, AtLeast
<1>6. Returned'
  BY <1>1, <1>2 DEF Returned, TestThread, Write, StopAfter, LockToWait, Predicate, Sleep, Wake,
     WakeForNothing, StopEvents, Join, vars
<1>7. QED BY <1>3, <1>5, <1>6 DEF CommitInv

\* The event that completes the target is handled, and so are all before it.
LEMMA TargetCommitted == CommitInv => CommittedOnReturn
<1> SUFFICES ASSUME CommitInv, tpc = "returned", NEW k \in 0..Len(Log), Reaches(k), ~InTx(k)
             PROVE  AtLeast(CountsOf(committed), target)
  BY DEF CommittedOnReturn
<1>1. HarnessTypes /\ Counted /\ ~failed /\ rpc = "ended"
  BY DEF CommitInv, Returned
<1>2. /\ Len(Log) \in Nat /\ fetched \in 0..Len(Log) /\ committed \in Nat /\ Done = fetched
  BY <1>1, DoneRange DEF Done
<1>3. /\ processed = CountsOf(fetched) /\ CommittedTo(fetched) /\ AtLeast(processed, target)
  BY <1>1, <1>2 DEF Counted
<1>4. k \in 0..fetched
  <2>1. fetched \notin 0..(k - 1)
    BY <1>3 DEF Reaches
  <2>2. QED BY <1>2, <2>1
<1>5. k > 0 => Log[k] \notin Unhandled
  <2> SUFFICES ASSUME k > 0, Log[k] \in Unhandled PROVE FALSE
    OBVIOUS
  <2>1. CountsOf(k) = CountsOf(k - 1)
    BY CountsNext
  <2>2. AtLeast(CountsOf(k - 1), target) /\ k - 1 \in 0..(k - 1)
    BY <2>1 DEF Reaches
  <2>3. QED BY <2>2 DEF Reaches
<1>6. committed >= k
  BY <1>3, <1>4, <1>5 DEF CommittedTo
<1>7. k \in 0..committed
  BY <1>2, <1>6
<1>8. ASSUME NEW e \in EventType PROVE CountsOf(committed)[e] >= target[e]
  <2>1. CountsOf(k)[e] >= target[e]
    BY DEF Reaches, AtLeast
  <2>2. CountsOf(k)[e] <= CountsOf(committed)[e]
    BY <1>2, <1>7, CountsGrow
  <2>3. CountsOf(k)[e] \in Nat /\ CountsOf(committed)[e] \in Nat /\ target[e] \in Nat
    <3>1. k \in Nat
      BY <1>2
    <3>2. CountsOf(k)[e] \in Nat /\ CountsOf(committed)[e] \in Nat
      BY <1>2, <3>1, CountsAre
    <3>3. QED BY <1>1, <3>2 DEF HarnessTypes
  <2>4. QED BY <2>1, <2>2, <2>3
<1>9. QED BY <1>8 DEF AtLeast

(* When stopAfter returns, what it waited for is committed, if the events that make *)
(* it up end where no transaction is open: whatever the source writes, in whatever  *)
(* groups, and whatever counters the test waits for.                                *)
THEOREM CommittedWhenReturned == Spec => []CommittedOnReturn
<1>1. CommitInv /\ [Next]_vars => CommitInv'
  BY ReplCommitInv, TestCommitInv DEF Next
<1>2. QED
  BY InitCommitInv, <1>1, TargetCommitted, PTL DEF Spec
=============================================================================
