------------------------------- MODULE EndToEnd -------------------------------
(***************************************************************************)
(* The threads of an end-to-end test: one runs ReplicationStream's         *)
(* readEvents into an UpdateDatabase, the other writes to the source,      *)
(* waits until the processed events' counters reach a target, cancels the  *)
(* stream and joins.  What the events do is in UpdateDatabase; here only   *)
(* when they are counted and when they are committed.                      *)
(***************************************************************************)
EXTENDS Naturals, Sequences, FiniteSets

CONSTANTS
  EventType,  \* the types counted
  Log,        \* the events the test makes the source write
  Targets,    \* numbers of events to wait for, by type
  Unhandled,  \* types without a handler
  Opens, Closes  \* types that set intx, and that clear it

ASSUME HarnessAssumption ==
  /\ Log \in Seq(EventType)
  /\ Targets \subseteq [EventType -> Nat]
  /\ Unhandled \subseteq EventType /\ Opens \subseteq EventType /\ Closes \subseteq EventType
  \* Only a handler sets intx or clears it, and none does both.
  /\ Unhandled \intersect (Opens \union Closes) = {} /\ Opens \intersect Closes = {}

VARIABLES
  written,    \* events in the source's binlog
  target,     \* what stopAfter waits for
  src, failed, \* MockSetup's: the source exists, the thread has caught an exception
  cancelled,  \* stopEvents has been called
  rpc,        \* the replicating thread: what it does next
  fetched,    \* events it has fetched
  intx,
  processed,  \* its EventCounter
  committed,  \* events whose effects, with all before them, are committed
  mutex,      \* who holds m
  asleep,     \* the waiter is blocked on cv
  tpc         \* the test's thread: what it does next

replVars == <<src, rpc, fetched, intx, processed, committed>>
vars == <<written, target, failed, cancelled, mutex, asleep, tpc, replVars>>

\* EventCounter's operator>=.
AtLeast(counters, goal) == \A e \in EventType : counters[e] >= goal[e]

tick(counters, e) == [counters EXCEPT ![e] = @ + 1]

-----------------------------------------------------------------------------
\* getSource, the only assignment of src, with no lock.
GetSource ==
  /\ rpc = "source"
  /\ src' = TRUE
  /\ rpc' = "open"
  /\ UNCHANGED <<written, target, failed, cancelled, fetched, intx, processed, committed,
                 mutex, asleep, tpc>>

Caught ==
  /\ failed' = TRUE
  /\ rpc' = "ended"
  /\ UNCHANGED <<written, target, cancelled, src, fetched, intx, processed, committed,
                 mutex, asleep, tpc>>

\* mariadb_rpl_open.
Open ==
  /\ rpc = "open" /\ ~cancelled
  /\ rpc' = "fetch"
  /\ UNCHANGED <<written, target, failed, cancelled, src, fetched, intx, processed, committed,
                 mutex, asleep, tpc>>

OpenFails == rpc = "open" /\ Caught

\* mariadb_rpl_fetch: the next event, which may still come when the stream is
\* cancelled, or NULL once it is.
FetchEvent ==
  /\ rpc = "fetch" /\ fetched < written
  /\ fetched' = fetched + 1
  /\ rpc' = IF Log[fetched'] \in Unhandled THEN "fetch" ELSE "body"
  /\ UNCHANGED <<written, target, failed, cancelled, src, intx, processed, committed,
                 mutex, asleep, tpc>>

FetchNull ==
  /\ rpc = "fetch" /\ cancelled
  /\ rpc' = "ended"
  /\ UNCHANGED <<written, target, failed, cancelled, src, fetched, intx, processed, committed,
                 mutex, asleep, tpc>>

\* Faulty: the end of a group leaves its transaction open.
BodyKeepsTx ==
  /\ rpc = "body"
  /\ intx' = (intx \/ Log[fetched] \in Opens)
  /\ rpc' = "lock"
  /\ UNCHANGED <<written, target, failed, cancelled, src, fetched, processed, committed,
                 mutex, asleep, tpc>>

\* A handler up to its afterEvent: its statements run in the open transaction.
Body ==
  /\ rpc = "body"
  /\ intx' = ((intx \/ Log[fetched] \in Opens) /\ Log[fetched] \notin Closes)
  /\ rpc' = "lock"
  /\ UNCHANGED <<written, target, failed, cancelled, src, fetched, processed, committed,
                 mutex, asleep, tpc>>

BodyFails == rpc = "body" /\ Caught

\* Faulty: the counters change without the lock.
LockNotTaken ==
  /\ rpc = "lock"
  /\ rpc' = "after"
  /\ UNCHANGED <<written, target, failed, cancelled, src, fetched, intx, processed, committed,
                 mutex, asleep, tpc>>

Lock ==
  /\ rpc = "lock" /\ mutex = "free"
  /\ mutex' = "repl"
  /\ rpc' = "after"
  /\ UNCHANGED <<written, target, failed, cancelled, src, fetched, intx, processed, committed,
                 asleep, tpc>>

\* UpdateDatabase::afterEvent under the lock, which ends with it.
AfterEvent ==
  /\ rpc = "after"
  /\ processed' = tick(processed, Log[fetched])
  /\ committed' = IF intx THEN committed ELSE fetched
  /\ mutex' = "free"
  /\ rpc' = "notify"
  /\ UNCHANGED <<written, target, failed, cancelled, src, fetched, intx, asleep, tpc>>

\* Faulty: nobody is notified.
NotifyNobody ==
  /\ rpc = "notify"
  /\ rpc' = "fetch"
  /\ UNCHANGED <<written, target, failed, cancelled, src, fetched, intx, processed, committed,
                 mutex, asleep, tpc>>

NotifyAll ==
  /\ rpc = "notify"
  /\ asleep' = FALSE
  /\ rpc' = "fetch"
  /\ UNCHANGED <<written, target, failed, cancelled, src, fetched, intx, processed, committed,
                 mutex, tpc>>

ReplThread ==
  \/ GetSource \/ Open \/ OpenFails \/ FetchEvent \/ FetchNull
  \/ Body \/ BodyFails \/ Lock \/ AfterEvent \/ NotifyAll

-----------------------------------------------------------------------------
Write ==
  /\ tpc = "write" /\ written < Len(Log)
  /\ written' = written + 1
  /\ UNCHANGED <<target, failed, cancelled, mutex, asleep, tpc, replVars>>

\* stopAfter: BOOST_REQUIRE(src), then failed, which is not looked at again.
StopAfter ==
  /\ tpc = "write" /\ written = Len(Log)
  /\ tpc' = IF ~src THEN "abort" ELSE IF failed THEN "stop" ELSE "lock"
  /\ UNCHANGED <<written, target, failed, cancelled, mutex, asleep, replVars>>

\* waitFor: the lock, the predicate under it, and sleep, which gives the lock up.
LockToWait ==
  /\ tpc = "lock" /\ mutex = "free"
  /\ mutex' = "test"
  /\ tpc' = "predicate"
  /\ UNCHANGED <<written, target, failed, cancelled, asleep, replVars>>

Predicate ==
  /\ tpc = "predicate"
  /\ IF AtLeast(processed, target) THEN mutex' = "free" /\ tpc' = "stop"
     ELSE tpc' = "sleep" /\ UNCHANGED mutex
  /\ UNCHANGED <<written, target, failed, cancelled, asleep, replVars>>

Sleep ==
  /\ tpc = "sleep"
  /\ mutex' = "free"
  /\ asleep' = TRUE
  /\ tpc' = "waiting"
  /\ UNCHANGED <<written, target, failed, cancelled, replVars>>

Wake ==
  /\ tpc = "waiting" /\ ~asleep
  /\ tpc' = "lock"
  /\ UNCHANGED <<written, target, failed, cancelled, mutex, asleep, replVars>>

\* A condition variable may wake a waiter for no reason.
WakeForNothing ==
  /\ tpc = "waiting" /\ asleep
  /\ asleep' = FALSE
  /\ UNCHANGED <<written, target, failed, cancelled, mutex, tpc, replVars>>

\* stopEvents, which MockSetup's destructor calls too if there is a source.
StopEvents ==
  /\ tpc \in {"stop", "abort"}
  /\ cancelled' = (tpc = "stop" \/ src)
  /\ tpc' = IF tpc = "stop" THEN "join" ELSE "leave"
  /\ UNCHANGED <<written, target, failed, mutex, asleep, replVars>>

Join ==
  /\ tpc \in {"join", "leave"} /\ rpc = "ended"
  /\ tpc' = IF tpc = "leave" THEN "aborted" ELSE IF failed THEN "threw" ELSE "returned"
  /\ UNCHANGED <<written, target, failed, cancelled, mutex, asleep, replVars>>

TestThread ==
  \/ Write \/ StopAfter \/ LockToWait \/ Predicate \/ Sleep \/ Wake \/ StopEvents \/ Join

Init ==
  /\ written = 0 /\ target \in Targets
  /\ src = FALSE /\ failed = FALSE /\ cancelled = FALSE
  /\ rpc = "source" /\ fetched = 0 /\ intx = FALSE
  /\ processed = [e \in EventType |-> 0] /\ committed = 0
  /\ mutex = "free" /\ asleep = FALSE /\ tpc = "write"

Next == ReplThread \/ TestThread \/ WakeForNothing

\* Both threads run as long as they can, and a thread that finds the mutex free
\* again and again takes it in the end, however often the other wakes for nothing.
Spec == Init /\ [][Next]_vars /\ WF_vars(ReplThread) /\ WF_vars(TestThread) /\ SF_vars(Lock)

-----------------------------------------------------------------------------
(* Whenever the counters have reached the target while the test sleeps, the         *)
(* replicating thread is about to wake it: no notification falls between the test   *)
(* of the predicate and the sleep (test-e2e.cpp:29-45).                             *)
NoLostWakeup ==
  asleep /\ AtLeast(processed, target) => rpc = "notify"

\* Counters after the first k events.
CountsOf(k) ==
  [e \in EventType |-> Cardinality({i \in 1..k : Log[i] = e /\ e \notin Unhandled})]

InTx(k) == \E i \in 1..k : Log[i] \in Opens /\ \A j \in (i + 1)..k : Log[j] \notin Closes

\* Events that make up the target: the shortest beginning of the log that reaches it.
Reaches(k) ==
  AtLeast(CountsOf(k), target) /\ \A j \in 0..(k - 1) : ~AtLeast(CountsOf(j), target)

(* When stopAfter returns, the effects of the events it waited for are committed,   *)
(* provided the target is first reached where no transaction is open; the tests'    *)
(* targets without an XID_EVENT promise less (test-e2e.cpp:116-131, 205-213).       *)
CommittedOnReturn ==
  tpc = "returned" =>
    \A k \in 0..Len(Log) : Reaches(k) /\ ~InTx(k) => AtLeast(CountsOf(committed), target)

(* Once it waits, stopAfter ends, unless the replicating thread fails, of which     *)
(* nothing tells the waiter (test-e2e.cpp:105-131).                                 *)
StopAfterEnds ==
  (tpc = "lock") ~> (tpc \in {"returned", "threw"} \/ failed)
=============================================================================
