-------------------------- MODULE HostLifecycleProofs --------------------------
(* Proof that Host::stop deletes nothing while a thread of the host runs, for  *)
(* any number of clients and parts and any order of the application's calls.   *)
EXTENDS HostLifecycle, FiniteSetTheorems, TLAPS

\* The invariant behind ThreadsJoined holds initially and is kept by each call,
\* by each step of a call that waits, and by each thread.
THEOREM JoinInvariant == Spec => []JoinInv
<1>1. Init => JoinInv
  BY DEF Init, JoinInv, Stopping
<1>2. JoinInv /\ [Next]_vars => JoinInv'
  <2> SUFFICES ASSUME JoinInv, [Next]_vars PROVE JoinInv'
    OBVIOUS
  <2> USE DEF JoinInv, Stopping, appVars, threadVars, workVars
  <2>1. CASE Calls
    <3>1. CASE Start
      BY <3>1 DEF Start
    <3>2. CASE AddPart
      BY <3>2 DEF AddPart
    <3>3. CASE SwitchOn
      BY <3>3 DEF SwitchOn
    <3>4. CASE SwitchOff
      BY <3>4 DEF SwitchOff
    <3>5. CASE Stop
      BY <3>5 DEF Stop
    <3>6. QED
      BY <2>1, <3>1, <3>2, <3>3, <3>4, <3>5 DEF Calls
  <2>2. CASE Returns
    <3>1. CASE SwitchJoined
      BY <3>1 DEF SwitchJoined
    <3>2. CASE JoinLocal
      BY <3>2 DEF JoinLocal
    <3>3. CASE StopListener
      BY <3>3 DEF StopListener
    <3>4. CASE JoinListener
      BY <3>4 DEF JoinListener
    <3>5. CASE StopWatcher
      BY <3>5 DEF StopWatcher
    <3>6. CASE JoinWatcher
      BY <3>6 DEF JoinWatcher
    <3>7. CASE Clean
      BY <3>7 DEF Clean
    <3>8. QED
      BY <2>2, <3>1, <3>2, <3>3, <3>4, <3>5, <3>6, <3>7 DEF Returns
  <2>3. CASE Watcher
    BY <2>3 DEF Watcher, TakeBatch, PlaceLocal, AssignClient, WatcherEnd
  <2>4. CASE Results
    BY <2>4 DEF Results, ReceiveResult
  <2>5. CASE ListenerEnd
    BY <2>5 DEF ListenerEnd
  <2>6. CASE Local
    BY <2>6 DEF Local, LocalCopy, LocalRun, LocalEnd
  <2>7. CASE \E c \in Clients : Connect(c)
    BY <2>7 DEF Connect
  <2>8. CASE Throw
    BY <2>8 DEF Throw
  <2>9. CASE UNCHANGED vars
    BY <2>9 DEF vars
  <2>10. QED
    BY <2>1, <2>2, <2>3, <2>4, <2>5, <2>6, <2>7, <2>8, <2>9 DEF Next
<1>3. QED
  BY <1>1, <1>2, PTL DEF Spec

\* Host::stop and the destructor: clients, tasks and the host itself are deleted
\* only when the listener, the watcher and the local thread have ended.
THEOREM Joined == Spec => []ThreadsJoined
<1>1. JoinInv => ThreadsJoined
  BY DEF JoinInv, ThreadsJoined, Stopping
<1>2. QED
  BY <1>1, JoinInvariant, PTL

\* The host is busy while it has a part, which is one at most.
LEMMA LocalInvariant == Spec => []LocalInv
<1>1. Init => LocalInv
  BY DEF Init, LocalInv
<1>2. LocalInv /\ [Next]_vars => LocalInv'
  <2> SUFFICES ASSUME LocalInv, [Next]_vars PROVE LocalInv'
    OBVIOUS
  <2> USE DEF LocalInv
  <2>1. CASE PlaceLocal
    BY <2>1 DEF PlaceLocal
  <2>2. CASE LocalCopy
    BY <2>2 DEF LocalCopy
  <2>3. CASE LocalRun
    <3>1. computing = 1 /\ localQueue = 1
      BY <2>3 DEF LocalRun
    <3>2. QED
      BY <2>3, <3>1 DEF LocalRun
  <2>4. CASE UNCHANGED <<localQueue, computing, hostBusy>>
    BY <2>4
  <2>5. QED
    <3> USE DEF workVars, threadVars, appVars
    <3>1. CASE Calls \/ Returns
      BY <2>4, <3>1 DEF Calls, Start, AddPart, SwitchOn, SwitchOff, Stop, Returns,
        SwitchJoined, JoinLocal, StopListener, JoinListener, StopWatcher,
        JoinWatcher, Clean
    <3>2. CASE Watcher
      BY <2>1, <2>4, <3>2 DEF Watcher, TakeBatch, AssignClient, WatcherEnd
    <3>3. CASE Local
      BY <2>2, <2>3, <2>4, <3>3 DEF Local, LocalEnd
    <3>4. CASE \/ Results \/ ListenerEnd \/ Throw
               \/ \E c \in Clients : Connect(c)
      BY <2>4, <3>4 DEF Results, ReceiveResult, ListenerEnd, Throw, Connect
    <3>5. CASE UNCHANGED vars
      BY <2>4, <3>5 DEF vars
    <3>6. QED
      BY <3>1, <3>2, <3>3, <3>4, <3>5 DEF Next
<1>3. QED
  BY <1>1, <1>2, PTL DEF Spec

\* The watcher gives the host a part only when it has none, and the host is free
\* again only when it has computed it, switched or not.
THEOREM OneLocal == Spec => []OnePartLocal
<1>1. LocalInv => OnePartLocal
  BY DEF LocalInv, OnePartLocal
<1>2. QED
  BY <1>1, LocalInvariant, PTL

-----------------------------------------------------------------------------
(* Every part is accounted for. *)

\* The parts given to the host are those it has not looked at, has still to place,
\* has on its own queue or with a client, and those answered.
PartsCounted ==
  added = waiting + batch + localQueue + Cardinality(busy) + answered

\* The inductive invariant behind it: a client has one part, so its part can be
\* counted by the clients that are busy.
CountInv ==
  /\ {added, waiting, batch, localQueue, computing, answered} \subseteq Nat
  /\ IsFiniteSet(busy) /\ busy \subseteq clients
  /\ PartsCounted

LEMMA CountCalls == CountInv /\ Calls => CountInv'
<1> SUFFICES ASSUME CountInv, Calls PROVE CountInv'
  OBVIOUS
<1> USE DEF CountInv, PartsCounted
<1>1. CASE AddPart
  <2>1. Cardinality(busy) \in Nat
    BY FS_CardinalityType
  <2>2. /\ added' = added + 1 /\ waiting' = waiting + 1
        /\ UNCHANGED <<clients, busy, batch, localQueue, computing, answered>>
    BY <1>1 DEF AddPart
  <2> QED
    BY <2>1, <2>2
<1>2. CASE Start \/ SwitchOn \/ SwitchOff \/ Stop
  BY <1>2 DEF Start, SwitchOn, SwitchOff, Stop, workVars
<1> QED
  BY <1>1, <1>2 DEF Calls

LEMMA CountWatcher == CountInv /\ Watcher => CountInv'
<1> SUFFICES ASSUME CountInv, Watcher PROVE CountInv'
  OBVIOUS
<1> USE DEF CountInv, PartsCounted
<1>1. Cardinality(busy) \in Nat
  BY FS_CardinalityType
<1>2. CASE TakeBatch
  <2>1. /\ batch = 0 /\ batch' = waiting /\ waiting' = 0
        /\ UNCHANGED <<added, clients, busy, localQueue, computing, answered>>
    BY <1>2 DEF TakeBatch
  <2> QED
    BY <1>1, <2>1
<1>3. CASE PlaceLocal
  <2>1. /\ batch > 0 /\ localQueue' = localQueue + 1 /\ batch' = batch - 1
        /\ UNCHANGED <<added, waiting, clients, busy, computing, answered>>
    BY <1>3 DEF PlaceLocal
  <2> QED
    BY <1>1, <2>1
<1>4. CASE AssignClient
  <2>1. PICK c \in clients \ busy : busy' = busy \cup {c}
    BY <1>4 DEF AssignClient
  <2>2. /\ batch > 0 /\ batch' = batch - 1
        /\ UNCHANGED <<added, waiting, clients, localQueue, computing, answered>>
    BY <1>4 DEF AssignClient
  <2>3. IsFiniteSet(busy') /\ Cardinality(busy') = Cardinality(busy) + 1
    BY <2>1, FS_AddElement
  <2> QED
    BY <1>1, <2>1, <2>2, <2>3
<1>5. CASE WatcherEnd
  BY <1>5 DEF WatcherEnd, workVars
<1> QED
  BY <1>2, <1>3, <1>4, <1>5 DEF Watcher

LEMMA CountLocal == CountInv /\ LocalInv /\ Local => CountInv'
<1> SUFFICES ASSUME CountInv, LocalInv, Local PROVE CountInv'
  OBVIOUS
<1> USE DEF CountInv, PartsCounted
<1>1. Cardinality(busy) \in Nat
  BY FS_CardinalityType
<1>2. CASE LocalRun
  <2>1. /\ computing > 0 /\ computing' = computing - 1 /\ localQueue' = localQueue - 1
        /\ answered' = answered + 1
        /\ UNCHANGED <<added, waiting, batch, clients, busy>>
    BY <1>2 DEF LocalRun
  <2>2. computing <= localQueue
    BY DEF LocalInv
  <2> QED
    BY <1>1, <2>1, <2>2
<1>3. CASE LocalCopy \/ LocalEnd
  BY <1>3 DEF LocalCopy, LocalEnd, workVars
<1> QED
  BY <1>2, <1>3 DEF Local

LEMMA CountResults == CountInv /\ Results => CountInv'
<1> SUFFICES ASSUME CountInv, NEW c \in Clients, ReceiveResult(c) PROVE CountInv'
  BY DEF Results
<1>1. Cardinality(busy) \in Nat
  BY FS_CardinalityType DEF CountInv
<1>2. /\ c \in busy /\ busy' = busy \ {c} /\ answered' = answered + 1
      /\ UNCHANGED <<added, waiting, batch, localQueue, computing, clients>>
  BY DEF ReceiveResult
<1>3. IsFiniteSet(busy') /\ Cardinality(busy') = Cardinality(busy) - 1
  BY <1>2, FS_RemoveElement DEF CountInv
<1> QED
  BY <1>1, <1>2, <1>3 DEF CountInv, PartsCounted

\* No part given to the host goes missing, however it is switched and stopped and
\* whatever throws (Host.cpp:76-112, 227-262, 593-690); what is not answered is where
\* PartsAnswered looks for it.
THEOREM NonePartMissing == Spec => []PartsCounted
<1>1. Init => CountInv
  BY FS_EmptySet DEF Init, CountInv, PartsCounted
<1>2. CountInv /\ LocalInv /\ [Next]_vars => CountInv'
  <2> SUFFICES ASSUME CountInv, LocalInv, [Next]_vars PROVE CountInv'
    OBVIOUS
  <2>1. CASE \/ Returns \/ ListenerEnd \/ Throw \/ (\E c \in Clients : Connect(c))
             \/ UNCHANGED vars
    BY <2>1 DEF Returns, SwitchJoined, JoinLocal, StopListener, JoinListener, StopWatcher,
       JoinWatcher, Clean, ListenerEnd, Throw, Connect, vars, workVars, CountInv,
       PartsCounted
  <2> QED
    BY <2>1, CountCalls, CountWatcher, CountLocal, CountResults DEF Next
<1>3. CountInv => PartsCounted
  BY DEF CountInv
<1> QED
  BY <1>1, <1>2, <1>3, LocalInvariant, PTL DEF Spec

-----------------------------------------------------------------------------
(* When a call does not return. *)

\* stop waits for the watcher, which waits for a node for the part it holds, and
\* all nodes have one.
Stuck ==
  /\ app = "joinWatcher" /\ watcher = "running" /\ batch > 0
  /\ busy = clients /\ (hostAsClient => hostBusy)

\* Then it waits for ever: the threads that could free a node or connect another
\* have ended, and sendSubTasks looks at no flag (Host.cpp:82-112, 593-690).  This is
\* the exception that CallsReturn names.
THEOREM StuckForGood == Spec => [](Stuck => []Stuck)
<1>1. Stuck /\ JoinInv /\ [Next]_vars => Stuck'
  <2> SUFFICES ASSUME Stuck, JoinInv, [Next]_vars PROVE Stuck'
    OBVIOUS
  <2>1. local # "running" /\ listener # "running"
    BY DEF Stuck, JoinInv, Stopping
  <2> USE DEF Stuck, appVars, threadVars, workVars
  <2>2. ~Calls
    BY DEF Calls, Start, AddPart, SwitchOn, SwitchOff, Stop
  <2>3. ~Returns
    BY DEF Returns, SwitchJoined, JoinLocal, StopListener, JoinListener, StopWatcher,
       JoinWatcher, Clean
  <2>4. ~Watcher
    <3>1. ~TakeBatch /\ ~WatcherEnd
      BY DEF TakeBatch, WatcherEnd
    <3>2. ~PlaceLocal /\ ~AssignClient
      BY DEF PlaceLocal, AssignClient
    <3> QED
      BY <3>1, <3>2 DEF Watcher
  <2>5. ~Results /\ ~ListenerEnd /\ ~Local /\ ~(\E c \in Clients : Connect(c))
    BY <2>1 DEF Results, ReceiveResult, ListenerEnd, Local, LocalCopy, LocalRun, LocalEnd,
       Connect
  <2>6. CASE Throw \/ UNCHANGED vars
    BY <2>6 DEF Throw, vars
  <2> QED
    BY <2>2, <2>3, <2>4, <2>5, <2>6 DEF Next
<1> QED
  BY <1>1, JoinInvariant, PTL DEF Spec
=============================================================================
