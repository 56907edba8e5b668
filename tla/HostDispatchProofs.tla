------------------------- MODULE HostDispatchProofs -------------------------
(* Proofs about HostDispatch, for every value of its constants. *)
EXTENDS HostDispatch, FiniteSetTheorems, TLAPS

LEMMA CountType ==
  ASSUME TypeOK
  PROVE  ClientsCount \in 0 .. MaxConns + 1
<1>1. IsFiniteSet(Conns) /\ Cardinality(Conns) = MaxConns
  BY ConstantsAssumption, FS_Interval DEF Conns
<1>2. {c \in clients : ~remove[c]} \subseteq Conns
  BY DEF TypeOK
<1>3. /\ Cardinality({c \in clients : ~remove[c]}) \in Nat
      /\ Cardinality({c \in clients : ~remove[c]}) <= MaxConns
  BY <1>1, <1>2, FS_Subset, FS_CardinalityType
<1> QED
  BY <1>3, ConstantsAssumption DEF ClientsCount

LEMMA PartsOfType ==
  ASSUME NEW t \in Tasks, NEW n \in 0 .. MaxConns + 1
  PROVE  PartsOf(t, n) \subseteq Parts
<1>1. PartCount(t, n) \in Nat /\ PartCount(t, n) <= MaxConns + 1
  BY ConstantsAssumption DEF PartCount
<1> QED
  BY <1>1, ConstantsAssumption DEF PartsOf, Parts

LEMMA FinishType ==
  ASSUME TypeOK, NEW p \in Parts, FinishTask(p)
  PROVE  accepted' \in [Parts -> Nat] /\ freed' \subseteq Parts
<1>1. accepted' \in [Parts -> Nat]
  BY DEF FinishTask, TypeOK
<1>2. freed' \subseteq Parts
  BY DEF FinishTask, TypeOK
<1> QED
  BY <1>1, <1>2

LEMMA UntrackType ==
  ASSUME TypeOK, NEW d \in Conns, NEW p
  PROVE  [tasks EXCEPT ![d] = @ \ {p}] \in [Conns -> SUBSET Parts]
  BY DEF TypeOK

LEMMA TypeInit == Init => TypeOK
<1> SUFFICES ASSUME Init PROVE TypeOK
  OBVIOUS
<1>1. <<>> \in Seq(Parts)
  OBVIOUS
<1>2. 0 \in 0 .. MaxConns + 1
  BY ConstantsAssumption
<1> QED
  BY <1>1, <1>2 DEF Init, TypeOK

LEMMA TypeWatcher == TypeOK /\ WatcherInv /\ Watcher => TypeOK'
<1> SUFFICES ASSUME TypeOK, WatcherInv, Watcher PROVE TypeOK'
  OBVIOUS
<1>count. ClientsCount \in 0 .. MaxConns + 1
  BY CountType
<1>cur. wpc \in {"place", "assign"} => cur \in Parts
  BY DEF TypeOK, WatcherInv
<1>free. wpc = "assign" => freeClient \in Conns
  BY DEF TypeOK, WatcherInv
<1> USE DEF TypeOK, hostVars, watchVars, recvVars, localVars, netVars,
            heapVars, partVars
<1>1. CASE Watch
  BY <1>1, <1>count DEF Watch
<1>2. CASE WatchTimeout
  BY <1>2 DEF WatchTimeout
<1>3. CASE WatchEnd
  BY <1>3 DEF WatchEnd
<1>4. CASE Divide
  <2>1. UNION {PartsOf(t, clientCount) : t \in taskQueue} \subseteq Parts
    BY PartsOfType
  <2> QED
    BY <1>4, <2>1 DEF Divide
<1>5. CASE CopyQueue
  BY <1>5 DEF CopyQueue
<1>6. CASE TakeTask
  BY <1>6 DEF TakeTask
<1>7. CASE PlaceLocal
  BY <1>7, <1>cur DEF PlaceLocal
<1>8. CASE PickClient
  BY <1>8 DEF PickClient
<1>9. CASE AssignClient
  <2>1. /\ tasks' \in [Conns -> SUBSET Parts]
        /\ senders' \subseteq Conns \X Parts
    BY <1>9, <1>cur, <1>free DEF AssignClient
  <2> QED
    BY <1>9, <1>cur, <1>free, <2>1 DEF AssignClient
<1>10. CASE AssignDeleted
  BY <1>10 DEF AssignDeleted
<1>11. CASE ClearQueue
  BY <1>11 DEF ClearQueue
<1>12. CASE JoinSenders
  BY <1>12 DEF JoinSenders
<1>13. CASE EraseSent
  BY <1>13 DEF EraseSent
<1> QED
  BY <1>1, <1>2, <1>3, <1>4, <1>5, <1>6, <1>7, <1>8, <1>9, <1>10, <1>11,
     <1>12, <1>13 DEF Watcher

LEMMA TypeSender ==
  ASSUME TypeOK, NEW c \in Conns, NEW p \in Parts, Sender(c, p)
  PROVE  TypeOK'
<1> USE DEF TypeOK, hostVars, watchVars, recvVars, localVars, netVars,
            heapVars, partVars
<1>1. CASE Send(c, p)
  <2>1. toClient' \in [Conns -> Seq(Parts)]
    BY <1>1 DEF Send
  <2> QED
    BY <1>1, <2>1, SMTT(60) DEF Send
<1>2. CASE SendFails(c, p)
  BY <1>2, SMTT(60) DEF SendFails, SendStart
<1>3. CASE SendDangling(c, p)
  BY <1>3, SMTT(60) DEF SendDangling
<1>4. CASE SendAborted(c, p)
  BY <1>4 DEF SendAborted
<1> QED
  BY <1>1, <1>2, <1>3, <1>4 DEF Sender

LEMMA TypeListener == TypeOK /\ Listener => TypeOK'
<1> SUFFICES ASSUME TypeOK, Listener PROVE TypeOK'
  OBVIOUS
<1> USE DEF TypeOK, hostVars, watchVars, recvVars, localVars, netVars,
            heapVars, partVars
<1>1. CASE \E n \in Nodes : Accept(n)
  BY <1>1, SMTT(60) DEF Accept
<1>2. CASE Launch
  BY <1>2 DEF Launch
<1>3. CASE ListenTimeout
  BY <1>3 DEF ListenTimeout
<1>4. CASE JoinReceivers
  BY <1>4 DEF JoinReceivers
<1>5. CASE EraseDead
  BY <1>5 DEF EraseDead
<1> QED
  BY <1>1, <1>2, <1>3, <1>4, <1>5 DEF Listener

LEMMA TypeReceiver ==
  ASSUME TypeOK, ReceiverInv, NEW c \in Conns, Receiver(c)
  PROVE  TypeOK'
<1> USE DEF TypeOK, hostVars, watchVars, recvVars, localVars, netVars,
            heapVars, partVars
<1>1. CASE Receive(c)
  BY <1>1, SMTT(60) DEF Receive
<1>2. CASE ReceiveDisconnected(c)
  <2>1. /\ redist' \in [Conns -> SUBSET Parts]
        /\ tasks' \in [Conns -> SUBSET Parts]
    BY <1>2 DEF ReceiveDisconnected
  <2>2. /\ sock' \in [Conns -> {"none", "open", "peerClosed", "closed"}]
        /\ rpc' \in [Conns -> {"idle", "receive", "mark", "markClients",
                              "accepted", "answered", "disconnected",
                              "redistribute"}]
    BY <1>2 DEF ReceiveDisconnected
  <2> QED
    BY <1>2, <2>1, <2>2 DEF ReceiveDisconnected
<1>3. CASE ReceiveAborted(c)
  BY <1>3 DEF ReceiveAborted
<1>4. CASE Redistribute(c)
  BY <1>4 DEF Redistribute
<1>5. CASE MarkHost(c)
  <2>1. rpart[c] \in Parts
    BY <1>5 DEF MarkHost, ReceiverInv
  <2>2. FinishTask(rpart[c]) => accepted' \in [Parts -> Nat] /\ freed' \subseteq Parts
    BY <2>1, FinishType
  <2> QED
    <3>1. UNCHANGED <<added, taskQueue, subTaskQueue, clients, busy, remove,
                         tasks, hostBusy, localQueue, exceptionThrown,
                         watchVars, senders, lpc, rpart, redist, localVars,
                         netVars, deleted, badAccess, waiting, lost>>
      BY <1>5 DEF MarkHost
    <3>2. /\ hostTasks' \subseteq Parts
          /\ accepted' \in [Parts -> Nat]
          /\ freed' \subseteq Parts
      BY <1>5, <2>2 DEF MarkHost
    <3>3. rpc' \in [Conns -> {"idle", "receive", "mark", "markClients",
                              "accepted", "answered", "disconnected",
                              "redistribute"}]
      <4>1. \/ rpc' = [rpc EXCEPT ![c] = "accepted"]
            \/ rpc' = [rpc EXCEPT ![c] = "markClients"]
        BY <1>5 DEF MarkHost
      <4> QED
        BY <4>1
    <3> QED
      BY <3>1, <3>2, <3>3, SMTT(60)
<1>6. CASE MarkClients(c)
  <2>1. rpart[c] \in Parts
    BY <1>6 DEF MarkClients, ReceiverInv
  <2>2. FinishTask(rpart[c]) => accepted' \in [Parts -> Nat] /\ freed' \subseteq Parts
    BY <2>1, FinishType
  <2>3. CASE \E d \in clients :
               /\ tasks' = [tasks EXCEPT ![d] = @ \ {rpart[c]}]
               /\ FinishTask(rpart[c])
               /\ rpc' = [rpc EXCEPT ![c] = "accepted"]
    <3>1. tasks' \in [Conns -> SUBSET Parts]
      BY <2>3, UntrackType, SMTT(60)
    <3> QED
      BY <1>6, <2>2, <2>3, <3>1, SMTT(60) DEF MarkClients
  <2>4. CASE /\ rpc' = [rpc EXCEPT ![c] = "answered"]
             /\ UNCHANGED <<tasks, freed, accepted>>
    BY <1>6, <2>4, SMTT(60) DEF MarkClients
  <2> QED
    BY <1>6, <2>3, <2>4 DEF MarkClients
<1>7. CASE ResultQueued(c)
  BY <1>7 DEF ResultQueued
<1>8. CASE Answered(c)
  BY <1>8 DEF Answered
<1>9. CASE MarkRemoved(c)
  BY <1>9 DEF MarkRemoved
<1> QED
  BY <1>1, <1>2, <1>3, <1>4, <1>5, <1>6, <1>7, <1>8, <1>9 DEF Receiver

LEMMA TypeLocal == TypeOK /\ LocalInv /\ Local => TypeOK'
<1> SUFFICES ASSUME TypeOK, LocalInv, Local PROVE TypeOK'
  OBVIOUS
<1> USE DEF TypeOK, LocalInv, hostVars, watchVars, recvVars, localVars,
            netVars, heapVars, partVars
<1>1. CASE LocalCopy
  BY <1>1 DEF LocalCopy
<1>2. CASE LocalStart
  BY <1>2 DEF LocalStart
<1>3. CASE LocalStartDangling
  BY <1>3 DEF LocalStartDangling
<1>4. CASE LocalRun
  BY <1>4 DEF LocalRun
<1>5. CASE LocalMarkHost
  BY <1>5 DEF LocalMarkHost, FinishTask
<1>6. CASE LocalMarkClients
  <2>1. FinishTask(hcur) => accepted' \in [Parts -> Nat] /\ freed' \subseteq Parts
    BY <1>6, FinishType DEF LocalMarkClients
  <2>2. CASE {d \in clients : hcur \in tasks[d]} # {}
    <3>1. /\ \E d \in clients : tasks' = [tasks EXCEPT ![d] = @ \ {hcur}]
          /\ FinishTask(hcur)
      BY <1>6, <2>2 DEF LocalMarkClients
    <3>2. tasks' \in [Conns -> SUBSET Parts]
      BY <3>1, UntrackType
    <3> QED
      BY <1>6, <2>1, <2>2, <3>1, <3>2, SMTT(60) DEF LocalMarkClients
  <2>3. CASE {d \in clients : hcur \in tasks[d]} = {}
    <3>1. /\ exceptionThrown' = TRUE /\ hpc' = "ended"
          /\ UNCHANGED <<tasks, freed, accepted>>
      BY <1>6, <2>3 DEF LocalMarkClients
    <3>2. UNCHANGED <<added, taskQueue, subTaskQueue, clients, busy, remove,
                      hostBusy, hostTasks, localQueue, watchVars, senders,
                      recvVars, hbatch, hcur, netVars, deleted, badAccess,
                      waiting, lost>>
      BY <1>6 DEF LocalMarkClients
    <3> QED
      BY <3>1, <3>2
  <2> QED
    BY <2>2, <2>3
<1>7. CASE LocalQueued
  BY <1>7 DEF LocalQueued
<1>8. CASE LocalEnd
  BY <1>8 DEF LocalEnd
<1> QED
  BY <1>1, <1>2, <1>3, <1>4, <1>5, <1>6, <1>7, <1>8 DEF Local

LEMMA TypeNode ==
  ASSUME TypeOK, NEW n \in Nodes, Node(n) \/ Drop(n)
  PROVE  TypeOK'
<1> USE DEF TypeOK, hostVars, watchVars, recvVars, localVars, netVars,
            heapVars, partVars
<1>1. CASE NodeReceive(n)
  <2> DEFINE c == nconn[n]
  <2>1. c \in Conns
    BY <1>1 DEF NodeReceive
  <2>2. Head(toClient[c]) \in Parts /\ Tail(toClient[c]) \in Seq(Parts)
    BY <1>1, <2>1 DEF NodeReceive
  <2>3. /\ nqueue' \in [Nodes -> Seq(Parts)]
        /\ toClient' \in [Conns -> Seq(Parts)]
    BY <1>1, <2>1, <2>2 DEF NodeReceive
  <2> QED
    BY <1>1, <2>3, SMTT(60) DEF NodeReceive
<1>2. CASE NodeProcess(n)
  <2>1. Head(nqueue[n]) \in Parts /\ Tail(nqueue[n]) \in Seq(Parts)
    BY <1>2 DEF NodeProcess
  <2>2. /\ nqueue' \in [Nodes -> Seq(Parts)]
        /\ nresults' \in [Nodes -> Seq(Parts)]
    BY <1>2, <2>1 DEF NodeProcess
  <2> QED
    BY <1>2, <2>2, SMTT(60) DEF NodeProcess
<1>3. CASE NodeSend(n)
  <2> DEFINE c == nconn[n]
  <2>1. c \in Conns
    BY <1>3 DEF NodeSend
  <2>2. Head(nresults[n]) \in Parts /\ Tail(nresults[n]) \in Seq(Parts)
    BY <1>3 DEF NodeSend
  <2>3. /\ nresults' \in [Nodes -> Seq(Parts)]
        /\ toHost' \in [Conns -> Seq(Parts)]
    BY <1>3, <2>1, <2>2 DEF NodeSend
  <2> QED
    BY <1>3, <2>3, SMTT(60) DEF NodeSend
<1>4. CASE Drop(n)
  <2> DEFINE c == nconn[n]
  <2>1. c \in Conns
    BY <1>4 DEF Drop
  <2>2. PICK k \in 0 .. Len(toHost[c]) :
          toHost' = [toHost EXCEPT ![c] = SubSeq(@, 1, k)]
    BY <1>4 DEF Drop
  <2>3. SubSeq(toHost[c], 1, k) \in Seq(Parts)
    BY <2>1, <2>2
  <2>4. /\ toHost' \in [Conns -> Seq(Parts)]
        /\ toClient' \in [Conns -> Seq(Parts)]
    BY <1>4, <2>1, <2>2, <2>3 DEF Drop
  <2>5. /\ sock' \in [Conns -> {"none", "open", "peerClosed", "closed"}]
        /\ nconn' \in [Nodes -> Conns \cup {NoConn}]
    BY <1>4, <2>1 DEF Drop
  <2> QED
    BY <1>4, <2>4, <2>5, SMTT(60) DEF Drop
<1> QED
  BY <1>1, <1>2, <1>3, <1>4 DEF Node

-----------------------------------------------------------------------------
(* PartInv: where the parts are.  Each action either moves no part or makes *)
(* one of the moves waiting -> tracked or lost, tracked -> redistributed,   *)
(* answered or lost, redistributed -> waiting; Divide makes new parts.      *)

placeVars == <<added, taskQueue, waiting, hostTasks, tasks, redist, accepted,
               lost, freed>>

LEMMA NoMove == PartInv /\ UNCHANGED placeVars => PartInv'
  BY DEF PartInv, OnePlace, AcceptedOnce, FreshInv, FreedInv, Places, Tracked,
         InRedist, Finished, placeVars

LEMMA PartDivide == IInv /\ Divide => PartInv'
<1> SUFFICES ASSUME IInv, Divide PROVE PartInv'
  OBVIOUS
<1> DEFINE new == UNION {PartsOf(t, clientCount) : t \in taskQueue}
<1>1. /\ waiting' = waiting \cup new
      /\ taskQueue' = {}
      /\ UNCHANGED <<added, hostTasks, tasks, redist, accepted, lost, freed>>
  BY DEF Divide, hostVars, recvVars, heapVars
<1>2. \A p \in new : p[1] \in taskQueue
  BY DEF PartsOf
<1>3. \A p \in new : p \notin Places
  BY <1>2 DEF IInv, PartInv, FreshInv
<1>4. OnePlace'
  BY <1>1, <1>3 DEF IInv, PartInv, OnePlace, Places, Tracked, InRedist,
                    Finished
<1>5. FreshInv'
  BY <1>1, <1>2 DEF IInv, PartInv, FreshInv, Places, Tracked, InRedist,
                    Finished
<1> QED
  BY <1>1, <1>4, <1>5 DEF IInv, PartInv, AcceptedOnce, FreedInv, Finished

LEMMA PartWatcher == IInv /\ Watcher => PartInv'
<1> SUFFICES ASSUME IInv, Watcher PROVE PartInv'
  OBVIOUS
<1> USE DEF IInv, hostVars, watchVars, recvVars, heapVars, partVars
<1>1. CASE PlaceLocal
  <2>1. /\ cur \in waiting
        /\ hostTasks' = hostTasks \cup {cur}
        /\ waiting' = waiting \ {cur}
        /\ UNCHANGED <<added, taskQueue, tasks, redist, accepted, lost, freed>>
    BY <1>1 DEF PlaceLocal, ThreadInv, WatcherInv
  <2> QED
    BY <2>1 DEF PartInv, OnePlace, AcceptedOnce, FreshInv, FreedInv, Places,
                Tracked, InRedist, Finished
<1>2. CASE AssignClient
  <2>1. /\ cur \in waiting /\ freeClient \in Conns
        /\ tasks \in [Conns -> SUBSET Parts]
    BY <1>2 DEF AssignClient, ThreadInv, WatcherInv, TypeOK
  <2>2. /\ tasks' = [tasks EXCEPT ![freeClient] = @ \cup {cur}]
        /\ waiting' = waiting \ {cur}
        /\ UNCHANGED <<added, taskQueue, hostTasks, redist, accepted, lost,
                       freed>>
    BY <1>2 DEF AssignClient
  <2> QED
    BY <2>1, <2>2 DEF PartInv, OnePlace, AcceptedOnce, FreshInv, FreedInv,
                      Places, Tracked, InRedist, Finished
<1>3. CASE ClearQueue
  <2>1. /\ waiting' = {} /\ lost' = lost \cup waiting
        /\ UNCHANGED <<added, taskQueue, hostTasks, tasks, redist, accepted,
                       freed>>
    BY <1>3 DEF ClearQueue
  <2> QED
    BY <2>1 DEF PartInv, OnePlace, AcceptedOnce, FreshInv, FreedInv, Places,
                Tracked, InRedist, Finished
<1>4. CASE EraseSent
  <2>1. /\ waiting' = waiting \ batch /\ lost' = lost \cup (waiting \cap batch)
        /\ UNCHANGED <<added, taskQueue, hostTasks, tasks, redist, accepted,
                       freed>>
    BY <1>4 DEF EraseSent
  <2> QED
    BY <2>1 DEF PartInv, OnePlace, AcceptedOnce, FreshInv, FreedInv, Places,
                Tracked, InRedist, Finished
<1>5. CASE Watch \/ WatchTimeout \/ WatchEnd \/ CopyQueue \/ TakeTask
           \/ PickClient \/ AssignDeleted \/ JoinSenders
  BY <1>5, NoMove DEF Watch, WatchTimeout, WatchEnd, CopyQueue, TakeTask,
       PickClient, AssignDeleted, JoinSenders, placeVars
<1> QED
  BY PartDivide, <1>1, <1>2, <1>3, <1>4, <1>5 DEF Watcher

LEMMA PartListener == IInv /\ Listener => PartInv'
<1> SUFFICES ASSUME IInv, Listener PROVE PartInv'
  OBVIOUS
<1> USE DEF IInv, hostVars, partVars, heapVars, recvVars
<1>1. CASE EraseDead
  <2>1. PICK dead \in SUBSET {c \in clients : remove[c]} :
          /\ tasks' = [c \in Conns |-> IF c \in dead THEN {} ELSE tasks[c]]
          /\ freed' = freed \cup UNION {tasks[c] : c \in dead}
          /\ lost' = lost \cup UNION {tasks[c] : c \in dead}
    BY <1>1 DEF EraseDead
  <2>2. UNCHANGED <<added, taskQueue, waiting, hostTasks, redist, accepted>>
    BY <1>1 DEF EraseDead
  <2>3. dead \subseteq Conns
    BY DEF TypeOK
  <2>4. OnePlace'
    BY <2>1, <2>2, <2>3 DEF PartInv, OnePlace, Tracked, InRedist, Finished
  <2>5. FreshInv'
    BY <2>1, <2>2, <2>3 DEF PartInv, FreshInv, Places, Tracked, InRedist,
                            Finished
  <2> QED
    BY <2>1, <2>2, <2>4, <2>5 DEF PartInv, AcceptedOnce, FreedInv, Finished
<1>2. CASE \/ \E n \in Nodes : Accept(n)
           \/ Launch \/ ListenTimeout \/ JoinReceivers
  BY <1>2, NoMove DEF Accept, Launch, ListenTimeout, JoinReceivers, placeVars
<1> QED
  BY <1>1, <1>2 DEF Listener

\* A result is accepted for a part that some owner tracks.
LEMMA PartFinish ==
  ASSUME IInv, NEW p \in Parts, FinishTask(p),
         UNCHANGED <<added, taskQueue, waiting, redist, lost>>,
         \/ /\ p \in hostTasks
            /\ hostTasks' = hostTasks \ {p} /\ UNCHANGED tasks
         \/ /\ \E d \in Conns : /\ p \in tasks[d]
                                /\ tasks' = [tasks EXCEPT ![d] = @ \ {p}]
            /\ UNCHANGED hostTasks
  PROVE  PartInv'
<1>1. p \in Tracked /\ accepted[p] = 0
  BY DEF IInv, PartInv, OnePlace, Tracked, Finished, TypeOK
<1>2. /\ accepted' = [accepted EXCEPT ![p] = 1]
      /\ freed' = freed \cup {p}
      /\ accepted \in [Parts -> Nat]
      /\ tasks \in [Conns -> SUBSET Parts]
  BY <1>1 DEF FinishTask, IInv, TypeOK
<1>3. Finished' = Finished \cup {p}
  BY <1>1, <1>2 DEF Finished
<1>4. OnePlace'
  <2>1. Tracked' = Tracked \ {p}
    BY <1>2 DEF IInv, PartInv, OnePlace, Tracked
  <2>2. InRedist' = InRedist
    BY DEF InRedist
  <2>3. /\ \A c \in Conns : tasks'[c] \subseteq tasks[c]
        /\ hostTasks' \subseteq hostTasks
    BY <1>2
  <2> QED
    BY <1>1, <1>3, <2>1, <2>2, <2>3 DEF IInv, PartInv, OnePlace
<1>5. FreshInv'
  BY <1>1, <1>2, <1>3 DEF IInv, PartInv, FreshInv, Places, Tracked, InRedist
<1>6. AcceptedOnce' /\ FreedInv'
  BY <1>2, <1>3 DEF IInv, PartInv, AcceptedOnce, FreedInv
<1> QED
  BY <1>4, <1>5, <1>6 DEF PartInv

LEMMA PartReceiver ==
  ASSUME IInv, NEW c \in Conns, Receiver(c)
  PROVE  PartInv'
<1> USE DEF hostVars, partVars, heapVars, recvVars
<1>1. CASE ReceiveDisconnected(c)
  <2>1. /\ redist[c] = {}
        /\ tasks \in [Conns -> SUBSET Parts] /\ redist \in [Conns -> SUBSET Parts]
    BY <1>1 DEF ReceiveDisconnected, IInv, ThreadInv, ReceiverInv, TypeOK
  <2>2. /\ redist' = [redist EXCEPT ![c] = tasks[c]]
        /\ tasks' = [tasks EXCEPT ![c] = {}]
        /\ UNCHANGED <<added, taskQueue, waiting, hostTasks, accepted, lost,
                       freed>>
    BY <1>1 DEF ReceiveDisconnected
  <2>3. OnePlace'
    BY <2>1, <2>2 DEF IInv, PartInv, OnePlace, Tracked, InRedist, Finished
  <2>4. FreshInv'
    BY <2>1, <2>2 DEF IInv, PartInv, FreshInv, Places, Tracked, InRedist,
                      Finished
  <2> QED
    BY <2>2, <2>3, <2>4 DEF IInv, PartInv, AcceptedOnce, FreedInv, Finished
<1>2. CASE Redistribute(c)
  <2>1. redist \in [Conns -> SUBSET Parts]
    BY DEF IInv, TypeOK
  <2>2. /\ waiting' = waiting \cup redist[c]
        /\ redist' = [redist EXCEPT ![c] = {}]
        /\ UNCHANGED <<added, taskQueue, tasks, hostTasks, accepted, lost,
                       freed>>
    BY <1>2 DEF Redistribute
  <2>3. OnePlace'
    BY <2>1, <2>2 DEF IInv, PartInv, OnePlace, Tracked, InRedist, Finished
  <2>4. FreshInv'
    BY <2>1, <2>2 DEF IInv, PartInv, FreshInv, Places, Tracked, InRedist,
                      Finished
  <2> QED
    BY <2>2, <2>3, <2>4 DEF IInv, PartInv, AcceptedOnce, FreedInv, Finished
<1>3. CASE MarkHost(c)
  <2>1. rpart[c] \in Parts
    BY <1>3 DEF MarkHost, IInv, ThreadInv, ReceiverInv
  <2>2. CASE rpart[c] \in hostTasks
    BY <1>3, <2>1, <2>2, PartFinish DEF MarkHost
  <2>3. CASE rpart[c] \notin hostTasks
    BY <1>3, <2>3, NoMove DEF MarkHost, placeVars, IInv
  <2> QED
    BY <2>2, <2>3
<1>4. CASE MarkClients(c)
  <2>1. rpart[c] \in Parts /\ clients \subseteq Conns
    BY <1>4 DEF MarkClients, IInv, ThreadInv, ReceiverInv, TypeOK
  <2>2. CASE \E d \in clients :
               /\ rpart[c] \in tasks[d]
               /\ tasks' = [tasks EXCEPT ![d] = @ \ {rpart[c]}]
               /\ FinishTask(rpart[c])
    BY <1>4, <2>1, <2>2, PartFinish DEF MarkClients
  <2>3. CASE UNCHANGED <<tasks, freed, accepted>>
    BY <1>4, <2>3, NoMove DEF MarkClients, placeVars, IInv
  <2> QED
    BY <1>4, <2>2, <2>3 DEF MarkClients
<1>5. CASE \/ Receive(c) \/ ReceiveAborted(c) \/ MarkRemoved(c)
           \/ ResultQueued(c) \/ Answered(c)
  BY <1>5, NoMove DEF Receive, ReceiveAborted, MarkRemoved, ResultQueued,
       Answered, placeVars, IInv
<1> QED
  BY <1>1, <1>2, <1>3, <1>4, <1>5 DEF Receiver

LEMMA PartLocal == IInv /\ Local => PartInv'
<1> SUFFICES ASSUME IInv, Local PROVE PartInv'
  OBVIOUS
<1> USE DEF hostVars, partVars, heapVars, recvVars
<1>1. CASE LocalMarkHost
  <2>1. hcur \in Parts
    BY <1>1 DEF LocalMarkHost, IInv, ThreadInv, LocalInv
  <2>2. CASE hcur \in hostTasks
    BY <1>1, <2>1, <2>2, PartFinish DEF LocalMarkHost
  <2>3. CASE hcur \notin hostTasks
    BY <1>1, <2>3, NoMove DEF LocalMarkHost, placeVars, IInv
  <2> QED
    BY <2>2, <2>3
<1>2. CASE LocalMarkClients
  <2>1. hcur \in Parts /\ clients \subseteq Conns
    BY <1>2 DEF LocalMarkClients, IInv, ThreadInv, LocalInv, TypeOK
  <2>2. CASE {d \in clients : hcur \in tasks[d]} # {}
    <3>1. /\ \E d \in clients : /\ hcur \in tasks[d]
                                /\ tasks' = [tasks EXCEPT ![d] = @ \ {hcur}]
          /\ FinishTask(hcur)
          /\ UNCHANGED <<added, taskQueue, waiting, redist, lost, hostTasks>>
      BY <1>2, <2>2 DEF LocalMarkClients
    <3> QED
      BY <2>1, <3>1, PartFinish
  <2>3. CASE {d \in clients : hcur \in tasks[d]} = {}
    BY <1>2, <2>3, NoMove DEF LocalMarkClients, placeVars, IInv
  <2> QED
    BY <2>2, <2>3
<1>3. CASE \/ LocalCopy \/ LocalStart \/ LocalStartDangling \/ LocalRun
           \/ LocalQueued \/ LocalEnd
  BY <1>3, NoMove DEF LocalCopy, LocalStart, LocalStartDangling, LocalRun,
       LocalQueued, LocalEnd, placeVars, IInv
<1> QED
  BY <1>1, <1>2, <1>3 DEF Local

-----------------------------------------------------------------------------
(* ThreadInv: what each thread may rely on between its steps. *)

LEMMA ThreadWatcher == IInv /\ Watcher => ThreadInv'
<1> SUFFICES ASSUME IInv, Watcher PROVE ThreadInv'
  OBVIOUS
<1>1. LocalInv' /\ ReceiverInv'
  <2>1. UNCHANGED <<recvVars, localVars, sock, clients, deleted>>
    BY DEF Watcher, Watch, WatchTimeout, WatchEnd, Divide, CopyQueue, TakeTask,
           PlaceLocal, PickClient, AssignClient, AssignDeleted, ClearQueue,
           JoinSenders, EraseSent, hostVars, heapVars, netVars
  <2> QED
    BY <2>1 DEF IInv, ThreadInv, LocalInv, ReceiverInv, recvVars, localVars
<1>2. WatcherInv'
  <2> USE DEF IInv, ThreadInv, WatcherInv, hostVars, watchVars, partVars
  <2>1. CASE Watch \/ WatchTimeout \/ WatchEnd
    BY <2>1 DEF Watch, WatchTimeout, WatchEnd
  <2>2. CASE Divide
    BY <2>2 DEF Divide
  <2>3. CASE CopyQueue
    BY <2>3 DEF CopyQueue
  <2>4. CASE TakeTask
    BY <2>4 DEF TakeTask, TypeOK
  <2>5. CASE PlaceLocal
    BY <2>5 DEF PlaceLocal
  <2>6. CASE PickClient
    BY <2>6, ConstantsAssumption DEF PickClient, TypeOK, Conns, NoConn
  <2>7. CASE AssignClient
    BY <2>7 DEF AssignClient
  <2>8. CASE AssignDeleted
    BY <2>8 DEF AssignDeleted
  <2>9. CASE ClearQueue
    BY <2>9 DEF ClearQueue
  <2>10. CASE JoinSenders
    BY <2>10 DEF JoinSenders
  <2>11. CASE EraseSent
    BY <2>11 DEF EraseSent
  <2> QED
    BY <2>1, <2>2, <2>3, <2>4, <2>5, <2>6, <2>7, <2>8, <2>9, <2>10, <2>11
       DEF Watcher
<1> QED
  BY <1>1, <1>2 DEF ThreadInv

\* No other thread takes a part from the watcher, and none puts a part on the
\* queue that is not waiting.
LEMMA WatcherUndisturbed ==
  ASSUME WatcherInv, UNCHANGED watchVars,
         \/ UNCHANGED <<subTaskQueue, waiting>>
         \/ \E new : /\ subTaskQueue' = subTaskQueue \cup new
                     /\ waiting' = waiting \cup new
  PROVE  WatcherInv'
  BY DEF WatcherInv, watchVars

LEMMA ThreadSender ==
  ASSUME IInv, NEW c \in Conns, NEW p \in Parts, Sender(c, p)
  PROVE  ThreadInv'
<1>1. /\ UNCHANGED <<watchVars, recvVars, localVars, sock, clients, deleted>>
      /\ UNCHANGED <<subTaskQueue, waiting>>
  BY DEF Sender, Send, SendFails, SendDangling, SendAborted, hostVars, netVars,
         heapVars, partVars
<1> QED
  BY <1>1, WatcherUndisturbed DEF IInv, ThreadInv, LocalInv, ReceiverInv,
     recvVars, localVars

LEMMA ThreadListener == IInv /\ Listener => ThreadInv'
<1> SUFFICES ASSUME IInv, Listener PROVE ThreadInv'
  OBVIOUS
<1>1. UNCHANGED <<watchVars, localVars, subTaskQueue, waiting, redist, rpart>>
  BY DEF Listener, Accept, Launch, ListenTimeout, JoinReceivers, EraseDead,
         hostVars, partVars, recvVars
<1>2. LocalInv' /\ WatcherInv'
  BY <1>1, WatcherUndisturbed DEF IInv, ThreadInv, LocalInv, localVars
<1>3. ReceiverInv'
  <2> USE DEF IInv, ThreadInv, ReceiverInv, hostVars, heapVars, netVars
  <2>1. CASE \E n \in Nodes : Accept(n)
    <3>1. PICK c \in Conns :
            /\ sock[c] = "none"
            /\ clients' = clients \cup {c}
            /\ sock' = [sock EXCEPT ![c] = "open"]
      BY <2>1 DEF Accept, NextConn
    <3>2. lpc = "wait" /\ lpc' = "join" /\ UNCHANGED <<rpc, deleted>>
      BY <2>1 DEF Accept
    <3>3. c \notin deleted
      BY <3>1
    <3>4. \A d \in clients' \cup deleted' : sock'[d] # "none"
      BY <3>1, <3>2 DEF TypeOK
    <3> QED
      BY <1>1, <3>1, <3>2, <3>3, <3>4
  <2>2. CASE Launch
    <3>1. /\ \E ready \in SUBSET clients :
               rpc' = [c \in Conns |-> IF c \in ready THEN "receive" ELSE rpc[c]]
          /\ lpc = "wait" /\ lpc' = "join"
          /\ UNCHANGED <<clients, deleted, sock>>
      BY <2>2 DEF Launch
    <3> QED
      BY <1>1, <3>1
  <2>3. CASE ListenTimeout
    BY <1>1, <2>3 DEF ListenTimeout
  <2>4. CASE JoinReceivers
    BY <1>1, <2>4 DEF JoinReceivers
  <2>5. CASE EraseDead
    <3>1. PICK dead \in SUBSET clients : /\ clients' = clients \ dead
                                         /\ deleted' = deleted \cup dead
      BY <2>5 DEF EraseDead
    <3>2. lpc = "erase" /\ UNCHANGED <<sock, rpc>>
      BY <2>5 DEF EraseDead
    <3> QED
      BY <1>1, <3>1, <3>2
  <2> QED
    BY <2>1, <2>2, <2>3, <2>4, <2>5 DEF Listener
<1> QED
  BY <1>2, <1>3 DEF ThreadInv

LEMMA ThreadReceiver ==
  ASSUME IInv, NEW c \in Conns, Receiver(c)
  PROVE  ThreadInv'
<1>1. /\ UNCHANGED <<watchVars, localVars, lpc, clients, deleted>>
      /\ \/ UNCHANGED <<subTaskQueue, waiting>>
         \/ \E new : /\ subTaskQueue' = subTaskQueue \cup new
                     /\ waiting' = waiting \cup new
  BY DEF Receiver, Receive, ReceiveDisconnected, ReceiveAborted, MarkRemoved,
         Redistribute, MarkHost, MarkClients, ResultQueued, Answered, hostVars, partVars,
         heapVars
<1>2. LocalInv' /\ WatcherInv'
  BY <1>1, WatcherUndisturbed DEF IInv, ThreadInv, LocalInv, localVars
<1>3. \A d \in clients \cup deleted : sock'[d] # "none"
  <2>1. sock' = sock \/ sock' = [sock EXCEPT ![c] = "closed"]
    BY DEF Receiver, Receive, ReceiveDisconnected, ReceiveAborted,
           MarkRemoved, Redistribute, MarkHost, MarkClients, ResultQueued,
           Answered, netVars
  <2> QED
    BY <2>1 DEF IInv, TypeOK, ThreadInv, ReceiverInv
<1>4. \A d \in Conns :
        /\ rpc'[d] # "idle" => lpc = "join" /\ d \in clients
        /\ rpc'[d] \notin {"disconnected", "redistribute"} => redist'[d] = {}
        /\ rpc'[d] \in {"mark", "markClients", "accepted"} => rpart'[d] \in Parts
  <2> USE DEF IInv, TypeOK, ThreadInv, ReceiverInv, recvVars
  <2>1. CASE Receive(c)
    <3>1. Head(toHost[c]) \in Parts
      BY <2>1 DEF Receive
    <3> QED
      BY <2>1, <3>1 DEF Receive
  <2>2. CASE ReceiveDisconnected(c)
    BY <2>2 DEF ReceiveDisconnected
  <2>3. CASE ReceiveAborted(c)
    BY <2>3 DEF ReceiveAborted
  <2>4. CASE MarkRemoved(c) \/ Redistribute(c)
    BY <2>4 DEF MarkRemoved, Redistribute
  <2>5. CASE MarkHost(c)
    BY <2>5 DEF MarkHost
  <2>6. CASE MarkClients(c)
    BY <2>6 DEF MarkClients
  <2>7. CASE ResultQueued(c)
    BY <2>7 DEF ResultQueued
  <2>8. CASE Answered(c)
    BY <2>8 DEF Answered
  <2> QED
    BY <2>1, <2>2, <2>3, <2>4, <2>5, <2>6, <2>7, <2>8 DEF Receiver
<1> QED
  BY <1>1, <1>2, <1>3, <1>4 DEF IInv, ThreadInv, ReceiverInv

LEMMA ThreadLocal == IInv /\ Local => ThreadInv'
<1> SUFFICES ASSUME IInv, Local PROVE ThreadInv'
  OBVIOUS
<1>1. /\ UNCHANGED <<watchVars, recvVars, clients, deleted, sock>>
      /\ UNCHANGED <<subTaskQueue, waiting>>
  BY DEF Local, LocalCopy, LocalStart, LocalStartDangling, LocalRun,
         LocalMarkHost, LocalMarkClients, LocalQueued, LocalEnd, hostVars,
         netVars, heapVars, partVars
<1>2. ReceiverInv' /\ WatcherInv'
  BY <1>1, WatcherUndisturbed DEF IInv, ThreadInv, ReceiverInv, recvVars
<1>3. LocalInv'
  BY DEF IInv, ThreadInv, LocalInv, TypeOK, localVars, Local, LocalCopy,
         LocalStart, LocalStartDangling, LocalRun, LocalMarkHost,
         LocalMarkClients, LocalQueued, LocalEnd
<1> QED
  BY <1>2, <1>3 DEF ThreadInv

LEMMA ThreadNode ==
  ASSUME IInv, NEW n \in Nodes, Node(n) \/ Drop(n)
  PROVE  ThreadInv'
<1>1. /\ UNCHANGED <<watchVars, recvVars, localVars, clients, deleted>>
      /\ UNCHANGED <<subTaskQueue, waiting>>
      /\ sock' = sock \/ \E c \in Conns : sock' = [sock EXCEPT ![c] = "peerClosed"]
  BY DEF Node, NodeReceive, NodeProcess, NodeSend, Drop, hostVars, heapVars,
         partVars, IInv, TypeOK
<1>2. LocalInv' /\ WatcherInv'
  BY <1>1, WatcherUndisturbed DEF IInv, ThreadInv, LocalInv, localVars
<1>3. \A d \in clients \cup deleted : sock'[d] # "none"
  BY <1>1 DEF IInv, TypeOK, ThreadInv, ReceiverInv
<1> QED
  BY <1>1, <1>2, <1>3 DEF IInv, ThreadInv, ReceiverInv, recvVars

-----------------------------------------------------------------------------
LEMMA InvInit == Init => IInv
<1> SUFFICES ASSUME Init PROVE IInv
  OBVIOUS
<1>1. TypeOK
  BY TypeInit
<1>2. PartInv
  BY DEF Init, PartInv, OnePlace, AcceptedOnce, FreshInv, FreedInv, Places,
         Tracked, InRedist, Finished
<1>3. ThreadInv
  BY DEF Init, ThreadInv, WatcherInv, ReceiverInv, LocalInv
<1> QED
  BY <1>1, <1>2, <1>3 DEF IInv

LEMMA InvAddTask ==
  ASSUME IInv, NEW t \in Tasks, AddTask(t)
  PROVE  IInv'
<1> USE DEF AddTask, watchVars, recvVars, localVars, netVars, heapVars,
            partVars
<1>1. TypeOK'
  BY DEF IInv, TypeOK
<1>2. PartInv'
  BY DEF IInv, PartInv, OnePlace, AcceptedOnce, FreshInv, FreedInv, Places,
         Tracked, InRedist, Finished
<1>3. ThreadInv'
  BY DEF IInv, ThreadInv, WatcherInv, ReceiverInv, LocalInv
<1> QED
  BY <1>1, <1>2, <1>3 DEF IInv

LEMMA InvStutter == IInv /\ UNCHANGED vars => IInv'
<1> SUFFICES ASSUME IInv, UNCHANGED vars PROVE IInv'
  OBVIOUS
<1> USE DEF vars, hostVars, watchVars, recvVars, localVars, netVars, heapVars,
            partVars
<1>1. TypeOK'
  BY DEF IInv, TypeOK
<1>2. PartInv'
  BY NoMove DEF IInv, placeVars
<1>3. ThreadInv'
  BY DEF IInv, ThreadInv, WatcherInv, ReceiverInv, LocalInv
<1> QED
  BY <1>1, <1>2, <1>3 DEF IInv

LEMMA InvNext == IInv /\ [Next]_vars => IInv'
<1> SUFFICES ASSUME IInv, [Next]_vars PROVE IInv'
  OBVIOUS
<1> USE DEF IInv
<1>1. CASE \E t \in Tasks : AddTask(t)
  BY <1>1, InvAddTask
<1>2. CASE Watcher
  BY <1>2, TypeWatcher, PartWatcher, ThreadWatcher DEF ThreadInv
<1>3. CASE \E c \in Conns, p \in Parts : Sender(c, p)
  <2>1. PICK c \in Conns, p \in Parts : Sender(c, p)
    BY <1>3
  <2>2. PartInv'
    BY <2>1, NoMove DEF Sender, Send, SendFails, SendDangling, SendAborted,
       placeVars, hostVars, recvVars, heapVars, partVars
  <2> QED
    BY <2>1, <2>2, TypeSender, ThreadSender
<1>4. CASE Listener
  BY <1>4, TypeListener, PartListener, ThreadListener
<1>5. CASE \E c \in Conns : Receiver(c)
  BY <1>5, TypeReceiver, PartReceiver, ThreadReceiver DEF ThreadInv
<1>6. CASE Local
  BY <1>6, TypeLocal, PartLocal, ThreadLocal DEF ThreadInv
<1>7. CASE \E n \in Nodes : Node(n) \/ Drop(n)
  <2>1. PICK n \in Nodes : Node(n) \/ Drop(n)
    BY <1>7
  <2>2. PartInv'
    BY <2>1, NoMove DEF Node, NodeReceive, NodeProcess, NodeSend, Drop,
       placeVars, hostVars, recvVars, heapVars, partVars
  <2> QED
    BY <2>1, <2>2, TypeNode, ThreadNode
<1>8. CASE UNCHANGED vars
  BY <1>8, InvStutter
<1> QED
  BY <1>1, <1>2, <1>3, <1>4, <1>5, <1>6, <1>7, <1>8 DEF Next

\* The inductive invariant holds throughout every run of the host.
THEOREM Invariant == Spec => []IInv
  BY InvInit, InvNext, PTL DEF Spec

\* Every variable keeps to its type, in runs of any size.
THEOREM TypeCorrect == Spec => []TypeOK
<1>1. IInv => TypeOK
  BY DEF IInv
<1> QED
  BY <1>1, Invariant, PTL

\* A part is never in two places, so no task is ever deleted or sent by two
\* owners, however connections break and results arrive late.
THEOREM UniquePlace == Spec => []OnePlace
<1>1. IInv => OnePlace
  BY DEF IInv, PartInv
<1> QED
  BY <1>1, Invariant, PTL

\* At most one result is accepted for a part, although a part may be sent and
\* computed any number of times.
THEOREM AtMostOneResult == Spec => []AcceptedOnce
<1>1. IInv => AcceptedOnce
  BY DEF IInv, PartInv
<1> QED
  BY <1>1, Invariant, PTL

\* What the host may still send, time, redistribute or match is never deleted.
THEOREM LiveTasks == Spec => []LiveTasksExist
<1>1. IInv => LiveTasksExist
  <2> SUFFICES ASSUME IInv PROVE LiveTasksExist
    OBVIOUS
  <2>1. (waiting \cup Tracked \cup InRedist) \cap freed = {}
    BY DEF IInv, PartInv, OnePlace, FreedInv
  <2>2. cur # None => cur \in waiting
    BY DEF IInv, ThreadInv, WatcherInv
  <2> QED
    BY <2>1, <2>2 DEF LiveTasksExist
<1> QED
  BY <1>1, Invariant, PTL

\* No client is deleted under a receive thread, because the listener joins all
\* of them before it erases dead clients.
THEOREM ReceiverClients == Spec => []ReceiversJoined
<1>1. IInv => ReceiversJoined
  BY DEF IInv, ThreadInv, ReceiverInv, ReceiversJoined
<1> QED
  BY <1>1, Invariant, PTL

-----------------------------------------------------------------------------
(* No part vanishes: each of the moves above stays within Places. *)

LEMMA NoMoveKeeps == UNCHANGED placeVars => Places \subseteq Places'
  BY DEF Places, Tracked, InRedist, Finished, placeVars

LEMMA FinishKeeps ==
  ASSUME IInv, NEW p \in Parts, FinishTask(p),
         UNCHANGED <<waiting, redist, lost>>,
         hostTasks \subseteq hostTasks' \cup {p},
         \A c \in Conns : tasks[c] \subseteq tasks'[c] \cup {p}
  PROVE  Places \subseteq Places'
<1>1. /\ accepted \in [Parts -> Nat]
      /\ accepted' = [accepted EXCEPT ![p] = @ + 1]
  BY DEF IInv, TypeOK, FinishTask
<1>2. Finished' = Finished \cup {p}
  BY <1>1 DEF Finished
<1>3. Tracked \subseteq Tracked' \cup {p}
  BY DEF Tracked
<1> QED
  BY <1>2, <1>3 DEF Places, InRedist

LEMMA ConservedWatcher == IInv /\ Watcher => Places \subseteq Places'
<1> SUFFICES ASSUME IInv, Watcher PROVE Places \subseteq Places'
  OBVIOUS
<1> USE DEF hostVars, recvVars, heapVars, partVars, Places, Tracked, InRedist,
            Finished
<1>1. CASE Divide
  BY <1>1 DEF Divide
<1>2. CASE PlaceLocal
  BY <1>2 DEF PlaceLocal
<1>3. CASE AssignClient
  <2>1. freeClient \in Conns /\ tasks \in [Conns -> SUBSET Parts]
    BY <1>3 DEF AssignClient, IInv, ThreadInv, WatcherInv, TypeOK
  <2>2. /\ tasks' = [tasks EXCEPT ![freeClient] = @ \cup {cur}]
        /\ waiting' = waiting \ {cur}
        /\ UNCHANGED <<hostTasks, redist, accepted, lost>>
    BY <1>3 DEF AssignClient
  <2> QED
    BY <2>1, <2>2
<1>4. CASE ClearQueue
  BY <1>4 DEF ClearQueue
<1>5. CASE EraseSent
  BY <1>5 DEF EraseSent
<1>6. CASE Watch \/ WatchTimeout \/ WatchEnd \/ CopyQueue \/ TakeTask
           \/ PickClient \/ AssignDeleted \/ JoinSenders
  BY <1>6 DEF Watch, WatchTimeout, WatchEnd, CopyQueue, TakeTask, PickClient,
              AssignDeleted, JoinSenders
<1> QED
  BY <1>1, <1>2, <1>3, <1>4, <1>5, <1>6 DEF Watcher

LEMMA ConservedListener == IInv /\ Listener => Places \subseteq Places'
<1> SUFFICES ASSUME IInv, Listener PROVE Places \subseteq Places'
  OBVIOUS
<1> USE DEF hostVars, recvVars, heapVars, partVars
<1>1. CASE EraseDead
  <2>1. PICK dead \in SUBSET {c \in clients : remove[c]} :
          /\ tasks' = [c \in Conns |-> IF c \in dead THEN {} ELSE tasks[c]]
          /\ lost' = lost \cup UNION {tasks[c] : c \in dead}
    BY <1>1 DEF EraseDead
  <2>2. UNCHANGED <<waiting, hostTasks, redist, accepted>>
    BY <1>1 DEF EraseDead
  <2> QED
    BY <2>1, <2>2 DEF Places, Tracked, InRedist, Finished
<1>2. CASE \/ \E n \in Nodes : Accept(n)
           \/ Launch \/ ListenTimeout \/ JoinReceivers
  BY <1>2, NoMoveKeeps DEF Accept, Launch, ListenTimeout, JoinReceivers,
                           placeVars
<1> QED
  BY <1>1, <1>2 DEF Listener

LEMMA ConservedReceiver ==
  ASSUME IInv, NEW c \in Conns, Receiver(c)
  PROVE  Places \subseteq Places'
<1> USE DEF hostVars, recvVars, heapVars, partVars
<1>0. /\ tasks \in [Conns -> SUBSET Parts]
      /\ redist \in [Conns -> SUBSET Parts]
      /\ clients \subseteq Conns
  BY DEF IInv, TypeOK
<1>1. CASE ReceiveDisconnected(c)
  <2>1. redist[c] = {}
    BY <1>1 DEF ReceiveDisconnected, IInv, ThreadInv, ReceiverInv
  <2>2. /\ redist' = [redist EXCEPT ![c] = tasks[c]]
        /\ tasks' = [tasks EXCEPT ![c] = {}]
        /\ UNCHANGED <<waiting, hostTasks, accepted, lost>>
    BY <1>1 DEF ReceiveDisconnected
  <2> QED
    BY <1>0, <2>1, <2>2 DEF Places, Tracked, InRedist, Finished
<1>2. CASE Redistribute(c)
  <2>1. /\ waiting' = waiting \cup redist[c]
        /\ redist' = [redist EXCEPT ![c] = {}]
        /\ UNCHANGED <<tasks, hostTasks, accepted, lost>>
    BY <1>2 DEF Redistribute
  <2> QED
    BY <1>0, <2>1 DEF Places, Tracked, InRedist, Finished
<1>3. CASE MarkHost(c)
  <2>1. rpart[c] \in Parts
    BY <1>3 DEF MarkHost, IInv, ThreadInv, ReceiverInv
  <2>2. CASE rpart[c] \in hostTasks
    BY <1>3, <2>1, <2>2, FinishKeeps DEF MarkHost
  <2>3. CASE rpart[c] \notin hostTasks
    BY <1>3, <2>3, NoMoveKeeps DEF MarkHost, placeVars
  <2> QED
    BY <2>2, <2>3
<1>4. CASE MarkClients(c)
  <2>1. rpart[c] \in Parts
    BY <1>4 DEF MarkClients, IInv, ThreadInv, ReceiverInv
  <2>2. CASE \E d \in clients :
               /\ tasks' = [tasks EXCEPT ![d] = @ \ {rpart[c]}]
               /\ FinishTask(rpart[c])
    BY <1>0, <1>4, <2>1, <2>2, FinishKeeps DEF MarkClients
  <2>3. CASE UNCHANGED <<tasks, freed, accepted>>
    BY <1>4, <2>3, NoMoveKeeps DEF MarkClients, placeVars
  <2> QED
    BY <1>4, <2>2, <2>3 DEF MarkClients
<1>5. CASE \/ Receive(c) \/ ReceiveAborted(c) \/ MarkRemoved(c)
           \/ ResultQueued(c) \/ Answered(c)
  BY <1>5, NoMoveKeeps DEF Receive, ReceiveAborted, MarkRemoved, ResultQueued,
                           Answered, placeVars
<1> QED
  BY <1>1, <1>2, <1>3, <1>4, <1>5 DEF Receiver

LEMMA ConservedLocal == IInv /\ Local => Places \subseteq Places'
<1> SUFFICES ASSUME IInv, Local PROVE Places \subseteq Places'
  OBVIOUS
<1> USE DEF hostVars, recvVars, heapVars, partVars
<1>1. CASE LocalMarkHost
  <2>1. hcur \in Parts
    BY <1>1 DEF LocalMarkHost, IInv, ThreadInv, LocalInv
  <2>2. CASE hcur \in hostTasks
    BY <1>1, <2>1, <2>2, FinishKeeps DEF LocalMarkHost
  <2>3. CASE hcur \notin hostTasks
    BY <1>1, <2>3, NoMoveKeeps DEF LocalMarkHost, placeVars
  <2> QED
    BY <2>2, <2>3
<1>2. CASE LocalMarkClients
  <2>1. /\ hcur \in Parts /\ clients \subseteq Conns
        /\ tasks \in [Conns -> SUBSET Parts]
    BY <1>2 DEF LocalMarkClients, IInv, ThreadInv, LocalInv, TypeOK
  <2>2. CASE {d \in clients : hcur \in tasks[d]} # {}
    <3>1. /\ \E d \in clients : tasks' = [tasks EXCEPT ![d] = @ \ {hcur}]
          /\ FinishTask(hcur)
          /\ UNCHANGED <<waiting, redist, lost, hostTasks>>
      BY <1>2, <2>2 DEF LocalMarkClients
    <3> QED
      BY <2>1, <3>1, FinishKeeps
  <2>3. CASE {d \in clients : hcur \in tasks[d]} = {}
    BY <1>2, <2>3, NoMoveKeeps DEF LocalMarkClients, placeVars
  <2> QED
    BY <2>2, <2>3
<1>3. CASE \/ LocalCopy \/ LocalStart \/ LocalStartDangling \/ LocalRun
           \/ LocalQueued \/ LocalEnd
  BY <1>3, NoMoveKeeps DEF LocalCopy, LocalStart, LocalStartDangling,
     LocalRun, LocalQueued, LocalEnd, placeVars
<1> QED
  BY <1>1, <1>2, <1>3 DEF Local

LEMMA ConservedNext == IInv /\ [Next]_vars => Places \subseteq Places'
<1> SUFFICES ASSUME IInv, [Next]_vars PROVE Places \subseteq Places'
  OBVIOUS
<1>1. CASE \/ \E t \in Tasks : AddTask(t)
           \/ \E c \in Conns, p \in Parts : Sender(c, p)
           \/ \E n \in Nodes : Node(n) \/ Drop(n)
           \/ UNCHANGED vars
  <2>1. UNCHANGED <<waiting, hostTasks, tasks, redist, accepted, lost>>
    <3>1. CASE \E t \in Tasks : AddTask(t)
      BY <3>1 DEF AddTask, recvVars, partVars
    <3>2. CASE \E c \in Conns, p \in Parts : Sender(c, p)
      BY <3>2 DEF Sender, Send, SendFails, SendDangling, SendAborted, hostVars,
         recvVars, partVars
    <3>3. CASE \E n \in Nodes : Node(n) \/ Drop(n)
      BY <3>3 DEF Node, NodeReceive, NodeProcess, NodeSend, Drop, hostVars,
         recvVars, partVars
    <3>4. CASE UNCHANGED vars
      BY <3>4 DEF vars, hostVars, recvVars, partVars
    <3> QED
      BY <1>1, <3>1, <3>2, <3>3, <3>4
  <2> QED
    BY <2>1 DEF Places, Tracked, InRedist, Finished
<1> QED
  BY <1>1, ConservedWatcher, ConservedListener, ConservedReceiver,
     ConservedLocal DEF Next

\* A part that has been divided off never vanishes unnoticed: the only ways to
\* lose it are the ones recorded in lost.
THEOREM Conserved == Spec => PartsConserved
<1>1. IInv /\ [Next]_vars => [Places \subseteq Places']_vars
  BY ConservedNext
<1> QED
  BY <1>1, Invariant, PTL DEF Spec, PartsConserved

-----------------------------------------------------------------------------
(* The inductive invariant behind NoFailure and BusyWhileTasked, while no    *)
(* connection breaks and no task is slow: each client has one part at most,  *)
(* which is in one place on its way to the node and back.                    *)

\* No connection breaks and no task takes too long.
Undisturbed == MaxDrops = 0 /\ Slow = {}

\* What the senders, the connection and the host's side of it hold for client c.
Line(c, sending, going, coming) ==
  /\ {p \in Parts : <<c, p>> \in senders} = sending
  /\ toClient[c] = going
  /\ toHost[c] = coming

NodeIdle(c) ==
  \A n \in Nodes : nconn[n] = c => nqueue[n] = <<>> /\ nresults[n] = <<>>

Free(c) ==
  /\ ~busy[c] /\ tasks[c] = {} /\ rpc[c] = "idle"
  /\ Line(c, {}, <<>>, <<>>) /\ NodeIdle(c)

OnItsWay(c, p) ==
  /\ rpc[c] = "idle" /\ NodeIdle(c)
  /\ Line(c, {p}, <<>>, <<>>) \/ Line(c, {}, <<p>>, <<>>)

OnNode(c, p) ==
  /\ rpc[c] = "idle" /\ Line(c, {}, <<>>, <<>>)
  /\ \E n \in Nodes :
       /\ nconn[n] = c
       /\ \/ nqueue[n] = <<p>> /\ nresults[n] = <<>>
          \/ nqueue[n] = <<>> /\ nresults[n] = <<p>>

ComingBack(c, p) ==
  /\ NodeIdle(c)
  /\ \/ rpc[c] \in {"idle", "receive"} /\ Line(c, {}, <<>>, <<p>>)
     \/ /\ rpc[c] \in {"mark", "markClients"} /\ rpart[c] = p
        /\ Line(c, {}, <<>>, <<>>)

Through(c) ==
  /\ busy[c] /\ tasks[c] = {} /\ rpc[c] \in {"accepted", "answered"}
  /\ Line(c, {}, <<>>, <<>>) /\ NodeIdle(c)

Busy(c, p) ==
  /\ busy[c] /\ tasks[c] = {p}
  /\ OnItsWay(c, p) \/ OnNode(c, p) \/ ComingBack(c, p)

Stage(c) == Free(c) \/ Through(c) \/ \E p \in Parts : Busy(c, p)

\* No connection breaks, so each node keeps the one it has.
NetworkSteady ==
  /\ deleted = {}
  /\ \A c \in Conns :
       /\ sock[c] \in {"none", "open"} /\ ~remove[c]
       /\ rpc[c] \notin {"disconnected", "redistribute"}
       /\ busy[c] => c \in clients
  /\ \A n \in Nodes : nconn[n] = NoConn => nqueue[n] = <<>> /\ nresults[n] = <<>>
  /\ \A n \in Nodes : nconn[n] # NoConn => sock[nconn[n]] = "open"
  /\ \A m, n \in Nodes : nconn[m] = nconn[n] /\ nconn[m] # NoConn => m = n

\* The watcher's client is still free, the local thread's parts are the host's own.
ThreadsSteady ==
  /\ wpc = "assign" => freeClient \in clients /\ ~busy[freeClient]
  /\ localQueue \subseteq hostTasks /\ hbatch \subseteq localQueue
  /\ hpc \in {"run", "mark"} => hcur \in hostTasks \ localQueue
  /\ hpc \notin {"markClients", "ended"}

SteadyInv ==
  NoFailure /\ NetworkSteady /\ ThreadsSteady /\ \A c \in Conns : Stage(c)

-----------------------------------------------------------------------------

LEMMA Single ==
  ASSUME NEW p \in Parts
  PROVE  /\ Append(<<>>, p) = <<p>> /\ Head(<<p>>) = p /\ Tail(<<p>>) = <<>>
         /\ <<p>> # <<>>
  OBVIOUS

\* The stage of a client depends only on what belongs to it.
LEMMA StageKept ==
  ASSUME NEW c \in Conns, Stage(c),
         busy'[c] = busy[c], tasks'[c] = tasks[c], rpc'[c] = rpc[c],
         rpart'[c] = rpart[c], toClient'[c] = toClient[c], toHost'[c] = toHost[c],
         \A p \in Parts : <<c, p>> \in senders' <=> <<c, p>> \in senders,
         \A n \in Nodes : nconn'[n] = c <=> nconn[n] = c,
         \A n \in Nodes :
           nconn[n] = c => nqueue'[n] = nqueue[n] /\ nresults'[n] = nresults[n]
  PROVE  Stage(c)'
<1>1. \A s, g, h : Line(c, s, g, h)' <=> Line(c, s, g, h)
  BY DEF Line
<1>2. NodeIdle(c)' <=> NodeIdle(c)
  BY DEF NodeIdle
<1>3. Free(c)' <=> Free(c)
  BY <1>1, <1>2 DEF Free
<1>4. Through(c)' <=> Through(c)
  BY <1>1, <1>2 DEF Through
<1>5. ASSUME NEW p \in Parts PROVE Busy(c, p)' <=> Busy(c, p)
  <2>1. OnItsWay(c, p)' <=> OnItsWay(c, p)
    BY <1>1, <1>2 DEF OnItsWay
  <2>2. OnNode(c, p)' <=> OnNode(c, p)
    BY <1>1 DEF OnNode
  <2>3. ComingBack(c, p)' <=> ComingBack(c, p)
    BY <1>1, <1>2 DEF ComingBack
  <2> QED
    BY <2>1, <2>2, <2>3 DEF Busy
<1> QED
  BY <1>3, <1>4, <1>5 DEF Stage

lineVars == <<busy, tasks, rpc, rpart, toClient, toHost, senders, nconn, nqueue,
              nresults>>

LEMMA StagesKept ==
  ASSUME \A c \in Conns : Stage(c), UNCHANGED lineVars
  PROVE  \A c \in Conns : Stage(c)'
  BY StageKept DEF lineVars

\* What cannot happen as long as the host is steady: no thread throws, no object
\* is gone when it is used, and no client is lost.
LEMMA NothingFails ==
  ASSUME IInv, SteadyInv, Undisturbed
  PROVE  /\ ~WatchTimeout /\ ~WatchEnd /\ ~AssignDeleted
         /\ ~(\E c \in Conns, p \in Parts :
                SendFails(c, p) \/ SendDangling(c, p) \/ SendAborted(c, p))
         /\ ~(\E c \in Conns :
                ReceiveDisconnected(c) \/ ReceiveAborted(c) \/ MarkRemoved(c)
                  \/ Redistribute(c))
         /\ ~LocalStartDangling /\ ~LocalMarkClients /\ ~LocalEnd
         /\ ~(\E n \in Nodes : Drop(n))
<1>1. ~WatchTimeout /\ ~WatchEnd /\ ~AssignDeleted
  BY DEF WatchTimeout, WatchEnd, AssignDeleted, Expired, Undisturbed, SteadyInv,
     NoFailure, NetworkSteady
<1>2. ASSUME NEW c \in Conns, NEW p \in Parts
      PROVE  ~(SendFails(c, p) \/ SendDangling(c, p) \/ SendAborted(c, p))
  <2>1. <<c, p>> \in senders => p \in tasks[c]
    BY DEF SteadyInv, Stage, Free, Through, Busy, OnItsWay, OnNode, ComingBack, Line
  <2>2. p \in tasks[c] => p \notin freed
    BY DEF IInv, PartInv, FreedInv, OnePlace, Tracked
  <2>3. sock[c] \in {"none", "open"} /\ c \notin deleted /\ ~exceptionThrown
    BY DEF SteadyInv, NetworkSteady, NoFailure
  <2> QED
    BY <2>1, <2>2, <2>3 DEF SendFails, SendDangling, SendAborted, SendStart
<1>3. ASSUME NEW c \in Conns
      PROVE  ~(ReceiveDisconnected(c) \/ ReceiveAborted(c) \/ MarkRemoved(c)
                 \/ Redistribute(c))
  BY DEF ReceiveDisconnected, ReceiveAborted, MarkRemoved, Redistribute, SteadyInv,
     NetworkSteady, NoFailure
<1>4. ~LocalStartDangling /\ ~LocalMarkClients /\ ~LocalEnd
  <2>1. hbatch \cap freed = {}
    BY DEF SteadyInv, ThreadsSteady, IInv, PartInv, FreedInv, OnePlace, Tracked
  <2> QED
    BY <2>1 DEF LocalStartDangling, LocalMarkClients, LocalEnd, SteadyInv,
       ThreadsSteady, NoFailure
<1>5. ASSUME NEW n \in Nodes PROVE ~Drop(n)
  <2> DEFINE D == {d \in Conns : sock[d] \in {"peerClosed", "closed"}}
  <2>1. IsFiniteSet(Conns)
    BY ConstantsAssumption, FS_Interval DEF Conns
  <2>2. Cardinality(D) \in Nat
    BY <2>1, FS_Subset, FS_CardinalityType
  <2>3. ~(Cardinality(D) < MaxDrops)
    BY <2>2 DEF Undisturbed
  <2> QED
    BY <2>3 DEF Drop
<1> QED
  BY <1>1, <1>2, <1>3, <1>4, <1>5

-----------------------------------------------------------------------------
LEMMA SteadyInit == Init => SteadyInv
<1> SUFFICES ASSUME Init PROVE SteadyInv
  OBVIOUS
<1> USE DEF Init
<1>1. NoFailure
  BY DEF NoFailure
<1>2. NetworkSteady
  BY DEF NetworkSteady
<1>3. ThreadsSteady
  BY DEF ThreadsSteady
<1>4. ASSUME NEW c \in Conns PROVE Stage(c)
  BY DEF Stage, Free, Line, NodeIdle
<1> QED
  BY <1>1, <1>2, <1>3, <1>4 DEF SteadyInv

\* The watcher gives a part only to a client that is free.
LEMMA SteadyAssign ==
  ASSUME IInv, SteadyInv, AssignClient
  PROVE  SteadyInv'
<1>1. PICK k \in Conns, p \in Parts :
        k = freeClient /\ p = cur /\ k \in clients /\ ~busy[k]
  BY DEF AssignClient, SteadyInv, ThreadsSteady, IInv, TypeOK, ThreadInv, WatcherInv
<1>2. /\ busy' = [busy EXCEPT ![k] = TRUE]
      /\ tasks' = [tasks EXCEPT ![k] = @ \cup {p}]
      /\ senders' = senders \cup {<<k, p>>}
      /\ wpc' = "take"
      /\ UNCHANGED <<clients, remove, hostTasks, localQueue, exceptionThrown, deleted,
                     badAccess, rpc, rpart, hpc, hbatch, hcur, sock, toClient,
                     toHost, nconn, nqueue, nresults>>
  BY <1>1 DEF AssignClient, recvVars, localVars, netVars, heapVars
<1>3. busy \in [Conns -> BOOLEAN] /\ tasks \in [Conns -> SUBSET Parts]
  BY DEF IInv, TypeOK
<1>4. Stage(k)'
  <2>1. Free(k)
    BY <1>1 DEF SteadyInv, Stage, Through, Busy
  <2>2. busy'[k] /\ tasks'[k] = {p} /\ rpc'[k] = "idle" /\ NodeIdle(k)'
    BY <1>1, <1>2, <1>3, <2>1 DEF Free, NodeIdle
  <2>3. Line(k, {p}, <<>>, <<>>)'
    BY <1>1, <1>2, <2>1 DEF Free, Line
  <2> QED
    BY <1>1, <2>2, <2>3 DEF Stage, Busy, OnItsWay
<1>5. ASSUME NEW c \in Conns, c # k PROVE Stage(c)'
  <2>1. busy'[c] = busy[c] /\ tasks'[c] = tasks[c]
    BY <1>2, <1>3, <1>5
  <2>2. \A q \in Parts : <<c, q>> \in senders' <=> <<c, q>> \in senders
    BY <1>2, <1>5
  <2>3. Stage(c)
    BY DEF SteadyInv
  <2> QED
    BY <1>2, <2>1, <2>2, <2>3, StageKept
<1>6. NoFailure' /\ ThreadsSteady'
  BY <1>2 DEF SteadyInv, NoFailure, ThreadsSteady
<1>7. NetworkSteady'
  BY <1>1, <1>2, <1>3 DEF SteadyInv, NetworkSteady
<1> QED
  BY <1>4, <1>5, <1>6, <1>7 DEF SteadyInv

LEMMA SteadyWatcher ==
  ASSUME IInv, SteadyInv, Undisturbed, Watcher
  PROVE  SteadyInv'
<1>1. CASE AssignClient
  BY <1>1, SteadyAssign
<1>2. CASE \/ Watch \/ Divide \/ CopyQueue \/ TakeTask \/ PlaceLocal \/ PickClient
           \/ ClearQueue \/ JoinSenders \/ EraseSent
  <2>1. /\ UNCHANGED lineVars
        /\ UNCHANGED <<clients, remove, exceptionThrown, hpc, hbatch, hcur, sock,
                       deleted, badAccess>>
    BY <1>2 DEF Watch, Divide, CopyQueue, TakeTask, PlaceLocal, PickClient, ClearQueue,
       JoinSenders, EraseSent, lineVars, hostVars, recvVars, localVars, netVars, heapVars
  <2>2. \A c \in Conns : Stage(c)'
    BY <2>1, StagesKept DEF SteadyInv
  <2>3. NoFailure' /\ NetworkSteady'
    BY <2>1 DEF SteadyInv, NoFailure, NetworkSteady, lineVars
  <2>4. ThreadsSteady'
    <3>1. CASE PlaceLocal
      <4>1. cur \in waiting /\ (hpc \in {"run", "mark"} => hcur # cur)
        BY <3>1 DEF PlaceLocal, IInv, ThreadInv, WatcherInv, PartInv, OnePlace, Tracked,
           SteadyInv, ThreadsSteady
      <4> QED
        BY <2>1, <3>1, <4>1 DEF PlaceLocal, SteadyInv, ThreadsSteady
    <3>2. CASE PickClient
      <4>1. freeClient' \in clients /\ ~busy[freeClient']
        BY <3>2 DEF PickClient
      <4>2. UNCHANGED <<localQueue, hostTasks>>
        BY <3>2 DEF PickClient, hostVars
      <4> QED
        BY <2>1, <4>1, <4>2 DEF SteadyInv, ThreadsSteady, lineVars
    <3>3. CASE \/ Watch \/ Divide \/ CopyQueue \/ TakeTask \/ ClearQueue \/ JoinSenders
               \/ EraseSent
      <4>1. wpc' # "assign" /\ UNCHANGED <<localQueue, hostTasks>>
        BY <3>3 DEF Watch, Divide, CopyQueue, TakeTask, ClearQueue, JoinSenders,
           EraseSent, hostVars
      <4> QED
        BY <2>1, <4>1 DEF SteadyInv, ThreadsSteady
    <3> QED
      BY <1>2, <3>1, <3>2, <3>3
  <2> QED
    BY <2>2, <2>3, <2>4 DEF SteadyInv
<1> QED
  BY <1>1, <1>2, NothingFails DEF Watcher

\* A packet is sent to the client its part is with.
LEMMA SteadySend ==
  ASSUME IInv, SteadyInv, NEW k \in Conns, NEW p \in Parts, Send(k, p)
  PROVE  SteadyInv'
<1>1. /\ <<k, p>> \in senders /\ sock[k] = "open"
      /\ toClient' = [toClient EXCEPT ![k] = Append(@, p)]
      /\ senders' = senders \ {<<k, p>>}
      /\ UNCHANGED <<hostVars, watchVars, recvVars, localVars, sock, toHost, nconn,
                     nqueue, nresults, heapVars>>
  BY DEF Send, SendStart, SteadyInv, NetworkSteady
<1>2. toClient \in [Conns -> Seq(Parts)]
  BY DEF IInv, TypeOK
<1>3. Stage(k)'
  <2>1. Busy(k, p) /\ rpc[k] = "idle" /\ NodeIdle(k) /\ Line(k, {p}, <<>>, <<>>)
    <3>1. PICK q \in Parts : Busy(k, q) /\ OnItsWay(k, q) /\ Line(k, {q}, <<>>, <<>>)
      BY <1>1 DEF SteadyInv, Stage, Free, Through, Busy, OnItsWay, OnNode, ComingBack,
         Line
    <3>2. q = p
      BY <1>1, <3>1 DEF Line
    <3> QED
      BY <3>1, <3>2 DEF OnItsWay
  <2>2. toClient'[k] = <<p>>
    BY <1>1, <1>2, <2>1, Single DEF Line
  <2>3. Line(k, {}, <<p>>, <<>>)'
    BY <1>1, <2>1, <2>2 DEF Line
  <2>4. busy'[k] /\ tasks'[k] = {p} /\ rpc'[k] = "idle" /\ NodeIdle(k)'
    BY <1>1, <2>1 DEF Busy, NodeIdle, hostVars, recvVars
  <2> QED
    BY <2>3, <2>4 DEF Stage, Busy, OnItsWay
<1>4. ASSUME NEW c \in Conns, c # k PROVE Stage(c)'
  <2>1. toClient'[c] = toClient[c]
    BY <1>1, <1>2, <1>4
  <2>2. \A q \in Parts : <<c, q>> \in senders' <=> <<c, q>> \in senders
    BY <1>1, <1>4
  <2>3. Stage(c)
    BY DEF SteadyInv
  <2> QED
    BY <1>1, <2>1, <2>2, <2>3, StageKept DEF hostVars, recvVars
<1>5. NoFailure' /\ ThreadsSteady' /\ NetworkSteady'
  BY <1>1 DEF SteadyInv, NoFailure, ThreadsSteady, NetworkSteady, hostVars, watchVars,
     recvVars, localVars, heapVars
<1> QED
  BY <1>3, <1>4, <1>5 DEF SteadyInv

\* A node that connects has nothing from another connection.
LEMMA SteadyAccept ==
  ASSUME IInv, SteadyInv, NEW n \in Nodes, Accept(n)
  PROVE  SteadyInv'
<1>1. PICK k \in Conns :
        /\ NextConn(k)
        /\ clients' = clients \cup {k}
        /\ sock' = [sock EXCEPT ![k] = "open"]
        /\ nconn' = [nconn EXCEPT ![n] = k]
  BY DEF Accept
<1>2. /\ nconn[n] = NoConn
      /\ UNCHANGED <<busy, remove, tasks, hostTasks, localQueue, exceptionThrown, watchVars,
                     senders, rpc, rpart, localVars, toClient, toHost, nqueue, nresults,
                     heapVars>>
  BY DEF Accept
<1>3. /\ sock[k] = "none" /\ k # NoConn /\ k \notin clients /\ ~busy[k]
      /\ nqueue[n] = <<>> /\ nresults[n] = <<>>
      /\ \A m \in Nodes : nconn[m] # k
  BY <1>1, <1>2, ConstantsAssumption DEF NextConn, Conns, NoConn, SteadyInv, NetworkSteady, IInv,
     ThreadInv, ReceiverInv
<1>4. sock \in [Conns -> {"none", "open", "peerClosed", "closed"}]
      /\ nconn \in [Nodes -> Conns \cup {NoConn}]
  BY DEF IInv, TypeOK
<1>5. Stage(k)'
  <2>1. Free(k)
    BY <1>3 DEF SteadyInv, Stage, Through, Busy
  <2>2. NodeIdle(k)'
    BY <1>1, <1>2, <1>3, <1>4 DEF NodeIdle
  <2>3. Line(k, {}, <<>>, <<>>)'
    BY <1>2, <2>1 DEF Free, Line
  <2>4. ~busy'[k] /\ tasks'[k] = {} /\ rpc'[k] = "idle"
    BY <1>2, <2>1 DEF Free
  <2> QED
    BY <2>2, <2>3, <2>4 DEF Stage, Free
<1>6. ASSUME NEW c \in Conns, c # k PROVE Stage(c)'
  <2>1. \A m \in Nodes : nconn'[m] = c <=> nconn[m] = c
    <3>1. c # NoConn
      BY ConstantsAssumption DEF Conns, NoConn
    <3> QED
      BY <1>1, <1>2, <1>4, <1>6, <3>1
  <2>2. Stage(c)
    BY DEF SteadyInv
  <2> QED
    BY <1>2, <2>1, <2>2, StageKept
<1>7. NoFailure' /\ ThreadsSteady'
  BY <1>1, <1>2 DEF SteadyInv, NoFailure, ThreadsSteady, watchVars, localVars, heapVars
<1>8. NetworkSteady'
  <2>1. /\ deleted' = {}
        /\ \A c \in Conns :
             /\ sock'[c] \in {"none", "open"} /\ ~remove'[c]
             /\ rpc'[c] \notin {"disconnected", "redistribute"}
             /\ busy'[c] => c \in clients'
    BY <1>1, <1>2, <1>4 DEF SteadyInv, NetworkSteady, heapVars
  <2>2. \A m \in Nodes : nconn'[m] = NoConn => nqueue'[m] = <<>> /\ nresults'[m] = <<>>
    BY <1>1, <1>2, <1>3, <1>4 DEF SteadyInv, NetworkSteady
  <2>3. \A m \in Nodes : nconn'[m] # NoConn => sock'[nconn'[m]] = "open"
    BY <1>1, <1>2, <1>3, <1>4 DEF SteadyInv, NetworkSteady
  <2>4. \A a, m \in Nodes : nconn'[a] = nconn'[m] /\ nconn'[a] # NoConn => a = m
    BY <1>1, <1>2, <1>3, <1>4 DEF SteadyInv, NetworkSteady
  <2> QED
    BY <2>1, <2>2, <2>3, <2>4 DEF NetworkSteady
<1> QED
  BY <1>5, <1>6, <1>7, <1>8 DEF SteadyInv

\* A receive thread is launched only for a client whose result has come.
LEMMA SteadyLaunch ==
  ASSUME IInv, SteadyInv, Launch
  PROVE  SteadyInv'
<1>1. PICK ready \in SUBSET {c \in clients : ~remove[c] /\ Readable(c)} :
        rpc' = [c \in Conns |-> IF c \in ready THEN "receive" ELSE rpc[c]]
  BY DEF Launch
<1>2. UNCHANGED <<hostVars, watchVars, senders, rpart, localVars, netVars, heapVars>>
  BY DEF Launch
<1>3. ASSUME NEW c \in Conns PROVE Stage(c)'
  <2>1. Stage(c)
    BY DEF SteadyInv
  <2>2. CASE c \notin ready
    BY <1>1, <1>2, <2>1, <2>2, StageKept DEF hostVars, netVars
  <2>3. CASE c \in ready
    <3>1. sock[c] = "open" /\ toHost[c] # <<>>
      BY <1>1, <2>3 DEF Readable, SteadyInv, NetworkSteady
    <3>2. PICK p \in Parts : Busy(c, p) /\ NodeIdle(c) /\ Line(c, {}, <<>>, <<p>>)
      BY <2>1, <3>1 DEF Stage, Free, Through, Busy, OnItsWay, OnNode, ComingBack, Line
    <3>3. busy'[c] /\ tasks'[c] = {p} /\ NodeIdle(c)' /\ Line(c, {}, <<>>, <<p>>)'
      BY <1>2, <3>2 DEF Busy, NodeIdle, Line, hostVars, netVars
    <3>4. rpc'[c] = "receive"
      BY <1>1, <2>3
    <3> QED
      BY <3>3, <3>4 DEF Stage, Busy, ComingBack
  <2> QED
    BY <2>2, <2>3
<1>4. NoFailure' /\ ThreadsSteady' /\ NetworkSteady'
  BY <1>1, <1>2 DEF SteadyInv, NoFailure, ThreadsSteady, NetworkSteady, hostVars, watchVars,
     localVars, netVars, heapVars
<1> QED
  BY <1>3, <1>4 DEF SteadyInv

LEMMA SteadyListener ==
  ASSUME IInv, SteadyInv, Listener
  PROVE  SteadyInv'
<1>1. CASE \E n \in Nodes : Accept(n)
  BY <1>1, SteadyAccept
<1>2. CASE Launch
  BY <1>2, SteadyLaunch
<1>3. CASE ListenTimeout \/ JoinReceivers \/ EraseDead
  <2>1. /\ UNCHANGED <<watchVars, localVars, netVars, badAccess, hostTasks, localQueue,
                       exceptionThrown, senders, rpc, rpart, busy, remove>>
        /\ UNCHANGED <<clients, deleted, tasks>>
    <3>1. CASE ListenTimeout \/ JoinReceivers
      BY <3>1 DEF ListenTimeout, JoinReceivers, hostVars, heapVars
    <3>2. CASE EraseDead
      <4>1. {c \in clients : remove[c]} = {}
        BY DEF SteadyInv, NetworkSteady, IInv, TypeOK
      <4>2. clients' = clients /\ deleted' = deleted /\ tasks' = tasks
        BY <3>2, <4>1 DEF EraseDead, IInv, TypeOK
      <4> QED
        BY <3>2, <4>2 DEF EraseDead
    <3> QED
      BY <1>3, <3>1, <3>2
  <2>2. \A c \in Conns : Stage(c)'
    BY <2>1, StagesKept DEF SteadyInv, lineVars, netVars
  <2> QED
    BY <2>1, <2>2 DEF SteadyInv, NoFailure, ThreadsSteady, NetworkSteady, watchVars,
       localVars, netVars
<1> QED
  BY <1>1, <1>2, <1>3 DEF Listener

\* A receive thread works on the one part its client has.
LEMMA SteadyReceiver ==
  ASSUME IInv, SteadyInv, NEW k \in Conns, Receiver(k)
  PROVE  SteadyInv'
<1>0. /\ busy \in [Conns -> BOOLEAN] /\ tasks \in [Conns -> SUBSET Parts]
      /\ toHost \in [Conns -> Seq(Parts)] /\ DOMAIN rpart = Conns
      /\ DOMAIN rpc = Conns
  BY DEF IInv, TypeOK
<1>1. \/ Receive(k) \/ MarkHost(k) \/ MarkClients(k) \/ ResultQueued(k) \/ Answered(k)
  BY NothingFails DEF Receiver, SteadyInv, NetworkSteady, NoFailure,
     ReceiveDisconnected, ReceiveAborted, MarkRemoved, Redistribute
<1>2. Stage(k)
  BY DEF SteadyInv
<1>3. /\ Stage(k)'
      /\ UNCHANGED <<clients, remove, hostTasks, localQueue, exceptionThrown, watchVars,
                     senders, localVars, sock, toClient, nconn, nqueue, nresults,
                     deleted, badAccess>>
      /\ \A c \in Conns :
           /\ rpc'[c] \notin {"disconnected", "redistribute"}
           /\ busy'[c] => busy[c]
      /\ \A c \in Conns \ {k} :
           /\ busy'[c] = busy[c] /\ tasks'[c] = tasks[c] /\ rpc'[c] = rpc[c]
           /\ rpart'[c] = rpart[c] /\ toHost'[c] = toHost[c]
  <2>0. \A c \in Conns : rpc[c] \notin {"disconnected", "redistribute"}
    BY DEF SteadyInv, NetworkSteady
  <2>1. CASE Receive(k)
    <3>1. PICK p \in Parts : Busy(k, p) /\ NodeIdle(k) /\ Line(k, {}, <<>>, <<p>>)
      BY <1>2, <2>1 DEF Receive, Stage, Free, Through, Busy, OnItsWay, OnNode,
         ComingBack, Line
    <3>2. /\ UNCHANGED <<hostVars, watchVars, senders, localVars, sock, toClient,
                         nconn, nqueue, nresults, heapVars>>
          /\ rpart' = [rpart EXCEPT ![k] = Head(toHost[k])]
          /\ toHost' = [toHost EXCEPT ![k] = Tail(@)]
          /\ rpc' = [rpc EXCEPT ![k] = "mark"]
      BY <2>1 DEF Receive
    <3>3. rpart'[k] = p /\ toHost'[k] = <<>> /\ rpc'[k] = "mark"
      BY <1>0, <3>1, <3>2, Single DEF Line
    <3>4. busy'[k] /\ tasks'[k] = {p} /\ NodeIdle(k)' /\ Line(k, {}, <<>>, <<>>)'
      BY <3>1, <3>2, <3>3 DEF Busy, NodeIdle, Line, hostVars
    <3>5. Stage(k)'
      BY <3>3, <3>4 DEF Stage, Busy, ComingBack
    <3> QED
      BY <1>0, <2>0, <3>2, <3>5 DEF hostVars, heapVars
  <2>2. CASE MarkHost(k)
    <3>1. PICK p \in Parts :
            Busy(k, p) /\ rpart[k] = p /\ NodeIdle(k) /\ Line(k, {}, <<>>, <<>>)
      BY <1>2, <2>2 DEF MarkHost, Stage, Free, Through, Busy, OnItsWay, OnNode,
         ComingBack
    <3>2. p \notin hostTasks
      BY <3>1 DEF Busy, IInv, PartInv, OnePlace
    <3>3. /\ rpc' = [rpc EXCEPT ![k] = "markClients"]
          /\ UNCHANGED <<clients, remove, hostTasks, localQueue, exceptionThrown,
                         watchVars, senders, rpart, localVars, netVars, deleted,
                         badAccess, busy, tasks>>
      BY <2>2, <3>1, <3>2 DEF MarkHost
    <3>4. busy'[k] /\ tasks'[k] = {p} /\ NodeIdle(k)' /\ Line(k, {}, <<>>, <<>>)'
      BY <3>1, <3>3 DEF Busy, NodeIdle, Line, netVars
    <3>5. Stage(k)'
      BY <1>0, <3>1, <3>3, <3>4 DEF Stage, Busy, ComingBack
    <3> QED
      BY <1>0, <2>0, <3>3, <3>5 DEF netVars
  <2>3. CASE MarkClients(k)
    <3>1. PICK p \in Parts :
            Busy(k, p) /\ rpart[k] = p /\ NodeIdle(k) /\ Line(k, {}, <<>>, <<>>)
      BY <1>2, <2>3 DEF MarkClients, Stage, Free, Through, Busy, OnItsWay, OnNode,
         ComingBack
    <3>2. k \in clients /\ clients \subseteq Conns
      BY <2>3 DEF MarkClients, IInv, TypeOK, ThreadInv, ReceiverInv
    <3>3. \A d \in clients : p \in tasks[d] => d = k
      BY <3>1, <3>2 DEF Busy, IInv, PartInv, OnePlace
    <3>4. /\ tasks' = [tasks EXCEPT ![k] = @ \ {p}]
          /\ rpc' = [rpc EXCEPT ![k] = "accepted"]
          /\ UNCHANGED <<clients, remove, hostTasks, localQueue, exceptionThrown,
                         watchVars, senders, rpart, localVars, netVars, deleted,
                         badAccess, busy>>
      BY <2>3, <3>1, <3>2, <3>3 DEF MarkClients, Busy
    <3>5. busy'[k] /\ tasks'[k] = {} /\ NodeIdle(k)' /\ Line(k, {}, <<>>, <<>>)'
      BY <1>0, <3>1, <3>4 DEF Busy, NodeIdle, Line, netVars
    <3>6. Stage(k)'
      BY <1>0, <3>4, <3>5 DEF Stage, Through
    <3> QED
      BY <1>0, <2>0, <3>4, <3>6 DEF netVars
  <2>4. CASE ResultQueued(k) \/ Answered(k)
    <3>1. Through(k)
      BY <1>2, <2>4 DEF ResultQueued, Answered, Stage, Free, Busy, OnItsWay, OnNode,
         ComingBack
    <3>2. /\ UNCHANGED <<clients, remove, hostTasks, localQueue, exceptionThrown,
                         watchVars, senders, localVars, netVars, deleted, badAccess,
                         tasks>>
          /\ \/ rpc' = [rpc EXCEPT ![k] = "answered"] /\ UNCHANGED <<busy, rpart>>
             \/ /\ rpc' = [rpc EXCEPT ![k] = "idle"] /\ busy' = [busy EXCEPT ![k] = FALSE]
                /\ rpart' = [rpart EXCEPT ![k] = None]
      BY <2>4 DEF ResultQueued, Answered, hostVars, heapVars
    <3>3. tasks'[k] = {} /\ NodeIdle(k)' /\ Line(k, {}, <<>>, <<>>)'
      BY <3>1, <3>2 DEF Through, NodeIdle, Line, netVars
    <3>4. \/ rpc'[k] = "answered" /\ busy'[k]
          \/ rpc'[k] = "idle" /\ ~busy'[k]
      BY <1>0, <3>1, <3>2 DEF Through
    <3>5. Stage(k)'
      BY <3>3, <3>4 DEF Stage, Through, Free
    <3> QED
      BY <1>0, <2>0, <3>2, <3>5 DEF netVars
  <2> QED
    BY <1>1, <2>1, <2>2, <2>3, <2>4
<1>4. ASSUME NEW c \in Conns, c # k PROVE Stage(c)'
  <2>1. Stage(c)
    BY DEF SteadyInv
  <2> QED
    BY <1>3, <1>4, <2>1, StageKept
<1>5. ThreadsSteady'
  BY <1>3, <1>0 DEF SteadyInv, ThreadsSteady, watchVars, localVars, IInv, TypeOK
<1>6. NoFailure' /\ NetworkSteady'
  BY <1>3 DEF SteadyInv, NoFailure, NetworkSteady
<1> QED
  BY <1>3, <1>4, <1>5, <1>6 DEF SteadyInv

\* The local thread finds each part it ran among the tasks the host keeps.
LEMMA SteadyLocal ==
  ASSUME IInv, SteadyInv, Undisturbed, Local
  PROVE  SteadyInv'
<1>1. \/ LocalCopy \/ LocalStart \/ LocalRun \/ LocalMarkHost \/ LocalQueued
  BY NothingFails DEF Local
<1>2. /\ UNCHANGED lineVars
      /\ UNCHANGED <<clients, remove, exceptionThrown, wpc, freeClient, sock, deleted>>
  BY <1>1 DEF LocalCopy, LocalStart, LocalRun, LocalMarkHost, LocalQueued, lineVars,
     hostVars, watchVars, recvVars, netVars, heapVars
<1>3. \A c \in Conns : Stage(c)'
  BY <1>2, StagesKept DEF SteadyInv
<1>4. NetworkSteady'
  BY <1>2 DEF SteadyInv, NetworkSteady, lineVars
<1>5. badAccess' = badAccess /\ ThreadsSteady'
  <2> USE DEF SteadyInv, ThreadsSteady
  <2>1. wpc' = "assign" => freeClient' \in clients' /\ ~busy'[freeClient']
    BY <1>2 DEF lineVars
  <2>2. CASE LocalCopy
    BY <2>1, <2>2 DEF LocalCopy, hostVars, heapVars
  <2>3. CASE LocalStart
    BY <2>1, <2>3 DEF LocalStart, heapVars
  <2>4. CASE LocalRun
    <3>1. hcur \notin freed
      BY <2>4 DEF LocalRun, IInv, PartInv, FreedInv, OnePlace, Tracked
    <3> QED
      BY <2>1, <2>4, <3>1 DEF LocalRun, hostVars
  <2>5. CASE LocalMarkHost
    BY <2>1, <2>5 DEF LocalMarkHost
  <2>6. CASE LocalQueued
    BY <2>1, <2>6 DEF LocalQueued, heapVars
  <2> QED
    BY <1>1, <2>2, <2>3, <2>4, <2>5, <2>6
<1>6. NoFailure'
  BY <1>2, <1>5 DEF SteadyInv, NoFailure
<1> QED
  BY <1>3, <1>4, <1>5, <1>6 DEF SteadyInv

\* A node has the part of its own connection, and of no other.
LEMMA SteadyNode ==
  ASSUME IInv, SteadyInv, NEW n \in Nodes, Node(n)
  PROVE  SteadyInv'
<1>0. /\ toClient \in [Conns -> Seq(Parts)] /\ toHost \in [Conns -> Seq(Parts)]
      /\ nqueue \in [Nodes -> Seq(Parts)] /\ nresults \in [Nodes -> Seq(Parts)]
      /\ nconn \in [Nodes -> Conns \cup {NoConn}]
  BY DEF IInv, TypeOK
<1>1. UNCHANGED <<hostVars, watchVars, senders, recvVars, localVars, sock, nconn, heapVars>>
  BY DEF Node, NodeReceive, NodeProcess, NodeSend
<1>2. nconn[n] # NoConn
  BY <1>0, Single DEF Node, NodeReceive, NodeProcess, NodeSend, SteadyInv, NetworkSteady
<1>3. PICK k \in Conns : k = nconn[n]
  BY <1>0, <1>2
<1>4. \A m \in Nodes : nconn[m] = k => m = n
  BY <1>2, <1>3 DEF SteadyInv, NetworkSteady
<1>5. Stage(k)
  BY DEF SteadyInv
<1>6. /\ Stage(k)'
      /\ \A c \in Conns \ {k} : toClient'[c] = toClient[c] /\ toHost'[c] = toHost[c]
      /\ \A m \in Nodes \ {n} : nqueue'[m] = nqueue[m] /\ nresults'[m] = nresults[m]
  <2> USE <1>0, <1>1, <1>3, <1>4, <1>5 DEF hostVars, recvVars
  <2>1. CASE NodeReceive(n)
    <3>1. PICK p \in Parts : Busy(k, p) /\ rpc[k] = "idle" /\ NodeIdle(k) /\ Line(k, {}, <<p>>, <<>>)
      BY <2>1 DEF NodeReceive, Stage, Free, Through, Busy, OnItsWay, OnNode,
         ComingBack, Line
    <3>2. /\ nqueue' = [nqueue EXCEPT ![n] = Append(@, Head(toClient[k]))]
          /\ toClient' = [toClient EXCEPT ![k] = Tail(@)]
          /\ UNCHANGED <<toHost, nresults>>
      BY <2>1 DEF NodeReceive
    <3>3. toClient[k] = <<p>> /\ nqueue[n] = <<>> /\ nresults[n] = <<>>
      BY <3>1 DEF Line, NodeIdle
    <3>4. nqueue'[n] = <<p>> /\ nresults'[n] = <<>> /\ toClient'[k] = <<>>
      BY <3>2, <3>3, Single
    <3>5. Line(k, {}, <<>>, <<>>)'
      BY <3>1, <3>2, <3>4 DEF Line
    <3>6. Stage(k)'
      BY <3>1, <3>4, <3>5 DEF Stage, Busy, OnNode
    <3> QED
      BY <3>2, <3>6
  <2>2. CASE NodeProcess(n)
    <3>1. PICK p \in Parts :
            /\ Busy(k, p) /\ rpc[k] = "idle" /\ Line(k, {}, <<>>, <<>>)
            /\ nqueue[n] = <<p>> /\ nresults[n] = <<>>
      BY <2>2, Single DEF NodeProcess, Stage, Free, Through, Busy, OnItsWay, OnNode,
         ComingBack, NodeIdle
    <3>2. /\ nqueue' = [nqueue EXCEPT ![n] = Tail(@)]
          /\ nresults' = [nresults EXCEPT ![n] = Append(@, Head(nqueue[n]))]
          /\ UNCHANGED <<toHost, toClient>>
      BY <2>2 DEF NodeProcess
    <3>3. nqueue'[n] = <<>> /\ nresults'[n] = <<p>>
      BY <3>1, <3>2, Single
    <3>4. Line(k, {}, <<>>, <<>>)'
      BY <3>1, <3>2 DEF Line
    <3>5. Stage(k)'
      BY <3>1, <3>3, <3>4 DEF Stage, Busy, OnNode
    <3> QED
      BY <3>2, <3>5
  <2>3. CASE NodeSend(n)
    <3>1. PICK p \in Parts :
            /\ Busy(k, p) /\ rpc[k] = "idle" /\ Line(k, {}, <<>>, <<>>)
            /\ nqueue[n] = <<>> /\ nresults[n] = <<p>>
      BY <2>3, Single DEF NodeSend, Stage, Free, Through, Busy, OnItsWay, OnNode,
         ComingBack, NodeIdle
    <3>2. /\ nresults' = [nresults EXCEPT ![n] = Tail(@)]
          /\ toHost' = [toHost EXCEPT ![k] = Append(@, Head(nresults[n]))]
          /\ UNCHANGED <<nqueue, toClient>>
      BY <2>3 DEF NodeSend
    <3>3. nresults'[n] = <<>> /\ nqueue'[n] = <<>> /\ toHost'[k] = <<p>>
      BY <3>1, <3>2, Single DEF Line
    <3>4. Line(k, {}, <<>>, <<p>>)' /\ NodeIdle(k)'
      BY <3>1, <3>2, <3>3 DEF Line, NodeIdle
    <3>5. Stage(k)'
      BY <3>1, <3>4 DEF Stage, Busy, ComingBack
    <3> QED
      BY <3>2, <3>5
  <2> QED
    BY <2>1, <2>2, <2>3 DEF Node
<1>7. ASSUME NEW c \in Conns, c # k PROVE Stage(c)'
  <2>1. Stage(c)
    BY DEF SteadyInv
  <2>2. \A m \in Nodes : nconn[m] = c => m # n
    BY <1>3, <1>7
  <2> QED
    BY <1>1, <1>6, <1>7, <2>1, <2>2, StageKept DEF hostVars, recvVars
<1>8. NoFailure' /\ ThreadsSteady' /\ NetworkSteady'
  <2>1. \A m \in Nodes : nconn'[m] = NoConn => nqueue'[m] = <<>> /\ nresults'[m] = <<>>
    BY <1>1, <1>2, <1>6 DEF SteadyInv, NetworkSteady
  <2> QED
    BY <1>1, <2>1 DEF SteadyInv, NoFailure, ThreadsSteady, NetworkSteady, hostVars,
       watchVars, recvVars, localVars, heapVars
<1> QED
  BY <1>6, <1>7, <1>8 DEF SteadyInv

LEMMA SteadyNext ==
  ASSUME Undisturbed
  PROVE  IInv /\ SteadyInv /\ [Next]_vars => SteadyInv'
<1> SUFFICES ASSUME IInv, SteadyInv, [Next]_vars PROVE SteadyInv'
  OBVIOUS
<1>1. CASE (\E t \in Tasks : AddTask(t)) \/ UNCHANGED vars
  <2>1. /\ UNCHANGED lineVars
        /\ UNCHANGED <<clients, remove, hostTasks, localQueue, exceptionThrown, wpc,
                       freeClient, localVars, sock, deleted, badAccess>>
    BY <1>1 DEF AddTask, vars, hostVars, watchVars, recvVars, netVars, heapVars, lineVars
  <2>2. \A c \in Conns : Stage(c)'
    BY <2>1, StagesKept DEF SteadyInv
  <2> QED
    BY <2>1, <2>2 DEF SteadyInv, NoFailure, NetworkSteady, ThreadsSteady, lineVars,
       localVars
<1>2. CASE \E c \in Conns, p \in Parts : Sender(c, p)
  BY <1>2, NothingFails, SteadySend DEF Sender
<1>3. CASE \E n \in Nodes : Node(n) \/ Drop(n)
  BY <1>3, NothingFails, SteadyNode
<1> QED
  BY <1>1, <1>2, <1>3, SteadyWatcher, SteadyListener, SteadyReceiver, SteadyLocal DEF Next

LEMMA Steady ==
  ASSUME Undisturbed
  PROVE  Spec => []SteadyInv
  BY SteadyInit, SteadyNext, Invariant, PTL DEF Spec

\* As long as no connection breaks and no task is slow, no thread of the host
\* throws or uses a client or a task that another thread has deleted.
THEOREM NeverFails ==
  ASSUME Undisturbed
  PROVE  Spec => []NoFailure
<1>1. SteadyInv => NoFailure
  BY DEF SteadyInv
<1> QED
  BY <1>1, Steady, PTL

\* As long as no connection breaks and no task is slow, a client with a part to
\* answer never counts as free, so it is never given a second.
THEOREM TaskedBusy ==
  ASSUME Undisturbed
  PROVE  Spec => []BusyWhileTasked
<1>1. IInv /\ SteadyInv => BusyWhileTasked
  BY DEF IInv, TypeOK, SteadyInv, Stage, Free, Through, Busy, BusyWhileTasked
<1> QED
  BY <1>1, Steady, Invariant, PTL

(***************************************************************************)
(* The host implements PartService: proof of the refinement.               *)
(***************************************************************************)
\* What decides the state of a part.
statusVars == <<waiting, hostTasks, tasks, redist, accepted, lost>>

LEMMA SameStatus == UNCHANGED statusVars => partStatus' = partStatus
  BY DEF statusVars, partStatus, Finished, Tracked, InRedist

\* Under the invariant a part's status says in which place it is.
LEMMA StatusMeaning ==
  ASSUME OnePlace, NEW p \in Parts
  PROVE  /\ partStatus[p] = "answered" <=> p \in Finished
         /\ partStatus[p] = "lost" <=> p \in lost
         /\ partStatus[p] = "owned" <=> p \in Tracked
         /\ partStatus[p] = "waiting" <=> p \in waiting \cup InRedist
         /\ partStatus[p] = "none" <=> p \notin Places
  BY DEF OnePlace, partStatus, Places

LEMMA DivideStep == IInv /\ Divide => [Service!Next]_partStatus
<1> SUFFICES ASSUME IInv, Divide PROVE [Service!Next]_partStatus
  OBVIOUS
<1> DEFINE new == UNION {PartsOf(t, clientCount) : t \in taskQueue}
<1>1. /\ waiting' = waiting \cup new
      /\ UNCHANGED <<hostTasks, tasks, redist, accepted, lost>>
  BY DEF Divide, hostVars, recvVars, heapVars
<1>2. new \subseteq Parts /\ \A p \in new : p \notin Places
  <2>1. \A p \in new : p[1] \in taskQueue
    BY DEF PartsOf
  <2>2. \A t \in taskQueue : PartsOf(t, clientCount) \subseteq Parts
    BY PartsOfType DEF IInv, TypeOK
  <2> QED
    BY <2>1, <2>2 DEF IInv, PartInv, FreshInv
<1>3. \A p \in new : partStatus[p] = "none"
  BY <1>2, StatusMeaning DEF IInv, PartInv
<1>4. partStatus' = [p \in Parts |-> IF p \in new THEN "waiting" ELSE partStatus[p]]
  BY <1>1, <1>2 DEF partStatus, Finished, Tracked, InRedist, Places
<1>5. CASE new = {}
  BY <1>1, <1>5, SameStatus DEF statusVars
<1>6. CASE new # {}
  BY <1>2, <1>3, <1>4, <1>6 DEF Service!Next, Service!Create, Service!Move
<1> QED
  BY <1>5, <1>6
LEMMA PlaceStep == IInv /\ PlaceLocal => Service!Assign(cur)
<1> SUFFICES ASSUME IInv, PlaceLocal PROVE Service!Assign(cur)
  OBVIOUS
<1>1. /\ cur \in waiting /\ cur \in Parts
      /\ hostTasks' = hostTasks \cup {cur}
      /\ waiting' = waiting \ {cur}
      /\ UNCHANGED <<tasks, redist, accepted, lost>>
  BY DEF PlaceLocal, IInv, TypeOK, ThreadInv, WatcherInv, recvVars
<1>2. cur \notin Finished \cup lost \cup Tracked \cup InRedist
  BY <1>1 DEF IInv, PartInv, OnePlace
<1>3. partStatus[cur] = "waiting"
  BY <1>1, <1>2 DEF partStatus
<1>4. partStatus' = [p \in Parts |-> IF p \in {cur} THEN "owned" ELSE partStatus[p]]
  BY <1>1, <1>2 DEF partStatus, Finished, Tracked, InRedist
<1> QED
  BY <1>3, <1>4 DEF Service!Assign, Service!Move

LEMMA AssignStep == IInv /\ AssignClient => Service!Assign(cur)
<1> SUFFICES ASSUME IInv, AssignClient PROVE Service!Assign(cur)
  OBVIOUS
<1>1. /\ cur \in waiting /\ cur \in Parts
      /\ freeClient \in Conns
      /\ tasks \in [Conns -> SUBSET Parts]
      /\ tasks' = [tasks EXCEPT ![freeClient] = @ \cup {cur}]
      /\ waiting' = waiting \ {cur}
      /\ UNCHANGED <<hostTasks, redist, accepted, lost>>
  BY DEF AssignClient, IInv, TypeOK, ThreadInv, WatcherInv, recvVars
<1>2. cur \notin Finished \cup lost \cup Tracked \cup InRedist
  BY <1>1 DEF IInv, PartInv, OnePlace
<1>3. partStatus[cur] = "waiting"
  BY <1>1, <1>2 DEF partStatus
<1>4. Tracked' = Tracked \cup {cur}
  BY <1>1 DEF Tracked
<1>5. partStatus' = [p \in Parts |-> IF p \in {cur} THEN "owned" ELSE partStatus[p]]
  BY <1>1, <1>2, <1>4 DEF partStatus, Finished, InRedist
<1> QED
  BY <1>1, <1>3, <1>5 DEF Service!Assign, Service!Move

\* Parts that wait or are owned are dropped.
LEMMA AbandonStep ==
  ASSUME IInv, NEW S \in SUBSET Parts, S \subseteq waiting \/ S \subseteq Tracked,
         waiting' = waiting \ S, Tracked' = Tracked \ S, lost' = lost \cup S,
         UNCHANGED <<redist, accepted>>
  PROVE  Service!Abandon(S) \/ UNCHANGED partStatus
<1>1. S \cap (Finished \cup lost \cup InRedist) = {}
  BY DEF IInv, PartInv, OnePlace
<1>2. partStatus' = [p \in Parts |-> IF p \in S THEN "lost" ELSE partStatus[p]]
  BY <1>1 DEF partStatus, Finished, InRedist
<1>3. CASE S = {}
  BY <1>2, <1>3 DEF partStatus
<1>4. CASE S # {} /\ S \subseteq waiting
  <2>1. \A p \in S : partStatus[p] = "waiting"
    BY <1>4 DEF partStatus, IInv, PartInv, OnePlace
  <2> QED
    BY <1>2, <1>4, <2>1 DEF Service!Abandon, Service!Move
<1>5. CASE S # {} /\ S \subseteq Tracked
  <2>1. \A p \in S : partStatus[p] = "owned"
    BY <1>5 DEF partStatus, IInv, PartInv, OnePlace
  <2> QED
    BY <1>2, <1>5, <2>1 DEF Service!Abandon, Service!Move
<1> QED
  BY <1>3, <1>4, <1>5

LEMMA WatcherStep == IInv /\ Watcher => [Service!Next]_partStatus
<1> SUFFICES ASSUME IInv, Watcher PROVE [Service!Next]_partStatus
  OBVIOUS
<1> USE DEF hostVars, recvVars, heapVars, partVars
<1>1. CASE PlaceLocal
  <2>1. cur \in Parts
    BY <1>1 DEF PlaceLocal, IInv, TypeOK, ThreadInv, WatcherInv
  <2> QED
    BY <1>1, <2>1, PlaceStep DEF Service!Next
<1>2. CASE AssignClient
  <2>1. cur \in Parts
    BY <1>2 DEF AssignClient, IInv, TypeOK, ThreadInv, WatcherInv
  <2> QED
    BY <1>2, <2>1, AssignStep DEF Service!Next
<1>3. CASE ClearQueue
  <2>1. /\ waiting' = waiting \ waiting /\ lost' = lost \cup waiting
        /\ UNCHANGED <<hostTasks, tasks, redist, accepted>>
    BY <1>3 DEF ClearQueue
  <2>2. Tracked' = Tracked \ waiting
    BY <2>1 DEF Tracked, IInv, PartInv, OnePlace
  <2>3. waiting \in SUBSET Parts
    BY DEF IInv, TypeOK
  <2> QED
    BY <2>1, <2>2, <2>3, AbandonStep DEF Service!Next
<1>4. CASE EraseSent
  <2> DEFINE S == waiting \cap batch
  <2>1. /\ waiting' = waiting \ S /\ lost' = lost \cup S
        /\ UNCHANGED <<hostTasks, tasks, redist, accepted>>
    BY <1>4 DEF EraseSent
  <2>2. Tracked' = Tracked \ S
    BY <2>1 DEF Tracked, IInv, PartInv, OnePlace
  <2>3. S \in SUBSET Parts
    BY DEF IInv, TypeOK
  <2> QED
    BY <2>1, <2>2, <2>3, AbandonStep DEF Service!Next
<1>5. CASE Watch \/ WatchTimeout \/ WatchEnd \/ CopyQueue \/ TakeTask
           \/ PickClient \/ AssignDeleted \/ JoinSenders
  BY <1>5, SameStatus DEF Watch, WatchTimeout, WatchEnd, CopyQueue, TakeTask,
       PickClient, AssignDeleted, JoinSenders, statusVars
<1> QED
  BY DivideStep, <1>1, <1>2, <1>3, <1>4, <1>5 DEF Watcher
LEMMA ListenerStep == IInv /\ Listener => [Service!Next]_partStatus
<1> SUFFICES ASSUME IInv, Listener PROVE [Service!Next]_partStatus
  OBVIOUS
<1> USE DEF hostVars, recvVars, heapVars, partVars
<1>1. CASE EraseDead
  <2>1. PICK dead \in SUBSET {c \in clients : remove[c]} :
          /\ tasks' = [c \in Conns |-> IF c \in dead THEN {} ELSE tasks[c]]
          /\ lost' = lost \cup UNION {tasks[c] : c \in dead}
    BY <1>1 DEF EraseDead
  <2> DEFINE S == UNION {tasks[c] : c \in dead}
  <2>2. UNCHANGED <<waiting, hostTasks, redist, accepted>>
    BY <1>1 DEF EraseDead
  <2>3. /\ dead \subseteq Conns /\ S \in SUBSET Parts /\ S \subseteq Tracked
        /\ tasks \in [Conns -> SUBSET Parts]
    BY DEF IInv, TypeOK, Tracked
  <2>4. Tracked' = Tracked \ S
    <3>1. \A c \in Conns : tasks'[c] = tasks[c] \ S
      BY <2>1, <2>3 DEF IInv, PartInv, OnePlace
    <3>2. hostTasks' = hostTasks \ S
      BY <2>2, <2>3 DEF IInv, PartInv, OnePlace
    <3> HIDE DEF S
    <3>3. \A p : p \in Tracked' <=> p \in Tracked \ S
      BY <3>1, <3>2 DEF Tracked
    <3> QED
      BY <3>3
  <2>5. waiting' = waiting \ S
    BY <2>2, <2>3 DEF IInv, PartInv, OnePlace
  <2> HIDE DEF S
  <2>6. Service!Abandon(S) \/ UNCHANGED partStatus
    BY <2>2, <2>3, <2>4, <2>5, AbandonStep, <2>1 DEF S
  <2> QED
    BY <2>3, <2>6 DEF Service!Next
<1>2. CASE \/ \E n \in Nodes : Accept(n)
           \/ Launch \/ ListenTimeout \/ JoinReceivers
  BY <1>2, SameStatus DEF Accept, Launch, ListenTimeout, JoinReceivers,
                          statusVars
<1> QED
  BY <1>1, <1>2 DEF Listener

\* A result is accepted for a part some owner has.
LEMMA AnswerStep ==
  ASSUME IInv, NEW p \in Parts, FinishTask(p),
         UNCHANGED <<waiting, redist, lost>>,
         \/ /\ p \in hostTasks
            /\ hostTasks' = hostTasks \ {p} /\ UNCHANGED tasks
         \/ /\ \E d \in Conns : /\ p \in tasks[d]
                                /\ tasks' = [tasks EXCEPT ![d] = @ \ {p}]
            /\ UNCHANGED hostTasks
  PROVE  Service!Answer(p)
<1>1. p \in Tracked
  BY DEF Tracked
<1>2. /\ accepted \in [Parts -> Nat]
      /\ accepted' = [accepted EXCEPT ![p] = @ + 1]
      /\ tasks \in [Conns -> SUBSET Parts]
  BY DEF IInv, TypeOK, FinishTask
<1>3. Finished' = Finished \cup {p}
  BY <1>2 DEF Finished
<1>4. Tracked' = Tracked \ {p}
  BY <1>2 DEF IInv, PartInv, OnePlace, Tracked
<1>5. partStatus[p] = "owned"
  BY <1>1 DEF partStatus, IInv, PartInv, OnePlace
<1>6. partStatus' = [q \in Parts |-> IF q \in {p} THEN "answered" ELSE partStatus[q]]
  BY <1>3, <1>4 DEF partStatus, InRedist
<1> QED
  BY <1>5, <1>6 DEF Service!Answer, Service!Move

LEMMA ReceiverStep ==
  ASSUME IInv, NEW c \in Conns, Receiver(c)
  PROVE  [Service!Next]_partStatus
<1> USE DEF hostVars, recvVars, heapVars, partVars
<1>0. /\ tasks \in [Conns -> SUBSET Parts]
      /\ redist \in [Conns -> SUBSET Parts]
      /\ clients \subseteq Conns
  BY DEF IInv, TypeOK
<1>1. CASE ReceiveDisconnected(c)
  <2> DEFINE S == tasks[c]
  <2>1. redist[c] = {}
    BY <1>1 DEF ReceiveDisconnected, IInv, ThreadInv, ReceiverInv
  <2>2. /\ redist' = [redist EXCEPT ![c] = S]
        /\ tasks' = [tasks EXCEPT ![c] = {}]
        /\ UNCHANGED <<waiting, hostTasks, accepted, lost>>
    BY <1>1 DEF ReceiveDisconnected
  <2>3. S \in SUBSET Parts /\ S \subseteq Tracked
    BY <1>0 DEF Tracked
  <2>4. Tracked' = Tracked \ S
    BY <1>0, <2>2 DEF Tracked, IInv, PartInv, OnePlace
  <2>5. InRedist' = InRedist \cup S
    BY <1>0, <2>1, <2>2 DEF InRedist
  <2>6. \A p \in S : partStatus[p] = "owned"
    BY <2>3 DEF partStatus, IInv, PartInv, OnePlace
  <2>7. partStatus' = [p \in Parts |-> IF p \in S THEN "waiting" ELSE partStatus[p]]
    <3>1. S \cap (Finished \cup lost \cup waiting \cup InRedist) = {}
      BY <2>3 DEF IInv, PartInv, OnePlace
    <3>2. Finished' = Finished
      BY <2>2 DEF Finished
    <3> QED
      BY <2>2, <2>4, <2>5, <3>1, <3>2 DEF partStatus
  <2>8. CASE S = {}
    BY <2>7, <2>8 DEF partStatus
  <2>9. CASE S # {}
    BY <2>3, <2>6, <2>7, <2>9 DEF Service!Next, Service!Return, Service!Move
  <2> QED
    BY <2>8, <2>9
<1>2. CASE Redistribute(c)
  <2>1. /\ waiting' = waiting \cup redist[c]
        /\ redist' = [redist EXCEPT ![c] = {}]
        /\ UNCHANGED <<tasks, hostTasks, accepted, lost>>
    BY <1>2 DEF Redistribute
  <2>2. waiting' \cup InRedist' = waiting \cup InRedist
    BY <1>0, <2>1 DEF InRedist
  <2> QED
    BY <2>1, <2>2 DEF partStatus, Finished, Tracked
<1>3. CASE MarkHost(c)
  <2>1. rpart[c] \in Parts
    BY <1>3 DEF MarkHost, IInv, ThreadInv, ReceiverInv
  <2>2. CASE rpart[c] \in hostTasks
    <3>1. Service!Answer(rpart[c])
      BY <1>3, <2>1, <2>2, AnswerStep DEF MarkHost
    <3> QED
      BY <2>1, <3>1 DEF Service!Next
  <2>3. CASE rpart[c] \notin hostTasks
    BY <1>3, <2>3, SameStatus DEF MarkHost, statusVars
  <2> QED
    BY <2>2, <2>3
<1>4. CASE MarkClients(c)
  <2>1. rpart[c] \in Parts
    BY <1>4 DEF MarkClients, IInv, ThreadInv, ReceiverInv
  <2>2. CASE \E d \in clients :
               /\ rpart[c] \in tasks[d]
               /\ tasks' = [tasks EXCEPT ![d] = @ \ {rpart[c]}]
               /\ FinishTask(rpart[c])
    <3>1. Service!Answer(rpart[c])
      BY <1>0, <1>4, <2>1, <2>2, AnswerStep DEF MarkClients
    <3> QED
      BY <2>1, <3>1 DEF Service!Next
  <2>3. CASE UNCHANGED <<tasks, freed, accepted>>
    BY <1>4, <2>3, SameStatus DEF MarkClients, statusVars
  <2> QED
    BY <1>4, <2>2, <2>3 DEF MarkClients
<1>5. CASE \/ Receive(c) \/ ReceiveAborted(c) \/ MarkRemoved(c)
           \/ ResultQueued(c) \/ Answered(c)
  BY <1>5, SameStatus DEF Receive, ReceiveAborted, MarkRemoved, ResultQueued,
                          Answered, statusVars
<1> QED
  BY <1>1, <1>2, <1>3, <1>4, <1>5 DEF Receiver

LEMMA LocalStep == IInv /\ Local => [Service!Next]_partStatus
<1> SUFFICES ASSUME IInv, Local PROVE [Service!Next]_partStatus
  OBVIOUS
<1> USE DEF hostVars, recvVars, heapVars, partVars
<1>1. CASE LocalMarkHost
  <2>1. hcur \in Parts
    BY <1>1 DEF LocalMarkHost, IInv, ThreadInv, LocalInv
  <2>2. CASE hcur \in hostTasks
    <3>1. Service!Answer(hcur)
      BY <1>1, <2>1, <2>2, AnswerStep DEF LocalMarkHost
    <3> QED
      BY <2>1, <3>1 DEF Service!Next
  <2>3. CASE hcur \notin hostTasks
    BY <1>1, <2>3, SameStatus DEF LocalMarkHost, statusVars
  <2> QED
    BY <2>2, <2>3
<1>2. CASE LocalMarkClients
  <2>1. hcur \in Parts /\ clients \subseteq Conns
    BY <1>2 DEF LocalMarkClients, IInv, TypeOK, ThreadInv, LocalInv
  <2>2. CASE {d \in clients : hcur \in tasks[d]} # {}
    <3>1. /\ \E d \in clients : /\ hcur \in tasks[d]
                                /\ tasks' = [tasks EXCEPT ![d] = @ \ {hcur}]
          /\ FinishTask(hcur)
          /\ UNCHANGED <<waiting, redist, lost, hostTasks>>
      BY <1>2, <2>2 DEF LocalMarkClients
    <3>2. Service!Answer(hcur)
      BY <2>1, <3>1, AnswerStep
    <3> QED
      BY <2>1, <3>2 DEF Service!Next
  <2>3. CASE {d \in clients : hcur \in tasks[d]} = {}
    BY <1>2, <2>3, SameStatus DEF LocalMarkClients, statusVars
  <2> QED
    BY <2>2, <2>3
<1>3. CASE \/ LocalCopy \/ LocalStart \/ LocalStartDangling \/ LocalRun
           \/ LocalQueued \/ LocalEnd
  BY <1>3, SameStatus DEF LocalCopy, LocalStart, LocalStartDangling, LocalRun,
     LocalQueued, LocalEnd, statusVars
<1> QED
  BY <1>1, <1>2, <1>3 DEF Local

LEMMA ServiceInit == Init => Service!Init
  BY DEF Init, Service!Init, partStatus, Finished, Tracked, InRedist

LEMMA ServiceNext == IInv /\ [Next]_vars => [Service!Next]_partStatus
<1> SUFFICES ASSUME IInv, [Next]_vars PROVE [Service!Next]_partStatus
  OBVIOUS
<1>1. CASE \/ \E t \in Tasks : AddTask(t)
           \/ \E c \in Conns, p \in Parts : Sender(c, p)
           \/ \E n \in Nodes : Node(n) \/ Drop(n)
           \/ UNCHANGED vars
  BY <1>1, SameStatus DEF AddTask, Sender, Send, SendFails, SendDangling,
     SendAborted, Node, NodeReceive, NodeProcess, NodeSend, Drop, vars,
     hostVars, recvVars, partVars, statusVars
<1> QED
  BY <1>1, WatcherStep, ListenerStep, ReceiverStep, LocalStep DEF Next

\* However its threads interleave, connections break and late results arrive,
\* the host takes each part only through the steps of PartService: it gives a
\* waiting part to one owner, takes it back only from its owner, and accepts
\* at most one result.
THEOREM Implements == Spec => ImplementsService
<1>1. IInv /\ [Next]_vars => [Service!Next]_partStatus
  BY ServiceNext
<1> QED
  BY <1>1, ServiceInit, Invariant, PTL DEF Spec, ImplementsService, Service!Spec
=============================================================================
