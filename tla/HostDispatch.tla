---------------------------- MODULE HostDispatch ----------------------------
(***************************************************************************)
(* How a ClusterFrac host hands the parts of its tasks to clients and      *)
(* takes the results back.  The threads of the host process are            *)
(*                                                                         *)
(*   watcher   HostTaskWatcher::watchThread: times tasks out, divides the  *)
(*             task queue, sends the sub task queue (Host::sendSubTasks);  *)
(*   senders   HostSender::sendTaskThread, one thread per part being sent; *)
(*   listener  HostListener::listenThread: accepts connections, launches   *)
(*             receive threads and joins them, erases dead clients;        *)
(*   receivers HostListener::clientReceiveThread, one per ready client;    *)
(*   local     Host::hostAsClientProcessTaskThread.                        *)
(*                                                                         *)
(* One action is one stretch of code between two points at which another   *)
(* thread can see or change what the stretch depends on, which is mostly   *)
(* one critical section.  The nodes at the other end of the connections    *)
(* are modelled by what they do to the host; module ClientNode has their   *)
(* own threads.                                                            *)
(*                                                                         *)
(* A Task object of the host is identified with the pair <<task, part>>    *)
(* that Host::markTaskFinished looks results up by.  The queues are sets:  *)
(* sendSubTasks visits its copy in any order, but, as in the code, does    *)
(* not go past a part that no client is free to take.                      *)
(***************************************************************************)
EXTENDS Integers, Sequences, FiniteSets

CONSTANTS
  Tasks,          \* the tasks the application submits
  Target,         \* Target[t]: NodeTargetTypes, where t may run
  NodeSplit,      \* NodeSplit[t]: allowNodeTaskSplit
  Values,         \* Values[t]: number of values t can be cut into
  Slow,           \* tasks that may exceed maxTaskTimeMilliseconds
  HostAsClient,   \* Host::hostAsClient
  HostSplits,     \* MAX_THREADS > 1 on the host
  Nodes,          \* the client processes
  MaxConns,       \* bound: connections accepted over a run
  MaxDrops,       \* bound: connections lost over a run
  None            \* no part

Conns == 1 .. MaxConns
Parts == Tasks \X (0 .. MaxConns)
NoConn == 0       \* nullptr, or not connected

ASSUME ConstantsAssumption ==
  /\ Target \in [Tasks -> {"Local", "Any", "Remote"}]
  /\ NodeSplit \in [Tasks -> BOOLEAN]
  /\ Values \in [Tasks -> Nat \ {0}]
  /\ Slow \subseteq Tasks
  /\ HostAsClient \in BOOLEAN
  /\ HostSplits \in BOOLEAN
  /\ MaxConns \in Nat
  /\ MaxDrops \in Nat
  /\ None \notin Parts

VARIABLES
  \* the host's shared state
  added,          \* tasks passed to Host::addTaskToQueue so far
  taskQueue,      \* Host::taskQueue
  subTaskQueue,   \* Host::subTaskQueue
  clients,        \* Host::clients, in order of client ID
  busy, remove,   \* ClientDetails::busy, ClientDetails::remove
  tasks,          \* ClientDetails::tasks
  hostBusy,       \* Host::busy
  hostTasks,      \* Host::tasksAssignedAsClient
  localQueue,     \* Host::localHostAsClientTaskQueue
  exceptionThrown,\* ConsoleMessager::exceptionThrown
  \* the threads
  wpc, clientCount, batch, todo, cur, freeClient,   \* watcher
  senders,        \* HostSender::taskSendThreads still running
  lpc,            \* listener
  rpc, rpart, redist,                               \* receivers
  hpc, hbatch, hcur,                                \* local
  \* connections and nodes
  sock,           \* state of each host-side socket
  toClient, toHost,                                 \* bytes in flight
  nconn, nqueue, nresults,                          \* the nodes
  \* history of the heap and of each part
  freed,          \* Task objects deleted
  deleted,        \* ClientDetails objects deleted
  badAccess,      \* uses of a deleted object: <<thread, object>>
  waiting,        \* parts whose next step is to be sent
  accepted,       \* accepted[p]: results accepted for p
  lost            \* parts dropped although no result was accepted

hostVars  == <<added, taskQueue, subTaskQueue, clients, busy, remove, tasks,
               hostBusy, hostTasks, localQueue, exceptionThrown>>
watchVars == <<wpc, clientCount, batch, todo, cur, freeClient>>
recvVars  == <<lpc, rpc, rpart, redist>>
localVars == <<hpc, hbatch, hcur>>
netVars   == <<sock, toClient, toHost, nconn, nqueue, nresults>>
heapVars  == <<freed, deleted, badAccess>>
partVars  == <<waiting, accepted, lost>>
vars == <<hostVars, watchVars, senders, recvVars, localVars, netVars,
          heapVars, partVars>>

TypeOK ==
  /\ added \subseteq Tasks /\ taskQueue \subseteq Tasks
  /\ subTaskQueue \subseteq Parts
  /\ clients \subseteq Conns
  /\ busy \in [Conns -> BOOLEAN] /\ remove \in [Conns -> BOOLEAN]
  /\ tasks \in [Conns -> SUBSET Parts]
  /\ hostBusy \in BOOLEAN
  /\ hostTasks \subseteq Parts /\ localQueue \subseteq Parts
  /\ exceptionThrown \in BOOLEAN
  /\ wpc \in {"watch", "divide", "copy", "take", "place", "assign", "wait",
              "erase", "ended"}
  /\ clientCount \in 0 .. MaxConns + 1
  /\ batch \subseteq Parts /\ todo \subseteq Parts
  /\ cur \in Parts \cup {None}
  /\ freeClient \in Conns \cup {NoConn}
  /\ senders \subseteq Conns \X Parts
  /\ lpc \in {"wait", "join", "erase", "ended"}
  /\ rpc \in [Conns -> {"idle", "receive", "mark", "markClients", "accepted",
                        "answered", "disconnected", "redistribute"}]
  /\ rpart \in [Conns -> Parts \cup {None}]
  /\ redist \in [Conns -> SUBSET Parts]
  /\ hpc \in {"idle", "next", "run", "mark", "markClients", "accepted",
              "ended"}
  /\ hbatch \subseteq Parts
  /\ hcur \in Parts \cup {None}
  /\ sock \in [Conns -> {"none", "open", "peerClosed", "closed"}]
  /\ toClient \in [Conns -> Seq(Parts)] /\ toHost \in [Conns -> Seq(Parts)]
  /\ nconn \in [Nodes -> Conns \cup {NoConn}]
  /\ nqueue \in [Nodes -> Seq(Parts)] /\ nresults \in [Nodes -> Seq(Parts)]
  /\ freed \subseteq Parts /\ deleted \subseteq Conns
  /\ badAccess \subseteq {"watcher", "sender", "local"} \X {"client", "task"}
  /\ waiting \subseteq Parts
  /\ accepted \in [Parts -> Nat]
  /\ lost \subseteq Parts

Init ==
  /\ added = {} /\ taskQueue = {} /\ subTaskQueue = {} /\ clients = {}
  /\ busy = [c \in Conns |-> FALSE] /\ remove = [c \in Conns |-> FALSE]
  /\ tasks = [c \in Conns |-> {}]
  /\ hostBusy = FALSE /\ hostTasks = {} /\ localQueue = {}
  /\ exceptionThrown = FALSE
  /\ wpc = "watch" /\ clientCount = 0 /\ batch = {} /\ todo = {}
  /\ cur = None /\ freeClient = NoConn
  /\ senders = {}
  /\ lpc = "wait"
  /\ rpc = [c \in Conns |-> "idle"] /\ rpart = [c \in Conns |-> None]
  /\ redist = [c \in Conns |-> {}]
  /\ hpc = "idle" /\ hbatch = {} /\ hcur = None
  /\ sock = [c \in Conns |-> "none"]
  /\ toClient = [c \in Conns |-> <<>>] /\ toHost = [c \in Conns |-> <<>>]
  /\ nconn = [n \in Nodes |-> NoConn]
  /\ nqueue = [n \in Nodes |-> <<>>] /\ nresults = [n \in Nodes |-> <<>>]
  /\ freed = {} /\ deleted = {} /\ badAccess = {}
  /\ waiting = {} /\ accepted = [p \in Parts |-> 0] /\ lost = {}

-----------------------------------------------------------------------------
(* The application's thread. *)

\* Host::addTaskToQueue
AddTask(t) ==
  /\ t \notin added
  /\ added' = added \cup {t}
  /\ taskQueue' = taskQueue \cup {t}
  /\ UNCHANGED <<subTaskQueue, clients, busy, remove, tasks, hostBusy,
                 hostTasks, localQueue, exceptionThrown, watchVars, senders,
                 recvVars, localVars, netVars, heapVars, partVars>>

-----------------------------------------------------------------------------
(* The watcher. *)

\* Host::getClientsCount: the clients not marked for removal, and the host.
ClientsCount ==
  Cardinality({c \in clients : ~remove[c]}) + (IF HostAsClient THEN 1 ELSE 0)

Expired == \E c \in clients : ~remove[c] /\ \E p \in tasks[c] : p[1] \in Slow

\* One pass of the loop of watchThread up to the count of clients that
\* divideTasksIntoSubTaskQueue uses; no task has timed out.
Watch ==
  /\ wpc = "watch" /\ ~exceptionThrown
  /\ clientCount' = ClientsCount
  /\ wpc' = IF taskQueue # {} /\ ClientsCount > 0 THEN "divide" ELSE "copy"
  /\ UNCHANGED <<hostVars, batch, todo, cur, freeClient, senders, recvVars,
                 localVars, netVars, heapVars, partVars>>

\* The same pass when some task has taken too long: the watcher throws.
WatchTimeout ==
  /\ wpc = "watch" /\ ~exceptionThrown
  /\ Expired
  /\ exceptionThrown' = TRUE
  /\ wpc' = "ended"
  /\ UNCHANGED <<added, taskQueue, subTaskQueue, clients, busy, remove, tasks,
                 hostBusy, hostTasks, localQueue, clientCount, batch, todo,
                 cur, freeClient, senders, recvVars, localVars, netVars,
                 heapVars, partVars>>

WatchEnd ==
  /\ wpc = "watch" /\ exceptionThrown
  /\ wpc' = "ended"
  /\ UNCHANGED <<hostVars, clientCount, batch, todo, cur, freeClient, senders,
                 recvVars, localVars, netVars, heapVars, partVars>>

\* Task::split through splitLocal: never more parts than values.
PartCount(t, n) ==
  IF NodeSplit[t] /\ Target[t] # "Local" /\ n > 1
  THEN IF Values[t] < n THEN Values[t] ELSE n
  ELSE 1

PartsOf(t, n) == {<<t, i>> : i \in 0 .. PartCount(t, n) - 1}

\* Host::divideTasksIntoSubTaskQueue after the count.
Divide ==
  /\ wpc = "divide"
  /\ LET parts == UNION {PartsOf(t, clientCount) : t \in taskQueue}
     IN  /\ subTaskQueue' = subTaskQueue \cup parts
         /\ waiting' = waiting \cup parts
  /\ taskQueue' = {}
  /\ wpc' = "copy"
  /\ UNCHANGED <<added, clients, busy, remove, tasks, hostBusy, hostTasks,
                 localQueue, exceptionThrown, clientCount, batch, todo, cur,
                 freeClient, senders, recvVars, localVars, netVars, heapVars,
                 accepted, lost>>

\* Host::sendSubTasks: copy the queue under its lock.
CopyQueue ==
  /\ wpc = "copy"
  /\ batch' = subTaskQueue
  /\ todo' = subTaskQueue
  /\ wpc' = IF subTaskQueue = {} THEN "watch" ELSE "take"
  /\ UNCHANGED <<hostVars, clientCount, cur, freeClient, senders, recvVars,
                 localVars, netVars, heapVars, partVars>>

TakeTask ==
  /\ wpc = "take" /\ todo # {}
  /\ \E p \in todo : cur' = p
  /\ wpc' = "place"
  /\ UNCHANGED <<hostVars, clientCount, batch, todo, freeClient, senders,
                 recvVars, localVars, netVars, heapVars, partVars>>

\* May the part go to the host itself?
PlacedLocally(t) ==
  /\ HostAsClient
  /\ \/ Target[t] = "Local"
     \/ ~hostBusy /\ Target[t] = "Any"
     \/ ~hostBusy /\ Target[t] = "Remote" /\ ClientsCount = 1

PlaceLocal ==
  /\ wpc = "place" /\ PlacedLocally(cur[1])
  /\ hostBusy' = TRUE
  /\ hostTasks' = hostTasks \cup {cur}
  /\ localQueue' = localQueue \cup {cur}
  /\ todo' = todo \ {cur}
  /\ waiting' = waiting \ {cur}
  /\ cur' = None
  /\ wpc' = "take"
  /\ UNCHANGED <<added, taskQueue, subTaskQueue, clients, busy, remove, tasks,
                 exceptionThrown, clientCount, batch, freeClient, senders,
                 recvVars, localVars, netVars, heapVars, accepted, lost>>

\* The last client of the list that is neither busy nor removed, found under
\* clientsMutex and used after it is unlocked.  With none the loop tries again.
PickClient ==
  /\ wpc = "place" /\ ~PlacedLocally(cur[1])
  /\ \E c \in clients :
       /\ ~busy[c] /\ ~remove[c]
       /\ \A d \in clients : ~busy[d] /\ ~remove[d] => d <= c
       /\ freeClient' = c
  /\ wpc' = "assign"
  /\ UNCHANGED <<hostVars, clientCount, batch, todo, cur, senders, recvVars,
                 localVars, netVars, heapVars, partVars>>

\* Mutant: the iterator is not advanced past a part that was sent.
AssignClientAgain ==
  /\ wpc = "assign" /\ freeClient \notin deleted
  /\ busy' = [busy EXCEPT ![freeClient] = TRUE]
  /\ tasks' = [tasks EXCEPT ![freeClient] = @ \cup {cur}]
  /\ senders' = senders \cup {<<freeClient, cur>>}
  /\ waiting' = waiting \ {cur}
  /\ cur' = None
  /\ freeClient' = NoConn
  /\ wpc' = "take"
  /\ UNCHANGED <<added, taskQueue, subTaskQueue, clients, remove, hostBusy,
                 hostTasks, localQueue, exceptionThrown, clientCount, batch,
                 todo, recvVars, localVars, netVars, heapVars, accepted, lost>>

\* Mutant: the client is not marked busy.
AssignClientIdle ==
  /\ wpc = "assign" /\ freeClient \notin deleted
  /\ tasks' = [tasks EXCEPT ![freeClient] = @ \cup {cur}]
  /\ senders' = senders \cup {<<freeClient, cur>>}
  /\ todo' = todo \ {cur}
  /\ waiting' = waiting \ {cur}
  /\ cur' = None
  /\ freeClient' = NoConn
  /\ wpc' = "take"
  /\ UNCHANGED <<added, taskQueue, subTaskQueue, clients, busy, remove,
                 hostBusy, hostTasks, localQueue, exceptionThrown, clientCount,
                 batch, recvVars, localVars, netVars, heapVars, accepted, lost>>

\* Mark the client busy, track the part with it, launch the sender thread.
AssignClient ==
  /\ wpc = "assign" /\ freeClient \notin deleted
  /\ busy' = [busy EXCEPT ![freeClient] = TRUE]
  /\ tasks' = [tasks EXCEPT ![freeClient] = @ \cup {cur}]
  /\ senders' = senders \cup {<<freeClient, cur>>}
  /\ todo' = todo \ {cur}
  /\ waiting' = waiting \ {cur}
  /\ cur' = None
  /\ freeClient' = NoConn
  /\ wpc' = "take"
  /\ UNCHANGED <<added, taskQueue, subTaskQueue, clients, remove, hostBusy,
                 hostTasks, localQueue, exceptionThrown, clientCount, batch,
                 recvVars, localVars, netVars, heapVars, accepted, lost>>

\* The same on a client the listener deleted meanwhile: the process crashes.
AssignDeleted ==
  /\ wpc = "assign" /\ freeClient \in deleted
  /\ badAccess' = badAccess \cup {<<"watcher", "client">>}
  /\ wpc' = "ended"
  /\ UNCHANGED <<hostVars, clientCount, batch, todo, cur, freeClient, senders,
                 recvVars, localVars, netVars, freed, deleted, partVars>>

\* subTaskQueue.clear(), without subTaskQueueMutex.
ClearQueue ==
  /\ wpc = "take" /\ todo = {}
  /\ subTaskQueue' = {}
  /\ waiting' = {}
  /\ lost' = lost \cup waiting
  /\ wpc' = "wait"
  /\ UNCHANGED <<added, taskQueue, clients, busy, remove, tasks, hostBusy,
                 hostTasks, localQueue, exceptionThrown, clientCount, batch,
                 todo, cur, freeClient, senders, recvVars, localVars, netVars,
                 heapVars, accepted>>

\* HostSender::waitForComplete
JoinSenders ==
  /\ wpc = "wait" /\ senders = {}
  /\ wpc' = "erase"
  /\ UNCHANGED <<hostVars, clientCount, batch, todo, cur, freeClient, senders,
                 recvVars, localVars, netVars, heapVars, partVars>>

\* Erase from the queue every pointer the copy held.
EraseSent ==
  /\ wpc = "erase"
  /\ subTaskQueue' = subTaskQueue \ batch
  /\ waiting' = waiting \ batch
  /\ lost' = lost \cup (waiting \cap batch)
  /\ batch' = {}
  /\ wpc' = "watch"
  /\ UNCHANGED <<added, taskQueue, clients, busy, remove, tasks, hostBusy,
                 hostTasks, localQueue, exceptionThrown, clientCount, todo,
                 cur, freeClient, senders, recvVars, localVars, netVars,
                 heapVars, accepted>>

-----------------------------------------------------------------------------
(* The sender threads.  A receiver holds the socket's mutex from the moment *)
(* it has received until it ends; the senders only try to lock it.          *)

SocketFree(c) == rpc[c] \in {"idle", "receive"}

SendStart(c, p) ==
  /\ <<c, p>> \in senders /\ ~exceptionThrown
  /\ c \notin deleted /\ SocketFree(c) /\ p \notin freed

\* The whole packet is handed to the socket.  A peer that is gone may not have
\* been noticed yet: then the packet is lost.
Send(c, p) ==
  /\ SendStart(c, p) /\ sock[c] \in {"open", "peerClosed"}
  /\ toClient' = IF sock[c] = "open"
                 THEN [toClient EXCEPT ![c] = Append(@, p)] ELSE toClient
  /\ senders' = senders \ {<<c, p>>}
  /\ UNCHANGED <<hostVars, watchVars, recvVars, localVars, sock, toHost,
                 nconn, nqueue, nresults, heapVars, partVars>>

\* Any status but Done and Partial is thrown as an error.
SendFails(c, p) ==
  /\ SendStart(c, p) /\ sock[c] \in {"peerClosed", "closed"}
  /\ exceptionThrown' = TRUE
  /\ senders' = senders \ {<<c, p>>}
  /\ UNCHANGED <<added, taskQueue, subTaskQueue, clients, busy, remove, tasks,
                 hostBusy, hostTasks, localQueue, watchVars, recvVars,
                 localVars, netVars, heapVars, partVars>>

\* The client's mutex is gone, or the task to serialize is.
SendDangling(c, p) ==
  /\ <<c, p>> \in senders /\ ~exceptionThrown
  /\ \/ c \in deleted /\ badAccess' = badAccess \cup {<<"sender", "client">>}
     \/ /\ c \notin deleted /\ SocketFree(c) /\ p \in freed
        /\ badAccess' = badAccess \cup {<<"sender", "task">>}
  /\ senders' = senders \ {<<c, p>>}
  /\ UNCHANGED <<hostVars, watchVars, recvVars, localVars, netVars, freed,
                 deleted, partVars>>

SendAborted(c, p) ==
  /\ <<c, p>> \in senders /\ exceptionThrown
  /\ senders' = senders \ {<<c, p>>}
  /\ UNCHANGED <<hostVars, watchVars, recvVars, localVars, netVars, heapVars,
                 partVars>>

-----------------------------------------------------------------------------
(* The listener. *)

Readable(c) == sock[c] = "peerClosed" \/ (sock[c] = "open" /\ toHost[c] # <<>>)

\* Client IDs are handed out in order: the next is the first not yet used.
NextConn(c) == sock[c] = "none" /\ \A d \in Conns : d < c => sock[d] # "none"

\* accept: the new client joins the list, and node n has its connection.
Accept(n) ==
  /\ lpc = "wait" /\ nconn[n] = NoConn
  /\ \E c \in Conns :
       /\ NextConn(c)
       /\ clients' = clients \cup {c}
       /\ sock' = [sock EXCEPT ![c] = "open"]
       /\ nconn' = [nconn EXCEPT ![n] = c]
  /\ lpc' = "join"
  /\ UNCHANGED <<added, taskQueue, subTaskQueue, busy, remove, tasks, hostBusy,
                 hostTasks, localQueue, exceptionThrown, watchVars, senders,
                 rpc, rpart, redist, localVars, toClient, toHost, nqueue,
                 nresults, heapVars, partVars>>

\* Launch a receive thread for clients with something to read.  Those that
\* became readable after the selector was asked, or whose socket a sender has
\* locked, are left for a later pass.
Launch ==
  /\ lpc = "wait"
  /\ \E ready \in SUBSET {c \in clients : ~remove[c] /\ Readable(c)} :
       /\ ready # {}
       /\ rpc' = [c \in Conns |-> IF c \in ready THEN "receive" ELSE rpc[c]]
  /\ lpc' = "join"
  /\ UNCHANGED <<hostVars, watchVars, senders, rpart, redist, localVars,
                 netVars, heapVars, partVars>>

\* The selector timed out: the rest of the loop runs all the same.
ListenTimeout ==
  /\ lpc = "wait"
  /\ \/ exceptionThrown
     \/ \E c \in clients : remove[c]
  /\ lpc' = "join"
  /\ UNCHANGED <<hostVars, watchVars, senders, rpc, rpart, redist, localVars,
                 netVars, heapVars, partVars>>

\* Mutant: only threads that have finished are joined, the others left running.
JoinFinishedReceivers ==
  /\ lpc = "join"
  /\ lpc' = IF exceptionThrown THEN "ended" ELSE "erase"
  /\ UNCHANGED <<hostVars, watchVars, senders, rpc, rpart, redist, localVars,
                 netVars, heapVars, partVars>>

\* The completion flag tested is the pointer to it, never the flag, so every
\* receive thread is joined here on every pass.
JoinReceivers ==
  /\ lpc = "join"
  /\ \A c \in Conns : rpc[c] = "idle"
  /\ lpc' = IF exceptionThrown THEN "ended" ELSE "erase"
  /\ UNCHANGED <<hostVars, watchVars, senders, rpc, rpart, redist, localVars,
                 netVars, heapVars, partVars>>

\* Delete the clients marked for removal whose socket no sender has locked
\* just then, and with each the tasks its list still holds.
EraseDead ==
  /\ lpc = "erase"
  /\ \E dead \in SUBSET {c \in clients : remove[c]} :
       LET orphans == UNION {tasks[c] : c \in dead}
       IN  /\ \A c \in clients \ dead :
                remove[c] => \E s \in senders : s[1] = c
           /\ clients' = clients \ dead
           /\ deleted' = deleted \cup dead
           /\ tasks' = [c \in Conns |-> IF c \in dead THEN {} ELSE tasks[c]]
           /\ freed' = freed \cup orphans
           /\ lost' = lost \cup orphans
  /\ lpc' = "wait"
  /\ UNCHANGED <<added, taskQueue, subTaskQueue, busy, remove, hostBusy,
                 hostTasks, localQueue, exceptionThrown, watchVars, senders,
                 rpc, rpart, redist, localVars, netVars, badAccess, waiting,
                 accepted>>

-----------------------------------------------------------------------------
(* The receive thread of client c. *)

\* A result packet.
Receive(c) ==
  /\ rpc[c] = "receive" /\ ~exceptionThrown
  /\ toHost[c] # <<>>
  /\ rpart' = [rpart EXCEPT ![c] = Head(toHost[c])]
  /\ toHost' = [toHost EXCEPT ![c] = Tail(@)]
  /\ rpc' = [rpc EXCEPT ![c] = "mark"]
  /\ UNCHANGED <<hostVars, watchVars, senders, lpc, redist, localVars, sock,
                 toClient, nconn, nqueue, nresults, heapVars, partVars>>

\* Mutant: the list is copied but not cleared.
ReceiveDisconnectedKeepingTasks(c) ==
  /\ rpc[c] = "receive" /\ ~exceptionThrown
  /\ toHost[c] = <<>> /\ sock[c] = "peerClosed"
  /\ sock' = [sock EXCEPT ![c] = "closed"]
  /\ redist' = [redist EXCEPT ![c] = tasks[c]]
  /\ rpc' = [rpc EXCEPT ![c] = "disconnected"]
  /\ UNCHANGED <<added, taskQueue, subTaskQueue, clients, busy, remove, tasks,
                 hostBusy, hostTasks, localQueue, exceptionThrown, watchVars,
                 senders, lpc, rpart, localVars, toClient, toHost, nconn,
                 nqueue, nresults, heapVars, partVars>>

\* Mutant: the list is cleared before it is copied.
ReceiveDisconnectedClearedFirst(c) ==
  /\ rpc[c] = "receive" /\ ~exceptionThrown
  /\ toHost[c] = <<>> /\ sock[c] = "peerClosed"
  /\ sock' = [sock EXCEPT ![c] = "closed"]
  /\ tasks' = [tasks EXCEPT ![c] = {}]
  /\ rpc' = [rpc EXCEPT ![c] = "disconnected"]
  /\ UNCHANGED <<added, taskQueue, subTaskQueue, clients, busy, remove,
                 hostBusy, hostTasks, localQueue, exceptionThrown, watchVars,
                 senders, lpc, rpart, redist, localVars, toClient, toHost,
                 nconn, nqueue, nresults, heapVars, partVars>>

\* Status Disconnected: close the socket and take the client's tasks.
ReceiveDisconnected(c) ==
  /\ rpc[c] = "receive" /\ ~exceptionThrown
  /\ toHost[c] = <<>> /\ sock[c] = "peerClosed"
  /\ sock' = [sock EXCEPT ![c] = "closed"]
  /\ redist' = [redist EXCEPT ![c] = tasks[c]]
  /\ tasks' = [tasks EXCEPT ![c] = {}]
  /\ rpc' = [rpc EXCEPT ![c] = "disconnected"]
  /\ UNCHANGED <<added, taskQueue, subTaskQueue, clients, busy, remove,
                 hostBusy, hostTasks, localQueue, exceptionThrown, watchVars,
                 senders, lpc, rpart, localVars, toClient, toHost, nconn,
                 nqueue, nresults, heapVars, partVars>>

ReceiveAborted(c) ==
  /\ rpc[c] = "receive" /\ exceptionThrown
  /\ rpc' = [rpc EXCEPT ![c] = "idle"]
  /\ UNCHANGED <<hostVars, watchVars, senders, lpc, rpart, redist, localVars,
                 netVars, heapVars, partVars>>

\* Mark the client for erasure.
MarkRemoved(c) ==
  /\ rpc[c] = "disconnected"
  /\ remove' = [remove EXCEPT ![c] = TRUE]
  /\ rpc' = [rpc EXCEPT ![c] = "redistribute"]
  /\ UNCHANGED <<added, taskQueue, subTaskQueue, clients, busy, tasks,
                 hostBusy, hostTasks, localQueue, exceptionThrown, watchVars,
                 senders, lpc, rpart, redist, localVars, netVars, heapVars,
                 partVars>>

\* Mutant: the tasks are not put back on the sub task queue.
RedistributeNothing(c) ==
  /\ rpc[c] = "redistribute"
  /\ waiting' = waiting \cup redist[c]
  /\ redist' = [redist EXCEPT ![c] = {}]
  /\ rpc' = [rpc EXCEPT ![c] = "idle"]
  /\ UNCHANGED <<added, taskQueue, subTaskQueue, clients, busy, remove,
                 tasks, hostBusy, hostTasks, localQueue, exceptionThrown,
                 watchVars, senders, lpc, rpart, localVars, netVars, heapVars,
                 accepted, lost>>

\* Put the tasks taken from it back on the sub task queue.
Redistribute(c) ==
  /\ rpc[c] = "redistribute"
  /\ subTaskQueue' = subTaskQueue \cup redist[c]
  /\ waiting' = waiting \cup redist[c]
  /\ redist' = [redist EXCEPT ![c] = {}]
  /\ rpc' = [rpc EXCEPT ![c] = "idle"]
  /\ UNCHANGED <<added, taskQueue, clients, busy, remove, tasks, hostBusy,
                 hostTasks, localQueue, exceptionThrown, watchVars, senders,
                 lpc, rpart, localVars, netVars, heapVars, accepted, lost>>

\* The task of an accepted result is deleted.
FinishTask(p) ==
  /\ freed' = freed \cup {p}
  /\ accepted' = [accepted EXCEPT ![p] = @ + 1]

\* Host::markTaskFinished, first the tasks the host keeps itself ...
MarkHost(c) ==
  /\ rpc[c] = "mark"
  /\ IF rpart[c] \in hostTasks
     THEN /\ hostTasks' = hostTasks \ {rpart[c]}
          /\ FinishTask(rpart[c])
          /\ rpc' = [rpc EXCEPT ![c] = "accepted"]
     ELSE /\ rpc' = [rpc EXCEPT ![c] = "markClients"]
          /\ UNCHANGED <<hostTasks, freed, accepted>>
  /\ UNCHANGED <<added, taskQueue, subTaskQueue, clients, busy, remove, tasks,
                 hostBusy, localQueue, exceptionThrown, watchVars, senders,
                 lpc, rpart, redist, localVars, netVars, deleted, badAccess,
                 waiting, lost>>

\* ... then those of the clients, whichever of them the result came from.
MarkClients(c) ==
  /\ rpc[c] = "markClients"
  /\ \/ \E d \in clients :
          /\ rpart[c] \in tasks[d]
          /\ tasks' = [tasks EXCEPT ![d] = @ \ {rpart[c]}]
          /\ FinishTask(rpart[c])
          /\ rpc' = [rpc EXCEPT ![c] = "accepted"]
     \/ /\ \A d \in clients : rpart[c] \notin tasks[d]
        /\ rpc' = [rpc EXCEPT ![c] = "answered"]
        /\ UNCHANGED <<tasks, freed, accepted>>
  /\ UNCHANGED <<added, taskQueue, subTaskQueue, clients, busy, remove,
                 hostBusy, hostTasks, localQueue, exceptionThrown, watchVars,
                 senders, lpc, rpart, redist, localVars, netVars, deleted,
                 badAccess, waiting, lost>>

\* The result joins the incomplete results and complete sets are looked for:
\* module ResultAssembly has the steps between "accepted" and "answered".
ResultQueued(c) ==
  /\ rpc[c] = "accepted"
  /\ rpc' = [rpc EXCEPT ![c] = "answered"]
  /\ UNCHANGED <<hostVars, watchVars, senders, lpc, rpart, redist, localVars,
                 netVars, heapVars, partVars>>

\* Mutant: the client stays busy.
AnsweredStillBusy(c) ==
  /\ rpc[c] = "answered"
  /\ rpart' = [rpart EXCEPT ![c] = None]
  /\ rpc' = [rpc EXCEPT ![c] = "idle"]
  /\ UNCHANGED <<hostVars, watchVars, senders, lpc, redist, localVars, netVars,
                 heapVars, partVars>>

\* The client counts as free again, whatever else it still has to do.
Answered(c) ==
  /\ rpc[c] = "answered"
  /\ busy' = [busy EXCEPT ![c] = FALSE]
  /\ rpart' = [rpart EXCEPT ![c] = None]
  /\ rpc' = [rpc EXCEPT ![c] = "idle"]
  /\ UNCHANGED <<added, taskQueue, subTaskQueue, clients, remove, tasks,
                 hostBusy, hostTasks, localQueue, exceptionThrown, watchVars,
                 senders, lpc, redist, localVars, netVars, heapVars, partVars>>

-----------------------------------------------------------------------------
(* The local processing thread. *)

LocalCopy ==
  /\ hpc = "idle" /\ HostAsClient /\ ~exceptionThrown
  /\ localQueue # {}
  /\ hbatch' = localQueue
  /\ hpc' = "next"
  /\ UNCHANGED <<hostVars, watchVars, senders, recvVars, hcur, netVars,
                 heapVars, partVars>>

\* Split the next part of the copy for the cores and take it off the queue.
LocalStart ==
  /\ hpc = "next"
  /\ \E p \in hbatch \ freed :
       /\ hcur' = p
       /\ hbatch' = hbatch \ {p}
       /\ localQueue' = localQueue \ {p}
  /\ hpc' = "run"
  /\ UNCHANGED <<added, taskQueue, subTaskQueue, clients, busy, remove, tasks,
                 hostBusy, hostTasks, exceptionThrown, watchVars, senders,
                 recvVars, netVars, heapVars, partVars>>

\* The next part of the copy was deleted since.
LocalStartDangling ==
  /\ hpc = "next" /\ hbatch \cap freed # {}
  /\ badAccess' = badAccess \cup {<<"local", "task">>}
  /\ hpc' = "ended"
  /\ UNCHANGED <<hostVars, watchVars, senders, recvVars, hbatch, hcur, netVars,
                 freed, deleted, partVars>>

\* Run it; a host with one core runs the part itself and not a split of it.
LocalRun ==
  /\ hpc = "run"
  /\ IF ~HostSplits /\ hcur \in freed
     THEN /\ badAccess' = badAccess \cup {<<"local", "task">>}
          /\ hpc' = "ended"
     ELSE /\ hpc' = "mark"
          /\ UNCHANGED badAccess
  /\ UNCHANGED <<hostVars, watchVars, senders, recvVars, hbatch, hcur, netVars,
                 freed, deleted, partVars>>

\* Mutant: the finished task is deleted but stays in tasksAssignedAsClient.
LocalMarkHostKept ==
  /\ hpc = "mark"
  /\ IF hcur \in hostTasks
     THEN FinishTask(hcur) /\ hpc' = "accepted"
     ELSE hpc' = "markClients" /\ UNCHANGED <<freed, accepted>>
  /\ UNCHANGED <<added, taskQueue, subTaskQueue, clients, busy, remove, tasks,
                 hostBusy, hostTasks, localQueue, exceptionThrown, watchVars,
                 senders, recvVars, hbatch, hcur, netVars, deleted, badAccess,
                 waiting, lost>>

LocalMarkHost ==
  /\ hpc = "mark"
  /\ IF hcur \in hostTasks
     THEN /\ hostTasks' = hostTasks \ {hcur}
          /\ FinishTask(hcur)
          /\ hpc' = "accepted"
     ELSE /\ hpc' = "markClients"
          /\ UNCHANGED <<hostTasks, freed, accepted>>
  /\ UNCHANGED <<added, taskQueue, subTaskQueue, clients, busy, remove, tasks,
                 hostBusy, localQueue, exceptionThrown, watchVars, senders,
                 recvVars, hbatch, hcur, netVars, deleted, badAccess, waiting,
                 lost>>

\* A locally computed result nobody owns the task of is thrown as an error.
LocalMarkClients ==
  /\ hpc = "markClients"
  /\ LET owners == {d \in clients : hcur \in tasks[d]}
     IN  IF owners # {}
         THEN /\ \E d \in owners : tasks' = [tasks EXCEPT ![d] = @ \ {hcur}]
              /\ FinishTask(hcur)
              /\ hpc' = "accepted"
              /\ UNCHANGED exceptionThrown
         ELSE /\ exceptionThrown' = TRUE
              /\ hpc' = "ended"
              /\ UNCHANGED <<tasks, freed, accepted>>
  /\ UNCHANGED <<added, taskQueue, subTaskQueue, clients, busy, remove,
                 hostBusy, hostTasks, localQueue, watchVars, senders, recvVars,
                 hbatch, hcur, netVars, deleted, badAccess, waiting, lost>>

\* The result is queued and complete sets are looked for (ResultAssembly);
\* after the last part of the copy the host is free again.
LocalQueued ==
  /\ hpc = "accepted"
  /\ hcur' = None
  /\ hostBusy' = (hostBusy /\ hbatch # {})
  /\ hpc' = IF hbatch = {} THEN "idle" ELSE "next"
  /\ UNCHANGED <<added, taskQueue, subTaskQueue, clients, busy, remove, tasks,
                 hostTasks, localQueue, exceptionThrown, watchVars, senders,
                 recvVars, hbatch, netVars, heapVars, partVars>>

LocalEnd ==
  /\ hpc = "idle" /\ exceptionThrown
  /\ hpc' = "ended"
  /\ UNCHANGED <<hostVars, watchVars, senders, recvVars, hbatch, hcur, netVars,
                 heapVars, partVars>>

-----------------------------------------------------------------------------
(* The nodes: the client programs, and their connections. *)

\* ClientListener::listenThread queues a task it received.
NodeReceive(n) ==
  LET c == nconn[n]
  IN  /\ c # NoConn /\ toClient[c] # <<>>
      /\ nqueue' = [nqueue EXCEPT ![n] = Append(@, Head(toClient[c]))]
      /\ toClient' = [toClient EXCEPT ![c] = Tail(@)]
      /\ UNCHANGED <<hostVars, watchVars, senders, recvVars, localVars, sock,
                     toHost, nconn, nresults, heapVars, partVars>>

\* Client::processTaskThread computes the result of the first task.
NodeProcess(n) ==
  /\ nqueue[n] # <<>>
  /\ nresults' = [nresults EXCEPT ![n] = Append(@, Head(nqueue[n]))]
  /\ nqueue' = [nqueue EXCEPT ![n] = Tail(@)]
  /\ UNCHANGED <<hostVars, watchVars, senders, recvVars, localVars, sock,
                 toClient, toHost, nconn, heapVars, partVars>>

\* ClientSender::sendThread sends the first result.
NodeSend(n) ==
  LET c == nconn[n]
  IN  /\ c # NoConn /\ nresults[n] # <<>>
      /\ toHost' = [toHost EXCEPT ![c] = Append(@, Head(nresults[n]))]
      /\ nresults' = [nresults EXCEPT ![n] = Tail(@)]
      /\ UNCHANGED <<hostVars, watchVars, senders, recvVars, localVars, sock,
                     toClient, nconn, nqueue, heapVars, partVars>>

\* The connection breaks.  What was under way to the node is lost, and so is
\* any tail of what was under way to the host; the node keeps its queues and
\* connects again.
Drop(n) ==
  LET c == nconn[n]
  IN  /\ c # NoConn
      /\ Cardinality({d \in Conns : sock[d] \in {"peerClosed", "closed"}})
           < MaxDrops
      /\ sock' = [sock EXCEPT ![c] = "peerClosed"]
      /\ toClient' = [toClient EXCEPT ![c] = <<>>]
      /\ \E k \in 0 .. Len(toHost[c]) :
           toHost' = [toHost EXCEPT ![c] = SubSeq(@, 1, k)]
      /\ nconn' = [nconn EXCEPT ![n] = NoConn]
      /\ UNCHANGED <<hostVars, watchVars, senders, recvVars, localVars, nqueue,
                     nresults, heapVars, partVars>>

-----------------------------------------------------------------------------
Watcher ==
  \/ Watch \/ WatchTimeout \/ WatchEnd \/ Divide \/ CopyQueue \/ TakeTask
  \/ PlaceLocal \/ PickClient \/ AssignClient \/ AssignDeleted \/ ClearQueue
  \/ JoinSenders \/ EraseSent

Sender(c, p) ==
  Send(c, p) \/ SendFails(c, p) \/ SendDangling(c, p) \/ SendAborted(c, p)

Listener ==
  \/ \E n \in Nodes : Accept(n)
  \/ Launch \/ ListenTimeout \/ JoinReceivers \/ EraseDead

Receiver(c) ==
  \/ Receive(c) \/ ReceiveDisconnected(c) \/ ReceiveAborted(c)
  \/ MarkRemoved(c) \/ Redistribute(c) \/ MarkHost(c) \/ MarkClients(c)
  \/ ResultQueued(c) \/ Answered(c)

Local ==
  \/ LocalCopy \/ LocalStart \/ LocalStartDangling \/ LocalRun
  \/ LocalMarkHost \/ LocalMarkClients \/ LocalQueued \/ LocalEnd

Node(n) == NodeReceive(n) \/ NodeProcess(n) \/ NodeSend(n)

Next ==
  \/ \E t \in Tasks : AddTask(t)
  \/ Watcher
  \/ \E c \in Conns, p \in Parts : Sender(c, p)
  \/ Listener
  \/ \E c \in Conns : Receiver(c)
  \/ Local
  \/ \E n \in Nodes : Node(n) \/ Drop(n)

Spec == Init /\ [][Next]_vars

\* Every thread of the host and of the nodes keeps being scheduled; a node
\* without a connection keeps trying to connect (main.cpp of the client).
\* Nothing obliges the application to submit a task or a connection to break.
FairSpec ==
  /\ Spec
  /\ WF_vars(Watcher)
  /\ \A c \in Conns, p \in Parts : WF_vars(Sender(c, p))
  /\ WF_vars(Listener)
  /\ \A n \in Nodes : WF_vars(Accept(n)) /\ WF_vars(Node(n))
  /\ \A c \in Conns : WF_vars(Receiver(c))
  /\ WF_vars(Local)
-----------------------------------------------------------------------------
(* Properties. *)

\* Where a part that has been divided off may be.
Tracked  == hostTasks \cup UNION {tasks[c] : c \in Conns}
InRedist == UNION {redist[c] : c \in Conns}
Finished == {p \in Parts : accepted[p] > 0}
Places   == waiting \cup Tracked \cup InRedist \cup Finished \cup lost

\* A part is in one place only: waiting to be sent, tracked by one owner (one
\* client or the host), on its way back from a lost client, answered, or lost.
\* Host::markTaskFinished deletes the first task it finds for a result and the
\* destructors delete what is left, so two places would be a double delete.
OnePlace ==
  /\ \A c \in Conns : tasks[c] \cap hostTasks = {}
  /\ \A c, d \in Conns : c # d => tasks[c] \cap tasks[d] = {}
  /\ \A c, d \in Conns : c # d => redist[c] \cap redist[d] = {}
  /\ waiting \cap (Tracked \cup InRedist \cup Finished \cup lost) = {}
  /\ Tracked \cap (InRedist \cup Finished \cup lost) = {}
  /\ InRedist \cap (Finished \cup lost) = {}
  /\ Finished \cap lost = {}

\* However often a part is sent and a result comes back for it, at most one
\* result is accepted: a second would be merged into the task's result twice.
AcceptedOnce == \A p \in Parts : accepted[p] <= 1

\* No task the host may still send, time, redistribute or match a result with
\* has been deleted; in particular sendSubTasks never reads a deleted task.
LiveTasksExist ==
  /\ (waiting \cup Tracked \cup InRedist) \cap freed = {}
  /\ cur # None => cur \notin freed

\* A client has one receive thread at a time and is not deleted under it: the
\* listener neither looks for readable clients nor erases dead ones while a
\* receive thread runs.
ReceiversJoined ==
  \A c \in Conns : rpc[c] # "idle" => lpc = "join" /\ c \in clients \ deleted

\* A part never vanishes unnoticed: once divided off it is waiting, tracked,
\* being redistributed, answered, or one of those clear(), the final erase of
\* sendSubTasks and ~ClientDetails drop.
PartsConserved == [][Places \subseteq Places']_vars

\* A client that has an unfinished task counts as busy (ClientDetails::busy).
BusyWhileTasked ==
  \A c \in clients : ~remove[c] /\ tasks[c] # {} => busy[c]

\* The tasks of a client that disconnects go to other clients: no part is
\* dropped without a result.
NothingLost == lost = {}

\* Without breaks and slow tasks the host does not fail: no thread throws (the
\* local thread always finds an owner for its result, sockets accept what is
\* sent) and none uses a client or a task that another has deleted.
NoFailure == ~exceptionThrown /\ badAccess = {}

TaskDone(t) ==
  /\ accepted[<<t, 0>>] = 1
  /\ \A p \in waiting \cup Tracked \cup InRedist \cup lost : p[1] # t

\* While no connection breaks, every task submitted gets all its results.
EveryTaskDone == \A t \in Tasks : t \in added ~> TaskDone(t)

\* Whatever connections break, a part does not stay undecided for ever: it is
\* answered or lost, or the host has failed.
EveryPartSettles ==
  \A p \in Parts :
    p \in waiting \cup Tracked \cup InRedist
      ~> \/ accepted[p] = 1 \/ p \in lost
         \/ exceptionThrown \/ badAccess # {}

-----------------------------------------------------------------------------
(* What the host promises about each part: see module PartService.  A part  *)
(* taken back from a lost client counts as waiting.                         *)

partStatus ==
  [p \in Parts |->
     IF p \in Finished THEN "answered"
     ELSE IF p \in lost THEN "lost"
     ELSE IF p \in Tracked THEN "owned"
     ELSE IF p \in waiting \cup InRedist THEN "waiting"
     ELSE "none"]

Service == INSTANCE PartService WITH status <- partStatus

\* The host implements PartService: through all its copies, retries and late
\* results each part takes only the steps of the service.
ImplementsService == Service!Spec

-----------------------------------------------------------------------------
(* The inductive invariant behind the safety properties above. *)

\* What the watcher holds: the parts it has yet to place are waiting, the one
\* in hand is among them, and between two batches the queue holds only waiting
\* parts (during a batch it still holds the parts already placed).
WatcherInv ==
  /\ todo \subseteq waiting
  /\ wpc \in {"place", "assign"} => cur \in todo
  /\ wpc \notin {"place", "assign", "ended"} => cur = None
  /\ cur # None => cur \in todo
  /\ wpc = "assign" => freeClient # NoConn
  /\ wpc \in {"wait", "erase"} => todo = {}
  /\ wpc \in {"watch", "divide", "copy", "wait", "erase"}
       => subTaskQueue \subseteq waiting

\* A task not yet divided has no parts anywhere.
FreshInv ==
  /\ taskQueue \subseteq added
  /\ \A p \in Places : p[1] \in added \ taskQueue

\* A task is deleted only when it is answered or lost.
FreedInv == freed \subseteq Finished \cup lost

\* Receivers run only while the listener waits to join them, each for a client
\* in the list; what they hold depends on where they are.
ReceiverInv ==
  /\ clients \cap deleted = {}
  /\ \A c \in clients \cup deleted : sock[c] # "none"
  /\ \A c \in Conns :
       /\ rpc[c] # "idle" => lpc = "join" /\ c \in clients
       /\ rpc[c] \notin {"disconnected", "redistribute"} => redist[c] = {}
       /\ rpc[c] \in {"mark", "markClients", "accepted"} => rpart[c] \in Parts

LocalInv ==
  hpc \in {"run", "mark", "markClients", "accepted"} => hcur \in Parts

PartInv   == OnePlace /\ AcceptedOnce /\ FreshInv /\ FreedInv
ThreadInv == WatcherInv /\ ReceiverInv /\ LocalInv
IInv      == TypeOK /\ PartInv /\ ThreadInv
=============================================================================
