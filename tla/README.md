# ClusterFrac in TLA+

ClusterFrac divides a task into parts, computes the parts on a host and on the
client nodes connected to it, and merges their results. This directory holds TLA+
models of the library (`src/ClusterFrac/source`) and of the way the client program
and the two applications use it, TLC configurations that check them on small
instances, and TLAPS proofs of their main safety properties for every size.

In short: for as long as nothing fails, every task is answered completely and its
values come out right and in order. When connections break or two results arrive
at the same moment, it is still certain that a part gets at most one result, that no
result is thrown away and that no part disappears unnoticed. But parts can be dropped, a
task can be completed twice, and a packet that is sent in two pieces is no longer the one it
was: three runs end in a counterexample that shows it. A client can also be given a second part, and
parts of one value can lose their place (see "Disagreements").

## Inventory

### Components, state and operations

| Component | Where | State | Operations |
|---|---|---|---|
| Host | `Host.cpp` | `taskQueue`, `subTaskQueue`, `clients`, `busy`, `tasksAssignedAsClient`, `localHostAsClientTaskQueue`, `resultQueueIncomplete`, `resultQueueComplete`, one mutex for each | `addTaskToQueue`, `divideTasksIntoSubTaskQueue`, `sendSubTasks`, `markTaskFinished`, `checkForCompleteResults`, `getAvailableResult`, `removeResultFromQueue`, `start`, `stop`, `setHostAsClient` |
| Task watcher | `HostTaskWatcher.cpp` | a thread | loop: time-outs, divide, send |
| Task senders | `HostSender.cpp` | a thread per part being sent | wait for the client's socket, send, wait for all |
| Host listener | `HostListener.cpp` | a thread; receive threads with their completion flags | accept, launch receivers, join them, erase dead clients |
| Receivers | `HostListener.cpp` | a thread per ready client | receive a result and finish its task; on `Disconnected` give the client's tasks back |
| Client record | `ClientDetails.hpp` | `tasks`, `busy`, `remove`, `socket`, `socketMutex` | held by the host for each connection |
| Local processing | `Host.cpp` | a thread | run a part of a task on the host itself |
| Client node | `Client.cpp`, `ClientListener.cpp`, `ClientSender.cpp`, `ClusterFracClient/source/main.cpp` | `connected`, `socket`, `socketMutex`, `taskQueue`, `resultQueueComplete`; four threads | connect and reconnect, receive, process, send |
| Tasks and results | `Task.cpp`, `Result.cpp` and the `Benchmark` and `Mandelbrot` classes | part number and total stacks, a range of values | `split`, `run`, `merge` |
| Work packets | `WorkPacket.cpp` | flag, bytes, compression | `onSend`, `onReceive` |
| Exception flag | `ConsoleMessager.hpp` | `exceptionThrown` | one thread's exception ends all threads |
| Mandelbrot | `CFMandelbrot` | current view, `cache`, `stateChanged`, `zoomingIn` | handle events, ask for views, match results, show, `purgeCache` |
| Benchmark | `Benchmark` | result in use, statistics file | submit, poll, use, remove |
| IDs and settings | `IDManager`, `Settings` | counters, log level | next ID |

### Interaction

- Host threads share the queues and the `ClientDetails` records. Each queue has a
  mutex, and most functions hold it for a stretch, copy what they need and go on with the
  copy. Most of what is hard in this code lies between a copy and its use.
- Watcher to sender: one thread per part, joined before the next batch.
- Listener to receivers: launched on readability, joined on the same pass.
- Receivers and local thread to result queues: both append and run
  `checkForCompleteResults`; the application polls with `getAvailableResult`.
- Host to node: a TCP connection with whole packets; a node reconnects by itself.
- Node threads share one socket and a mutex for receive and send, not for connect or
  disconnect.
- Either side's sender hands a `WorkPacket` to `sf::TcpSocket`, which calls `onSend`; the
  other side's listener collects bytes until the announced size is there and calls `onReceive`.
- Application to host: `addTaskToQueue`, polling for a complete result, `removeResultFromQueue`,
  `start`, `setHostAsClient`, and the destructor, which calls `stop`.

### What is hard, and what makes each component correct

- **Dispatch** (interleaving, stale copies, lost connections, late and doubled results,
  time-outs): a part is in one place at a time, gets at most one result, is never
  dropped unnoticed; nothing deleted is used; a client with work counts as busy; every
  task is answered.
- **Result queues** (two threads work on copies of one queue): no result is dropped, no
  whole set is left, every set is completed, once.
- **Split and merge** (two levels of splits, results in any order, remainders): the
  merged result equals the task run in one piece.
- **Host and application together** (results on their way while the application stops): a task
  submitted comes back, a task delivered leaves nothing behind, and each result is deleted once.
- **Node** (three threads and one socket, reconnection, an end at any moment): nothing received is
  lost, a result is deleted only when sent, the node always gets connected again, and its
  destructor returns.
- **Lifecycle** (start, stop, destructor, switching local processing on and off): threads end before
  what they use is deleted, calls return, and switching strands one part at most.
- **Views** (keys pressed while results are on their way, nodes that come and go, a cache that
  is full): the image shown is that of the current view, no view is computed twice, every result
  is deleted with its view.
- **Packets** (partial sends, a full buffer, compression): what is received is what was sent, up to the
  first packet that was cut.

`PROJECT.json` lists each hazard at its line with the properties that watch it.

## Modules

| Module | What it is |
|---|---|
| `HostDispatch` | the five kinds of host threads, the nodes as their environment, connections that break |
| `PartService` | abstract specification: what the host promises about each part |
| `ResultAssembly` | the result queues: several threads in `checkForCompleteResults`, and the application |
| `HostSystem` | `ResultAssembly` composed with `PartService` and the application: from submission to the deletion of the host |
| `SplitMerge` | what happens to the values: split, run, match, collect, merge |
| `ClientNode` | the four threads of a node and its socket, to the end of its destructor |
| `PacketStream` | the bytes of work packets on one connection, with `onSend`, `onReceive` and the send loops |
| `PacketChannel` | abstract specification: a connection that carries whole packets |
| `ViewCache` | the Mandelbrot application's render loop and its cache of views |
| `HostLifecycle` | start, `setHostAsClient`, stop and the destructor against the threads of the host |
| `HostDispatchProofs`, `ResultAssemblyProofs`, `SplitMergeProofs`, `ClientNodeProofs`, `HostLifecycleProofs`, `ViewCacheProofs`, `HostSystemProofs`, `PacketStreamProofs` | theorems |
| `MCHostDispatch`, `MCResultAssembly`, `MCSplitMerge`, `MCClientNode`, `MCHostLifecycle`, `MCViewCache`, `MCHostSystem`, `MCPacketStream` | constants for TLC |

How they fit together: `HostDispatch` has one step between *accepted* and *answered*
(`ResultQueued`, `LocalQueued`) where `ResultAssembly` has all of
`checkForCompleteResults`. `ResultAssembly` assumes at most one accepted result per part,
which is `AtMostOneResult` of `HostDispatchProofs`. `HostSystem` puts the two together: the
threads get the results they append from `PartService`, which `HostDispatch` implements
(`Implements`, `ImplementsService`), and the theorem `SystemImplements` says that the queues then behave as
`ResultAssembly` alone. Both identify a result
with its part; `SplitMerge` has the part number stacks instead, and shows for which
tasks that is right (`ResultsMatch`) and that no value comes twice for the others (`ValuesOnce`). The node in
`HostDispatch` is three actions that a node's threads perform (`NodeReceive`, `NodeProcess`, `NodeSend`),
and `Drop`; `ClientNode` has those threads. Both take packets as a whole; `PacketStream` shows when that
is right (`IntactUpToCut`) and when it is not (`Uncorrupted`): as long as no send call returns `Partial`. `PacketChannel` is what the
other modules take a connection for, and `PacketStream` implements it (`BytesCarryPackets`, `ImplementsChannel`).

### HostDispatch

Variables carry the source's names where there is one (`clients`, `busy`, `remove`,
`tasks`, `subTaskQueue`, ...). `wpc`, `lpc`, `rpc`, `hpc` say where the threads are,
`senders` which sender threads run. History variables: `freed` and `deleted` (objects
whose destructor ran), `badAccess` (uses of those), and for each part `waiting`, `accepted`, `lost`.

An action is a stretch of code between two points at which another thread can see or
change what it depends on, mostly one critical section:

- `sendSubTasks` is `CopyQueue`, `TakeTask`, `PlaceLocal`, `PickClient`, `AssignClient`,
  `ClearQueue`, `JoinSenders`, `EraseSent`. `PickClient` releases `clientsMutex` before
  `AssignClient` uses the client; `ClearQueue` takes no mutex.
- A receiver is `Receive`, then `MarkHost`, `MarkClients`, `ResultQueued`, `Answered` for
  a result, or `ReceiveDisconnected`, `MarkRemoved`, `Redistribute` for a lost client.
  Between those three the watcher can clear the queue, and the client still counts.
- The listener is `Accept`, `Launch`, `ListenTimeout`, `JoinReceivers`, `EraseDead`. The
  completion test of line 142 tests a pointer, so a pass joins *every* receiver; the
  model does the same.
- `AssignDeleted`, `SendDangling` and `LocalStartDangling` are uses of deleted objects.
  They are recorded in `badAccess`, and the thread goes no further.
- `WatchTimeout` is the exception of a task over its time. A task in `Slow` may be over its time
  whenever the watcher looks.

Queues are sets: `sendSubTasks` goes through its copy in any order, which includes
the code's. A connection carries whole packets and sending never blocks: the
bytes of packets are in `PacketStream`. A node that crashes is a node
that connects no more, and a new one is another member of `Nodes`.

### ResultAssembly

Several threads append results and run `checkForCompleteResults`: `Copy` under the lock,
`CompleteSet` for one set, in any order, `EndScan`, `Remove` under the lock.
`getAvailableResult` hands the application a pointer; `removeResultFromQueue` deletes it.
When a deleted result has been used the threads go no further (`badAccess`). `raced` records that two
scans overlapped, or that the application deleted a result in a thread's copy: the two ways in which
this code goes wrong. `OnceUnraced` and `AliveUnraced` say that there is no third.

### HostSystem

The application submits tasks (`AddTaskToQueue`), takes and removes results (`TakeResult`, `DropResult`), rejects one and
throws as the benchmark does (`RejectResult`), or ends (`Quit`). `status` is the state of `PartService`: `Divide`,
`HandOut`, `Lose` and `Accept` are its steps. `held` is a result between `markTaskFinished` and the queue, which are two
steps in the code (`HostListener.cpp:268-280`). A thread that has a result goes on with it also when `exceptionThrown` is set
or the application is in `~Host`, as nothing on its way looks at a flag. `Clean` is what `stop` does to the two queues when all
threads have been joined, which is `ThreadsJoined` of `HostLifecycle`.

### SplitMerge

A task is a range of values; a value's result is the value. `Split` pushes a part number and
total, `Merge` sorts by the last number and pops both. `setup` holds the number of clients
when the task is divided and the most threads a node has. Each node may use any number of threads
up to that, so nodes differ. `SplitLocal` gives the last piece the whole remainder. `InOrder` is the order that `std::sort`
leaves the results in. `Divisible` says that no node with several threads has a part of one value. `SplitConstants` asks only that
each range has a value (`splitLocal` divides by the number of pieces) and that there are clients and threads.

### ClientNode

`connected`, `socket` and `blocking` are separate, since `connect` and `disconnect` set them
one after the other without the mutex. `late` records that a connection was made while a
thread was still busy with the last one, `partial` and `garbled` that a packet was cut and that the
rest of one went out on another connection than its beginning.
`run` holds the run flags of the three other threads. `Quit` (the user) and `Abort` (an exception) lead to the destructor, which
tells one thread after the other to end and waits for it. `CopyTasks`, `StartTask`, `FinishTask`: the processing thread works off its
copy of the queue before it looks at its flag again. `ReceiveThrows` is a packet that `onReceive` refuses. A listener whose `receive`
waits on a socket that is still set to block (`blocked`) is woken only by a new connection, a disconnect or something that
arrives; the destructor does none of these.

### PacketStream

One direction of one connection, from the host to a node or back (`flag`). `Serialize` fills the packet, `SendDone`, `SendPartial`
and `SendRefused` are one call of `send` each, by how much room there is. Each call runs `onSend`, so `OnSend` appends the flag
every time, and the block with the size in front is made anew, of which the socket sends what is behind its old position
(`Rest`). `ReceiveSome` collects bytes until as many are there as the first ones say; then `Meanings` is what `onReceive` may
make of them. What has the flag and begins with the type the receiver expects is a task or a result (`Accept`); a packet without
a flag is logged, and a node ignores one without data (`Ignore`); at anything else the receiver throws (`Throw`). zlib is external:
of bytes of a stream it makes what was compressed to that stream, if those are as many as the packet announces; else, and
for any compressed packet since the size of the buffer is not initialised, `onReceive` throws (`Mismatch`). What else zlib might
make of a damaged stream is left out: nothing is promised behind a cut. Bytes are digits below `Base`;
sizes take two of them and the names of type and subtype one each, where the code's take more.
`cut` records the first packet that was sent in pieces, and `Safe` how many packets come before it.

### HostLifecycle

`app` says where the application's thread is in a call: `free`, or waiting in a join of
`setHostAsClient(false)` or `stop`, step by step. `runLocal`, `listen` and `watch` are the flags,
`local`, `listener` and `watcher` their threads. `runLocal` starts with any value, as the
constructor leaves it. The work is reduced to counts: parts the watcher has not looked at
(`waiting`), has still to place (`batch`), on the local queue, in the local thread's copy,
answered. That is what decides whether a thread comes to look at its flag. As in the code the host takes a part first,
unless it is busy (`hostBusy`). Clients come but do not go; `HostDispatch` has the rest. Local processing may be switched on and off at
any time; `Stranded` counts the part that lies on the local queue when no thread is left to compute it, and
`PartsAnswered` promises all the others. `dangling` records that a first `stop` left deleted objects on the lists.

### ViewCache

A frame is `PollEvent`s, `BeginSearch`, any number of `NewView`/`EnterView`, `EndSearch`, `Match`, `Show` and
`PurgeCache`; `at` says where in it the thread is. `newView` is two actions, because the host works while the
application goes on: between handing over the task and reading its ID the task may be answered and
deleted (`stale`). The host is reduced to its tasks, `pending` or `complete`, answered in any order. A view
is a position and a zoom level; how far a key pans is open. `PollEvent` drops an event when the image is out of date, as the code
does. The window's events come when a frame begins, which is when they are seen.

## Runs

| Run | Instance | Checks | Shows |
|---|---|---|---|
| `dispatch` | 1 task of 2 parts, host and 2 nodes, 3 connections, 1 break, slow task | `OnePlace`, `AcceptedOnce`, `LiveTasksExist`, `ReceiversJoined`, `PartsConserved` | safety of dispatch with breaks, late results and time-outs |
| `dispatch_remote` | 1 task of 2 parts, host not computing, 2 nodes, 2 connections, 1 break, fair | `IInv`, `EveryPartSettles`, `ImplementsService` | the invariant used in the proofs, with the types; the abstract service; no part undecided for ever |
| `dispatch_steady` | 2 tasks (any node / remote only), host and 1 node, no break, fair, deadlock checked | `NoFailure`, `BusyWhileTasked`, `EveryTaskDone` | without failures everything is answered and nothing fails |
| `system` | 2 threads, a task of 2 parts and one of 1, parts lost, application that stops or throws, fair | `NoResultLost`, `NothingStranded`, `OnceUnraced`, `AliveUnraced`, `LeavesNothing`, `DeletedOnce`, `EveryTaskDelivered` | no accepted result is lost, no set is left behind; until scans overlap each is completed and deleted once; what is submitted is delivered |
| `packets` | 3 packets of 2 payloads, room for 1, 3, 4 or 8 bytes, 2 partial sends, with and without compression, fair | `IntactUpToCut`, `AllArrive`, `ImplementsChannel` | packets arrive as they were sent up to the first that was cut, and all arrive if none was; bytes implement whole packets |
| `views` | 1 or 2 nodes, 2 results kept, 2 events, fair | `ShownIsCurrent`, `AskedOnce`, `ResultsTracked`, `ViewShown` | the cache and the image stay right, and the view chosen is shown |
| `split` | ranges of 1 to 10, 1 to 3 clients, 1 to 3 threads | `CompleteRight`, `AllMatched`, `Settles`, `NoValueTwice` | right results wherever parts can be split on their nodes |
| `node` | 2 tasks, 1 break, 1 full buffer, an end at any time, fair | `SentWhole`, `NoWorkLost`, `ConnectedTruly`, `Reconnects`, `Stops`, `NotDeceived`, `EveryTaskAnswered` | a node loses nothing, comes back, and ends when told to |
| `lifecycle` | 2 clients, 3 parts, fair | `ThreadsJoined`, `OnePartLocal`, `CallsReturn`, `PartsAnswered` | nothing is deleted under a running thread; calls return, except for a watcher without a free client; a started host answers all but one part at most that switching strands |
| `dispatch_lost` | 1 task of 2 parts, host and 1 node, 2 connections, 1 break | `NothingLost` is violated | parts of a lost client can be dropped |
| `assembly_twice` | 2 threads, 2 tasks of 2 parts | `CompletedOnce` is violated | two threads complete a set twice |
| `packets_partial` | as `packets` | `Uncorrupted` is violated | going on after `Partial` sends a longer packet than was announced: it arrives, the next one does not, and the receiver throws |

Deadlock is checked in `dispatch_steady`, where a circle of waiting threads would show.
Elsewhere the system really may stop: the host after an exception, the finite work of
`split` and `packets` when it is done, a deleted host in `lifecycle` and `system`, a deleted client in `node`, a closed window in `views`.

### Bounds

- `MaxConns` bounds the connections accepted in a run, `MaxDrops` those that break. Two
  connections and a break are the least with a late result from a lost connection. `dispatch_remote`
  leaves the host out so that two senders run at once. Three connections and two nodes
  (`dispatch`) give a part that moves from one client to another while the first
  result is under way. The proofs have no such bound.
- `Values = 2` cuts a task into at most two parts: with two, one can be accepted, lost or in transit
  while the other is elsewhere.
- `system`: two threads and a set of two parts are the least where one thread's copy misses
  what the other appended; a task of one part has its own path in the code.
- `split`: 10 values over 3 clients and 3 threads include no remainder and a remainder on both levels,
  and fewer values than nodes.
- `MaxBreaks`, `MaxFull`: one broken connection and one refused send already give all the pairs of
  listener and sender acting on the same or on different connections. The program may end in each of these states.
- `packets`: a connection of one byte cuts inside the size bytes, of three and four at the end of a packet and just behind its
  size, of eight holds more than one. Two partial sends make a packet longer twice; three packets give one before, one
  after the packet that is cut. `Base = 4` makes sizes carry into the second byte. The proof has any `Base`,
  payloads, rooms and bounds.
- `MaxParts = 3` with two clients and the host: all three nodes can be busy, and with one client
  connected there is a part for which none is free, with which `stop` can be made to wait.
- `views`: with two nodes one view is looked ahead to; two events lead over several views, more than the
  cache keeps (`MaxCache = 2`, 400 in the code), so views are thrown out and asked for again. The second event
  comes while the first's view is computed, or after. `MaxStale = 1`: after one wrong ID the properties about
  results promise nothing.

### Fairness

Every thread is a loop that the operating system keeps scheduling, so each has weak fairness as
a whole; no mutex is fair and none is assumed to be. A node without a connection tries again
every second (client `main.cpp:104-114`), so accepting is fair for each node. Nothing
makes the application submit a task, a connection break or a task exceed its time.
`ClientNode` also assumes that the host can be reached now and then, and
`EveryTaskAnswered` that the connection stays up in the end. Without that the listener and
the sender can go on closing each other's connections.
In `HostLifecycle` a call once begun goes on, the threads are scheduled and clients answer;
the application need not call anything and clients need not connect.
There the host's user need not quit; once the destructor runs it goes on, and each
thread comes to look at its flag, except a listener that waits in `receive`, which `Stops` names.
In `HostSystem` the watcher divides what it finds, threads with a result go on and the application polls. That a part that is
handed out again and again is answered or lost in the end (`SF` of `Accept` or `Lose`) is `EveryPartSettles`
of `HostDispatch`, which that module's weak fairness gives.
In `PacketStream` the sender calls `send` in a loop and the receiver polls; nothing makes the application send.
In `ViewCache` the render loop goes on and the host answers its tasks, which is `EveryTaskDone` of
`HostDispatch`; keys need not be pressed.

## Proofs

Checked by TLAPS for all tasks, nodes, threads, connections and breaks, from each module's assumptions about
its constants only (`ConstantsAssumption`, `ResultConstants`, `SplitConstants`, ...). Every invariant and action property that
a passing run checks is a theorem.

**Dispatch** (`HostDispatchProofs`). The invariants are not inductive alone. That a part
is in one place when the watcher assigns it needs that what the watcher has yet to place is
waiting (`WatcherInv`), that a task not divided yet has no parts (`FreshInv`), that a
deleted task is answered or lost (`FreedInv`), and that a receiver's client is on the list
while the listener waits in its join (`ReceiverInv`). `IInv` joins these with
`TypeOK`, `OnePlace` and `AcceptedOnce`. The theorem `Invariant` has one lemma per thread for the
part invariants and one for the thread invariants; `TypeCorrect`, `UniquePlace`, `AtMostOneResult`,
`LiveTasks`, `ReceiverClients` and `Conserved` follow.

Two more hold while no connection breaks and no task is slow (`Undisturbed`): `NeverFails` (`NoFailure`) and `TaskedBusy`
(`BusyWhileTasked`). Neither says where a part is on its way, so a result could come for a client that has none or a
second part could be under way to it; `SteadyInv` adds that a client has one part at most, which is in one place (`Stage`): with its
sender, in the connection, on the node or with its receive thread. It also has that each connection belongs to
one node (`NetworkSteady`), that the client the watcher found is still free when it uses it, and that what the local
thread has copied is still the host's own (`ThreadsSteady`). `NothingFails` derives that then none of the failing
actions is possible; a lemma per thread shows that the others keep it. The run `dispatch_steady` has one node; the theorems have any number.

**Refinement** (at the end of `HostDispatchProofs`). `partStatus` maps a state to the status of each part.
`Implements`: the initial states map to the service's, and each step maps to a step of the
service or leaves it alone, by `IInv` before and after.

**Result queues** (`ResultAssemblyProofs`). `QueueInv`: parts of a task leave the queue
together (`Together`), a thread removes only sets that it has completed (`RemovesWhole`), and
whenever a whole set is on the queue some thread will find it (`Finds`). The last thread to append
copies after all the others did, which is why `NothingStranded` holds whatever the order.
`Once` and `Alive` add that while `raced` is false a set is completed once and nothing deleted is used
(`UnracedInv`): one thread works at a time, its copy is still on the queue, and a part of a completed
task that is still on the queue is about to be removed.

**Split and merge** (`SplitMergeProofs`), for ranges of any length and any numbers of clients and threads. First the operators.
`SplitCovers`: the pieces of a split follow each other without gap or overlap from the first value to the last, whatever the
remainder, and are numbered from 0. `MergeRight`: the results of the pieces, in any order, merge into the result of the task
run in one piece, because only one permutation puts different numbers in order (`OrderUnique`), and it undoes the order of arrival. `FlattenSeq` is a
recursive function; what it yields is shown without an induction theorem, by the least prefix for which the claim fails
(`Least`). `NodeResultRight` applies both to a node with its threads. Then the states. `CompleteRight`, `AllMatched` and `Settles` follow from
`Orderly`, which holds while `Divisible`: each part is on `todo`, on its way, on the incomplete queue or in the one complete result, and is tracked as
long as it is on its way. When parts of one value are confused a result may take another's place, so `NoValueTwice` rests on less (`ValuesInv`):
the results in play were computed from different parts (`Apart`), and a set that merges has as many results as there are
parts, so it has all of them (`WholeMerges`, by counting); then nothing else is left (`Whole`).

**System** (`HostSystemProofs`). `SystemImplements`: every step of host, threads and application is a step of
`ResultAssembly` or leaves its variables alone, so all it promises holds here (`QueuesSound`). This needs that no thread appends
a result that was already accepted (`HeldInv`: a part is answered exactly when a thread or the queues have it). `NothingLeft` and
`OnceDeleted` add that an accepted result stays on a queue until it is deleted (`KeptInv`), that `stop`
deletes what the queues hold when no thread has a result (`GoneInv`), and that without a race a task has one result, which
goes when it is removed (`OneResult`).

**Packets** (`PacketStreamProofs`). `Framed`: of the bytes of a block no proper beginning counts as complete. `RoundTrip`:
`onReceive`, if it does not throw, inverts `onSend`. `KnownTaken` and `Taken`: a safe packet is accepted, never ignored or thrown at. The invariant `StreamInv` then says where the bytes under way belong: the bytes in the receiver's
buffer followed by those on the wire are the blocks of the safe packets that have not arrived, one behind the
other (`Framing`, `Aligned`), as far as the socket's position says (`Reaches`); and the packet being sent is the one given with
some flags behind it (`Flagging`). `IntactUpToCut` alone is not inductive, as it says nothing of bytes under way.
A cut packet that is not compressed still arrives if its size was through, because a longer
packet begins like the shorter one; with compression it does not, which is why `Safe` has two cases.
`BytesCarryPackets`: with `whole` for "no send call returned `Partial`" and `intact` for `Safe`, `Serialize` is a `Send` of
`PacketChannel`, the first `SendPartial` its `Cut`, `Accept` its `Deliver` or, behind the safe packets, its `Corrupt`, and
everything else leaves the channel alone.

**Node** (`ClientNodeProofs`). `Whole` from an invariant on what the sender has begun;
`Truly` from one on what listener and sender can do while the main thread connects. `DeletedAlone`: when the
destructor deletes tasks and results all three threads have ended and no task is being computed, from an invariant that
goes with the order of its joins (`JoinInv`). `WorkKept` (`NoWorkLost`) needs `WorkInv`: the copy that the processing thread works off is
no longer than the queue, or it would take tasks that are not there, and the result being sent is the first on its queue,
where the others only append. `TasksOnce`: a task is once in one of these places, so it is computed once, and
`RemoveResult` takes off the queue what was sent and deletes it once. A member of `Tasks` is one
sending of a task, of which the node makes an object of its own, also when it had the task before on a lost connection. It needs that
what is under way differs from what has come (`OnceInv`).

**Lifecycle** (`HostLifecycleProofs`). `Joined` from `JoinInv`: the local thread runs only while its flag
is set or it is being waited for. `OneLocal` from `LocalInv`: the host is busy while it has a part. So the flag may be skipped, as `stop` does, exactly when the
thread is gone, whatever the constructor left in it. `NonePartMissing` counts the parts: what the host was given is waiting, being placed, on its own
queue, with a client (one each, `CountInv`) or answered, whatever is switched and stopped. `StuckForGood` is the exception
that `CallsReturn` makes, as safety: once `stop` waits for a watcher that holds a part while every node is busy, no step ever changes that.

**Views** (`ViewCacheProofs`). `Once` needs that the view being entered is not in the cache
(`EnterInv`). `Tracked` needs that each entry has a task of its own and that a task is not both under way and
answered (`TrackInv`). `Current` needs that each entry's task was asked for its view, and that `viewResult`
is a result of the current view (`ShowInv`). All hold for any number of nodes, any number of wrong IDs and any size of the cache
that `ViewConstants` allows.

Only model-checked: all liveness (`EveryPartSettles`, `EveryTaskDone`,
`EveryTaskDelivered`, `Reconnects`, `Stops`, `NotDeceived`, `EveryTaskAnswered`, `CallsReturn`,
`PartsAnswered`, `AllArrive`, `ViewShown`), which the prover
cannot treat; and the properties of the runs that end in a counterexample, which no theorem can state.

## Disagreements

With a run that ends in a counterexample:

- `dispatch_lost`: `sendSubTasks` clears `subTaskQueue` (`Host.cpp:675`, 680-686) after a receive
  thread has put a lost client's parts back (`HostListener.cpp:323-331`). The task never completes.
- `assembly_twice`: two threads with the same copy merge a set twice and delete its parts
  twice (`Host.cpp:507`, 574-590).
- `packets_partial`: `onSend` appends the flag whenever `send` is called (`WorkPacket.cpp:40`), and the senders go on
  after `Partial` (`HostSender.cpp:67`, `ClientSender.cpp:82-121`), so the packet gets longer than
  the size that was sent. In the run, which is one without compression, the packet still arrives; its second flag is taken for the first
  byte of the next packet's size, so that packet is read one byte off and has no type the receiver knows, and the receiver
  throws (`ClientListener.cpp:112-117`; the host does the same at `HostListener.cpp:246-250`).
  SFML guarantees that a retry arrives uncorrupted for a packet that was not modified.

Others that were met while modelling, which the models contain but no run is devoted to:

- a late or rejected result marks the client free (`HostListener.cpp:288`), which may have another part by then:
  `Answered`; `BusyWhileTasked` is therefore checked in `dispatch_steady` only;
- `Task::split` of a part of one value pushes a level "0 of 1" that nobody merges (`Task.cpp:31-47`,
  `Client.cpp:233-243`), so the part is not matched: `Split`; `CompleteRight` and `AllMatched` exclude such tasks;
- a node whose listener waits in `receive` on a socket that still blocks (`Client.cpp:132` sets it to non-blocking only
  after `connected`) cannot send, and its destructor waits for it: `ReceiveBlocks`, the second cases of `Stops` and `EveryTaskAnswered`;
- the size of the buffer is not initialised before `uncompress` (`WorkPacket.cpp:108`), so a sound compressed packet may be
  refused, which ends the program that received it: `Mismatch`;
- a send buffer without room is an error to both senders (`NotReady`): the host throws, a node closes the
  connection: `SendRefused`, `SendNotReady`;
- the listener can delete a client a sender thread still waits for (`HostListener.cpp:165-176`,
  `HostSender.cpp:41-51`): action `SendDangling`;
- a late remote result can finish the host's own task under its local thread, which then throws
  (`Host.cpp:272-294`, 471-474): `LocalMarkClients`;
- a task over its time ends the host (`HostTaskWatcher.cpp:76-82`) where `HostTaskWatcher.h:14-16`
  says it is sent to another client: `WatchTimeout`;
- the application can delete a one-part result that `checkForCompleteResults` still reads (`Host.cpp:563-583`):
  `Remove` with `badAccess`;
- a split "as equally as possible" (`Task.h:85`) leaves the whole remainder to the last piece
  (`BenchmarkTask.hpp:60`): `SplitLocal`;
- a node's thread can close the connection that followed the one it dealt with, and a packet sent in
  part goes on over a new connection (`ClientListener.cpp:149`, `ClientSender.cpp:103-118`): `late`, `garbled`;
- `setHostAsClient(true)` on a running host starts no thread, since `hostAsClient` is still the old value
  (`Host.cpp:245`; line 237 says "Start processing thread if it has not already been started"), and parts
  placed on the host while `setHostAsClient(false)` waits stay on its queue (`Host.cpp:254-259`): `switched`;
- `stop` waits for ever when the watcher waits for a free client, also after an exception: `sendSubTasks` looks at no flag
  (`Host.cpp:605`), and the listener was stopped first: the second case of `CallsReturn`;
- `stop` leaves what it deleted on the lists, so the destructor after it uses it again (`Host.cpp:82-111`), and
  `started` stays set, so a stopped host never starts again: `dangling`, `Start`;
- `newView` reads the ID from a task the host may have deleted (`Mandelbrot.cpp:140`, where `Mandelbrot.h:85` says the
  entry is "linked to the new task ID"; the benchmark reads the ID first, `Benchmark/source/main.cpp:152`): `stale`;
- while a view is computed one event per frame is taken and dropped, a request to close the window too
  (`CFMandelbrot/source/main.cpp:150`): `PollEvent`.

## Not modelled

- Serialisation: the fields are written and read one by one in the same order.
- Addresses that are used again: a node deletes a task and then erases its pointer from the queue (`Client.cpp:183-195`), and
  would erase with it a task received in between at the same address. `StartTask` is both in one step.
- A failed `accept`, packets of the wrong kind: the programs of the repository send none.
- The statistics file of the benchmark, its dialogue, drawing, and the file of the last view: sequential I/O.
- `benchmarkTimes`, which is shared without a lock: statistics.
- Logging, and options that are set once before `start` (port, address, compression is a constant of each connection).
- SFML, zlib, the distributables: vendored; only what the project relies on is an action. Most lines of the repository
  are these libraries' headers, kept twice. The program's own code has about 6,000 lines with its comments; what changes state
  in them is modelled, and the remainder is the above, declarations and the Mandelbrot colours.

## Plan

Done, in this order: `HostDispatch` with its proofs, `PartService` and the refinement,
`ResultAssembly` with its proofs, `SplitMerge` with its proofs, `ClientNode` with its proofs, `HostLifecycle` with its
proofs, `ViewCache` with its proofs, `PacketStream` with its proofs, `PacketChannel` and the refinement, `HostSystem` with its proofs, the switching of a
running host, the end of a node.

Next:

1. `HostDispatch` composed with a `ClientNode` for each node over `PacketChannel`s, in place of `NodeReceive`, `NodeProcess` and `NodeSend`.
