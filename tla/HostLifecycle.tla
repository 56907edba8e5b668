--------------------------- MODULE HostLifecycle ---------------------------
(***************************************************************************)
(* Starting, switching, stopping and deleting a host: Host::start,         *)
(* Host::setHostAsClient, Host::stop and the destructor, called by the     *)
(* application's thread, against the loops of the listener, watcher and    *)
(* local thread and the flags by which they are told to end.               *)
(*                                                                         *)
(* The work is only counted here, for what keeps a thread from looking at  *)
(* its flag: HostDispatch has what becomes of each part.  Tasks may run    *)
(* anywhere, as those of both applications may, and no connection breaks.  *)
(***************************************************************************)
EXTENDS Integers, FiniteSets

CONSTANTS
  Clients,   \* clients that may connect
  MaxParts   \* bound: parts of tasks given to the host

ASSUME LifecycleConstants == MaxParts \in Nat

VARIABLES
  app,             \* where the application's thread is
  deleting,        \* the host's destructor has been called
  started,         \* Host::started
  hostAsClient,    \* Host::hostAsClient
  runLocal, local, \* hostAsClientTaskProcessThreadRun and its thread
  listen, listener,\* HostListener::listen and its thread
  watch, watcher,  \* HostTaskWatcher::watch and its thread
  exceptionThrown, \* ConsoleMessager::exceptionThrown
  clients, busy,   \* Host::clients, and those with a part
  hostBusy,        \* Host::busy
  added, waiting,  \* parts given to the host, parts it has not looked at yet
  batch,           \* parts sendSubTasks has still to place
  localQueue,      \* parts on localHostAsClientTaskQueue
  computing,       \* of these, parts the local thread has in its copy
  answered,        \* parts answered
  dangling         \* Host::stop has left deleted objects on the lists

appVars    == <<app, deleting, started, hostAsClient, dangling>>
threadVars == <<runLocal, local, listen, listener, watch, watcher>>
workVars   == <<clients, busy, hostBusy, added, waiting, batch, localQueue,
                computing, answered>>
vars == <<appVars, threadVars, exceptionThrown, workVars>>

Stopping == {"joinLocal", "stopListener", "joinListener", "stopWatcher",
             "joinWatcher", "clean"}

TypeOK ==
  /\ app \in {"free", "switchJoin", "gone", "crashed"} \cup Stopping
  /\ deleting \in BOOLEAN /\ started \in BOOLEAN /\ hostAsClient \in BOOLEAN
  /\ runLocal \in BOOLEAN /\ listen \in BOOLEAN /\ watch \in BOOLEAN
  /\ local \in {"none", "running", "ended"}
  /\ listener \in {"none", "running", "ended"}
  /\ watcher \in {"none", "running", "ended"}
  /\ exceptionThrown \in BOOLEAN /\ hostBusy \in BOOLEAN
  /\ clients \subseteq Clients /\ busy \subseteq clients
  /\ {added, waiting, batch, localQueue, computing, answered} \subseteq Nat
  /\ dangling \in BOOLEAN

\* The constructor leaves hostAsClientTaskProcessThreadRun uninitialised.
Init ==
  /\ app = "free" /\ deleting = FALSE /\ started = FALSE
  /\ hostAsClient = TRUE
  /\ runLocal \in BOOLEAN /\ local = "none"
  /\ listen = FALSE /\ listener = "none"
  /\ watch = FALSE /\ watcher = "none"
  /\ exceptionThrown = FALSE
  /\ clients = {} /\ busy = {} /\ hostBusy = FALSE
  /\ added = 0 /\ waiting = 0 /\ batch = 0
  /\ localQueue = 0 /\ computing = 0 /\ answered = 0
  /\ dangling = FALSE

-----------------------------------------------------------------------------
(* The application's calls. *)

\* Host::start; once started a host never starts again.
Start ==
  /\ app = "free" /\ ~started
  /\ started' = TRUE
  /\ listen' = TRUE /\ listener' = "running"
  /\ watch' = TRUE /\ watcher' = "running"
  /\ IF hostAsClient THEN runLocal' = TRUE /\ local' = "running"
                     ELSE UNCHANGED <<runLocal, local>>
  /\ UNCHANGED <<app, deleting, hostAsClient, dangling,
                 exceptionThrown, workVars>>

\* addTaskToQueue, with the division of the task.
AddPart ==
  /\ app = "free" /\ added < MaxParts
  /\ added' = added + 1 /\ waiting' = waiting + 1
  /\ UNCHANGED <<appVars, threadVars, exceptionThrown, clients, busy, hostBusy,
                 batch, localQueue, computing, answered>>

\* setHostAsClient(true).  The thread would be launched if hostAsClient were set,
\* but it is set only at the end.
SwitchOn ==
  /\ app = "free" /\ ~hostAsClient
  /\ hostAsClient' = TRUE
  /\ runLocal' = (runLocal \/ started)
  /\ UNCHANGED <<app, deleting, started, dangling, local, listen, listener,
                 watch, watcher, exceptionThrown, workVars>>

\* Mutant: setHostAsClient(false) does not wait for the thread.
SwitchOffAtOnce ==
  /\ app = "free" /\ hostAsClient
  /\ runLocal' = (runLocal /\ ~started)
  /\ hostAsClient' = FALSE
  /\ UNCHANGED <<app, deleting, started, dangling, local, listen, listener,
                 watch, watcher, exceptionThrown, workVars>>

\* setHostAsClient(false): the thread is told to end, and waited for.
SwitchOff ==
  /\ app = "free" /\ hostAsClient
  /\ IF started /\ runLocal
     THEN /\ runLocal' = FALSE
          /\ app' = "switchJoin"
          /\ UNCHANGED hostAsClient
     ELSE /\ hostAsClient' = FALSE
          /\ UNCHANGED <<runLocal, app>>
  /\ UNCHANGED <<deleting, started, dangling, local, listen, listener, watch,
                 watcher, exceptionThrown, workVars>>

\* Only now the watcher learns that the host takes no more parts.
SwitchJoined ==
  /\ app = "switchJoin" /\ local # "running"
  /\ local' = "none"
  /\ hostAsClient' = FALSE
  /\ app' = "free"
  /\ UNCHANGED <<deleting, started, dangling, runLocal, listen,
                 listener, watch, watcher, exceptionThrown, workVars>>

\* Host::stop, on its own or from the destructor: first the local thread.
Stop ==
  /\ app = "free"
  /\ deleting' \in BOOLEAN
  /\ runLocal' = FALSE
  /\ app' = IF runLocal THEN "joinLocal" ELSE "stopListener"
  /\ UNCHANGED <<started, hostAsClient, dangling, local, listen,
                 listener, watch, watcher, exceptionThrown, workVars>>

JoinLocal ==
  /\ app = "joinLocal" /\ local # "running"
  /\ local' = "none"
  /\ app' = "stopListener"
  /\ UNCHANGED <<deleting, started, hostAsClient, dangling, runLocal,
                 listen, listener, watch, watcher, exceptionThrown, workVars>>

\* HostListener::stop
StopListener ==
  /\ app = "stopListener"
  /\ IF listener = "none" THEN app' = "stopWatcher" /\ UNCHANGED listen
                          ELSE app' = "joinListener" /\ listen' = FALSE
  /\ UNCHANGED <<deleting, started, hostAsClient, dangling, runLocal,
                 local, listener, watch, watcher, exceptionThrown, workVars>>

JoinListener ==
  /\ app = "joinListener" /\ listener # "running"
  /\ listener' = "none"
  /\ app' = "stopWatcher"
  /\ UNCHANGED <<deleting, started, hostAsClient, dangling, runLocal,
                 local, listen, watch, watcher, exceptionThrown, workVars>>

\* Mutant: the watcher is waited for without being told to end.
StopWatcherUntold ==
  /\ app = "stopWatcher"
  /\ app' = IF watcher = "none" THEN "clean" ELSE "joinWatcher"
  /\ UNCHANGED <<deleting, started, hostAsClient, dangling, runLocal,
                 local, listen, listener, watch, watcher, exceptionThrown,
                 workVars>>

\* HostTaskWatcher::stop
StopWatcher ==
  /\ app = "stopWatcher"
  /\ IF watcher = "none" THEN app' = "clean" /\ UNCHANGED watch
                         ELSE app' = "joinWatcher" /\ watch' = FALSE
  /\ UNCHANGED <<deleting, started, hostAsClient, dangling, runLocal,
                 local, listen, listener, watcher, exceptionThrown, workVars>>

JoinWatcher ==
  /\ app = "joinWatcher" /\ watcher # "running"
  /\ watcher' = "none"
  /\ app' = "clean"
  /\ UNCHANGED <<deleting, started, hostAsClient, dangling, runLocal,
                 local, listen, listener, watch, exceptionThrown, workVars>>

\* Clients, tasks and results are deleted but stay on their lists: stopping a
\* second time uses them again, which ends the program or is not noticed.  The
\* application may have removed the results by then.
Clean ==
  /\ app = "clean"
  /\ \/ app' = IF deleting THEN "gone" ELSE "free"
     \/ dangling /\ app' = "crashed"
  /\ \E resultsLeft \in BOOLEAN :
       dangling' = (dangling \/ clients # {} \/ waiting + localQueue > 0
                      \/ (resultsLeft /\ answered > 0))
  /\ UNCHANGED <<deleting, started, hostAsClient, threadVars,
                 exceptionThrown, workVars>>

-----------------------------------------------------------------------------
(* The watcher. *)

\* sendSubTasks takes all there is, if there is any node.
TakeBatch ==
  /\ watcher = "running" /\ watch /\ ~exceptionThrown
  /\ batch = 0 /\ waiting > 0 /\ (clients # {} \/ hostAsClient)
  /\ batch' = waiting /\ waiting' = 0
  /\ UNCHANGED <<appVars, threadVars, exceptionThrown, clients, busy, hostBusy,
                 added, localQueue, computing, answered>>

\* Mutant: the host takes parts although it has one.
PlaceLocalAlways ==
  /\ watcher = "running" /\ batch > 0
  /\ hostAsClient
  /\ hostBusy' = TRUE
  /\ localQueue' = localQueue + 1 /\ batch' = batch - 1
  /\ UNCHANGED <<appVars, threadVars, exceptionThrown, clients, busy, added,
                 waiting, computing, answered>>

\* Until every part is placed no flag is looked at.
PlaceLocal ==
  /\ watcher = "running" /\ batch > 0
  /\ hostAsClient /\ ~hostBusy
  /\ hostBusy' = TRUE
  /\ localQueue' = localQueue + 1 /\ batch' = batch - 1
  /\ UNCHANGED <<appVars, threadVars, exceptionThrown, clients, busy, added,
                 waiting, computing, answered>>

AssignClient ==
  /\ watcher = "running" /\ batch > 0
  /\ ~hostAsClient \/ hostBusy
  /\ \E c \in clients \ busy : busy' = busy \cup {c}
  /\ batch' = batch - 1
  /\ UNCHANGED <<appVars, threadVars, exceptionThrown, clients, hostBusy, added,
                 waiting, localQueue, computing, answered>>

WatcherEnd ==
  /\ watcher = "running" /\ batch = 0
  /\ ~watch \/ exceptionThrown
  /\ watcher' = "ended"
  /\ UNCHANGED <<appVars, runLocal, local, listen, listener, watch,
                 exceptionThrown, workVars>>

(* The listener, with its receive threads, which it waits for in each pass. *)

Connect(c) ==
  /\ listener = "running" /\ c \notin clients
  /\ clients' = clients \cup {c}
  /\ UNCHANGED <<appVars, threadVars, exceptionThrown, busy, hostBusy, added,
                 waiting, batch, localQueue, computing, answered>>

ReceiveResult(c) ==
  /\ listener = "running" /\ c \in busy
  /\ busy' = busy \ {c}
  /\ answered' = answered + 1
  /\ UNCHANGED <<appVars, threadVars, exceptionThrown, clients, hostBusy, added,
                 waiting, batch, localQueue, computing>>

ListenerEnd ==
  /\ listener = "running"
  /\ ~listen \/ exceptionThrown
  /\ listener' = "ended"
  /\ UNCHANGED <<appVars, runLocal, local, listen, watch, watcher,
                 exceptionThrown, workVars>>

(* The local thread: it computes its whole copy before it looks at its flag. *)

LocalCopy ==
  /\ local = "running" /\ runLocal /\ ~exceptionThrown
  /\ computing = 0 /\ localQueue > 0
  /\ computing' = localQueue
  /\ UNCHANGED <<appVars, threadVars, exceptionThrown, clients, busy, hostBusy,
                 added, waiting, batch, localQueue, answered>>

\* Mutant: the host stays busy.
LocalRunBusy ==
  /\ local = "running" /\ computing > 0
  /\ computing' = computing - 1 /\ localQueue' = localQueue - 1
  /\ answered' = answered + 1
  /\ UNCHANGED <<appVars, threadVars, exceptionThrown, clients, busy, hostBusy,
                 added, waiting, batch>>

LocalRun ==
  /\ local = "running" /\ computing > 0
  /\ computing' = computing - 1 /\ localQueue' = localQueue - 1
  /\ answered' = answered + 1
  /\ hostBusy' = (hostBusy /\ computing > 1)
  /\ UNCHANGED <<appVars, threadVars, exceptionThrown, clients, busy, added,
                 waiting, batch>>

LocalEnd ==
  /\ local = "running" /\ computing = 0
  /\ ~runLocal \/ exceptionThrown
  /\ local' = "ended"
  /\ UNCHANGED <<appVars, runLocal, listen, listener, watch, watcher,
                 exceptionThrown, workVars>>

\* An exception in some thread: a time-out, a failed send, an unmatched result.
Throw ==
  /\ "running" \in {listener, watcher} /\ ~exceptionThrown
  /\ exceptionThrown' = TRUE
  /\ UNCHANGED <<appVars, threadVars, workVars>>

-----------------------------------------------------------------------------
Calls == Start \/ AddPart \/ SwitchOn \/ SwitchOff \/ Stop

Returns ==
  \/ SwitchJoined \/ JoinLocal \/ StopListener \/ JoinListener \/ StopWatcher
  \/ JoinWatcher \/ Clean

Watcher  == TakeBatch \/ PlaceLocal \/ AssignClient \/ WatcherEnd
Results  == \E c \in Clients : ReceiveResult(c)
Local    == LocalCopy \/ LocalRun \/ LocalEnd

Next ==
  \/ Calls \/ Returns
  \/ Watcher \/ Results \/ ListenerEnd \/ Local
  \/ \E c \in Clients : Connect(c)
  \/ Throw

Spec == Init /\ [][Next]_vars

\* A call that has begun goes on, and the threads are scheduled; a client
\* answers what it is sent.
FairSpec ==
  /\ Spec
  /\ WF_vars(Returns) /\ WF_vars(Watcher) /\ WF_vars(Results)
  /\ WF_vars(ListenerEnd) /\ WF_vars(Local)

-----------------------------------------------------------------------------
(* Properties. *)

\* When Host::stop deletes the clients and tasks, and when the host itself is
\* deleted, none of its threads runs, whatever was switched on and off before and
\* whatever the uninitialised flag was.
ThreadsJoined ==
  app \in {"clean", "gone", "crashed"} =>
    "running" \notin {local, listener, watcher}

\* stop and setHostAsClient return, but for a watcher that waits for a free node
\* for good: no flag ends sendSubTasks, and no result comes any more.
CallsReturn ==
  app \in Stopping \cup {"switchJoin"} ~>
    app \in {"free", "gone", "crashed"} \/ [](batch > 0)

\* The parts that wait for a local thread that will never run: there is none when
\* the host was switched on after start, and none is started again after it was
\* switched off.
Stranded == IF local # "running" THEN localQueue ELSE 0

Ended == exceptionThrown \/ app \notin {"free", "switchJoin"}
                         \/ watcher # "running"

\* A started host has every part answered, but for those switching has stranded,
\* whenever and however often it was switched, unless it is stopped, a thread
\* throws, or there is for ever nobody to run a part.
PartsAnswered ==
  \A k \in 1 .. MaxParts :
    started /\ added >= k ~>
      answered + Stranded >= k \/ Ended
        \/ [](clients = {} /\ local # "running")

\* Switching strands one part at most: the watcher places no part on the host that
\* has one, also while setHostAsClient(false) waits and after the thread has ended.
OnePartLocal == localQueue <= 1

\* The inductive invariant behind OnePartLocal: the host is busy while it has one.
LocalInv ==
  /\ localQueue \in 0 .. 1 /\ computing \in 0 .. localQueue
  /\ localQueue = 1 => hostBusy

\* The inductive invariant behind ThreadsJoined: a thread that is not waited for
\* is not running, as its flag says.
JoinInv ==
  /\ local = "running" => runLocal \/ app \in {"joinLocal", "switchJoin"}
  /\ app \in Stopping \ {"joinLocal"} => local # "running"
  /\ app \in {"stopWatcher", "joinWatcher", "clean"} => listener # "running"
  /\ app = "clean" => watcher # "running"
  /\ app \in {"gone", "crashed"} =>
       "running" \notin {local, listener, watcher}
  /\ "running" \in {local, listener, watcher} => started
=============================================================================
