----------------------------- MODULE ClientNode -----------------------------
(***************************************************************************)
(* The client program of a node, from the start of its threads to the end  *)
(* of Client's destructor: its main thread connects and reconnects, the    *)
(* listener thread receives tasks, the processing thread computes their    *)
(* results and the sender thread sends them.  Listener, sender and         *)
(* main thread share one sf::TcpSocket.  socketMutex guards its receive    *)
(* and send calls, but neither connect nor disconnect, and what to do      *)
(* about a status is decided after the mutex has been released.            *)
(*                                                                         *)
(* The result of a task is identified with the task, and only the present  *)
(* connection is kept: a new one starts without anything sent.             *)
(***************************************************************************)
EXTENDS Integers, SequencesExt

CONSTANTS
  Tasks,      \* the tasks the host sends
  MaxBreaks,  \* bound: connections that break
  MaxFull,    \* bound: sends refused because the send buffer is full
  None        \* no task, no result

ASSUME NodeConstants ==
  /\ MaxBreaks \in Nat /\ MaxFull \in Nat
  /\ None \notin Tasks

VARIABLES
  \* Client
  connected,   \* Client::connected
  socket,      \* Client::socket: not open, open, or open with the peer gone
  blocking,    \* the socket's mode
  taskQueue,   \* Client::taskQueue
  batch,       \* how many of its tasks are left of the copy being worked on
  working,     \* the task being computed
  results,     \* Client::resultQueueComplete
  \* the threads
  mpc, lpc, ppc, spc,
  run,         \* threads whose run flag is set
  exceptionThrown, \* ConsoleMessager::exceptionThrown
  cur,         \* the result being sent
  begun,       \* the first part of cur's packet has been sent
  \* the connection
  toNode,      \* tasks under way to the node
  unfinished,  \* the result whose packet is incomplete on the connection
  sent,        \* tasks the host has sent
  breaks, full,
  \* history
  received,    \* tasks received
  handed,      \* results whose packet was sent in full on one connection
  answered,    \* results deleted as sent
  deleted,     \* tasks and results the destructor deleted
  partial,     \* some packet was not sent in one piece
  garbled,     \* a connection carries the rest of a packet begun on another
  late         \* a connection was made while a thread dealt with the last one

clientVars == <<connected, socket, blocking>>
queueVars  == <<taskQueue, batch, working, results>>
sendVars   == <<cur, begun>>
stopVars   == <<run, exceptionThrown, deleted>>
netVars    == <<toNode, unfinished, sent, breaks, full>>
histVars   == <<received, handed, answered, partial, garbled, late>>
vars == <<clientVars, queueVars, mpc, lpc, ppc, spc, stopVars, sendVars, netVars,
          histVars>>

Flags == {"process", "listen", "send"}

TypeOK ==
  /\ connected \in BOOLEAN /\ blocking \in BOOLEAN
  /\ socket \in {"none", "up", "down"}
  /\ taskQueue \in Seq(Tasks) /\ results \in Seq(Tasks)
  /\ working \in Tasks \cup {None}
  /\ mpc \in {"connect", "established", "unblock", "poll", "joinProcessing",
             "joinListener", "joinSender", "clean", "gone"}
  /\ lpc \in {"idle", "receive", "blocked", "close", "flag", "ended"}
  /\ ppc \in {"idle", "busy", "ended"} /\ batch \in 0 .. Len(taskQueue)
  /\ spc \in {"idle", "send", "sent", "close", "flag", "ended"}
  /\ run \subseteq Flags /\ exceptionThrown \in BOOLEAN /\ deleted \subseteq Tasks
  /\ cur \in Tasks \cup {None} /\ begun \in BOOLEAN
  /\ toNode \in Seq(Tasks) /\ unfinished \in Tasks \cup {None}
  /\ sent \subseteq Tasks
  /\ breaks \in 0 .. MaxBreaks /\ full \in 0 .. MaxFull
  /\ received \subseteq Tasks /\ handed \subseteq Tasks
  /\ answered \subseteq Tasks
  /\ partial \in BOOLEAN /\ garbled \in BOOLEAN /\ late \in BOOLEAN

\* Client::start has started the threads.
Init ==
  /\ connected = FALSE /\ socket = "none" /\ blocking = FALSE
  /\ taskQueue = <<>> /\ working = None /\ results = <<>>
  /\ mpc = "connect" /\ lpc = "idle" /\ ppc = "idle" /\ batch = 0 /\ spc = "idle"
  /\ run = Flags /\ exceptionThrown = FALSE /\ deleted = {}
  /\ cur = None /\ begun = FALSE
  /\ toNode = <<>> /\ unfinished = None /\ sent = {}
  /\ breaks = 0 /\ full = 0
  /\ received = {} /\ handed = {} /\ answered = {}
  /\ partial = FALSE /\ garbled = FALSE /\ late = FALSE

\* A receive call that waits on a socket somebody closes returns, with an error
\* or as disconnected.
Woken(l) == IF l = "blocked" THEN {"idle", "close"} ELSE {l}

Elements(s) == {s[i] : i \in DOMAIN s}

\* A thread's loop goes on.
Told(thread) == thread \in run /\ ~exceptionThrown

-----------------------------------------------------------------------------
(* The main thread. *)

\* The socket is set to block, an old connection is closed, a new one made.
Connect ==
  /\ mpc = "connect" /\ ~connected
  /\ blocking' = TRUE
  /\ socket' = "up"
  /\ toNode' = <<>> /\ unfinished' = None
  /\ lpc' \in Woken(lpc)
  /\ late' = (late \/ lpc \in {"receive", "blocked", "close", "flag"}
                   \/ spc \in {"send", "close", "flag"})
  /\ mpc' = "established"
  /\ UNCHANGED <<connected, queueVars, ppc, spc, stopVars, sendVars, sent,
                 breaks, full, received, handed, answered, partial, garbled>>

\* The host cannot be reached; the main thread tries again after a second.
ConnectFails ==
  /\ mpc = "connect" /\ ~connected
  /\ socket' = "none"
  /\ lpc' \in Woken(lpc)
  /\ UNCHANGED <<connected, blocking, queueVars, mpc, ppc, spc, stopVars,
                 sendVars, netVars, histVars>>

SetConnected ==
  /\ mpc = "established"
  /\ connected' = TRUE
  /\ mpc' = "unblock"
  /\ UNCHANGED <<socket, blocking, queueVars, lpc, ppc, spc, stopVars, sendVars,
                 netVars, histVars>>

SetNonBlocking ==
  /\ mpc = "unblock"
  /\ blocking' = FALSE
  /\ mpc' = "poll"
  /\ UNCHANGED <<connected, socket, queueVars, lpc, ppc, spc, stopVars,
                 sendVars, netVars, histVars>>

\* The program's loop finds the client disconnected.
Poll ==
  /\ mpc = "poll" /\ ~connected /\ ~exceptionThrown
  /\ mpc' = "connect"
  /\ UNCHANGED <<clientVars, queueVars, lpc, ppc, spc, stopVars, sendVars,
                 netVars, histVars>>

\* The loops end; the client is deleted, and the destructor tells the processing
\* thread to end.
Leave ==
  /\ mpc' = "joinProcessing"
  /\ run' = run \ {"process"}
  /\ UNCHANGED <<clientVars, queueVars, lpc, ppc, spc, exceptionThrown, deleted,
                 sendVars, netVars, histVars>>

Quit == mpc \in {"connect", "poll"} /\ Leave

Abort == mpc \in {"connect", "poll"} /\ exceptionThrown /\ Leave

\* It waits for one thread after the other, and tells each to end only when the
\* one before has.
Join(at, next, told) ==
  /\ mpc = at /\ mpc' = next
  /\ run' = run \ told
  /\ UNCHANGED <<clientVars, queueVars, lpc, ppc, spc, exceptionThrown, deleted,
                 sendVars, netVars, histVars>>

\* Mutant: the listener is not told to end.
JoinProcessingUntold == ppc = "ended" /\ Join("joinProcessing", "joinListener", {})

JoinProcessing == ppc = "ended" /\ Join("joinProcessing", "joinListener", {"listen"})

JoinListener == lpc = "ended" /\ Join("joinListener", "joinSender", {"send"})

JoinSender == spc = "ended" /\ Join("joinSender", "clean", {})

\* The connection is closed, and what is still queued is deleted.
Clean ==
  /\ mpc = "clean"
  /\ socket' = "none" /\ connected' = FALSE
  /\ deleted' = Elements(taskQueue) \cup Elements(results)
  /\ taskQueue' = <<>> /\ results' = <<>>
  /\ mpc' = "gone"
  /\ UNCHANGED <<blocking, batch, working, lpc, ppc, spc, run, exceptionThrown,
                 sendVars, netVars, histVars>>

-----------------------------------------------------------------------------
(* The listener thread. *)

CheckConnected ==
  /\ lpc = "idle" /\ connected /\ Told("listen")
  /\ lpc' = "receive"
  /\ UNCHANGED <<clientVars, queueVars, mpc, ppc, spc, stopVars, sendVars,
                 netVars, histVars>>

\* A task arrives, also for a call that waited for it.
ReceiveTask ==
  /\ lpc \in {"receive", "blocked"} /\ socket # "none"
  /\ toNode # <<>>
  /\ taskQueue' = Append(taskQueue, Head(toNode))
  /\ toNode' = Tail(toNode)
  /\ received' = received \cup {Head(toNode)}
  /\ lpc' = "idle"
  /\ UNCHANGED <<clientVars, batch, working, results, mpc, ppc, spc, stopVars,
                 sendVars, unfinished, sent, breaks, full, handed, answered,
                 partial, garbled, late>>

\* The packet cannot be read (PacketStream): the thread throws, and with it all
\* threads of the program end.
ReceiveThrows ==
  /\ lpc \in {"receive", "blocked"} /\ socket # "none"
  /\ toNode # <<>>
  /\ toNode' = Tail(toNode)
  /\ exceptionThrown' = TRUE
  /\ lpc' = "ended"
  /\ UNCHANGED <<clientVars, queueVars, mpc, ppc, spc, run, deleted, sendVars,
                 unfinished, sent, breaks, full, histVars>>

ListenerEnd ==
  /\ lpc = "idle" /\ ~Told("listen")
  /\ lpc' = "ended"
  /\ UNCHANGED <<clientVars, queueVars, mpc, ppc, spc, stopVars, sendVars,
                 netVars, histVars>>

\* Nothing there: NotReady, or Error on a socket that is not open.
ReceiveNothing ==
  /\ lpc = "receive"
  /\ socket = "none" \/ (socket = "up" /\ toNode = <<>> /\ ~blocking)
  /\ lpc' = "idle"
  /\ UNCHANGED <<clientVars, queueVars, mpc, ppc, spc, stopVars, sendVars,
                 netVars, histVars>>

\* Nothing there on a socket still set to block: the call waits, with the mutex.
ReceiveBlocks ==
  /\ lpc = "receive"
  /\ socket = "up" /\ toNode = <<>> /\ blocking
  /\ lpc' = "blocked"
  /\ UNCHANGED <<clientVars, queueVars, mpc, ppc, spc, stopVars, sendVars,
                 netVars, histVars>>

\* Status Disconnected; the mutex is released.
ReceiveDisconnected ==
  /\ lpc \in {"receive", "blocked"}
  /\ socket = "down" /\ toNode = <<>>
  /\ lpc' = "close"
  /\ UNCHANGED <<clientVars, queueVars, mpc, ppc, spc, stopVars, sendVars,
                 netVars, histVars>>

\* Client::disconnect in its two steps: the socket, then the flag.
ListenClose ==
  /\ lpc = "close"
  /\ socket' = "none"
  /\ lpc' = "flag"
  /\ UNCHANGED <<connected, blocking, queueVars, mpc, ppc, spc, stopVars,
                 sendVars, netVars, histVars>>

\* Mutant: the flag is left set.
ListenFlagKept ==
  /\ lpc = "flag"
  /\ lpc' = "idle"
  /\ UNCHANGED <<clientVars, queueVars, mpc, ppc, spc, stopVars, sendVars,
                 netVars, histVars>>

ListenFlag ==
  /\ lpc = "flag"
  /\ connected' = FALSE
  /\ lpc' = "idle"
  /\ UNCHANGED <<socket, blocking, queueVars, mpc, ppc, spc, stopVars, sendVars,
                 netVars, histVars>>

-----------------------------------------------------------------------------
(* The processing thread. *)

\* The queue is copied; the thread looks at nothing else until it has done all of
\* the copy.
CopyTasks ==
  /\ ppc = "idle" /\ Told("process") /\ taskQueue # <<>>
  /\ ppc' = "busy"
  /\ batch' = Len(taskQueue)
  /\ UNCHANGED <<clientVars, taskQueue, working, results, mpc, lpc, spc, stopVars,
                 sendVars, netVars, histVars>>

\* The first task is split for the threads and taken off the queue.
StartTask ==
  /\ ppc = "busy" /\ working = None /\ batch > 0
  /\ working' = Head(taskQueue)
  /\ taskQueue' = Tail(taskQueue)
  /\ batch' = batch - 1
  /\ UNCHANGED <<clientVars, results, mpc, lpc, ppc, spc, stopVars, sendVars,
                 netVars, histVars>>

\* Its threads are through and their results are merged.
FinishTask ==
  /\ working # None
  /\ results' = Append(results, working)
  /\ working' = None
  /\ ppc' = IF batch = 0 THEN "idle" ELSE "busy"
  /\ UNCHANGED <<clientVars, taskQueue, batch, mpc, lpc, spc, stopVars, sendVars,
                 netVars, histVars>>

ProcessingEnd ==
  /\ ppc = "idle" /\ ~Told("process")
  /\ ppc' = "ended"
  /\ UNCHANGED <<clientVars, queueVars, mpc, lpc, spc, stopVars, sendVars,
                 netVars, histVars>>

-----------------------------------------------------------------------------
(* The sender thread. *)

\* Mutant: the result is taken off the queue before it is sent.
PickResultOff ==
  /\ spc = "idle" /\ Told("send") /\ connected /\ results # <<>>
  /\ cur' = Head(results)
  /\ results' = Tail(results)
  /\ begun' = FALSE
  /\ spc' = "send"
  /\ UNCHANGED <<clientVars, taskQueue, batch, working, mpc, lpc, ppc, stopVars,
                 netVars, histVars>>

\* The first result; it stays on the queue until it is sent.
PickResult ==
  /\ spc = "idle" /\ Told("send") /\ connected /\ results # <<>>
  /\ cur' = Head(results)
  /\ begun' = FALSE
  /\ spc' = "send"
  /\ UNCHANGED <<clientVars, queueVars, mpc, lpc, ppc, stopVars, netVars,
                 histVars>>

\* The packet's begin, if any is due, must be on this very connection.
Continues == begun => unfinished = cur

\* Status Done: the packet, or what is left of it, is sent.  A peer that is gone
\* may not have been noticed.
SendDone ==
  /\ spc = "send" /\ lpc # "blocked" /\ socket # "none"
  /\ handed' = IF Continues THEN handed \cup {cur} ELSE handed
  /\ garbled' = (garbled \/ ~Continues)
  /\ unfinished' = None
  /\ spc' = "sent"
  /\ UNCHANGED <<clientVars, queueVars, mpc, lpc, ppc, stopVars, sendVars,
                 toNode, sent, breaks, full, received, answered, partial, late>>

\* Status Partial; more of them before the rest is sent change nothing.
SendPartial ==
  /\ spc = "send" /\ lpc # "blocked" /\ socket # "none" /\ ~blocking
  /\ ~begun
  /\ begun' = TRUE
  /\ unfinished' = cur
  /\ partial' = TRUE
  /\ UNCHANGED <<clientVars, queueVars, mpc, lpc, ppc, spc, stopVars, cur,
                 toNode, sent, breaks, full, received, handed, answered,
                 garbled, late>>

\* Status NotReady, as the buffer is full: it counts as an error.
SendNotReady ==
  /\ spc = "send" /\ lpc # "blocked" /\ socket = "up" /\ ~blocking
  /\ full < MaxFull
  /\ full' = full + 1
  /\ spc' = "close"
  /\ UNCHANGED <<clientVars, queueVars, mpc, lpc, ppc, stopVars, sendVars,
                 toNode, unfinished, sent, breaks, histVars>>

\* Mutant: a failed send counts as done.
SendFailsAsDone ==
  /\ spc = "send" /\ lpc # "blocked" /\ socket # "up"
  /\ spc' = "sent"
  /\ UNCHANGED <<clientVars, queueVars, mpc, lpc, ppc, stopVars, sendVars,
                 netVars, histVars>>

\* Status Disconnected or Error.
SendFails ==
  /\ spc = "send" /\ lpc # "blocked" /\ socket # "up"
  /\ spc' = "close"
  /\ UNCHANGED <<clientVars, queueVars, mpc, lpc, ppc, stopVars, sendVars,
                 netVars, histVars>>

\* The send loop ends with an exception elsewhere; the result stays.
SendAborted ==
  /\ spc = "send" /\ exceptionThrown
  /\ cur' = None /\ begun' = FALSE
  /\ spc' = "idle"
  /\ UNCHANGED <<clientVars, queueVars, mpc, lpc, ppc, stopVars, netVars,
                 histVars>>

SenderEnd ==
  /\ spc = "idle" /\ ~Told("send")
  /\ spc' = "ended"
  /\ UNCHANGED <<clientVars, queueVars, mpc, lpc, ppc, stopVars, sendVars,
                 netVars, histVars>>

\* The result sent, which is on the queue once, is taken off it and deleted.
RemoveResult ==
  /\ spc = "sent"
  /\ results' = RemoveFirst(results, cur)
  /\ answered' = answered \cup {cur}
  /\ cur' = None /\ begun' = FALSE
  /\ spc' = "idle"
  /\ UNCHANGED <<clientVars, taskQueue, batch, working, mpc, lpc, ppc, stopVars,
                 netVars, received, handed, partial, garbled, late>>

\* Client::disconnect again.
SendClose ==
  /\ spc = "close"
  /\ socket' = "none"
  /\ lpc' \in Woken(lpc)
  /\ spc' = "flag"
  /\ UNCHANGED <<connected, blocking, queueVars, mpc, ppc, stopVars, sendVars,
                 netVars, histVars>>

\* The result is still on the queue and will be sent again from its beginning.
SendFlag ==
  /\ spc = "flag"
  /\ connected' = FALSE
  /\ cur' = None /\ begun' = FALSE
  /\ spc' = "idle"
  /\ UNCHANGED <<socket, blocking, queueVars, mpc, lpc, ppc, stopVars, netVars,
                 histVars>>

-----------------------------------------------------------------------------
(* The host and the network. *)

HostSends(t) ==
  /\ socket = "up" /\ t \notin sent
  /\ sent' = sent \cup {t}
  /\ toNode' = Append(toNode, t)
  /\ UNCHANGED <<clientVars, queueVars, mpc, lpc, ppc, spc, stopVars, sendVars,
                 unfinished, breaks, full, histVars>>

\* The peer is gone, and with it some of what was under way.
Break ==
  /\ socket = "up" /\ breaks < MaxBreaks
  /\ breaks' = breaks + 1
  /\ socket' = "down"
  /\ \E k \in 0 .. Len(toNode) : toNode' = SubSeq(toNode, 1, k)
  /\ UNCHANGED <<connected, blocking, queueVars, mpc, lpc, ppc, spc, stopVars,
                 sendVars, unfinished, sent, full, histVars>>

-----------------------------------------------------------------------------
Destructor == JoinProcessing \/ JoinListener \/ JoinSender \/ Clean

Main ==
  \/ Connect \/ ConnectFails \/ SetConnected \/ SetNonBlocking \/ Poll
  \/ Quit \/ Abort \/ Destructor

Listener ==
  \/ CheckConnected \/ ReceiveTask \/ ReceiveNothing \/ ReceiveBlocks
  \/ ReceiveDisconnected \/ ReceiveThrows \/ ListenClose \/ ListenFlag
  \/ ListenerEnd

Processing == CopyTasks \/ StartTask \/ FinishTask \/ ProcessingEnd

Sender ==
  \/ PickResult \/ SendDone \/ SendPartial \/ SendNotReady \/ SendFails
  \/ SendAborted \/ RemoveResult \/ SendClose \/ SendFlag \/ SenderEnd

Next ==
  \/ Main \/ Listener \/ Processing \/ Sender
  \/ \E t \in Tasks : HostSends(t)
  \/ Break

Spec == Init /\ [][Next]_vars

\* All threads are scheduled, and the host can be reached now and then; the user
\* need not quit.
FairSpec ==
  /\ Spec
  /\ WF_vars(Connect \/ SetConnected \/ SetNonBlocking \/ Poll \/ Abort)
  /\ WF_vars(Destructor)
  /\ WF_vars(Listener) /\ WF_vars(Processing) /\ WF_vars(Sender)

-----------------------------------------------------------------------------
(* Properties. *)

\* As long as packets are sent in one piece a result is deleted only when it
\* has been sent in full, and no connection carries a piece of another's packet.
\* (A packet sent in pieces goes on on whatever connection there is by then.)
SentWhole == ~partial => answered \subseteq handed /\ ~garbled

\* No task is given up half way: one received is queued, computed, its result
\* waits, or it is answered, however often connections break or sends fail and
\* wherever the threads are when the client is deleted, which deletes the rest.
NoWorkLost ==
  received = Elements(taskQueue) \cup ({working} \ {None})
               \cup Elements(results) \cup answered \cup deleted

\* Client::connected means that there is a socket, but for a thread that is
\* about to take it back; unless a connection was made while a thread was still
\* busy with the one before.
ConnectedTruly ==
  ~late /\ connected /\ socket = "none" => lpc = "flag" \/ spc = "flag"

\* The program ends.
Ending == exceptionThrown \/ mpc \in {"joinProcessing", "joinListener", "joinSender",
                                     "clean", "gone"}

\* A broken connection is replaced, and Client::connected is set with it, unless
\* the program ends.
Reconnects == socket = "down" ~> (connected /\ socket = "up") \/ Ending

\* When the user quits or a thread has thrown, the client is deleted in the end:
\* its destructor waits for no thread that waits for something else, but for a
\* listener that waits on the socket for good.
Stops == Ending ~> mpc = "gone" \/ [](lpc = "blocked")

\* The program does not believe for good that it is connected when it has no
\* socket: a thread that deals with a broken connection late can close the new
\* one between its connect and the setting of the flag, but then the other thread
\* has a result that it cannot send.
NotDeceived == socket = "none" ~> ~connected \/ socket = "up"

\* Every task that was received is answered once the connection stays up, unless
\* the listener waits on the socket for good, with the mutex the sender needs.
EveryTaskAnswered ==
  <>[](socket = "up") =>
    \A t \in Tasks : t \in received ~> t \in answered \/ [](lpc = "blocked")
=============================================================================
