-------------------------- MODULE ClientNodeProofs --------------------------
(* Proofs of safety properties of ClientNode, for any set of tasks and       *)
(* any number of broken connections and refused sends.                       *)
EXTENDS ClientNode, SequenceTheorems, TLAPS

\* The invariant behind SentWhole: while no packet was cut, the sender has begun
\* none, and a result about to be deleted has been sent in full.
WholeInv ==
  ~partial =>
    /\ ~begun /\ ~garbled
    /\ spc = "sent" => cur \in handed
    /\ answered \subseteq handed

\* The invariant behind ConnectedTruly: the flag is down while the main thread
\* connects, and once it has a new connection no thread that holds on to the last
\* one can take it away before the flag is set.
FlagInv ==
  /\ lpc \in {"idle", "receive", "blocked", "close", "flag", "ended"}
  /\ spc \in {"idle", "send", "sent", "close", "flag", "ended"}
  /\ mpc \in {"connect", "established"} => ~connected
  /\ mpc = "established" /\ ~late =>
       socket # "none" /\ lpc \in {"idle", "ended"} /\ spc \in {"idle", "sent", "ended"}
  /\ ~late /\ connected /\ socket = "none" => lpc = "flag" \/ spc = "flag"

-----------------------------------------------------------------------------
\* The invariant behind SentWhole holds initially and is kept by every action.
THEOREM WholeInvariant == Spec => []WholeInv
<1>1. Init => WholeInv
  BY DEF Init, WholeInv
<1>2. WholeInv /\ [Next]_vars => WholeInv'
  <2> SUFFICES ASSUME WholeInv, [Next]_vars PROVE WholeInv'
    OBVIOUS
  <2> USE DEF WholeInv, clientVars, queueVars, stopVars, sendVars, netVars, histVars
  <2>1. CASE Main
    BY <2>1 DEF Main, Connect, ConnectFails, SetConnected, SetNonBlocking, Poll,
       Quit, Abort, Leave, Destructor, JoinProcessing, JoinListener, JoinSender, Join,
       Clean
  <2>2. CASE Listener
    BY <2>2 DEF Listener, CheckConnected, ReceiveTask, ReceiveNothing,
       ReceiveBlocks, ReceiveDisconnected, ReceiveThrows, ListenClose, ListenFlag,
       ListenerEnd
  <2>3. CASE Processing
    BY <2>3 DEF Processing, CopyTasks, StartTask, FinishTask, ProcessingEnd
  <2>4. CASE Sender
    <3>1. CASE PickResult
      BY <3>1 DEF PickResult
    <3>2. CASE SendDone
      BY <3>2 DEF SendDone, Continues
    <3>3. CASE SendPartial
      BY <3>3 DEF SendPartial
    <3>4. CASE SendNotReady \/ SendFails
      BY <3>4 DEF SendNotReady, SendFails
    <3>5. CASE RemoveResult
      BY <3>5 DEF RemoveResult
    <3>6. CASE SendClose \/ SendFlag \/ SendAborted \/ SenderEnd
      BY <3>6 DEF SendClose, SendFlag, SendAborted, SenderEnd
    <3>7. QED
      BY <2>4, <3>1, <3>2, <3>3, <3>4, <3>5, <3>6 DEF Sender
  <2>5. CASE \E t \in Tasks : HostSends(t)
    BY <2>5 DEF HostSends
  <2>6. CASE Break
    BY <2>6 DEF Break
  <2>7. CASE UNCHANGED vars
    BY <2>7 DEF vars
  <2>8. QED
    BY <2>1, <2>2, <2>3, <2>4, <2>5, <2>6, <2>7 DEF Next
<1>3. QED
  BY <1>1, <1>2, PTL DEF Spec

\* ClientSender::sendThread: as long as packets are sent in one piece, a result
\* is deleted only when its whole packet was sent on one connection.
THEOREM Whole == Spec => []SentWhole
<1>1. WholeInv => SentWhole
  BY DEF WholeInv, SentWhole
<1>2. QED
  BY <1>1, WholeInvariant, PTL

-----------------------------------------------------------------------------
\* Client::connect and Client::disconnect: unless a thread dealt late with the
\* last connection, the flag is only up while there is a socket, or a thread is
\* about to take it down.
THEOREM Truly == Spec => []ConnectedTruly
<1>1. Init => FlagInv
  BY DEF Init, FlagInv
<1>2. FlagInv /\ [Next]_vars => FlagInv'
  <2> SUFFICES ASSUME FlagInv, [Next]_vars PROVE FlagInv'
    OBVIOUS
  <2> USE DEF FlagInv, clientVars, queueVars, stopVars, sendVars, netVars, histVars
  <2>1. CASE Main
    <3>1. CASE Connect
      BY <3>1 DEF Connect, Woken
    <3>2. CASE ConnectFails
      BY <3>2 DEF ConnectFails, Woken
    <3>3. CASE SetConnected \/ SetNonBlocking \/ Poll
      BY <3>3 DEF SetConnected, SetNonBlocking, Poll
    <3>4. CASE Quit \/ Abort \/ Destructor
      BY <3>4 DEF Quit, Abort, Leave, Destructor, JoinProcessing, JoinListener,
         JoinSender, Join, Clean
    <3>5. QED
      BY <2>1, <3>1, <3>2, <3>3, <3>4 DEF Main
  <2>2. CASE Listener
    <3>1. CASE CheckConnected \/ ReceiveTask \/ ReceiveNothing
      BY <3>1 DEF CheckConnected, ReceiveTask, ReceiveNothing
    <3>2. CASE ReceiveBlocks \/ ReceiveDisconnected
      BY <3>2 DEF ReceiveBlocks, ReceiveDisconnected
    <3>3. CASE ListenClose \/ ListenFlag
      BY <3>3 DEF ListenClose, ListenFlag
    <3>4. CASE ReceiveThrows \/ ListenerEnd
      BY <3>4 DEF ReceiveThrows, ListenerEnd
    <3>5. QED
      BY <2>2, <3>1, <3>2, <3>3, <3>4 DEF Listener
  <2>3. CASE Processing
    BY <2>3 DEF Processing, CopyTasks, StartTask, FinishTask, ProcessingEnd
  <2>4. CASE Sender
    <3>1. CASE PickResult \/ SendDone \/ SendPartial
      BY <3>1 DEF PickResult, SendDone, SendPartial
    <3>2. CASE SendNotReady \/ SendFails \/ RemoveResult
      BY <3>2 DEF SendNotReady, SendFails, RemoveResult
    <3>3. CASE SendClose
      BY <3>3 DEF SendClose, Woken
    <3>4. CASE SendFlag \/ SendAborted \/ SenderEnd
      BY <3>4 DEF SendFlag, SendAborted, SenderEnd
    <3>5. QED
      BY <2>4, <3>1, <3>2, <3>3, <3>4 DEF Sender
  <2>5. CASE \E t \in Tasks : HostSends(t)
    BY <2>5 DEF HostSends
  <2>6. CASE Break
    BY <2>6 DEF Break
  <2>7. CASE UNCHANGED vars
    BY <2>7 DEF vars
  <2>8. QED
    BY <2>1, <2>2, <2>3, <2>4, <2>5, <2>6, <2>7 DEF Next
<1>3. FlagInv => ConnectedTruly
  BY DEF FlagInv, ConnectedTruly
<1>4. QED
  BY <1>1, <1>2, <1>3, PTL DEF Spec

-----------------------------------------------------------------------------
\* The destructor waits for one thread after the other, and no thread starts again.
JoinInv ==
  /\ working # None => ppc = "busy"
  /\ mpc \in {"joinListener", "joinSender", "clean", "gone"} => ppc = "ended"
  /\ mpc \in {"joinSender", "clean", "gone"} => lpc = "ended"
  /\ mpc \in {"clean", "gone"} => spc = "ended"

LEMMA JoinInvariant == Spec => []JoinInv
<1>1. Init => JoinInv
  BY DEF Init, JoinInv
<1>2. JoinInv /\ [Next]_vars => JoinInv'
  <2> SUFFICES ASSUME JoinInv, [Next]_vars PROVE JoinInv'
    OBVIOUS
  <2> USE DEF JoinInv, clientVars, queueVars, stopVars, sendVars, netVars, histVars
  <2>1. CASE Main
    <3>1. CASE Connect \/ ConnectFails
      BY <3>1 DEF Connect, ConnectFails
    <3>2. CASE SetConnected \/ SetNonBlocking \/ Poll
      BY <3>2 DEF SetConnected, SetNonBlocking, Poll
    <3>3. CASE Quit \/ Abort
      BY <3>3 DEF Quit, Abort, Leave
    <3>4. CASE Destructor
      BY <3>4 DEF Destructor, JoinProcessing, JoinListener, JoinSender, Join, Clean
    <3>5. QED
      BY <2>1, <3>1, <3>2, <3>3, <3>4 DEF Main
  <2>2. CASE Listener
    <3>1. lpc # "ended" /\ UNCHANGED <<working, mpc, ppc, spc>>
      BY <2>2 DEF Listener, CheckConnected, ReceiveTask, ReceiveNothing, ReceiveBlocks,
         ReceiveDisconnected, ReceiveThrows, ListenClose, ListenFlag, ListenerEnd
    <3>2. QED
      BY <3>1
  <2>3. CASE Processing
    <3>1. ppc # "ended" /\ UNCHANGED <<mpc, lpc, spc>>
      BY <2>3 DEF Processing, CopyTasks, StartTask, FinishTask, ProcessingEnd
    <3>2. working' # None => ppc' = "busy"
      BY <2>3 DEF Processing, CopyTasks, StartTask, FinishTask, ProcessingEnd
    <3>3. QED
      BY <3>1, <3>2
  <2>4. CASE Sender
    <3>1. spc # "ended" /\ UNCHANGED <<working, mpc, ppc>> /\ (lpc = "ended" => lpc' = lpc)
      BY <2>4 DEF Sender, PickResult, SendDone, SendPartial, SendNotReady, SendFails,
         SendAborted, RemoveResult, SendClose, SendFlag, SenderEnd, Woken
    <3>2. QED
      BY <3>1
  <2>5. CASE \E t \in Tasks : HostSends(t)
    BY <2>5 DEF HostSends
  <2>6. CASE Break \/ UNCHANGED vars
    BY <2>6 DEF Break, vars
  <2>7. QED
    BY <2>1, <2>2, <2>3, <2>4, <2>5, <2>6 DEF Next
<1>3. QED
  BY <1>1, <1>2, PTL DEF Spec

\* Client::~Client (Client.cpp:27-62): when it deletes what is on the queues, no
\* task is being computed and no thread is left that could still use any of it.
THEOREM DeletedAlone ==
  Spec => [](mpc \in {"clean", "gone"} =>
               working = None /\ ppc = "ended" /\ lpc = "ended" /\ spc = "ended")
<1>1. JoinInv => (mpc \in {"clean", "gone"} =>
                   working = None /\ ppc = "ended" /\ lpc = "ended" /\ spc = "ended")
  BY DEF JoinInv
<1>2. QED
  BY <1>1, JoinInvariant, PTL

-----------------------------------------------------------------------------
(* What the queue operations do to the set of elements. *)

LEMMA ElementsAppended ==
  ASSUME NEW T, NEW s \in Seq(T), NEW e \in T
  PROVE  /\ Append(s, e) \in Seq(T) /\ Len(Append(s, e)) = Len(s) + 1
         /\ Elements(Append(s, e)) = Elements(s) \cup {e}
         /\ s # <<>> => Head(Append(s, e)) = Head(s)
         /\ Append(s, e) # <<>>
<1>1. /\ Append(s, e) \in Seq(T) /\ Len(Append(s, e)) = Len(s) + 1 /\ Append(s, e) # <<>>
      /\ \A i \in 1 .. Len(s) : Append(s, e)[i] = s[i]
      /\ Append(s, e)[Len(s) + 1] = e /\ Len(s) \in Nat
  BY AppendProperties
<1>2. Elements(Append(s, e)) = Elements(s) \cup {e}
  <2>1. DOMAIN s = 1 .. Len(s) /\ DOMAIN Append(s, e) = 1 .. Len(s) + 1
    BY <1>1
  <2>2. \A i \in DOMAIN Append(s, e) :
          IF i = Len(s) + 1 THEN Append(s, e)[i] = e
          ELSE i \in DOMAIN s /\ Append(s, e)[i] = s[i]
    BY <1>1, <2>1
  <2>3. \A i \in DOMAIN s : i \in DOMAIN Append(s, e) /\ Append(s, e)[i] = s[i]
    BY <1>1, <2>1
  <2>4. Len(s) + 1 \in DOMAIN Append(s, e)
    BY <1>1, <2>1
  <2>5. Elements(Append(s, e)) \subseteq Elements(s) \cup {e}
    BY <2>2 DEF Elements
  <2>6. Elements(s) \cup {e} \subseteq Elements(Append(s, e))
    BY <1>1, <2>3, <2>4 DEF Elements
  <2> QED
    BY <2>5, <2>6
<1>3. s # <<>> => Head(Append(s, e)) = Head(s)
  BY <1>1
<1> QED
  BY <1>1, <1>2, <1>3

LEMMA ElementsOfTail ==
  ASSUME NEW T, NEW s \in Seq(T), s # <<>>
  PROVE  /\ Head(s) \in T /\ Tail(s) \in Seq(T) /\ Len(Tail(s)) = Len(s) - 1
         /\ Len(s) \in Nat \ {0}
         /\ Elements(s) = {Head(s)} \cup Elements(Tail(s))
<1>1. /\ Head(s) \in T /\ Tail(s) \in Seq(T) /\ Len(Tail(s)) = Len(s) - 1
      /\ \A i \in 1 .. Len(Tail(s)) : Tail(s)[i] = s[i + 1]
      /\ Head(s) = s[1] /\ Len(s) \in Nat \ {0}
  BY HeadTailProperties
<1>2. DOMAIN s = 1 .. Len(s) /\ DOMAIN Tail(s) = 1 .. Len(s) - 1
  BY <1>1
<1>3. ASSUME NEW i \in DOMAIN s
      PROVE  i # 1 => i - 1 \in DOMAIN Tail(s) /\ Tail(s)[i - 1] = s[i]
  BY <1>1, <1>2
<1>4. \A i \in DOMAIN Tail(s) : i + 1 \in DOMAIN s /\ Tail(s)[i] = s[i + 1]
  BY <1>1, <1>2
<1>5. 1 \in DOMAIN s
  BY <1>1, <1>2
<1>6. Elements(s) \subseteq {Head(s)} \cup Elements(Tail(s))
  <2>1. ASSUME NEW i \in DOMAIN s PROVE s[i] \in {Head(s)} \cup Elements(Tail(s))
    <3>1. CASE i = 1
      BY <1>1, <3>1
    <3>2. CASE i # 1
      BY <1>3, <3>2 DEF Elements
    <3> QED
      BY <3>1, <3>2
  <2> QED
    BY <2>1 DEF Elements
<1>7. {Head(s)} \cup Elements(Tail(s)) \subseteq Elements(s)
  BY <1>1, <1>4, <1>5 DEF Elements
<1> QED
  BY <1>1, <1>6, <1>7

\* Taking off the first element by its value is taking the tail.
LEMMA FirstRemoved ==
  ASSUME NEW T, NEW s \in Seq(T), s # <<>>
  PROVE  RemoveFirst(s, Head(s)) = Tail(s)
<1>1. Len(s) \in Nat \ {0} /\ Head(s) = s[1]
  BY EmptySeq
<1> DEFINE I == {i \in 1 .. Len(s) : s[i] = Head(s)}
<1>2. 1 \in I /\ \A i \in I : 1 <= i /\ i \in Int
  BY <1>1
<1>3. SelectInSeq(s, LAMBDA v : v = Head(s)) = Min(I)
  BY <1>2 DEF SelectInSeq
<1>4. Min(I) = 1
  <2>1. Min(I) \in I /\ \A y \in I : Min(I) <= y
    BY <1>2 DEF Min
  <2> QED
    BY <1>2, <2>1
<1>5. RemoveFirst(s, Head(s)) = SubSeq(s, 1, 0) \o SubSeq(s, 2, Len(s))
  <2>1. RemoveFirst(s, Head(s)) = RemoveAt(s, SelectInSeq(s, LAMBDA v : v = Head(s)))
    BY <1>1 DEF RemoveFirst
  <2>2. RemoveFirst(s, Head(s)) = RemoveAt(s, 1)
    BY <1>3, <1>4, <2>1
  <2> QED
    BY <2>2 DEF RemoveAt
<1>6. SubSeq(s, 1, 0) = <<>> /\ SubSeq(s, 2, Len(s)) = Tail(s)
  BY <1>1, SubSeqEmpty, TailIsSubSeq
<1>7. <<>> \o Tail(s) = Tail(s)
  BY HeadTailProperties, ConcatEmptySeq
<1> QED
  BY <1>5, <1>6, <1>7

-----------------------------------------------------------------------------
\* The invariant behind NoWorkLost: the copy that the processing thread works off
\* is no longer than the queue it takes its tasks from, the result being sent is
\* the first on its queue, and nothing is deleted before the threads have ended.
WorkInv ==
  /\ taskQueue \in Seq(Tasks) /\ results \in Seq(Tasks) /\ toNode \in Seq(Tasks)
  /\ working \in Tasks \cup {None}
  /\ batch \in Nat /\ batch <= Len(taskQueue)
  /\ ppc # "busy" => batch = 0
  /\ spc \in {"send", "sent"} => results # <<>> /\ cur = Head(results)
  /\ mpc # "gone" => deleted = {}
  /\ NoWorkLost

\* It holds initially and is kept by every step.
LEMMA WorkInvariant == Spec => []WorkInv
<1>1. Init => WorkInv
  <2>1. Elements(<<>>) = {}
    BY DEF Elements
  <2>2. <<>> \in Seq(Tasks) /\ Len(<<>>) = 0
    OBVIOUS
  <2> QED
    BY <2>1, <2>2 DEF Init, WorkInv, NoWorkLost
<1>2. WorkInv /\ JoinInv /\ [Next]_vars => WorkInv'
  <2> SUFFICES ASSUME WorkInv, JoinInv, [Next]_vars PROVE WorkInv'
    OBVIOUS
  <2> USE DEF clientVars, queueVars, stopVars, sendVars, netVars, histVars
  <2>1. CASE Main
    <3>1. CASE Connect
      BY <3>1, <<>> \in Seq(Tasks) DEF Connect, WorkInv, NoWorkLost
    <3>2. CASE ConnectFails \/ SetConnected \/ SetNonBlocking \/ Poll
      BY <3>2 DEF ConnectFails, SetConnected, SetNonBlocking, Poll, WorkInv, NoWorkLost
    <3>3. CASE Quit \/ Abort
      BY <3>3 DEF Quit, Abort, Leave, WorkInv, NoWorkLost
    <3>4. CASE JoinProcessing \/ JoinListener \/ JoinSender
      BY <3>4 DEF JoinProcessing, JoinListener, JoinSender, Join, WorkInv, NoWorkLost
    <3>5. CASE Clean
      <4>1. Elements(<<>>) = {} /\ <<>> \in Seq(Tasks)
        BY DEF Elements
      <4>2. spc = "ended" /\ ppc = "ended" /\ deleted = {} /\ batch = 0
        BY <3>5 DEF Clean, JoinInv, WorkInv
      <4> QED
        BY <3>5, <4>1, <4>2 DEF Clean, WorkInv, NoWorkLost
    <3> QED
      BY <2>1, <3>1, <3>2, <3>3, <3>4, <3>5 DEF Main, Destructor
  <2>2. CASE Listener
    <3>1. CASE ReceiveTask
      <4>1. /\ Head(toNode) \in Tasks /\ Tail(toNode) \in Seq(Tasks)
            /\ taskQueue \in Seq(Tasks) /\ Len(taskQueue) \in Nat
        BY <3>1, ElementsOfTail DEF ReceiveTask, WorkInv
      <4>2. /\ taskQueue' \in Seq(Tasks) /\ Len(taskQueue') = Len(taskQueue) + 1
            /\ Elements(taskQueue') = Elements(taskQueue) \cup {Head(toNode)}
        BY <3>1, <4>1, ElementsAppended DEF ReceiveTask
      <4>3. /\ toNode' = Tail(toNode) /\ received' = received \cup {Head(toNode)}
            /\ UNCHANGED <<batch, working, results, mpc, ppc, spc, cur, answered, deleted>>
        BY <3>1 DEF ReceiveTask
      <4> QED
        BY <4>1, <4>2, <4>3 DEF WorkInv, NoWorkLost
    <3>2. CASE ReceiveThrows
      <4>1. Tail(toNode) \in Seq(Tasks)
        BY <3>2, ElementsOfTail DEF ReceiveThrows, WorkInv
      <4> QED
        BY <3>2, <4>1 DEF ReceiveThrows, WorkInv, NoWorkLost
    <3>3. CASE \/ CheckConnected \/ ReceiveNothing \/ ReceiveBlocks
               \/ ReceiveDisconnected \/ ListenClose \/ ListenFlag \/ ListenerEnd
      BY <3>3 DEF CheckConnected, ReceiveNothing, ReceiveBlocks, ReceiveDisconnected,
         ListenClose, ListenFlag, ListenerEnd, WorkInv, NoWorkLost
    <3> QED
      BY <2>2, <3>1, <3>2, <3>3 DEF Listener
  <2>3. CASE Processing
    <3>1. CASE CopyTasks
      <4>1. Len(taskQueue) \in Nat
        BY DEF WorkInv
      <4> QED
        BY <3>1, <4>1 DEF CopyTasks, WorkInv, NoWorkLost
    <3>2. CASE StartTask
      <4>1. taskQueue \in Seq(Tasks) /\ taskQueue # <<>> /\ batch \in Nat \ {0}
            /\ batch <= Len(taskQueue) /\ Len(taskQueue) \in Nat
        BY <3>2 DEF StartTask, WorkInv
      <4>2. /\ working' = Head(taskQueue) /\ taskQueue' = Tail(taskQueue)
            /\ batch' = batch - 1 /\ working = None /\ ppc = "busy"
            /\ UNCHANGED <<toNode, received, results, mpc, ppc, spc, cur, answered, deleted>>
        BY <3>2 DEF StartTask
      <4>3. /\ working' \in Tasks /\ taskQueue' \in Seq(Tasks)
            /\ Len(taskQueue') = Len(taskQueue) - 1
            /\ Elements(taskQueue) = {working'} \cup Elements(taskQueue')
        BY <4>1, <4>2, ElementsOfTail
      <4>4. {working'} \ {None} = {working'}
        BY <4>3, NodeConstants
      <4>5. NoWorkLost'
        BY <4>2, <4>3, <4>4 DEF WorkInv, NoWorkLost
      <4>6. batch' \in Nat /\ batch' <= Len(taskQueue')
        BY <4>1, <4>2, <4>3
      <4> QED
        BY <4>2, <4>3, <4>5, <4>6 DEF WorkInv
    <3>3. CASE FinishTask
      <4>1. /\ results' = Append(results, working) /\ working' = None /\ working # None
            /\ ppc' = IF batch = 0 THEN "idle" ELSE "busy"
            /\ UNCHANGED <<toNode, received, taskQueue, batch, mpc, spc, cur, answered, deleted>>
        BY <3>3 DEF FinishTask
      <4>2. working \in Tasks /\ results \in Seq(Tasks)
        BY <4>1 DEF WorkInv
      <4>3. /\ results' \in Seq(Tasks) /\ results' # <<>>
            /\ Elements(results') = Elements(results) \cup {working}
            /\ results # <<>> => Head(results') = Head(results)
        BY <4>1, <4>2, ElementsAppended
      <4> QED
        BY <4>1, <4>2, <4>3 DEF WorkInv, NoWorkLost
    <3>4. CASE ProcessingEnd
      BY <3>4 DEF ProcessingEnd, WorkInv, NoWorkLost
    <3> QED
      BY <2>3, <3>1, <3>2, <3>3, <3>4 DEF Processing
  <2>4. CASE Sender
    <3>1. CASE RemoveResult
      <4>1. /\ results' = RemoveFirst(results, cur) /\ answered' = answered \cup {cur}
            /\ spc = "sent" /\ spc' = "idle"
            /\ UNCHANGED <<toNode, received, taskQueue, batch, working, mpc, ppc, deleted>>
        BY <3>1 DEF RemoveResult
      <4>2. results \in Seq(Tasks) /\ results # <<>> /\ cur = Head(results)
        BY <4>1 DEF WorkInv
      <4>3. results' = Tail(results)
        BY <4>1, <4>2, FirstRemoved
      <4>4. results' \in Seq(Tasks) /\ Elements(results) = {cur} \cup Elements(results')
        BY <4>2, <4>3, ElementsOfTail
      <4> QED
        BY <4>1, <4>4 DEF WorkInv, NoWorkLost
    <3>2. CASE PickResult
      BY <3>2 DEF PickResult, WorkInv, NoWorkLost
    <3>3. CASE \/ SendDone \/ SendPartial \/ SendNotReady \/ SendFails \/ SendAborted
               \/ SendClose \/ SendFlag \/ SenderEnd
      BY <3>3 DEF SendDone, SendPartial, SendNotReady, SendFails, SendAborted, SendClose,
         SendFlag, SenderEnd, WorkInv, NoWorkLost
    <3> QED
      BY <2>4, <3>1, <3>2, <3>3 DEF Sender
  <2>5. CASE \E t \in Tasks : HostSends(t)
    <3>1. PICK t \in Tasks : HostSends(t)
      BY <2>5
    <3>2. toNode' \in Seq(Tasks)
      BY <3>1, ElementsAppended DEF HostSends, WorkInv
    <3> QED
      BY <3>1, <3>2 DEF HostSends, WorkInv, NoWorkLost
  <2>6. CASE Break
    <3>1. PICK k \in 0 .. Len(toNode) : toNode' = SubSeq(toNode, 1, k)
      BY <2>6 DEF Break
    <3>2. toNode' \in Seq(Tasks)
      <4>1. toNode \in Seq(Tasks) /\ Len(toNode) \in Nat /\ k \in Int
        BY <3>1 DEF WorkInv
      <4>2. \A i \in 1 .. k : toNode[i] \in Tasks
        BY <3>1, <4>1
      <4> QED
        BY <3>1, <4>1, <4>2, SubSeqProperties
    <3> QED
      BY <2>6, <3>2 DEF Break, WorkInv, NoWorkLost
  <2>7. CASE UNCHANGED vars
    BY <2>7 DEF vars, WorkInv, NoWorkLost
  <2> QED
    BY <2>1, <2>2, <2>3, <2>4, <2>5, <2>6, <2>7 DEF Next
<1> QED
  BY <1>1, <1>2, JoinInvariant, PTL DEF Spec

\* No task that a node has received is ever given up: whatever connections break
\* and whenever the program ends, it is queued, computed, answered, or deleted by
\* the destructor (Client.cpp:153-282, ClientListener.cpp:60-185,
\* ClientSender.cpp:60-130).
THEOREM WorkKept == Spec => []NoWorkLost
<1>1. WorkInv => NoWorkLost
  BY DEF WorkInv
<1> QED
  BY <1>1, WorkInvariant, PTL

-----------------------------------------------------------------------------
(* Each task once. *)

Distinct(s) == \A i, j \in DOMAIN s : i # j => s[i] # s[j]

LEMMA DistinctAppended ==
  ASSUME NEW T, NEW s \in Seq(T), NEW e \in T, Distinct(s), e \notin Elements(s)
  PROVE  Distinct(Append(s, e))
<1>1. /\ Append(s, e) \in Seq(T) /\ Len(Append(s, e)) = Len(s) + 1
      /\ \A i \in 1 .. Len(s) : Append(s, e)[i] = s[i]
      /\ Append(s, e)[Len(s) + 1] = e /\ Len(s) \in Nat
  BY AppendProperties
<1>2. DOMAIN s = 1 .. Len(s) /\ DOMAIN Append(s, e) = 1 .. Len(s) + 1
  BY <1>1
<1>3. \A i \in DOMAIN s : s[i] # e
  BY DEF Elements
<1> QED
  BY <1>1, <1>2, <1>3 DEF Distinct

LEMMA DistinctTail ==
  ASSUME NEW T, NEW s \in Seq(T), s # <<>>, Distinct(s)
  PROVE  Distinct(Tail(s)) /\ Head(s) \notin Elements(Tail(s))
<1>1. /\ Tail(s) \in Seq(T) /\ Len(Tail(s)) = Len(s) - 1
      /\ \A i \in 1 .. Len(Tail(s)) : Tail(s)[i] = s[i + 1]
      /\ Head(s) = s[1] /\ Len(s) \in Nat \ {0}
  BY HeadTailProperties
<1>2. DOMAIN s = 1 .. Len(s) /\ DOMAIN Tail(s) = 1 .. Len(s) - 1
  BY <1>1
<1>3. \A i \in DOMAIN Tail(s) :
        i \in Int /\ i + 1 \in DOMAIN s /\ Tail(s)[i] = s[i + 1] /\ i + 1 # 1
  BY <1>1, <1>2
<1>4. 1 \in DOMAIN s
  BY <1>1, <1>2
<1>5. Distinct(Tail(s))
  BY <1>3 DEF Distinct
<1>6. \A i \in DOMAIN Tail(s) : Tail(s)[i] # Head(s)
  BY <1>1, <1>3, <1>4 DEF Distinct
<1> QED
  BY <1>5, <1>6 DEF Elements

LEMMA DistinctBeginning ==
  ASSUME NEW T, NEW s \in Seq(T), NEW k \in 0 .. Len(s), Distinct(s)
  PROVE  Distinct(SubSeq(s, 1, k)) /\ Elements(SubSeq(s, 1, k)) \subseteq Elements(s)
<1>1. Len(s) \in Nat /\ DOMAIN s = 1 .. Len(s)
  OBVIOUS
<1>2. k \in Int /\ \A i \in 1 .. k : s[i] \in T
  BY <1>1
<1>3. /\ SubSeq(s, 1, k) \in Seq(T) /\ Len(SubSeq(s, 1, k)) = k
      /\ \A i \in 1 .. k : SubSeq(s, 1, k)[i] = s[i]
  BY <1>1, <1>2, SubSeqProperties
<1>4. \A i \in DOMAIN SubSeq(s, 1, k) : i \in DOMAIN s /\ SubSeq(s, 1, k)[i] = s[i]
  BY <1>1, <1>3
<1> QED
  BY <1>4 DEF Distinct, Elements

\* A task that a node has received is in one place: on the queue, computed, its
\* result waiting, answered, or deleted at the end, and once in that place.
OneTaskPlace ==
  /\ Distinct(taskQueue) /\ Distinct(results)
  /\ Elements(taskQueue) \cap Elements(results) = {}
  /\ working \notin Elements(taskQueue) \cup Elements(results)
  /\ (answered \cup deleted) \cap ({working} \cup Elements(taskQueue) \cup Elements(results)) = {}
  /\ answered \cap deleted = {}

\* The inductive invariant: in addition, the tasks under way to the node differ
\* from each other and from those it has received.
OnceInv ==
  /\ OneTaskPlace
  /\ Distinct(toNode)
  /\ Elements(toNode) \cup received \subseteq sent
  /\ Elements(toNode) \cap received = {}
  /\ received \subseteq Tasks

LEMMA OnceMain == OnceInv /\ WorkInv /\ JoinInv /\ Main => OnceInv'
<1> SUFFICES ASSUME OnceInv, WorkInv, JoinInv, Main PROVE OnceInv'
  OBVIOUS
<1> USE DEF clientVars, queueVars, stopVars, sendVars, netVars, histVars
<1>1. Elements(<<>>) = {} /\ Distinct(<<>>)
  BY DEF Elements, Distinct
<1>2. CASE Connect
  BY <1>1, <1>2 DEF Connect, OnceInv, OneTaskPlace
<1>3. CASE ConnectFails \/ SetConnected \/ SetNonBlocking \/ Poll
  BY <1>3 DEF ConnectFails, SetConnected, SetNonBlocking, Poll, OnceInv, OneTaskPlace
<1>4. CASE Quit \/ Abort
  BY <1>4 DEF Quit, Abort, Leave, OnceInv, OneTaskPlace
<1>5. CASE JoinProcessing \/ JoinListener \/ JoinSender
  BY <1>5 DEF JoinProcessing, JoinListener, JoinSender, Join, OnceInv, OneTaskPlace
<1>6. CASE Clean
  <2>1. working = None /\ deleted = {}
    BY <1>6 DEF Clean, JoinInv, WorkInv
  <2>2. None \notin Elements(taskQueue) \cup Elements(results) \cup answered
    BY <2>1 DEF OnceInv, OneTaskPlace
  <2>3. /\ deleted' = Elements(taskQueue) \cup Elements(results)
        /\ taskQueue' = <<>> /\ results' = <<>>
        /\ UNCHANGED <<working, toNode, sent, received, answered>>
    BY <1>6 DEF Clean
  <2>4. OneTaskPlace'
    BY <1>1, <2>1, <2>2, <2>3 DEF OnceInv, OneTaskPlace
  <2> QED
    BY <2>3, <2>4 DEF OnceInv
<1> QED
  BY <1>2, <1>3, <1>4, <1>5, <1>6 DEF Main, Destructor

LEMMA OnceListener == OnceInv /\ WorkInv /\ Listener => OnceInv'
<1> SUFFICES ASSUME OnceInv, WorkInv, Listener PROVE OnceInv'
  OBVIOUS
<1> USE DEF clientVars, queueVars, stopVars, sendVars, netVars, histVars
<1>1. CASE ReceiveTask
  <2> DEFINE t == Head(toNode)
  <2>1. /\ toNode \in Seq(Tasks) /\ toNode # <<>> /\ taskQueue \in Seq(Tasks)
        /\ taskQueue' = Append(taskQueue, t) /\ toNode' = Tail(toNode)
        /\ received' = received \cup {t}
        /\ UNCHANGED <<working, results, answered, deleted, sent>>
    BY <1>1 DEF ReceiveTask, WorkInv
  <2>2. /\ t \in Tasks /\ Elements(toNode) = {t} \cup Elements(toNode')
        /\ Distinct(toNode') /\ t \notin Elements(toNode')
    BY <2>1, ElementsOfTail, DistinctTail DEF OnceInv
  <2>3. t \notin received /\ t \in sent /\ t # None
    BY <2>2, NodeConstants DEF OnceInv
  <2>4. t \notin {working} \cup Elements(taskQueue) \cup Elements(results) \cup answered \cup deleted
    BY <2>3 DEF WorkInv, NoWorkLost
  <2>5. /\ Elements(taskQueue') = Elements(taskQueue) \cup {t}
        /\ Distinct(taskQueue')
    BY <2>1, <2>2, <2>4, ElementsAppended, DistinctAppended DEF OnceInv, OneTaskPlace
  <2> HIDE DEF t
  <2>6. OneTaskPlace'
    BY <2>1, <2>4, <2>5 DEF OnceInv, OneTaskPlace
  <2> QED
    BY <2>1, <2>2, <2>3, <2>6 DEF OnceInv
<1>2. CASE ReceiveThrows
  <2>1. /\ toNode \in Seq(Tasks) /\ toNode # <<>> /\ toNode' = Tail(toNode)
        /\ UNCHANGED <<taskQueue, working, results, answered, deleted, sent, received>>
    BY <1>2 DEF ReceiveThrows, WorkInv
  <2>2. Elements(toNode') \subseteq Elements(toNode) /\ Distinct(toNode')
    BY <2>1, ElementsOfTail, DistinctTail DEF OnceInv
  <2> QED
    BY <2>1, <2>2 DEF OnceInv, OneTaskPlace
<1>3. CASE \/ CheckConnected \/ ReceiveNothing \/ ReceiveBlocks
           \/ ReceiveDisconnected \/ ListenClose \/ ListenFlag \/ ListenerEnd
  BY <1>3 DEF CheckConnected, ReceiveNothing, ReceiveBlocks, ReceiveDisconnected,
     ListenClose, ListenFlag, ListenerEnd, OnceInv, OneTaskPlace
<1> QED
  BY <1>1, <1>2, <1>3 DEF Listener

LEMMA OnceProcessing == OnceInv /\ WorkInv /\ Processing => OnceInv'
<1> SUFFICES ASSUME OnceInv, WorkInv, Processing PROVE OnceInv'
  OBVIOUS
<1> USE DEF clientVars, queueVars, stopVars, sendVars, netVars, histVars
<1>1. CASE StartTask
  <2>1. /\ taskQueue \in Seq(Tasks) /\ taskQueue # <<>>
        /\ working' = Head(taskQueue) /\ taskQueue' = Tail(taskQueue)
        /\ UNCHANGED <<results, answered, deleted, sent, received, toNode>>
    BY <1>1 DEF StartTask, WorkInv
  <2>2. /\ Elements(taskQueue) = {working'} \cup Elements(taskQueue')
        /\ Distinct(taskQueue') /\ working' \notin Elements(taskQueue')
    BY <2>1, ElementsOfTail, DistinctTail DEF OnceInv, OneTaskPlace
  <2>3. OneTaskPlace'
    BY <2>1, <2>2 DEF OnceInv, OneTaskPlace
  <2> QED
    BY <2>1, <2>3 DEF OnceInv
<1>2. CASE FinishTask
  <2>1. /\ results' = Append(results, working) /\ working' = None
        /\ results \in Seq(Tasks) /\ working \in Tasks
        /\ UNCHANGED <<taskQueue, answered, deleted, sent, received, toNode>>
    BY <1>2 DEF FinishTask, WorkInv
  <2>2. /\ Elements(results') = Elements(results) \cup {working}
        /\ Distinct(results')
    BY <2>1, ElementsAppended, DistinctAppended DEF OnceInv, OneTaskPlace
  <2>3. received \subseteq Tasks /\ None \notin received
    BY NodeConstants DEF OnceInv
  <2>4. None \notin Elements(taskQueue) \cup Elements(results) \cup answered \cup deleted \cup {working}
    BY <2>1, <2>3, NodeConstants DEF WorkInv, NoWorkLost
  <2>5. OneTaskPlace'
    BY <2>1, <2>2, <2>4 DEF OnceInv, OneTaskPlace
  <2> QED
    BY <2>1, <2>5 DEF OnceInv
<1>3. CASE CopyTasks \/ ProcessingEnd
  BY <1>3 DEF CopyTasks, ProcessingEnd, OnceInv, OneTaskPlace
<1> QED
  BY <1>1, <1>2, <1>3 DEF Processing

LEMMA OnceSender == OnceInv /\ WorkInv /\ Sender => OnceInv'
<1> SUFFICES ASSUME OnceInv, WorkInv, Sender PROVE OnceInv'
  OBVIOUS
<1> USE DEF clientVars, queueVars, stopVars, sendVars, netVars, histVars
<1>1. CASE RemoveResult
  <2>1. /\ results \in Seq(Tasks) /\ results # <<>> /\ cur = Head(results)
        /\ results' = RemoveFirst(results, cur) /\ answered' = answered \cup {cur}
        /\ UNCHANGED <<taskQueue, working, deleted, sent, received, toNode>>
    BY <1>1 DEF RemoveResult, WorkInv
  <2>2. results' = Tail(results)
    BY <2>1, FirstRemoved
  <2>3. /\ Elements(results) = {cur} \cup Elements(results')
        /\ Distinct(results') /\ cur \notin Elements(results')
    <3>1. Elements(results) = {Head(results)} \cup Elements(Tail(results))
      BY <2>1, ElementsOfTail
    <3>2. Distinct(Tail(results)) /\ Head(results) \notin Elements(Tail(results))
      BY <2>1, DistinctTail DEF OnceInv, OneTaskPlace
    <3> QED
      BY <2>1, <2>2, <3>1, <3>2
  <2>4. OneTaskPlace'
    BY <2>1, <2>3 DEF OnceInv, OneTaskPlace
  <2> QED
    BY <2>1, <2>4 DEF OnceInv
<1>2. CASE PickResult
  BY <1>2 DEF PickResult, OnceInv, OneTaskPlace
<1>3. CASE \/ SendDone \/ SendPartial \/ SendNotReady \/ SendFails \/ SendAborted
           \/ SendClose \/ SendFlag \/ SenderEnd
  BY <1>3 DEF SendDone, SendPartial, SendNotReady, SendFails, SendAborted, SendClose,
     SendFlag, SenderEnd, OnceInv, OneTaskPlace
<1> QED
  BY <1>1, <1>2, <1>3 DEF Sender

LEMMA OnceNetwork ==
  OnceInv /\ WorkInv /\ ((\E t \in Tasks : HostSends(t)) \/ Break) => OnceInv'
<1> SUFFICES ASSUME OnceInv, WorkInv, (\E t \in Tasks : HostSends(t)) \/ Break
    PROVE OnceInv'
  OBVIOUS
<1> USE DEF clientVars, queueVars, stopVars, sendVars, netVars, histVars
<1>1. CASE \E t \in Tasks : HostSends(t)
  <2>1. PICK t \in Tasks : HostSends(t)
    BY <1>1
  <2>2. /\ t \notin sent /\ sent' = sent \cup {t} /\ toNode \in Seq(Tasks)
        /\ toNode' = Append(toNode, t)
        /\ UNCHANGED <<taskQueue, working, results, answered, deleted, received>>
    BY <2>1 DEF HostSends, WorkInv
  <2>3. Elements(toNode') = Elements(toNode) \cup {t} /\ Distinct(toNode')
    BY <2>2, ElementsAppended, DistinctAppended DEF OnceInv
  <2> QED
    BY <2>2, <2>3 DEF OnceInv, OneTaskPlace
<1>2. CASE Break
  <2>1. PICK k \in 0 .. Len(toNode) : toNode' = SubSeq(toNode, 1, k)
    BY <1>2 DEF Break
  <2>2. Distinct(toNode') /\ Elements(toNode') \subseteq Elements(toNode)
    BY <2>1, DistinctBeginning DEF OnceInv, WorkInv
  <2>3. UNCHANGED <<taskQueue, working, results, answered, deleted, sent, received>>
    BY <1>2 DEF Break
  <2> QED
    BY <2>2, <2>3 DEF OnceInv, OneTaskPlace
<1> QED
  BY <1>1, <1>2

\* Whatever connections break and sends are repeated, a node computes each task
\* object once, takes its result off the queue once, and neither sends nor deletes
\* one again that it has deleted (Client.cpp:153-282, ClientSender.cpp:48-130).  A
\* task that the host sends again is another object.
THEOREM TasksOnce == Spec => []OneTaskPlace
<1>1. Init => OnceInv
  <2>1. Elements(<<>>) = {} /\ Distinct(<<>>)
    BY DEF Elements, Distinct
  <2> QED
    BY <2>1 DEF Init, OnceInv, OneTaskPlace
<1>2. OnceInv /\ WorkInv /\ JoinInv /\ [Next]_vars => OnceInv'
  <2>1. UNCHANGED vars /\ OnceInv => OnceInv'
    BY DEF vars, queueVars, netVars, histVars, stopVars, OnceInv, OneTaskPlace
  <2> QED
    BY <2>1, OnceMain, OnceListener, OnceProcessing, OnceSender, OnceNetwork DEF Next
<1>3. OnceInv => OneTaskPlace
  BY DEF OnceInv
<1> QED
  BY <1>1, <1>2, <1>3, WorkInvariant, JoinInvariant, PTL DEF Spec
=============================================================================
