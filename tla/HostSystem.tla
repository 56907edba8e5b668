----------------------------- MODULE HostSystem -----------------------------
(***************************************************************************)
(* A host and its application, put together: the application gives tasks   *)
(* to the host and polls for their results, as the main loop of the        *)
(* benchmark does; the host hands out the parts of a task, and what        *)
(* becomes of them is the abstract PartService, which HostDispatch         *)
(* implements; threads with an accepted result put the results of a task   *)
(* together (ResultAssembly); in the end the host is deleted with all it   *)
(* still has.                                                              *)
(*                                                                         *)
(* Several tasks may be under way, as in the Mandelbrot application; the   *)
(* benchmark adds the next one only when it has removed the last result.   *)
(***************************************************************************)
EXTENDS ResultAssembly

VARIABLES
  app,             \* the application's main loop, ~Host, or past it
  submitted,       \* tasks given to Host::addTaskToQueue
  status,          \* what the dispatch has made of each part
  held,            \* the accepted result a thread is about to append
  exceptionThrown, \* ConsoleMessager::exceptionThrown
  cleaned,         \* Result objects deleted by Host::stop
  delivered        \* tasks whose result the application has had and removed

Dispatch == INSTANCE PartService

appVars  == <<app, submitted, delivered>>
hostVars == <<status, held, exceptionThrown, cleaned>>
sysVars  == <<vars, appVars, hostVars>>

SystemTypeOK ==
  /\ TypeOK /\ Dispatch!TypeOK
  /\ app \in {"run", "stopping", "gone", "thrown"}
  /\ submitted \subseteq Tasks /\ delivered \subseteq Tasks
  /\ held \in [Threads -> Parts \cup {NoResult}]
  /\ exceptionThrown \in BOOLEAN
  /\ cleaned \subseteq Parts \cup Merged

SystemInit ==
  /\ Init /\ Dispatch!Init
  /\ app = "run" /\ submitted = {} /\ delivered = {}
  /\ held = [th \in Threads |-> NoResult]
  /\ exceptionThrown = FALSE /\ cleaned = {}

-----------------------------------------------------------------------------
(* The application. *)

Running == app = "run" /\ ~badAccess

\* Each task is new and has an ID of its own.
AddTaskToQueue(t) ==
  /\ Running /\ inHand = NoResult /\ t \notin submitted
  /\ submitted' = submitted \cup {t}
  /\ UNCHANGED <<vars, app, delivered, hostVars>>

\* checkAvailableResult and getAvailableResult; an application that sees an
\* exception leaves its loop instead.
TakeResult ==
  /\ Running /\ ~exceptionThrown
  /\ GetAvailableResult
  /\ UNCHANGED <<appVars, hostVars>>

DropResult ==
  /\ Running
  /\ RemoveResultFromQueue
  /\ delivered' = delivered \cup {inHand[1]}
  /\ UNCHANGED <<app, submitted, hostVars>>

\* The user quits or a thread has thrown.  The host's destructor calls stop.
Quit ==
  /\ Running /\ inHand = NoResult
  /\ app' = "stopping"
  /\ UNCHANGED <<vars, submitted, delivered, hostVars>>

\* The result is not the expected one: the main function throws, which ends the
\* host's threads too, and its handler does not delete the host.
RejectResult ==
  /\ Running /\ inHand # NoResult
  /\ app' = "thrown"
  /\ exceptionThrown' = TRUE
  /\ UNCHANGED <<vars, submitted, delivered, status, held, cleaned>>

\* Mutant: stop deletes the complete results only.
CleanComplete ==
  /\ app = "stopping" /\ ~badAccess
  /\ Idle /\ held = [th \in Threads |-> NoResult]
  /\ cleaned' = complete
  /\ app' = "gone"
  /\ UNCHANGED <<vars, submitted, delivered, status, held, exceptionThrown>>

\* Host::stop, when the threads have ended (HostLifecycle!ThreadsJoined): what is
\* on either queue of results is deleted.
Clean ==
  /\ app = "stopping" /\ ~badAccess
  /\ Idle /\ held = [th \in Threads |-> NoResult]
  /\ cleaned' = complete \cup incomplete
  /\ app' = "gone"
  /\ UNCHANGED <<vars, submitted, delivered, status, held, exceptionThrown>>

-----------------------------------------------------------------------------
(* The host. *)

HostRuns == app # "gone" /\ ~exceptionThrown /\ ~badAccess

\* The watcher divides a task (divideTasksIntoSubTaskQueue).
Divide(t) ==
  /\ HostRuns /\ t \in submitted
  /\ Dispatch!Create(PartsOf(t))
  /\ UNCHANGED <<vars, appVars, held, exceptionThrown, cleaned>>

\* A part is placed, or comes back when its node is lost, or is lost itself.
HandOut(p) ==
  /\ HostRuns
  /\ Dispatch!Assign(p) \/ Dispatch!Return({p})
  /\ UNCHANGED <<vars, appVars, held, exceptionThrown, cleaned>>

Lose(p) ==
  /\ HostRuns
  /\ Dispatch!Abandon({p})
  /\ UNCHANGED <<vars, appVars, held, exceptionThrown, cleaned>>

\* markTaskFinished returns true: from here the result is the thread's.
Accept(th, p) ==
  /\ HostRuns
  /\ pc[th] = "idle" /\ held[th] = NoResult
  /\ Dispatch!Answer(p)
  /\ held' = [held EXCEPT ![th] = p]
  /\ UNCHANGED <<vars, appVars, exceptionThrown, cleaned>>

\* The result goes on the incomplete queue, a step of its own.
Append(th) ==
  /\ held[th] # NoResult
  /\ AppendResult(th, held[th])
  /\ held' = [held EXCEPT ![th] = NoResult]
  /\ UNCHANGED <<appVars, status, exceptionThrown, cleaned>>

CheckForCompleteResults(th) ==
  /\ Check(th)
  /\ UNCHANGED <<appVars, hostVars>>

\* A thread of the host throws; the others end when they come to look, the ones
\* with a result when they are done with it.
Throw ==
  /\ HostRuns
  /\ exceptionThrown' = TRUE
  /\ UNCHANGED <<vars, appVars, status, held, cleaned>>

-----------------------------------------------------------------------------
Application ==
  \/ \E t \in Tasks : AddTaskToQueue(t)
  \/ TakeResult \/ DropResult \/ RejectResult \/ Quit \/ Clean

Host ==
  \/ \E t \in Tasks : Divide(t)
  \/ \E p \in Parts : HandOut(p) \/ Lose(p) \/ \E th \in Threads : Accept(th, p)
  \/ \E th \in Threads : Append(th) \/ CheckForCompleteResults(th)
  \/ Throw

SystemNext == Application \/ Host

SystemSpec == SystemInit /\ [][SystemNext]_sysVars

\* A thread that has a result goes on, the application goes on polling, and the
\* watcher divides what it finds.  That a part is answered or lost in the end
\* unless the host fails is HostDispatch!EveryPartSettles.
SystemFairSpec ==
  /\ SystemSpec
  /\ \A t \in Tasks : WF_sysVars(Divide(t))
  /\ \A p \in Parts :
       /\ WF_sysVars(HandOut(p))
       /\ SF_sysVars(\E th \in Threads : Accept(th, p) \/ Lose(p))
  /\ \A th \in Threads : WF_sysVars(Append(th) \/ CheckForCompleteResults(th))
  /\ WF_sysVars(TakeResult \/ DropResult)
  /\ WF_sysVars(Clean)

-----------------------------------------------------------------------------
(* Properties. *)

\* A task given to the host is answered: the application gets its result and
\* removes it, unless a part is lost, the host fails or it is told to stop, or a
\* deleted result was used (the main loop of the benchmark).
EveryTaskDelivered ==
  \A t \in Tasks :
    t \in submitted ~>
      \/ t \in delivered
      \/ \E p \in PartsOf(t) : status[p] = "lost"
      \/ exceptionThrown \/ app # "run" \/ badAccess

Quiet == Idle /\ held = [th \in Threads |-> NoResult]

\* When no thread has a result, and no scans have overlapped, nothing is left of a
\* task the application is done with: neither parts nor a result stay on a queue,
\* and each of its objects has been deleted.
LeavesNothing ==
  Quiet /\ ~raced =>
    \A t \in delivered :
      /\ PartsOf(t) \cap incomplete = {}
      /\ \A r \in complete : r[1] # t
      /\ \A p \in PartsOf(t) : status[p] = "answered" /\ p \in freed

\* When the host is gone every Result object it accepted has been deleted, and
\* none of them twice, whenever the application stopped and however far the
\* threads had come, unless scans overlapped.
DeletedOnce ==
  app = "gone" /\ ~raced =>
    /\ {p \in Parts : status[p] = "answered"} \subseteq freed \cup cleaned
    /\ complete \cup incomplete \subseteq freed \cup cleaned
    /\ freed \cap cleaned = {}

-----------------------------------------------------------------------------
(* The inductive invariant behind LeavesNothing and DeletedOnce. *)

\* A part is answered exactly when its result is accepted or a thread is about to
\* append it; no two threads have the same one.
HeldInv ==
  /\ status \in [Parts -> Dispatch!Status]
  /\ held \in [Threads -> Parts \cup {NoResult}]
  /\ \A p \in Parts :
       status[p] = "answered" <=> p \in accepted \/ \E th \in Threads : held[th] = p
  /\ \A th \in Threads :
       held[th] # NoResult => pc[th] = "idle" /\ held[th] \notin accepted
  /\ \A a, b \in Threads : held[a] = held[b] /\ held[a] # NoResult => a = b

\* An accepted result is on one of the queues until it is deleted.
KeptInv ==
  /\ accepted \subseteq incomplete \cup complete \cup freed
  /\ \A th \in Threads : \A p \in remove[th] :
       Total[p[1]] = 1 => p \in complete \cup freed

\* What stop deletes is what the queues had when no thread was left.
GoneInv ==
  IF app = "gone" THEN Quiet /\ cleaned = complete \cup incomplete ELSE cleaned = {}

\* A task has one result, and that is gone when the task is delivered.
OneResult ==
  /\ delivered \subseteq Tasks
  /\ \A r \in complete : completed[r[1]] > 0 /\ r[1] \notin delivered
  /\ \A r, s \in complete : r[1] = s[1] => r = s
  /\ \A t \in delivered : completed[t] > 0

SystemInv == HeldInv /\ KeptInv /\ GoneInv /\ (~raced => OneResult)
=============================================================================
