--------------------------- MODULE ResultAssembly ---------------------------
(***************************************************************************)
(* How a host puts the accepted results of a task's parts together: the    *)
(* receive threads and the local thread each append a result to            *)
(* resultQueueIncomplete and run Host::checkForCompleteResults, which      *)
(* works on a copy of the queue made under the lock, while the application *)
(* polls the queue of complete results and removes what it has used.       *)
(*                                                                         *)
(* In HostDispatch this is the step from "accepted" to "answered".  That a *)
(* part has at most one accepted result is proved there (AtMostOneResult). *)
(***************************************************************************)
EXTENDS Naturals

CONSTANTS
  Threads,   \* the receive threads and the local thread
  Tasks,     \* the tasks
  Total,     \* Total[t]: Result::getCurrentTaskPartsTotal of t's parts
  NoResult   \* nullptr

PartsOf(t) == {<<t, i>> : i \in 0 .. Total[t] - 1}
Parts == UNION {PartsOf(t) : t \in Tasks}

\* A Result object is the result of a part, or one a thread merged.
Merged == Tasks \X Threads

ASSUME ResultConstants ==
  /\ Total \in [Tasks -> Nat \ {0}]
  /\ Threads \cap Nat = {}
  /\ NoResult \notin Parts \cup Merged

VARIABLES
  accepted,      \* parts whose result has been accepted
  incomplete,    \* Host::resultQueueIncomplete
  complete,      \* Host::resultQueueComplete
  pc,            \* where each thread is
  copy,          \* its resultQueueIncompleteCOPY
  remove,        \* its removal list
  inHand,        \* the result the application is using
  completed,     \* completed[t]: results of t put on the complete queue
  freed,         \* Result objects deleted
  badAccess,     \* a deleted result was used: anything may follow
  raced          \* two scans overlapped, or the application deleted a result
                 \* that a thread was still working with

threadVars == <<pc, copy, remove>>
vars == <<accepted, incomplete, complete, threadVars, inHand, completed, freed,
          badAccess, raced>>

TypeOK ==
  /\ accepted \subseteq Parts /\ incomplete \subseteq Parts
  /\ complete \subseteq Parts \cup Merged
  /\ pc \in [Threads -> {"idle", "copy", "scan", "remove"}]
  /\ copy \in [Threads -> SUBSET Parts]
  /\ remove \in [Threads -> SUBSET Parts]
  /\ inHand \in Parts \cup Merged \cup {NoResult}
  /\ completed \in [Tasks -> Nat]
  /\ freed \subseteq Parts \cup Merged
  /\ badAccess \in BOOLEAN /\ raced \in BOOLEAN

Init ==
  /\ accepted = {} /\ incomplete = {} /\ complete = {}
  /\ pc = [th \in Threads |-> "idle"]
  /\ copy = [th \in Threads |-> {}] /\ remove = [th \in Threads |-> {}]
  /\ inHand = NoResult
  /\ completed = [t \in Tasks |-> 0]
  /\ freed = {} /\ badAccess = FALSE /\ raced = FALSE

\* Threads go from step to step unless the process has used a deleted result.
Step(th, from, to) ==
  /\ ~badAccess
  /\ pc[th] = from
  /\ pc' = [pc EXCEPT ![th] = to]

-----------------------------------------------------------------------------
(* A thread with an accepted result. *)

\* Mutant: the copy to search is made before the result is appended.
AppendAfterCopy(th, p) ==
  /\ Step(th, "idle", "scan")
  /\ p \notin accepted
  /\ accepted' = accepted \cup {p}
  /\ incomplete' = incomplete \cup {p}
  /\ copy' = [copy EXCEPT ![th] = incomplete]
  /\ UNCHANGED <<complete, remove, inHand, completed, freed, badAccess, raced>>

\* The accepted result is appended to the incomplete results.
AppendResult(th, p) ==
  /\ Step(th, "idle", "copy")
  /\ p \notin accepted
  /\ accepted' = accepted \cup {p}
  /\ incomplete' = incomplete \cup {p}
  /\ UNCHANGED <<complete, copy, remove, inHand, completed, freed, badAccess,
                 raced>>

\* The thread works on its copy from Copy to Remove.
Working(th) == pc[th] \in {"scan", "remove"}

Copy(th) ==
  /\ Step(th, "copy", "scan")
  /\ copy' = [copy EXCEPT ![th] = incomplete]
  /\ raced' = (raced \/ \E other \in Threads : Working(other))
  /\ UNCHANGED <<accepted, incomplete, complete, remove, inHand, completed,
                 freed, badAccess>>

\* The parts the scan still compares with one another; it reads them all.
Scanned(th) == copy[th] \ remove[th]

\* The set has as many parts as the task: as parts differ, it has them all.
WholeSet(th, t) == PartsOf(t) \subseteq Scanned(th)

\* A task of one part is not merged: its result is the complete result.
ResultOf(th, t) == IF Total[t] = 1 THEN <<t, 0>> ELSE <<t, th>>

\* Merge a whole set and put the result on the complete queue.
CompleteSet(th, t) ==
  /\ Step(th, "scan", "scan")
  /\ WholeSet(th, t)
  /\ complete' = complete \cup {ResultOf(th, t)}
  /\ completed' = [completed EXCEPT ![t] = @ + 1]
  /\ remove' = [remove EXCEPT ![th] = @ \cup PartsOf(t)]
  /\ badAccess' = (Scanned(th) \cap freed # {})
  /\ UNCHANGED <<accepted, incomplete, copy, inHand, freed, raced>>

EndScan(th) ==
  /\ Step(th, "scan", "remove")
  /\ \A t \in Tasks : ~WholeSet(th, t)
  /\ badAccess' = (Scanned(th) \cap freed # {})
  /\ UNCHANGED <<accepted, incomplete, complete, copy, remove, inHand,
                 completed, freed, raced>>

\* Mutant: everything that was scanned is removed, complete or not.
RemoveScanned(th) ==
  /\ Step(th, "remove", "idle")
  /\ incomplete' = incomplete \ copy[th]
  /\ freed' = freed \cup {p \in remove[th] : Total[p[1]] > 1}
  /\ badAccess' = (remove[th] \cap freed # {})
  /\ copy' = [copy EXCEPT ![th] = {}]
  /\ remove' = [remove EXCEPT ![th] = {}]
  /\ UNCHANGED <<accepted, complete, inHand, completed, raced>>

\* Mutant: the parts are deleted but stay on the incomplete queue.
RemoveKept(th) ==
  /\ Step(th, "remove", "idle")
  /\ freed' = freed \cup {p \in remove[th] : Total[p[1]] > 1}
  /\ badAccess' = (remove[th] \cap freed # {})
  /\ copy' = [copy EXCEPT ![th] = {}]
  /\ remove' = [remove EXCEPT ![th] = {}]
  /\ UNCHANGED <<accepted, incomplete, complete, inHand, completed, raced>>

\* Take the parts of the completed sets off the queue, and delete those that
\* have been merged.
Remove(th) ==
  /\ Step(th, "remove", "idle")
  /\ incomplete' = incomplete \ remove[th]
  /\ freed' = freed \cup {p \in remove[th] : Total[p[1]] > 1}
  /\ badAccess' = (remove[th] \cap freed # {})
  /\ copy' = [copy EXCEPT ![th] = {}]
  /\ remove' = [remove EXCEPT ![th] = {}]
  /\ UNCHANGED <<accepted, complete, inHand, completed, raced>>

-----------------------------------------------------------------------------
(* The application's thread. *)

\* Host::getAvailableResult
GetAvailableResult ==
  /\ ~badAccess /\ inHand = NoResult
  /\ \E r \in complete :
       /\ inHand' = r
       /\ badAccess' = (r \in freed)
  /\ UNCHANGED <<accepted, incomplete, complete, threadVars, completed, freed,
                 raced>>

\* Host::removeResultFromQueue
RemoveResultFromQueue ==
  /\ ~badAccess /\ inHand # NoResult
  /\ complete' = complete \ {inHand}
  /\ freed' = freed \cup {inHand}
  /\ badAccess' = (inHand \in freed)
  /\ inHand' = NoResult
  /\ raced' = (raced \/ \E th \in Threads : inHand \in copy[th])
  /\ UNCHANGED <<accepted, incomplete, threadVars, completed>>

-----------------------------------------------------------------------------
Check(th) ==
  \/ Copy(th) \/ EndScan(th) \/ Remove(th)
  \/ \E t \in Tasks : CompleteSet(th, t)

Next ==
  \/ \E th \in Threads, p \in Parts : AppendResult(th, p)
  \/ \E th \in Threads : Check(th)
  \/ GetAvailableResult \/ RemoveResultFromQueue

Spec == Init /\ [][Next]_vars

-----------------------------------------------------------------------------
(* Properties. *)

\* No accepted result is thrown away: it is still on the incomplete queue or
\* its task has been completed.
NoResultLost ==
  \A p \in accepted : p \in incomplete \/ completed[p[1]] > 0

Idle == \A th \in Threads : pc[th] = "idle"

\* No whole set is left behind: checkForCompleteResults only runs after a
\* result arrives, so when all threads are done with it, whichever of them
\* copied the queue when, no task has all its parts on the incomplete queue.
NothingStranded ==
  Idle => \A t \in Tasks : ~(PartsOf(t) \subseteq incomplete)

\* A complete set is moved to the complete queue: once.
CompletedOnce == \A t \in Tasks : completed[t] <= 1

\* No thread, nor the application, uses a result another has deleted.
ResultsAlive == ~badAccess

\* As long as no two scans overlap, and the application deletes no result that a
\* scan still works with, every set is moved to the complete queue once.
OnceUnraced == ~raced => CompletedOnce

\* Nor is a deleted result used, however the appending of results, the scans and
\* the application take turns.
AliveUnraced == ~raced => ResultsAlive

-----------------------------------------------------------------------------
(* The inductive invariant behind NoResultLost and NothingStranded. *)

\* The parts of a task leave the incomplete queue together.
Together(t) ==
  \/ PartsOf(t) \cap accepted \subseteq incomplete
  \/ /\ PartsOf(t) \subseteq accepted
     /\ PartsOf(t) \cap incomplete = {} /\ completed[t] > 0

\* Thread th will find that t is complete, or has found it.
Finds(th, t) ==
  \/ pc[th] = "copy"
  \/ pc[th] = "scan" /\ PartsOf(t) \subseteq copy[th]
  \/ pc[th] = "remove" /\ PartsOf(t) \subseteq remove[th]

\* What a thread is about to remove it has found complete.
RemovesWhole(th) ==
  /\ remove[th] \subseteq accepted /\ copy[th] \subseteq accepted
  /\ pc[th] \in {"idle", "copy"} => remove[th] = {}
  /\ \A t \in Tasks :
       \/ remove[th] \cap PartsOf(t) = {}
       \/ PartsOf(t) \subseteq remove[th] /\ completed[t] > 0

QueueInv ==
  /\ incomplete \subseteq accepted
  /\ \A t \in Tasks : Together(t)
  /\ \A th \in Threads : RemovesWhole(th)
  /\ \A t \in Tasks :
       PartsOf(t) \subseteq incomplete => \E th \in Threads : Finds(th, t)

IInv == TypeOK /\ QueueInv

\* The inductive invariant behind OnceUnraced and AliveUnraced: at most one thread
\* works, what it has copied is still on the queue, and what is completed but on
\* the queue is about to leave it.
UnracedInv ==
  /\ \A a, b \in Threads : Working(a) /\ Working(b) => a = b
  /\ freed \cap (incomplete \cup complete) = {}
  /\ freed \cap Parts \subseteq accepted
  /\ \A p \in complete \cap Parts : Total[p[1]] = 1
  /\ inHand # NoResult => inHand \in complete
  /\ \A th \in Threads :
       /\ remove[th] \subseteq copy[th] /\ copy[th] \subseteq incomplete
       /\ ~Working(th) => copy[th] = {}
  /\ \A t \in Tasks :
       /\ completed[t] = 0 =>
            /\ PartsOf(t) \cap complete = {}
            /\ \A th \in Threads : <<t, th>> \notin complete \cup freed
       /\ completed[t] > 0 =>
            /\ PartsOf(t) \subseteq accepted
            /\ \A p \in PartsOf(t) \cap incomplete :
                 \E th \in Threads : p \in remove[th]
  /\ CompletedOnce /\ ResultsAlive
=============================================================================
