----------------------------- MODULE SplitMerge -----------------------------
(***************************************************************************)
(* What becomes of the values of one task: the host splits it for its      *)
(* clients, each node splits its part again for its threads, runs and      *)
(* merges the pieces, and the host matches, collects and merges the        *)
(* results of the parts in the order in which they come.                   *)
(*                                                                         *)
(* A task covers a range of values, as BenchmarkTask and MandelbrotTask    *)
(* do; the result of a value is the value.  Tasks and results carry stacks *)
(* of part numbers and part totals, one entry per split.  Only one thread  *)
(* at a time looks for complete sets: ResultAssembly has their races.      *)
(***************************************************************************)
EXTENDS Integers, SequencesExt

CONSTANTS
  Ranges,       \* the ranges <<first, last>> a task may have
  ClientCounts, \* numbers of clients at the time of the division
  ThreadCounts  \* the most threads a node may have (MAX_THREADS)

\* Ranges have a value, as splitLocal divides by the number of pieces.
ASSUME SplitConstants ==
  /\ Ranges \subseteq {range \in Int \X Int : range[1] <= range[2]}
  /\ ClientCounts \subseteq Nat \ {0}
  /\ ThreadCounts \subseteq Nat \ {0}

VARIABLES
  task,       \* the task submitted
  setup,      \* the number of clients, and the most threads a node has
  todo,       \* its parts that no node has computed yet
  tracked,    \* its parts with the clients or the host
  results,    \* results on their way to be marked finished
  incomplete, \* Host::resultQueueIncomplete
  complete,   \* Host::resultQueueComplete
  rejected,   \* a client's result was rejected
  thrown      \* an exception ended the host

vars == <<task, setup, todo, tracked, results, incomplete, complete, rejected, thrown>>

-----------------------------------------------------------------------------
\* Mutant: the last piece does not get the remainder.
SplitLocalNoRemainder(t, count) ==
  LET values == t.last - t.first + 1
      n    == IF values < count THEN values ELSE count
      step == values \div n
  IN  [i \in 1 .. n |->
         [t EXCEPT !.first = t.first + (i - 1) * step,
                   !.last  = t.first + i * step - 1]]

\* splitLocal: pieces of equal length, the last one with all that is left.
SplitLocal(t, count) ==
  LET values == t.last - t.first + 1
      n    == IF values < count THEN values ELSE count
      step == values \div n
  IN  [i \in 1 .. n |->
         [t EXCEPT !.first = t.first + (i - 1) * step,
                   !.last  = IF i = n THEN t.last ELSE t.first + i * step - 1]]

\* Task::split
Split(t, count) ==
  LET pieces == SplitLocal(t, count)
  IN  [i \in DOMAIN pieces |->
         [pieces[i] EXCEPT !.number = Append(t.number, i - 1),
                           !.total  = Append(t.total, Len(pieces))]]

\* Task::run
Run(t) ==
  [number |-> t.number, total |-> t.total,
   values |-> [i \in 1 .. t.last - t.first + 1 |-> t.first + i - 1]]

\* Result::merge accepts only a whole set of one split.
Mergeable(rs) ==
  /\ Last(rs[1].total) = Len(rs)
  /\ \A i \in DOMAIN rs :
       /\ Len(rs[i].number) = Len(rs[1].number)
       /\ Len(rs[i].total) = Len(rs[1].total)
       /\ Last(rs[i].total) = Len(rs)
       /\ Len(rs[i].total) >= 2
       /\ Len(rs[i].number) = Len(rs[i].total)

\* std::sort by part number: the order in which results are taken.
InOrder(rs) ==
  CHOOSE p \in Bijection(DOMAIN rs, DOMAIN rs) :
    \A i, j \in DOMAIN rs : i < j => Last(rs[p[i]].number) <= Last(rs[p[j]].number)

\* Mutant: the parts are merged in the order in which they came.
MergeUnsorted(rs) ==
  [number |-> Front(rs[1].number), total |-> Front(rs[1].total),
   values |-> FlattenSeq([i \in DOMAIN rs |-> rs[i].values])]

\* Mutant: the stacks are not unwound.
MergeStacked(rs) ==
  [number |-> rs[1].number, total |-> rs[1].total,
   values |-> FlattenSeq([i \in DOMAIN rs |-> rs[InOrder(rs)[i]].values])]

\* One level of the stacks is unwound; the parts are taken in order of number.
Merge(rs) ==
  [number |-> Front(rs[1].number), total |-> Front(rs[1].total),
   values |-> FlattenSeq([i \in DOMAIN rs |-> rs[InOrder(rs)[i]].values])]

\* A node with k threads splits, runs and merges; a single result of a split is
\* passed on as it is.
NodeResult(t, k) ==
  LET pieces == IF k > 1 THEN Split(t, k) ELSE <<t>>
      rs     == [i \in DOMAIN pieces |-> Run(pieces[i])]
  IN  IF Len(rs) > 1 THEN Merge(rs) ELSE rs[1]

-----------------------------------------------------------------------------
Task(range) ==
  [number |-> <<0>>, total |-> <<1>>, first |-> range[1], last |-> range[2]]

\* Host::divideTasksIntoSubTaskQueue
Division(t, n) == IF n > 1 THEN ToSet(Split(t, n)) ELSE {t}

Init ==
  /\ \E range \in Ranges : task = Task(range)
  /\ setup \in [clients : ClientCounts, threads : ThreadCounts]
  /\ tracked = Division(task, setup.clients)
  /\ todo = tracked
  /\ results = {} /\ incomplete = <<>> /\ complete = <<>>
  /\ rejected = FALSE /\ thrown = FALSE

\* A node with k threads, the host itself or a client, computes a part.
Compute(k, byHost) ==
  /\ ~thrown /\ k <= setup.threads
  /\ \E t \in todo :
       /\ todo' = todo \ {t}
       /\ results' = results \cup {[res |-> NodeResult(t, k), byHost |-> byHost]}
  /\ UNCHANGED <<task, setup, tracked, incomplete, complete, rejected, thrown>>

\* The first result whose total is the size of the queue completes the set.
Completes(queue, i) ==
  /\ Last(queue[i].total) = Len(queue)
  /\ \A j \in 1 .. i - 1 : Last(queue[j].total) # Len(queue)

\* Host::checkForCompleteResults, with the results of one task on the queue.
Collect(queue) ==
  IF \E i \in DOMAIN queue : Completes(queue, i)
  THEN LET i   == CHOOSE i \in DOMAIN queue : Completes(queue, i)
           set == <<queue[i]>> \o RemoveAt(queue, i)
       IN  IF Len(set) > 1 /\ ~Mergeable(set)
           THEN /\ thrown' = TRUE
                /\ UNCHANGED <<incomplete, complete>>
           ELSE /\ complete' = Append(complete, IF Len(set) > 1 THEN Merge(set) ELSE set[1])
                /\ incomplete' = <<>>
                /\ UNCHANGED thrown
  ELSE /\ incomplete' = queue
       /\ UNCHANGED <<complete, thrown>>

\* Mutant: the part of a result is not taken off the list.
MarkFinishedKept(r) ==
  /\ ~thrown /\ r \in results
  /\ results' = results \ {r}
  /\ \E t \in tracked : Last(t.number) = Last(r.res.number)
  /\ Collect(Append(incomplete, r.res))
  /\ UNCHANGED <<task, setup, todo, tracked, rejected>>

\* Host::markTaskFinished finds a tracked part by the last part number.
MarkFinished(r) ==
  /\ ~thrown /\ r \in results
  /\ results' = results \ {r}
  /\ \E t \in tracked :
       /\ Last(t.number) = Last(r.res.number)
       /\ tracked' = tracked \ {t}
  /\ Collect(Append(incomplete, r.res))
  /\ UNCHANGED <<task, setup, todo, rejected>>

\* No part has that number: a client's result is dropped, the host's own is an
\* error.
NotFound(r) ==
  /\ ~thrown /\ r \in results
  /\ \A t \in tracked : Last(t.number) # Last(r.res.number)
  /\ results' = results \ {r}
  /\ rejected' = (rejected \/ ~r.byHost)
  /\ thrown' = r.byHost
  /\ UNCHANGED <<task, setup, todo, tracked, incomplete, complete>>

Next ==
  \/ \E k \in 1 .. setup.threads, byHost \in BOOLEAN : Compute(k, byHost)
  \/ \E r \in results : MarkFinished(r) \/ NotFound(r)

Spec == Init /\ [][Next]_vars

-----------------------------------------------------------------------------
(* Properties. *)

Length(t) == t.last - t.first + 1

\* No node with several threads has a part of one value to split.
Divisible ==
  setup.threads = 1 \/ \A t \in Division(task, setup.clients) : Length(t) > 1

Right == \A i \in DOMAIN complete : complete[i].values = Run(task).values

\* What the application gets is the result of the task run in one piece: every
\* value once and in order, whatever the splits and the order of arrival, as
\* long as parts can be split on their nodes.
CompleteRight == Divisible => Right

\* Every result finds the part it was computed from: none is rejected and the
\* host does not fail.
AllMatched == Divisible => ~rejected /\ ~thrown

\* When everything is computed and has arrived, the application has its result
\* and the host keeps nothing of the task.
Settles ==
  Divisible /\ todo \cup results = {}
    => Len(complete) = 1 /\ tracked = {} /\ incomplete = <<>>

\* Even when parts are confused, no value gets to the application twice or out
\* of order within a result.
NoValueTwice ==
  /\ \A i \in DOMAIN complete :
       \A k, l \in DOMAIN complete[i].values :
         k < l => complete[i].values[k] < complete[i].values[l]
  /\ \A i, j \in DOMAIN complete :
       i # j => ToSet(complete[i].values) \cap ToSet(complete[j].values) = {}
=============================================================================
