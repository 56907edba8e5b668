-------------------------- MODULE HostSystemProofs --------------------------
(* Proofs of HostSystem: its result queues are those of ResultAssembly, so that *)
(* what is proved there holds here, and its own invariant.                      *)
EXTENDS HostSystem, ResultAssemblyProofs

(* Every step of the system is a step of ResultAssembly or leaves it alone.     *)

LEMMA SystemStep ==
  ASSUME HeldInv, [SystemNext]_sysVars
  PROVE  [Next]_vars
<1> USE DEF sysVars, appVars, hostVars
<1>1. CASE UNCHANGED sysVars
  BY <1>1
<1>2. CASE \E t \in Tasks : AddTaskToQueue(t) \/ Divide(t)
  BY <1>2 DEF AddTaskToQueue, Divide
<1>3. CASE TakeResult \/ DropResult
  BY <1>3 DEF TakeResult, DropResult, Next
<1>4. CASE RejectResult \/ Quit \/ Clean \/ Throw
  BY <1>4 DEF RejectResult, Quit, Clean, Throw
<1>5. CASE \E p \in Parts : HandOut(p) \/ Lose(p) \/ \E th \in Threads : Accept(th, p)
  BY <1>5 DEF HandOut, Lose, Accept
<1>6. ASSUME NEW th \in Threads, Append(th)
      PROVE  [Next]_vars
  <2>1. held[th] \in Parts /\ AppendResult(th, held[th])
    BY <1>6 DEF Append, HeldInv
  <2> QED
    BY <2>1 DEF Next
<1>7. ASSUME NEW th \in Threads, CheckForCompleteResults(th)
      PROVE  [Next]_vars
  BY <1>7 DEF CheckForCompleteResults, Next
<1> QED
  BY <1>1, <1>2, <1>3, <1>4, <1>5, <1>6, <1>7 DEF SystemNext, Application, Host

-----------------------------------------------------------------------------
(* The parts: what the dispatch and the queues say of them agrees.              *)

LEMMA HeldMove ==
  ASSUME HeldInv, NEW S \in SUBSET Parts, NEW from, NEW to \in Dispatch!Status,
         Dispatch!Move(S, from, to), from # "answered", to # "answered",
         UNCHANGED <<accepted, held, pc>>
  PROVE  HeldInv'
<1>1. status' = [p \in Parts |-> IF p \in S THEN to ELSE status[p]]
  BY DEF Dispatch!Move
<1>2. \A p \in S : status[p] # "answered"
  BY DEF Dispatch!Move
<1>3. \A p \in Parts : status'[p] = "answered" <=> status[p] = "answered"
  BY <1>1, <1>2
<1>4. status' \in [Parts -> Dispatch!Status]
  BY <1>1 DEF HeldInv
<1> QED
  BY <1>3, <1>4 DEF HeldInv

LEMMA HeldAccept ==
  ASSUME HeldInv, NEW th \in Threads, NEW p \in Parts, Accept(th, p)
  PROVE  HeldInv'
<1>1. /\ status[p] = "owned"
      /\ status' = [q \in Parts |-> IF q \in {p} THEN "answered" ELSE status[q]]
  BY DEF Accept, Dispatch!Answer, Dispatch!Move
<1>2. /\ held[th] = NoResult /\ pc[th] = "idle"
      /\ held' = [held EXCEPT ![th] = p]
      /\ accepted' = accepted /\ pc' = pc
  BY DEF Accept, vars, threadVars
<1>3. p \notin accepted /\ \A a \in Threads : held[a] # p
  BY <1>1 DEF HeldInv
<1>4. p # NoResult
  BY ResultConstants
<1>5. status' \in [Parts -> Dispatch!Status]
  BY <1>1 DEF HeldInv, Dispatch!Status
<1>6. held' \in [Threads -> Parts \cup {NoResult}]
  BY <1>2 DEF HeldInv
<1>7. held'[th] = p /\ \A a \in Threads : a # th => held'[a] = held[a]
  BY <1>2 DEF HeldInv
<1>8. \A q \in Parts :
        status'[q] = "answered" <=> q \in accepted \/ \E a \in Threads : held'[a] = q
  <2> TAKE q \in Parts
  <2>1. CASE q = p
    BY <2>1, <1>1, <1>7
  <2>2. CASE q # p
    <3>1. status'[q] = status[q]
      BY <2>2, <1>1
    <3>2. (\E a \in Threads : held'[a] = q) <=> \E a \in Threads : held[a] = q
      <4>1. held[th] # q
        BY <1>2, ResultConstants
      <4> QED
        BY <2>2, <1>7, <4>1
    <3> QED
      BY <3>1, <3>2 DEF HeldInv
  <2> QED
    BY <2>1, <2>2
<1>9. \A a \in Threads :
        held'[a] # NoResult => pc'[a] = "idle" /\ held'[a] \notin accepted'
  BY <1>2, <1>3, <1>7 DEF HeldInv
<1>10. \A a, b \in Threads : held'[a] = held'[b] /\ held'[a] # NoResult => a = b
  BY <1>3, <1>7 DEF HeldInv
<1> QED
  BY <1>2, <1>5, <1>6, <1>8, <1>9, <1>10 DEF HeldInv

LEMMA HeldAppend ==
  ASSUME IInv, HeldInv, NEW th \in Threads, Append(th)
  PROVE  HeldInv'
<1>1. /\ held[th] # NoResult /\ held[th] \in Parts
      /\ held' = [held EXCEPT ![th] = NoResult]
      /\ accepted' = accepted \cup {held[th]}
      /\ pc' = [pc EXCEPT ![th] = "copy"]
      /\ status' = status
  BY DEF Append, AppendResult, Step, HeldInv
<1>2. held'[th] = NoResult /\ \A a \in Threads : a # th => held'[a] = held[a]
  BY <1>1 DEF HeldInv
<1>3. \A q \in Parts : q # NoResult
  BY ResultConstants
<1>4. \A q \in Parts :
        status'[q] = "answered" <=> q \in accepted' \/ \E a \in Threads : held'[a] = q
  BY <1>1, <1>2, <1>3 DEF HeldInv
<1>5. held' \in [Threads -> Parts \cup {NoResult}]
  BY <1>1 DEF HeldInv
<1>6. ASSUME NEW a \in Threads, held'[a] # NoResult
      PROVE  pc'[a] = "idle" /\ held'[a] \notin accepted'
  <2>1. a # th /\ held'[a] = held[a] /\ held[a] # held[th]
    BY <1>1, <1>2, <1>6 DEF HeldInv
  <2>2. pc'[a] = pc[a]
    BY <1>1, <2>1 DEF IInv, TypeOK
  <2> QED
    BY <1>1, <1>6, <2>1, <2>2 DEF HeldInv
<1>7. \A a, b \in Threads : held'[a] = held'[b] /\ held'[a] # NoResult => a = b
  BY <1>2 DEF HeldInv
<1> QED
  BY <1>1, <1>4, <1>5, <1>6, <1>7 DEF HeldInv

LEMMA HeldCheck ==
  ASSUME IInv, HeldInv, NEW th \in Threads, CheckForCompleteResults(th)
  PROVE  HeldInv'
<1>1. /\ accepted' = accepted /\ status' = status /\ held' = held
      /\ pc[th] # "idle" /\ \E to : pc' = [pc EXCEPT ![th] = to]
  BY DEF CheckForCompleteResults, Check, Copy, EndScan, Remove, CompleteSet, Step,
         hostVars
<1>2. \A a \in Threads : held[a] # NoResult => a # th
  BY <1>1 DEF HeldInv
<1>3. \A a \in Threads : a # th => pc'[a] = pc[a]
  BY <1>1 DEF IInv, TypeOK
<1> QED
  BY <1>1, <1>2, <1>3 DEF HeldInv

LEMMA HeldNext == IInv /\ HeldInv /\ [SystemNext]_sysVars => HeldInv'
<1> SUFFICES ASSUME IInv, HeldInv, [SystemNext]_sysVars PROVE HeldInv'
  OBVIOUS
<1> USE DEF vars, threadVars, appVars, hostVars
<1>1. CASE UNCHANGED sysVars
  BY <1>1 DEF sysVars, HeldInv
<1>2. CASE (\E t \in Tasks : AddTaskToQueue(t)) \/ Quit \/ Clean \/ Throw \/ RejectResult
  BY <1>2 DEF AddTaskToQueue, Quit, Clean, Throw, RejectResult, HeldInv
<1>3. CASE TakeResult \/ DropResult
  BY <1>3 DEF TakeResult, DropResult, GetAvailableResult, RemoveResultFromQueue, HeldInv
<1>4. ASSUME NEW t \in Tasks, Divide(t)
      PROVE  HeldInv'
  <2>1. Dispatch!Move(PartsOf(t), "none", "waiting") /\ UNCHANGED <<accepted, held, pc>>
    BY <1>4 DEF Divide, Dispatch!Create
  <2>2. PartsOf(t) \in SUBSET Parts
    BY SomePart
  <2> QED
    BY <2>1, <2>2, HeldMove DEF Dispatch!Status
<1>5. ASSUME NEW p \in Parts, HandOut(p) \/ Lose(p)
      PROVE  HeldInv'
  <2>1. /\ UNCHANGED <<accepted, held, pc>>
        /\ \E from \in {"waiting", "owned"}, to \in {"waiting", "owned", "lost"} :
             Dispatch!Move({p}, from, to)
    BY <1>5 DEF HandOut, Lose, Dispatch!Assign, Dispatch!Return, Dispatch!Abandon
  <2>2. PICK from \in {"waiting", "owned"}, to \in {"waiting", "owned", "lost"} :
          Dispatch!Move({p}, from, to)
    BY <2>1
  <2>3. to \in Dispatch!Status /\ from # "answered" /\ to # "answered"
    BY DEF Dispatch!Status
  <2> QED
    BY <2>1, <2>2, <2>3, HeldMove
<1>6. CASE \E th \in Threads, p \in Parts : Accept(th, p)
  BY <1>6, HeldAccept
<1>7. CASE \E th \in Threads : Append(th) \/ CheckForCompleteResults(th)
  BY <1>7, HeldAppend, HeldCheck
<1> QED
  BY <1>1, <1>2, <1>3, <1>4, <1>5, <1>6, <1>7 DEF SystemNext, Application, Host

LEMMA HeldInit == SystemInit => HeldInv
<1> SUFFICES ASSUME SystemInit PROVE HeldInv
  OBVIOUS
<1>1. \A p \in Parts : p # NoResult
  BY ResultConstants
<1> QED
  BY <1>1 DEF SystemInit, Init, Dispatch!Init, HeldInv, Dispatch!Status

-----------------------------------------------------------------------------
(* Accepted results stay on a queue until they are deleted.                     *)

LEMMA KeptComplete ==
  ASSUME IInv, KeptInv, NEW th \in Threads, NEW t \in Tasks, CompleteSet(th, t)
  PROVE  KeptInv'
<1>1. /\ complete' = complete \cup {ResultOf(th, t)}
      /\ remove' = [remove EXCEPT ![th] = @ \cup PartsOf(t)]
      /\ UNCHANGED <<accepted, incomplete, freed>>
  BY DEF CompleteSet
<1>2. ASSUME NEW p \in PartsOf(t), Total[p[1]] = 1
      PROVE  p \in complete'
  <2>1. p = <<t, 0>>
    BY <1>2 DEF PartsOf
  <2> QED
    BY <1>1, <1>2, <2>1 DEF ResultOf
<1>3. \A a \in Threads : \A p \in remove'[a] : p \in remove[a] \/ p \in PartsOf(t)
  BY <1>1 DEF IInv, TypeOK
<1> QED
  BY <1>1, <1>2, <1>3 DEF KeptInv

LEMMA KeptRemove ==
  ASSUME IInv, KeptInv, NEW th \in Threads, Remove(th)
  PROVE  KeptInv'
<1>1. /\ incomplete' = incomplete \ remove[th]
      /\ freed' = freed \cup {p \in remove[th] : Total[p[1]] > 1}
      /\ remove' = [remove EXCEPT ![th] = {}]
      /\ UNCHANGED <<accepted, complete>>
  BY DEF Remove
<1>2. ASSUME NEW p \in accepted, p \in remove[th]
      PROVE  p \in complete \cup freed'
  <2>1. p[1] \in Tasks
    BY PartOf DEF IInv, TypeOK
  <2>2. Total[p[1]] \in Nat \ {0}
    BY <2>1, ResultConstants
  <2>3. Total[p[1]] = 1 \/ Total[p[1]] > 1
    BY <2>2
  <2> QED
    BY <1>1, <1>2, <2>3 DEF KeptInv
<1>3. \A a \in Threads : remove'[a] \subseteq remove[a]
  BY <1>1 DEF IInv, TypeOK
<1> QED
  BY <1>1, <1>2, <1>3 DEF KeptInv

LEMMA KeptNext == IInv /\ KeptInv /\ [Next]_vars => KeptInv'
<1> SUFFICES ASSUME IInv, KeptInv, [Next]_vars PROVE KeptInv'
  OBVIOUS
<1> USE DEF vars, threadVars
<1>1. CASE UNCHANGED vars
  BY <1>1 DEF KeptInv
<1>2. CASE \E th \in Threads, p \in Parts : AppendResult(th, p)
  BY <1>2 DEF AppendResult, KeptInv
<1>3. CASE GetAvailableResult \/ RemoveResultFromQueue
  BY <1>3 DEF GetAvailableResult, RemoveResultFromQueue, KeptInv
<1>4. CASE \E th \in Threads : Copy(th) \/ EndScan(th)
  BY <1>4 DEF Copy, EndScan, KeptInv
<1>5. CASE \E th \in Threads : Remove(th) \/ \E t \in Tasks : CompleteSet(th, t)
  BY <1>5, KeptComplete, KeptRemove
<1> QED
  BY <1>1, <1>2, <1>3, <1>4, <1>5 DEF Next, Check

-----------------------------------------------------------------------------
(* After stop nothing moves any more.                                           *)

LEMMA GoneNext == IInv /\ GoneInv /\ [SystemNext]_sysVars => GoneInv'
<1> SUFFICES ASSUME IInv, GoneInv, [SystemNext]_sysVars PROVE GoneInv'
  OBVIOUS
<1> USE DEF vars, threadVars, appVars, hostVars
<1>1. CASE UNCHANGED sysVars
  BY <1>1 DEF sysVars, GoneInv, Quiet, Idle
<1>2. CASE (\E t \in Tasks : AddTaskToQueue(t)) \/ Quit \/ RejectResult
  BY <1>2 DEF AddTaskToQueue, Quit, RejectResult, Running, GoneInv
<1>3. CASE TakeResult \/ DropResult
  BY <1>3 DEF TakeResult, DropResult, Running, GoneInv
<1>4. CASE Clean
  BY <1>4 DEF Clean, GoneInv, Quiet, Idle
<1>5. CASE (\E t \in Tasks : Divide(t)) \/ Throw
  BY <1>5 DEF Divide, Throw, HostRuns, GoneInv
<1>6. CASE \E p \in Parts : HandOut(p) \/ Lose(p) \/ \E th \in Threads : Accept(th, p)
  BY <1>6 DEF HandOut, Lose, Accept, HostRuns, GoneInv
<1>7. ASSUME NEW th \in Threads, Append(th) \/ CheckForCompleteResults(th)
      PROVE  GoneInv'
  <2>1. held[th] # NoResult \/ pc[th] # "idle"
    BY <1>7 DEF Append, CheckForCompleteResults, Check, Copy, EndScan, Remove,
       CompleteSet, Step
  <2>2. ~Quiet
    BY <2>1 DEF Quiet, Idle
  <2>3. UNCHANGED <<app, cleaned>>
    BY <1>7 DEF Append, CheckForCompleteResults
  <2> QED
    BY <2>2, <2>3 DEF GoneInv
<1> QED
  BY <1>1, <1>2, <1>3, <1>4, <1>5, <1>6, <1>7 DEF SystemNext, Application, Host

-----------------------------------------------------------------------------
(* Until scans overlap a task has one result.                                   *)

LEMMA OneComplete ==
  ASSUME IInv, UnracedInv, UnracedInv', OneResult,
         NEW th \in Threads, NEW t \in Tasks, CompleteSet(th, t),
         UNCHANGED delivered
  PROVE  OneResult'
<1> DEFINE r == ResultOf(th, t)
<1>1. /\ complete' = complete \cup {r}
      /\ completed' = [completed EXCEPT ![t] = @ + 1]
  BY DEF CompleteSet
<1>2. completed \in [Tasks -> Nat]
  BY DEF IInv, TypeOK
<1>3. completed[t] = 0
  BY <1>1, <1>2 DEF UnracedInv, CompletedOnce
<1>4. r[1] = t
  BY DEF ResultOf
<1>5. completed'[t] = 1 /\ \A u \in Tasks : u # t => completed'[u] = completed[u]
  BY <1>1, <1>2, <1>3
<1>6. \A s \in complete : s[1] # t
  BY <1>3 DEF OneResult
<1>7. t \notin delivered
  BY <1>3 DEF OneResult
<1>8. \A s \in complete : s[1] \in Tasks
  BY PartOf DEF IInv, TypeOK, Merged
<1>9. \A u \in Tasks : completed[u] > 0 => completed'[u] > 0
  <2> SUFFICES ASSUME NEW u \in Tasks, completed[u] > 0 PROVE completed'[u] > 0
    OBVIOUS
  <2>1. u # t
    BY <1>3
  <2> QED
    BY <1>5, <2>1
<1> QED
  BY <1>1, <1>4, <1>5, <1>6, <1>7, <1>8, <1>9 DEF OneResult

LEMMA OneDrop ==
  ASSUME IInv, UnracedInv, OneResult, DropResult
  PROVE  OneResult'
<1>1. /\ inHand # NoResult
      /\ complete' = complete \ {inHand} /\ completed' = completed
      /\ delivered' = delivered \cup {inHand[1]}
  BY DEF DropResult, RemoveResultFromQueue
<1>2. inHand \in complete
  BY <1>1 DEF UnracedInv
<1>3. inHand[1] \in Tasks
  BY <1>2, PartOf DEF IInv, TypeOK, Merged
<1> QED
  BY <1>1, <1>2, <1>3 DEF OneResult

LEMMA OneNext ==
  IInv /\ (~raced => UnracedInv) /\ (~raced => UnracedInv)' /\ (~raced => OneResult)
       /\ [SystemNext]_sysVars
  => (~raced => OneResult)'
<1> SUFFICES ASSUME IInv, ~raced => UnracedInv, ~raced' => UnracedInv',
                    ~raced => OneResult, [SystemNext]_sysVars, ~raced'
             PROVE  OneResult'
  OBVIOUS
<1> USE DEF vars, threadVars, appVars, hostVars
<1>1. CASE UNCHANGED sysVars
  BY <1>1 DEF sysVars, OneResult
<1>2. CASE (\E t \in Tasks : AddTaskToQueue(t) \/ Divide(t)) \/ Quit \/ RejectResult
           \/ Clean \/ Throw
  BY <1>2 DEF AddTaskToQueue, Quit, RejectResult, Clean, Divide, Throw, OneResult
<1>3. CASE \E p \in Parts : HandOut(p) \/ Lose(p) \/ \E th \in Threads : Accept(th, p)
  BY <1>3 DEF HandOut, Lose, Accept, OneResult
<1>4. CASE TakeResult
  BY <1>4 DEF TakeResult, GetAvailableResult, OneResult
<1>5. CASE DropResult
  <2>1. ~raced
    BY <1>5 DEF DropResult, RemoveResultFromQueue
  <2> QED
    BY <1>5, <2>1, OneDrop
<1>6. CASE \E th \in Threads : Append(th)
  BY <1>6 DEF Append, AppendResult, OneResult
<1>7. ASSUME NEW th \in Threads, CheckForCompleteResults(th)
      PROVE  OneResult'
  <2>1. delivered' = delivered
    BY <1>7 DEF CheckForCompleteResults
  <2>2. CASE Copy(th) \/ EndScan(th) \/ Remove(th)
    BY <2>1, <2>2 DEF Copy, EndScan, Remove, OneResult
  <2>3. ASSUME NEW t \in Tasks, CompleteSet(th, t)
        PROVE  OneResult'
    <3>1. ~raced
      BY <2>3 DEF CompleteSet
    <3> QED
      BY <2>1, <2>3, <3>1, OneComplete
  <2> QED
    BY <1>7, <2>2, <2>3 DEF CheckForCompleteResults, Check
<1> QED
  BY <1>1, <1>2, <1>3, <1>4, <1>5, <1>6, <1>7 DEF SystemNext, Application, Host

-----------------------------------------------------------------------------
(* The invariant and what follows from it.                                      *)

LEMMA BaseInvariant == SystemSpec => [](IInv /\ HeldInv)
<1>1. SystemInit => IInv /\ HeldInv
  BY AssemblyInit, HeldInit DEF SystemInit
<1>2. IInv /\ HeldInv /\ [SystemNext]_sysVars => (IInv /\ HeldInv)'
  BY SystemStep, HeldNext, TypeNext, QueueNext DEF IInv
<1> QED
  BY <1>1, <1>2, PTL DEF SystemSpec

\* The queues of the system behave as ResultAssembly has them: the dispatch gives
\* them no result twice, and the application takes none but complete ones
\* (HostListener.cpp:268-280, Benchmark/source/main.cpp:169-209).
THEOREM SystemImplements == SystemSpec => Spec
<1>1. SystemInit => Init
  BY DEF SystemInit
<1>2. HeldInv /\ [SystemNext]_sysVars => [Next]_vars
  BY SystemStep
<1> QED
  BY <1>1, <1>2, BaseInvariant, PTL DEF SystemSpec, Spec

\* What ResultAssembly promises holds for host and application together.
THEOREM QueuesSound ==
  SystemSpec => [](NoResultLost /\ NothingStranded /\ OnceUnraced /\ AliveUnraced)
  BY SystemImplements, NoneLost, NoneStranded, Once, Alive, PTL

\* The strengthened invariant, for any number of threads and tasks of any number
\* of parts, and an application that stops when it likes.
THEOREM SystemInvariant == SystemSpec => []SystemInv
<1>1. SystemInit => KeptInv /\ GoneInv /\ OneResult
  BY DEF SystemInit, Init, KeptInv, GoneInv, OneResult
<1>2. IInv /\ HeldInv /\ KeptInv /\ [SystemNext]_sysVars => KeptInv'
  BY SystemStep, KeptNext
<1>3. IInv /\ GoneInv /\ [SystemNext]_sysVars => GoneInv'
  BY GoneNext
<1>4. IInv /\ (~raced => UnracedInv) /\ (~raced => UnracedInv)' /\ (~raced => OneResult)
           /\ [SystemNext]_sysVars
      => (~raced => OneResult)'
  BY OneNext
<1>5. SystemSpec => [](~raced => UnracedInv)
  BY SystemImplements, UnracedInvariant, PTL
<1>6. HeldInv /\ KeptInv /\ GoneInv /\ (~raced => OneResult) => SystemInv
  BY DEF SystemInv
<1> QED
  BY <1>1, <1>2, <1>3, <1>4, <1>5, <1>6, BaseInvariant, PTL DEF SystemSpec

\* HostSystem!LeavesNothing, for every value of the constants: the queues keep
\* nothing of a task whose result was removed (Host.cpp:574-590, 199-210).
THEOREM NothingLeft == SystemSpec => []LeavesNothing
<1>1. IInv /\ (~raced => UnracedInv) /\ SystemInv => LeavesNothing
  <2> SUFFICES ASSUME IInv, UnracedInv, SystemInv, Quiet, ~raced, NEW t \in delivered
               PROVE  /\ PartsOf(t) \cap incomplete = {}
                      /\ \A r \in complete : r[1] # t
                      /\ \A p \in PartsOf(t) : status[p] = "answered" /\ p \in freed
    BY DEF LeavesNothing
  <2>1. t \in Tasks /\ completed[t] > 0 /\ \A r \in complete : r[1] # t
    BY DEF SystemInv, OneResult
  <2>2. PartsOf(t) \subseteq accepted
    BY <2>1 DEF UnracedInv
  <2>3. PartsOf(t) \cap incomplete = {}
    BY <2>1 DEF UnracedInv, IInv, QueueInv, RemovesWhole, Quiet, Idle
  <2>4. \A p \in PartsOf(t) : p[1] = t /\ p \in Parts
    BY <2>1, SomePart DEF PartsOf
  <2> QED
    BY <2>1, <2>2, <2>3, <2>4 DEF SystemInv, HeldInv, KeptInv
<1> QED
  BY <1>1, BaseInvariant, SystemImplements, UnracedInvariant, SystemInvariant, PTL

\* HostSystem!DeletedOnce, for every value of the constants: Host::stop
\* (Host.cpp:94-111) and the threads before it delete each result, and once.
THEOREM OnceDeleted == SystemSpec => []DeletedOnce
<1>1. IInv /\ (~raced => UnracedInv) /\ SystemInv => DeletedOnce
  <2> SUFFICES ASSUME IInv, UnracedInv, SystemInv, app = "gone"
               PROVE  /\ {p \in Parts : status[p] = "answered"} \subseteq freed \cup cleaned
                      /\ complete \cup incomplete \subseteq freed \cup cleaned
                      /\ freed \cap cleaned = {}
    BY DEF DeletedOnce
  <2>1. Quiet /\ cleaned = complete \cup incomplete
    BY DEF SystemInv, GoneInv
  <2>2. \A p \in Parts : p # NoResult
    BY ResultConstants
  <2>3. {p \in Parts : status[p] = "answered"} \subseteq accepted
    BY <2>1, <2>2 DEF SystemInv, HeldInv, Quiet
  <2> QED
    BY <2>1, <2>3 DEF UnracedInv, SystemInv, KeptInv
<1> QED
  BY <1>1, BaseInvariant, SystemImplements, UnracedInvariant, SystemInvariant, PTL
=============================================================================
