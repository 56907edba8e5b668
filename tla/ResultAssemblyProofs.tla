------------------------ MODULE ResultAssemblyProofs ------------------------
(* Proofs about ResultAssembly: no result is lost, no whole set is left on  *)
(* the incomplete queue; unless threads race a set is completed once.       *)
EXTENDS ResultAssembly, TLAPS

LEMMA PartOf == \A p \in Parts : p[1] \in Tasks /\ p \in PartsOf(p[1])
  BY DEF Parts, PartsOf

LEMMA Distinct == \A t, u \in Tasks : t # u => PartsOf(t) \cap PartsOf(u) = {}
  BY DEF PartsOf

LEMMA SomePart == \A t \in Tasks : <<t, 0>> \in PartsOf(t) /\ PartsOf(t) \subseteq Parts
<1> TAKE t \in Tasks
<1>1. Total[t] \in Nat \ {0}
  BY ResultConstants
<1>2. 0 \in 0 .. Total[t] - 1
  BY <1>1
<1> QED
  BY <1>2 DEF PartsOf, Parts

LEMMA ResultOfType ==
  \A th \in Threads, t \in Tasks : ResultOf(th, t) \in Parts \cup Merged
  BY SomePart DEF ResultOf, Merged

LEMMA TypeInit == Init => TypeOK
<1> SUFFICES ASSUME Init PROVE TypeOK
  OBVIOUS
<1>1. /\ pc \in [Threads -> {"idle", "copy", "scan", "remove"}]
      /\ copy \in [Threads -> SUBSET Parts]
      /\ remove \in [Threads -> SUBSET Parts]
  BY DEF Init
<1>2. completed \in [Tasks -> Nat]
  BY DEF Init
<1> QED
  BY <1>1, <1>2 DEF Init, TypeOK

LEMMA TypeNext == TypeOK /\ [Next]_vars => TypeOK'
<1> SUFFICES ASSUME TypeOK, [Next]_vars PROVE TypeOK'
  OBVIOUS
<1> USE DEF TypeOK, Step, threadVars
<1>1. ASSUME NEW th \in Threads, NEW p \in Parts, AppendResult(th, p)
      PROVE  TypeOK'
  BY <1>1 DEF AppendResult
<1>2. ASSUME NEW th \in Threads, Check(th) PROVE TypeOK'
  <2>1. CASE Copy(th)
    <3>1. /\ copy' = [copy EXCEPT ![th] = incomplete]
          /\ pc' = [pc EXCEPT ![th] = "scan"]
          /\ UNCHANGED <<accepted, incomplete, complete, remove, inHand,
                         completed, freed, badAccess>>
          /\ raced' \in BOOLEAN
      BY <2>1 DEF Copy
    <3> QED
      BY <3>1
  <2>2. ASSUME NEW t \in Tasks, CompleteSet(th, t) PROVE TypeOK'
    <3>1. /\ ResultOf(th, t) \in Parts \cup Merged /\ PartsOf(t) \subseteq Parts
          /\ completed[t] \in Nat
      BY ResultOfType, SomePart
    <3>2. /\ complete' = complete \cup {ResultOf(th, t)}
          /\ completed' = [completed EXCEPT ![t] = @ + 1]
          /\ remove' = [remove EXCEPT ![th] = @ \cup PartsOf(t)]
          /\ pc' = [pc EXCEPT ![th] = "scan"]
          /\ badAccess' \in BOOLEAN
          /\ UNCHANGED <<accepted, incomplete, copy, inHand, freed, raced>>
      BY <2>2 DEF CompleteSet
    <3> QED
      BY <3>1, <3>2
  <2>3. CASE EndScan(th)
    BY <2>3 DEF EndScan
  <2>4. CASE Remove(th)
    BY <2>4 DEF Remove
  <2> QED
    BY <1>2, <2>1, <2>2, <2>3, <2>4 DEF Check
<1>3. CASE GetAvailableResult
  BY <1>3 DEF GetAvailableResult
<1>4. CASE RemoveResultFromQueue
  BY <1>4 DEF RemoveResultFromQueue
<1>5. CASE UNCHANGED vars
  BY <1>5 DEF vars
<1> QED
  BY <1>1, <1>2, <1>3, <1>4, <1>5 DEF Next

-----------------------------------------------------------------------------
(* The queue.  AppendResult brings a thread that will look; Copy sees what  *)
(* is on the queue; EndScan leaves no whole set out of the removal list.    *)

LEMMA QueueAppend ==
  ASSUME IInv, NEW th \in Threads, NEW p \in Parts, AppendResult(th, p)
  PROVE  QueueInv'
<1> USE DEF IInv, QueueInv, TypeOK, Step
<1>1. /\ p \notin accepted /\ ~badAccess /\ pc[th] = "idle"
      /\ accepted' = accepted \cup {p} /\ incomplete' = incomplete \cup {p}
      /\ pc' = [pc EXCEPT ![th] = "copy"]
      /\ UNCHANGED <<copy, remove, completed>>
  BY DEF AppendResult
<1>2. \A t \in Tasks : Together(t)'
  <2> SUFFICES ASSUME NEW t \in Tasks PROVE Together(t)'
    OBVIOUS
  <2>1. CASE PartsOf(t) \cap accepted \subseteq incomplete
    BY <1>1, <2>1 DEF Together
  <2>2. CASE PartsOf(t) \subseteq accepted
    BY <1>1, <2>2 DEF Together
  <2> QED
    BY <2>1, <2>2 DEF Together
<1>3. \A a \in Threads : RemovesWhole(a)'
  BY <1>1 DEF RemovesWhole
<1>4. \A t \in Tasks : Finds(th, t)'
  BY <1>1 DEF Finds
<1> QED
  BY <1>1, <1>2, <1>3, <1>4

LEMMA QueueCopy ==
  ASSUME IInv, NEW th \in Threads, Copy(th)
  PROVE  QueueInv'
<1>1. /\ pc[th] = "copy" /\ pc' = [pc EXCEPT ![th] = "scan"]
      /\ copy' = [copy EXCEPT ![th] = incomplete]
      /\ UNCHANGED <<accepted, incomplete, remove, completed>>
      /\ pc \in [Threads -> {"idle", "copy", "scan", "remove"}]
      /\ copy \in [Threads -> SUBSET Parts]
  BY DEF Copy, Step, IInv, TypeOK
<1>2. \A a \in Threads : RemovesWhole(a)'
  BY <1>1 DEF IInv, QueueInv, RemovesWhole
<1>3. \A t \in Tasks : Together(t)'
  BY <1>1 DEF IInv, QueueInv, Together
<1>4. \A t \in Tasks : PartsOf(t) \subseteq incomplete => Finds(th, t)'
  BY <1>1 DEF Finds
<1> QED
  BY <1>1, <1>2, <1>3, <1>4 DEF IInv, QueueInv

LEMMA QueueComplete ==
  ASSUME IInv, NEW th \in Threads, NEW t \in Tasks, CompleteSet(th, t)
  PROVE  QueueInv'
<1>1. /\ pc[th] = "scan" /\ pc' = pc
      /\ completed' = [completed EXCEPT ![t] = @ + 1]
      /\ remove' = [remove EXCEPT ![th] = @ \cup PartsOf(t)]
      /\ UNCHANGED <<accepted, incomplete, copy>>
      /\ PartsOf(t) \subseteq copy[th]
      /\ remove \in [Threads -> SUBSET Parts] /\ completed \in [Tasks -> Nat]
  BY DEF CompleteSet, Step, WholeSet, Scanned, IInv, TypeOK
<1>2. \A u \in Tasks : completed[u] > 0 => completed'[u] > 0
  BY <1>1
<1>3. completed'[t] > 0
  BY <1>1
<1>4. \A a \in Threads : RemovesWhole(a)'
  <2> SUFFICES ASSUME NEW a \in Threads PROVE RemovesWhole(a)'
    OBVIOUS
  <2>1. RemovesWhole(a) /\ RemovesWhole(th)
    BY DEF IInv, QueueInv
  <2>2. CASE a # th
    BY <1>1, <1>2, <2>1, <2>2 DEF RemovesWhole
  <2>3. CASE a = th
    <3>1. remove'[a] = remove[a] \cup PartsOf(t)
      BY <1>1, <2>3
    <3> QED
      BY <1>1, <1>2, <1>3, <2>1, <2>3, <3>1, Distinct DEF RemovesWhole
  <2> QED
    BY <2>2, <2>3
<1>5. \A u \in Tasks : Together(u)'
  BY <1>1, <1>2 DEF IInv, QueueInv, Together
<1>6. \A a \in Threads, u \in Tasks : Finds(a, u) => Finds(a, u)'
  BY <1>1 DEF Finds
<1> QED
  BY <1>1, <1>4, <1>5, <1>6 DEF IInv, QueueInv

LEMMA QueueEndScan ==
  ASSUME IInv, NEW th \in Threads, EndScan(th)
  PROVE  QueueInv'
<1>1. /\ pc[th] = "scan" /\ pc' = [pc EXCEPT ![th] = "remove"]
      /\ UNCHANGED <<accepted, incomplete, copy, remove, completed>>
      /\ pc \in [Threads -> {"idle", "copy", "scan", "remove"}]
      /\ \A t \in Tasks : ~(PartsOf(t) \subseteq copy[th] \ remove[th])
  BY DEF EndScan, Step, WholeSet, Scanned, IInv, TypeOK
<1>2. \A a \in Threads : RemovesWhole(a)'
  BY <1>1 DEF IInv, QueueInv, RemovesWhole
<1>3. \A t \in Tasks : Together(t)'
  BY <1>1 DEF IInv, QueueInv, Together
<1>4. \A t \in Tasks : PartsOf(t) \subseteq copy[th] => PartsOf(t) \subseteq remove[th]
  BY <1>1 DEF IInv, QueueInv, RemovesWhole
<1>5. \A a \in Threads, t \in Tasks : Finds(a, t) => Finds(a, t)'
  BY <1>1, <1>4 DEF Finds
<1> QED
  BY <1>1, <1>2, <1>3, <1>5 DEF IInv, QueueInv

LEMMA QueueRemove ==
  ASSUME IInv, NEW th \in Threads, Remove(th)
  PROVE  QueueInv'
<1>1. /\ pc[th] = "remove" /\ pc' = [pc EXCEPT ![th] = "idle"]
      /\ copy' = [copy EXCEPT ![th] = {}] /\ remove' = [remove EXCEPT ![th] = {}]
      /\ incomplete' = incomplete \ remove[th]
      /\ UNCHANGED <<accepted, completed>>
      /\ pc \in [Threads -> {"idle", "copy", "scan", "remove"}]
      /\ copy \in [Threads -> SUBSET Parts] /\ remove \in [Threads -> SUBSET Parts]
  BY DEF Remove, Step, IInv, TypeOK
<1>2. \A a \in Threads : RemovesWhole(a)'
  BY <1>1 DEF IInv, QueueInv, RemovesWhole
<1>3. \A t \in Tasks : Together(t)'
  <2> SUFFICES ASSUME NEW t \in Tasks PROVE Together(t)'
    OBVIOUS
  <2>1. Together(t) /\ RemovesWhole(th)
    BY DEF IInv, QueueInv
  <2>2. CASE remove[th] \cap PartsOf(t) = {}
    BY <1>1, <2>1, <2>2 DEF Together
  <2>3. CASE PartsOf(t) \subseteq remove[th] /\ completed[t] > 0
    BY <1>1, <2>1, <2>3 DEF Together, RemovesWhole
  <2> QED
    BY <2>1, <2>2, <2>3 DEF RemovesWhole
<1>4. ASSUME NEW t \in Tasks, PartsOf(t) \subseteq incomplete'
      PROVE  \E a \in Threads : Finds(a, t)'
  <2>1. PICK a \in Threads : Finds(a, t)
    BY <1>1, <1>4 DEF IInv, QueueInv
  <2>2. a # th
    BY <1>1, <1>4, <2>1, SomePart DEF Finds
  <2> QED
    BY <1>1, <2>1, <2>2 DEF Finds
<1> QED
  BY <1>1, <1>2, <1>3, <1>4 DEF IInv, QueueInv

LEMMA QueueNext == IInv /\ [Next]_vars => QueueInv'
<1> SUFFICES ASSUME IInv, [Next]_vars PROVE QueueInv'
  OBVIOUS
<1>1. CASE GetAvailableResult \/ RemoveResultFromQueue \/ UNCHANGED vars
  BY <1>1 DEF GetAvailableResult, RemoveResultFromQueue, vars, threadVars,
     IInv, QueueInv, Together, RemovesWhole, Finds
<1> QED
  BY <1>1, QueueAppend, QueueCopy, QueueComplete, QueueEndScan, QueueRemove
     DEF Next, Check

LEMMA AssemblyInit == Init => IInv
<1> SUFFICES ASSUME Init PROVE QueueInv
  BY TypeInit DEF IInv
<1>1. \A t \in Tasks : PartsOf(t) # {}
  BY SomePart
<1> QED
  BY <1>1 DEF Init, QueueInv, Together, RemovesWhole


\* The inductive invariant, for any threads, tasks and numbers of parts.
THEOREM AssemblyInvariant == Spec => []IInv
<1>1. Init => IInv
  BY AssemblyInit
<1>2. IInv /\ [Next]_vars => IInv'
  BY TypeNext, QueueNext DEF IInv
<1> QED
  BY <1>1, <1>2, PTL DEF Spec

\* However many threads look for complete sets at once, an accepted result is on
\* the incomplete queue until its task has been completed.
THEOREM NoneLost == Spec => []NoResultLost
<1>1. IInv => NoResultLost
  <2> SUFFICES ASSUME IInv, NEW p \in accepted
               PROVE  p \in incomplete \/ completed[p[1]] > 0
    BY DEF NoResultLost
  <2>1. p[1] \in Tasks /\ p \in PartsOf(p[1])
    BY PartOf DEF IInv, TypeOK
  <2> QED
    BY <2>1 DEF IInv, QueueInv, Together
<1> QED
  BY <1>1, AssemblyInvariant, PTL

\* When no thread is looking for complete sets, there is none to be found.
THEOREM NoneStranded == Spec => []NothingStranded
<1>1. IInv => NothingStranded
  BY DEF IInv, QueueInv, NothingStranded, Idle, Finds
<1> QED
  BY <1>1, AssemblyInvariant, PTL

-----------------------------------------------------------------------------
(* As long as nothing races.  Each lemma takes the facts of one action from  *)
(* its definition first.                                                     *)

LEMMA MergedIsNew == Parts \cap Merged = {}
  BY ResultConstants DEF Parts, PartsOf, Merged

LEMMA UnracedAppend ==
  ASSUME IInv, UnracedInv, NEW th \in Threads, NEW p \in Parts,
         AppendResult(th, p)
  PROVE  UnracedInv'
<1>1. /\ p \notin accepted /\ pc[th] = "idle"
      /\ accepted' = accepted \cup {p} /\ incomplete' = incomplete \cup {p}
      /\ pc' = [pc EXCEPT ![th] = "copy"]
      /\ UNCHANGED <<complete, copy, remove, inHand, completed, freed, badAccess>>
      /\ pc \in [Threads -> {"idle", "copy", "scan", "remove"}]
  BY DEF AppendResult, Step, IInv, TypeOK
<1>2. \A a \in Threads : Working(a)' <=> Working(a)
  BY <1>1 DEF Working
<1>3. p \notin freed
  BY <1>1 DEF UnracedInv
<1>4. \A t \in Tasks : completed[t] > 0 => p \notin PartsOf(t)
  BY <1>1 DEF UnracedInv
<1> QED
  BY <1>1, <1>2, <1>3, <1>4 DEF UnracedInv, CompletedOnce, ResultsAlive

LEMMA UnracedCopy ==
  ASSUME IInv, UnracedInv, NEW th \in Threads, Copy(th), ~raced'
  PROVE  UnracedInv'
<1>1. /\ pc[th] = "copy" /\ pc' = [pc EXCEPT ![th] = "scan"]
      /\ copy' = [copy EXCEPT ![th] = incomplete]
      /\ \A a \in Threads : ~Working(a)
      /\ UNCHANGED <<accepted, incomplete, complete, remove, inHand, completed,
                     freed, badAccess>>
      /\ pc \in [Threads -> {"idle", "copy", "scan", "remove"}]
      /\ copy \in [Threads -> SUBSET Parts]
  BY DEF Copy, Step, IInv, TypeOK
<1>2. \A a \in Threads : Working(a)' <=> a = th
  BY <1>1 DEF Working
<1>3. \A a \in Threads : copy[a] = {} /\ remove[a] = {}
  BY <1>1 DEF UnracedInv
<1> QED
  BY <1>1, <1>2, <1>3 DEF UnracedInv, CompletedOnce, ResultsAlive

LEMMA UnracedComplete ==
  ASSUME IInv, UnracedInv, NEW th \in Threads, NEW t \in Tasks,
         CompleteSet(th, t)
  PROVE  UnracedInv'
<1>1. /\ pc[th] = "scan" /\ pc' = pc
      /\ completed' = [completed EXCEPT ![t] = @ + 1]
      /\ remove' = [remove EXCEPT ![th] = @ \cup PartsOf(t)]
      /\ complete' = complete \cup {ResultOf(th, t)}
      /\ PartsOf(t) \subseteq copy[th] \ remove[th]
      /\ badAccess' = ((copy[th] \ remove[th]) \cap freed # {})
      /\ UNCHANGED <<accepted, incomplete, copy, inHand, freed>>
  BY DEF CompleteSet, Step, WholeSet, Scanned, IInv, TypeOK
<1>2. /\ remove \in [Threads -> SUBSET Parts] /\ completed \in [Tasks -> Nat]
      /\ copy[th] \subseteq incomplete /\ incomplete \subseteq accepted
  BY DEF IInv, TypeOK, QueueInv, UnracedInv
<1>3. completed[t] = 0
  <2>1. <<t, 0>> \in PartsOf(t) /\ <<t, 0>> \in incomplete
        /\ <<t, 0>> \in copy[th] /\ <<t, 0>> \notin remove[th]
    BY <1>1, <1>2, SomePart
  <2>2. \A a \in Threads : <<t, 0>> \notin remove[a]
    BY <1>1, <2>1 DEF UnracedInv, Working
  <2> QED
    BY <1>2, <2>1, <2>2 DEF UnracedInv
<1>4. /\ completed'[t] = 1
      /\ \A u \in Tasks : u # t => completed'[u] = completed[u]
      /\ \A a \in Threads : remove[a] \subseteq remove'[a]
      /\ PartsOf(t) \subseteq remove'[th]
  BY <1>1, <1>2, <1>3
<1>5. ~badAccess'
  BY <1>1, <1>2 DEF UnracedInv
<1>6. /\ ResultOf(th, t) \notin freed
      /\ ResultOf(th, t) \in Parts => Total[t] = 1 /\ ResultOf(th, t) = <<t, 0>>
  <2>1. CASE Total[t] = 1
    BY <1>1, <1>2, <2>1, SomePart DEF UnracedInv, ResultOf
  <2>2. CASE Total[t] # 1
    <3>1. ResultOf(th, t) = <<t, th>> /\ <<t, th>> \in Merged
      BY <2>2 DEF ResultOf, Merged
    <3> QED
      BY <1>3, <3>1, MergedIsNew DEF UnracedInv
  <2> QED
    BY <2>1, <2>2
<1>7. ResultOf(th, t) \notin incomplete \/ Total[t] = 1
  BY <1>2, <1>6 DEF IInv, TypeOK
<1>8. \A u \in Tasks : u # t =>
        /\ ResultOf(th, t) \notin PartsOf(u)
        /\ \A a \in Threads : ResultOf(th, t) # <<u, a>>
  <2> SUFFICES ASSUME NEW u \in Tasks, u # t
               PROVE  /\ ResultOf(th, t) \notin PartsOf(u)
                      /\ \A a \in Threads : ResultOf(th, t) # <<u, a>>
    OBVIOUS
  <2>1. ResultOf(th, t)[1] = t
    BY DEF ResultOf
  <2> QED
    BY <2>1 DEF PartsOf
<1>9. freed' \cap (incomplete' \cup complete') = {}
  BY <1>1, <1>6 DEF UnracedInv
<1>10. \A p \in complete' \cap Parts : Total[p[1]] = 1
  BY <1>1, <1>6 DEF UnracedInv
<1>11. \A u \in Tasks :
         /\ completed'[u] <= 1
         /\ completed'[u] = 0 =>
              /\ PartsOf(u) \cap complete' = {}
              /\ \A a \in Threads : <<u, a>> \notin complete' \cup freed'
         /\ completed'[u] > 0 =>
              /\ PartsOf(u) \subseteq accepted'
              /\ \A p \in PartsOf(u) \cap incomplete' :
                   \E a \in Threads : p \in remove'[a]
  <2> TAKE u \in Tasks
  <2>1. CASE u = t
    BY <1>1, <1>2, <1>4, <2>1
  <2>2. CASE u # t
    <3>1. completed'[u] = completed[u] /\ completed[u] <= 1
      BY <1>4, <2>2 DEF UnracedInv, CompletedOnce
    <3>2. completed[u] = 0 =>
            /\ PartsOf(u) \cap complete' = {}
            /\ \A a \in Threads : <<u, a>> \notin complete' \cup freed'
      BY <1>1, <1>8, <2>2 DEF UnracedInv
    <3>3. completed[u] > 0 =>
            /\ PartsOf(u) \subseteq accepted'
            /\ \A p \in PartsOf(u) \cap incomplete' :
                 \E a \in Threads : p \in remove'[a]
      BY <1>1, <1>4 DEF UnracedInv
    <3> QED
      BY <3>1, <3>2, <3>3
  <2> QED
    BY <2>1, <2>2
<1>12. /\ \A a, b \in Threads : Working(a)' /\ Working(b)' => a = b
       /\ freed' \cap Parts \subseteq accepted'
       /\ inHand' # NoResult => inHand' \in complete'
  BY <1>1 DEF UnracedInv, Working
<1>13. \A a \in Threads :
         /\ remove'[a] \subseteq copy'[a] /\ copy'[a] \subseteq incomplete'
         /\ ~Working(a)' => copy'[a] = {}
  BY <1>1, <1>2 DEF UnracedInv, Working
<1> QED
  BY <1>5, <1>9, <1>10, <1>11, <1>12, <1>13 DEF UnracedInv, CompletedOnce, ResultsAlive

LEMMA UnracedEndScan ==
  ASSUME IInv, UnracedInv, NEW th \in Threads, EndScan(th)
  PROVE  UnracedInv'
<1>1. /\ pc[th] = "scan" /\ pc' = [pc EXCEPT ![th] = "remove"]
      /\ badAccess' = ((copy[th] \ remove[th]) \cap freed # {})
      /\ UNCHANGED <<accepted, incomplete, complete, copy, remove, inHand,
                     completed, freed>>
      /\ pc \in [Threads -> {"idle", "copy", "scan", "remove"}]
  BY DEF EndScan, Step, Scanned, IInv, TypeOK
<1>2. \A a \in Threads : Working(a)' <=> Working(a)
  BY <1>1 DEF Working
<1>3. ~badAccess'
  BY <1>1 DEF UnracedInv
<1> QED
  BY <1>1, <1>2, <1>3 DEF UnracedInv, CompletedOnce, ResultsAlive

LEMMA UnracedRemove ==
  ASSUME IInv, UnracedInv, NEW th \in Threads, Remove(th)
  PROVE  UnracedInv'
<1>1. /\ pc[th] = "remove" /\ pc' = [pc EXCEPT ![th] = "idle"]
      /\ incomplete' = incomplete \ remove[th]
      /\ freed' = freed \cup {p \in remove[th] : Total[p[1]] > 1}
      /\ badAccess' = (remove[th] \cap freed # {})
      /\ copy' = [copy EXCEPT ![th] = {}] /\ remove' = [remove EXCEPT ![th] = {}]
      /\ UNCHANGED <<accepted, complete, inHand, completed>>
      /\ pc \in [Threads -> {"idle", "copy", "scan", "remove"}]
      /\ copy \in [Threads -> SUBSET Parts] /\ remove \in [Threads -> SUBSET Parts]
  BY DEF Remove, Step, IInv, TypeOK
<1>2. \A a \in Threads : Working(a)' => Working(a) /\ a # th
  BY <1>1 DEF Working
<1>3. /\ remove[th] \subseteq incomplete /\ remove[th] \subseteq accepted
      /\ remove[th] \subseteq Parts
  BY <1>1 DEF UnracedInv, IInv, QueueInv
<1>4. \A a \in Threads : a # th => copy[a] = {} /\ remove[a] = {}
  BY <1>1 DEF UnracedInv, Working
<1>5. ~badAccess'
  BY <1>1, <1>3 DEF UnracedInv
<1>6. freed' \cap (incomplete' \cup complete') = {}
  BY <1>1, <1>3 DEF UnracedInv
<1>7. \A t \in Tasks, a \in Threads : <<t, a>> \notin remove[th]
  BY <1>3, MergedIsNew DEF Merged
<1>8. \A a \in Threads :
        /\ remove'[a] \subseteq copy'[a] /\ copy'[a] \subseteq incomplete'
        /\ ~Working(a)' => copy'[a] = {}
  BY <1>1, <1>4
<1>9. \A t \in Tasks :
        completed[t] > 0 => PartsOf(t) \cap incomplete' = {}
  BY <1>1, <1>4 DEF UnracedInv
<1>10. \A t \in Tasks, a \in Threads :
         completed[t] = 0 => <<t, a>> \notin complete' \cup freed'
  BY <1>1, <1>7 DEF UnracedInv
<1> QED
  BY <1>1, <1>2, <1>3, <1>5, <1>6, <1>8, <1>9, <1>10
     DEF UnracedInv, CompletedOnce, ResultsAlive

LEMMA UnracedDelete ==
  ASSUME IInv, UnracedInv, RemoveResultFromQueue, ~raced'
  PROVE  UnracedInv'
<1>1. /\ inHand \in complete /\ inHand \notin freed
      /\ complete' = complete \ {inHand} /\ freed' = freed \cup {inHand}
      /\ ~badAccess' /\ inHand' = NoResult
      /\ \A th \in Threads : inHand \notin copy[th]
      /\ UNCHANGED <<accepted, incomplete, pc, copy, remove, completed>>
  BY DEF RemoveResultFromQueue, UnracedInv, threadVars
<1>2. inHand \in Parts => inHand \in accepted /\ inHand \notin incomplete
  <2> SUFFICES ASSUME inHand \in Parts
               PROVE  inHand \in accepted /\ inHand \notin incomplete
    OBVIOUS
  <2>1. PICK t \in Tasks : inHand \in PartsOf(t)
    BY PartOf
  <2>2. completed[t] > 0
    <3>1. completed[t] # 0 /\ completed[t] \in Nat
      BY <1>1, <2>1 DEF UnracedInv, IInv, TypeOK
    <3> QED
      BY <3>1
  <2> QED
    BY <1>1, <2>1, <2>2 DEF UnracedInv
<1>3. inHand \notin incomplete
  BY <1>2 DEF IInv, TypeOK
<1>4. \A th \in Threads, t \in Tasks :
        completed[t] = 0 => <<t, th>> \notin complete' \cup freed'
  BY <1>1 DEF UnracedInv
<1>5. \A a \in Threads : Working(a)' <=> Working(a)
  BY <1>1 DEF Working
<1> QED
  BY <1>1, <1>2, <1>3, <1>4, <1>5 DEF UnracedInv, CompletedOnce, ResultsAlive

LEMMA UnracedNext ==
  IInv /\ (~raced => UnracedInv) /\ [Next]_vars => (~raced' => UnracedInv')
<1> SUFFICES ASSUME IInv, ~raced => UnracedInv, [Next]_vars, ~raced'
             PROVE  UnracedInv'
  OBVIOUS
<1>1. CASE UNCHANGED vars
  BY <1>1 DEF vars, threadVars, UnracedInv, Working, CompletedOnce, ResultsAlive
<1>2. CASE GetAvailableResult
  BY <1>2 DEF GetAvailableResult, UnracedInv, Working, CompletedOnce,
     ResultsAlive, threadVars
<1>3. CASE RemoveResultFromQueue
  <2>1. ~raced
    BY <1>3 DEF RemoveResultFromQueue
  <2> QED
    BY <1>3, <2>1, UnracedDelete
<1>4. ASSUME NEW th \in Threads, NEW p \in Parts, AppendResult(th, p)
      PROVE  UnracedInv'
  <2>1. ~raced
    BY <1>4 DEF AppendResult
  <2> QED
    BY <1>4, <2>1, UnracedAppend
<1>5. ASSUME NEW th \in Threads, Check(th) PROVE UnracedInv'
  <2>1. ~raced
    BY <1>5 DEF Check, Copy, CompleteSet, EndScan, Remove
  <2> QED
    BY <1>5, <2>1, UnracedCopy, UnracedComplete, UnracedEndScan, UnracedRemove
       DEF Check
<1> QED
  BY <1>1, <1>2, <1>3, <1>4, <1>5 DEF Next

LEMMA UnracedInvariant == Spec => [](~raced => UnracedInv)
<1>1. Init => UnracedInv
  BY DEF Init, UnracedInv, Working, CompletedOnce, ResultsAlive
<1>2. IInv /\ (~raced => UnracedInv) /\ [Next]_vars => (~raced => UnracedInv)'
  BY UnracedNext
<1> QED
  BY <1>1, <1>2, AssemblyInvariant, PTL DEF Spec

\* Host::checkForCompleteResults: for any threads and tasks, a set is moved to the
\* complete queue once unless two scans overlap or the application deletes a
\* result under a scan.
THEOREM Once == Spec => []OnceUnraced
<1>1. (~raced => UnracedInv) => OnceUnraced
  BY DEF UnracedInv, OnceUnraced
<1> QED
  BY <1>1, UnracedInvariant, PTL

\* Host::checkForCompleteResults and removeResultFromQueue: these two races are also
\* the only ways in which a deleted result is used.
THEOREM Alive == Spec => []AliveUnraced
<1>1. (~raced => UnracedInv) => AliveUnraced
  BY DEF UnracedInv, AliveUnraced
<1> QED
  BY <1>1, UnracedInvariant, PTL
=============================================================================
