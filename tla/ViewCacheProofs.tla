---------------------------- MODULE ViewCacheProofs ----------------------------
(* Proofs about the cache of views, for any positions, events, nodes and size   *)
(* of the cache.                                                                *)
EXTENDS ViewCache, TLAPS

LEMMA ViewMoved ==
  ASSUME TypeOK, NEW f \in Nat
  PROVE  Ahead(f) \in View
BY DEF Ahead, TypeOK, View

LEMMA HandleType ==
  ASSUME TypeOK, NEW event, Handle(event)
  PROVE  view' \in View /\ zoomingIn' \in BOOLEAN /\ stateChanged' \in BOOLEAN
         /\ isOpen' \in BOOLEAN
<1> USE DEF TypeOK, View
<1>1. CASE event = "close"
  BY <1>1 DEF Handle
<1>2. CASE event # "close"
  <2>1. view[1] \in Positions /\ view[2] \in Int
    OBVIOUS
  <2>2. \A z \in Int, p \in Positions : <<p, z>> \in View
    OBVIOUS
  <2>3. view' \in View
    <3>1. Home \in Positions /\ view[2] + 1 \in Int /\ view[2] + (-1) \in Int
      BY <2>1, ViewConstants
    <3>2. \/ view' = <<Home, 0>> \/ view' = <<view[1], 0>>
          \/ view' = <<view[1], view[2] + 1>> \/ view' = <<view[1], view[2] + (-1)>>
          \/ \E p \in Positions : view' = <<p, view[2]>>
      BY <1>2 DEF Handle, Zoom
    <3> HIDE DEF View, TypeOK
    <3> QED
      BY <2>1, <2>2, <3>1, <3>2
  <2> QED
    BY <1>2, <2>3 DEF Handle
<1> QED
  BY <1>1, <1>2

LEMMA TypeInit == Init => TypeOK
<1> SUFFICES ASSUME Init PROVE TypeOK
  OBVIOUS
<1>1. view \in View /\ cache \subseteq Entry /\ views \in Seq(View)
  BY ViewConstants DEF Init, View
<1>2. MaxNodes - 1 \in Nat /\ 0 \in 0 .. MaxNodes - 1
  BY ViewConstants
<1>3. pending \subseteq 1 .. Len(views) /\ complete \subseteq 1 .. Len(views)
  BY DEF Init
<1>4. sent \in 0 .. MaxEvents /\ left \in 0 .. MaxNodes /\ maxDepth \in 0 .. MaxNodes - 1
  BY <1>2, ViewConstants DEF Init
<1>5. stale \in 0 .. MaxStale
  BY ViewConstants DEF Init
<1> QED
  BY <1>1, <1>3, <1>4, <1>5 DEF Init, TypeOK

LEMMA TypeNext == TypeOK /\ [Next]_vars => TypeOK'
<1> SUFFICES ASSUME TypeOK, [Next]_vars PROVE TypeOK'
  OBVIOUS
<1> USE DEF appVars, inputVars, hostVars
<1>1. CASE PollEvent
  <2>1. CASE stateChanged
    BY <1>1, <2>1 DEF PollEvent, TypeOK
  <2>2. CASE ~stateChanged
    <3>1. view' \in View /\ zoomingIn' \in BOOLEAN /\ stateChanged' \in BOOLEAN
          /\ isOpen' \in BOOLEAN
      BY <1>1, <2>2, HandleType DEF PollEvent
    <3> QED
      BY <1>1, <2>2, <3>1 DEF PollEvent, TypeOK
  <2> QED
    BY <2>1, <2>2
<1>2. CASE NoEvent \/ End
  <2>1. /\ at' \in {"depth", "ended", "search"} /\ left' \in {left, 0}
        /\ UNCHANGED <<view, zoomingIn, stateChanged, isOpen, sent, cache, nextCacheID,
                       maxDepth, views, pending, complete, viewResult, stale>>
    BY <1>2 DEF NoEvent, End
  <2> QED
    BY <2>1, ViewConstants DEF TypeOK
<1>3. CASE BeginSearch
  BY <1>3 DEF BeginSearch, TypeOK
<1>4. CASE NewView
  <2>1. PICK v \in View : views' = Append(views, v) /\ asked' = v
    <3>1. PICK f \in Missing : views' = Append(views, Ahead(f)) /\ asked' = Ahead(f)
      BY <1>4 DEF NewView
    <3>2. Ahead(f) \in View
      BY <3>1, ViewMoved DEF Missing, TypeOK
    <3> QED
      BY <3>1, <3>2
  <2>2. /\ views' \in Seq(View) /\ Len(views') = Len(views) + 1
        /\ Len(views) \in Nat
    BY <2>1 DEF TypeOK
  <2>3. /\ pending' = pending \cup {Len(views')} /\ complete' = complete
    BY <1>4 DEF NewView
  <2>4. pending' \subseteq 1 .. Len(views') /\ complete' \subseteq 1 .. Len(views')
    <3>1. pending \subseteq 1 .. Len(views) /\ complete \subseteq 1 .. Len(views)
      BY DEF TypeOK
    <3>2. \A n \in Nat : 1 .. n \subseteq 1 .. n + 1 /\ n + 1 \in 1 .. n + 1
      OBVIOUS
    <3>3. 1 .. Len(views) \subseteq 1 .. Len(views') /\ Len(views') \in 1 .. Len(views')
      BY <2>2, <3>2
    <3> QED
      BY <2>3, <3>1, <3>3
  <2>5. /\ at' = "enter" /\ left' # 0 /\ left \in Nat
        /\ UNCHANGED <<view, zoomingIn, stateChanged, isOpen, sent, cache, nextCacheID,
                       left, maxDepth, viewResult, stale>>
    BY <1>4 DEF NewView, TypeOK
  <2> QED
    BY <2>1, <2>2, <2>4, <2>5 DEF TypeOK
<1>5. CASE EnterView
  <2>1. PICK t \in Nat : cache' = cache \cup {[id |-> nextCacheID, view |-> asked,
                                              task |-> t, ready |-> FALSE]}
    <3>1. pending \subseteq Nat /\ Len(views) \in Nat
      BY DEF TypeOK
    <3> QED
      BY <1>5, <3>1 DEF EnterView
  <2>2. nextCacheID \in Nat /\ asked \in View
    BY <1>5 DEF EnterView, TypeOK
  <2>3. [id |-> nextCacheID, view |-> asked, task |-> t, ready |-> FALSE] \in Entry
    BY <2>2 DEF Entry
  <2>4. cache' \subseteq Entry
    BY <2>1, <2>3 DEF TypeOK
  <2>5. stale' \in 0 .. MaxStale
    BY <1>5, ViewConstants DEF EnterView, TypeOK
  <2>6. left \in 1 .. MaxNodes /\ left' = left - 1 /\ nextCacheID' = nextCacheID + 1
    BY <1>5 DEF EnterView, TypeOK
  <2>7. /\ at' = "search"
        /\ UNCHANGED <<view, zoomingIn, stateChanged, isOpen, sent, maxDepth, views,
                       pending, complete, viewResult>>
    BY <1>5 DEF EnterView
  <2> QED
    BY <2>2, <2>4, <2>5, <2>6, <2>7, ViewConstants DEF TypeOK
<1>6. CASE EndSearch
  <2>1. viewResult' \in Nat
    <3>1. \A e \in cache : e.task \in Nat
      BY DEF TypeOK, Entry
    <3> QED
      BY <1>6, <3>1 DEF EndSearch
  <2> QED
    BY <1>6, <2>1, ViewConstants DEF EndSearch, TypeOK
<1>7. CASE Match
  <2>1. \A e \in Entry : [e EXCEPT !.ready = @ \/ e.task \in complete] \in Entry
    BY DEF Entry
  <2>2. cache' \subseteq Entry
    BY <1>7, <2>1 DEF Match, TypeOK
  <2> QED
    BY <1>7, <2>2 DEF Match, TypeOK
<1>8. CASE Show
  BY <1>8 DEF Show, TypeOK
<1>9. CASE PurgeCache
  <2>1. /\ cache' \subseteq cache /\ complete' \subseteq complete
        /\ at' \in {"ended", "events"}
        /\ UNCHANGED <<view, zoomingIn, stateChanged, isOpen, sent, nextCacheID, left,
                       maxDepth, views, pending, viewResult, stale>>
    BY <1>9 DEF PurgeCache
  <2> QED
    BY <2>1 DEF TypeOK
<1>10. CASE User
  <2>1. /\ sent' = sent + 1 /\ sent < MaxEvents
        /\ UNCHANGED <<at, view, zoomingIn, stateChanged, isOpen, cache, nextCacheID,
                       left, maxDepth, asked, views, pending, complete, viewResult,
                       stale>>
    BY <1>10 DEF User
  <2>2. sent' \in 0 .. MaxEvents
    BY <2>1, ViewConstants DEF TypeOK
  <2> QED
    BY <2>1, <2>2 DEF TypeOK
<1>11. CASE Answer
  BY <1>11 DEF Answer, TypeOK
<1>12. CASE UNCHANGED vars
  BY <1>12 DEF vars, TypeOK
<1> QED
  BY <1>1, <1>2, <1>3, <1>4, <1>5, <1>6, <1>7, <1>8, <1>9, <1>10, <1>11, <1>12
     DEF Next, Frame

\* Every variable of the application and of the host's queues keeps its type.
THEOREM TypeCorrect == Spec => []TypeOK
<1> QED
  BY TypeInit, TypeNext, PTL DEF Spec

\* An entry keeps its view and its task when its result is attached.
LEMMA MatchEntry ==
  ASSUME TypeOK, Match, NEW a \in cache'
  PROVE  \E e \in cache : /\ a = [e EXCEPT !.ready = @ \/ e.task \in complete]
                          /\ a.view = e.view /\ a.task = e.task
                          /\ a.ready => e.ready \/ e.task \in complete
<1>1. PICK e \in cache : a = [e EXCEPT !.ready = @ \/ e.task \in complete]
  BY DEF Match
<1>2. e \in Entry
  BY DEF TypeOK
<1> QED
  BY <1>1, <1>2 DEF Entry

-----------------------------------------------------------------------------
\* No view is in the cache twice, nor while it is entered.
LEMMA EnterNext == TypeOK /\ EnterInv /\ [Next]_vars => EnterInv'
<1> SUFFICES ASSUME TypeOK, EnterInv, [Next]_vars PROVE EnterInv'
  OBVIOUS
<1> USE DEF EnterInv, AskedOnce, Cached
<1>1. CASE NewView
  BY <1>1 DEF NewView, Missing
<1>2. CASE EnterView
  <2>1. PICK t : cache' = cache \cup {[id |-> nextCacheID, view |-> asked,
                                       task |-> t, ready |-> FALSE]}
    BY <1>2 DEF EnterView
  <2>2. ~Cached(asked) /\ at' = "search"
    BY <1>2 DEF EnterView
  <2> DEFINE new == [id |-> nextCacheID, view |-> asked, task |-> t, ready |-> FALSE]
  <2>3. new.view = asked
    OBVIOUS
  <2>4. \A e \in cache : e.view # asked
    BY <2>2
  <2>5. cache' = cache \cup {new}
    BY <2>1
  <2> HIDE DEF new
  <2> QED
    BY <2>2, <2>3, <2>4, <2>5
<1>3. CASE Match
  <2>1. at' = "show"
    BY <1>3 DEF Match
  <2>2. ASSUME NEW a \in cache', NEW b \in cache', a.view = b.view PROVE a = b
    <3>1. PICK e \in cache : a = [e EXCEPT !.ready = @ \/ e.task \in complete]
                             /\ a.view = e.view
      BY <1>3, MatchEntry
    <3>2. PICK f \in cache : b = [f EXCEPT !.ready = @ \/ f.task \in complete]
                             /\ b.view = f.view
      BY <1>3, MatchEntry
    <3>3. e = f
      BY <2>2, <3>1, <3>2
    <3> QED
      BY <3>1, <3>2, <3>3
  <2> QED
    BY <2>1, <2>2
<1>4. CASE PurgeCache
  <2>1. cache' \subseteq cache /\ at' \in {"ended", "events"}
    BY <1>4 DEF PurgeCache
  <2> QED
    BY <2>1
<1>5. CASE PollEvent \/ NoEvent \/ BeginSearch \/ EndSearch \/ Show
  <2>1. cache' = cache /\ at' # "enter"
    BY <1>5 DEF PollEvent, NoEvent, BeginSearch, EndSearch, Show
  <2> QED
    BY <2>1
<1>6. CASE End \/ User \/ Answer \/ UNCHANGED vars
  BY <1>6 DEF End, User, Answer, vars, appVars
<1> QED
  BY <1>1, <1>2, <1>3, <1>4, <1>5, <1>6 DEF Next, Frame

\* The search of the render loop and Mandelbrot::newView: no view is asked for
\* while it is in the cache or under way.
THEOREM Once == Spec => []AskedOnce
<1>1. Init => EnterInv
  BY DEF Init, EnterInv, AskedOnce
<1>2. EnterInv => AskedOnce
  BY DEF EnterInv
<1> QED
  BY <1>1, <1>2, EnterNext, TypeCorrect, PTL DEF Spec

-----------------------------------------------------------------------------
\* Results stay tied to views.
LEMMA TrackNext == TypeOK /\ TrackInv /\ [Next]_vars => TrackInv'
<1> SUFFICES ASSUME TypeOK, TrackInv, [Next]_vars, stale' = 0 PROVE TrackInv'
  BY DEF TrackInv
<1> USE DEF TrackInv, ResultsTracked
<1>0. Len(views) \in Nat
  BY DEF TypeOK
<1>1. CASE NewView
  <2>1. PICK v : views' = Append(views, v)
    BY <1>1 DEF NewView
  <2>2. Len(views') = Len(views) + 1
    BY <2>1 DEF TypeOK
  <2>3. /\ pending' = pending \cup {Len(views')} /\ at = "search" /\ at' = "enter"
        /\ UNCHANGED <<cache, complete, stale>>
    BY <1>1 DEF NewView
  <2>4. pending \subseteq 1 .. Len(views) /\ complete \subseteq 1 .. Len(views)
    BY DEF TypeOK
  <2>5. Len(views') \notin complete /\ pending' \cap complete' = {}
    <3>1. Len(views') \notin 1 .. Len(views)
      BY <1>0, <2>2
    <3>2. pending \cap complete = {}
      BY <2>3
    <3> QED
      BY <2>3, <2>4, <3>1, <3>2
  <2>6. \A e \in cache' : e.task \in 1 .. Len(views)
    BY <2>3
  <2>7. \A e \in cache' : e.task \in 1 .. Len(views') /\ e.task # Len(views')
    BY <1>0, <2>2, <2>6
  <2> QED
    BY <2>2, <2>3, <2>5, <2>7
<1>2. CASE EnterView
  <2>1. /\ stale = 0 /\ at = "enter" /\ at' = "search"
        /\ cache' = cache \cup {[id |-> nextCacheID, view |-> asked,
                                 task |-> Len(views), ready |-> FALSE]}
        /\ UNCHANGED <<views, pending, complete>>
    BY <1>2 DEF EnterView, hostVars, TypeOK
  <2>2. Len(views) \in 1 .. Len(views)
    BY <1>0, <2>1 DEF TypeOK
  <2> DEFINE new == [id |-> nextCacheID, view |-> asked, task |-> Len(views),
                     ready |-> FALSE]
  <2>3. new.task = Len(views) /\ ~new.ready
    OBVIOUS
  <2>4. cache' = cache \cup {new}
    BY <2>1
  <2> HIDE DEF new
  <2> QED
    BY <2>1, <2>2, <2>3, <2>4
<1>3. CASE Match
  <2>1. /\ at = "match" /\ at' = "show" /\ stale = 0
        /\ UNCHANGED <<views, pending, complete>>
    BY <1>3 DEF Match, hostVars
  <2>2. \A e \in cache : \E a \in cache' : a.task = e.task
    <3> SUFFICES ASSUME NEW e \in cache
                 PROVE  \E a \in cache' : a.task = e.task
      OBVIOUS
    <3>1. [e EXCEPT !.ready = @ \/ e.task \in complete] \in cache'
      BY <1>3 DEF Match
    <3>2. e \in Entry
      BY DEF TypeOK
    <3>3. [e EXCEPT !.ready = @ \/ e.task \in complete].task = e.task
      BY <3>2 DEF Entry
    <3> QED
      BY <3>1, <3>3
  <2>3. \A a \in cache' :
          a.task \in 1 .. Len(views) /\ (a.ready => a.task \in complete)
    BY <1>3, <2>1, MatchEntry
  <2>4. \A a, b \in cache' : a.task = b.task => a = b
    <3> SUFFICES ASSUME NEW a \in cache', NEW b \in cache', a.task = b.task
                 PROVE  a = b
      OBVIOUS
    <3>1. PICK e \in cache : a = [e EXCEPT !.ready = @ \/ e.task \in complete]
                             /\ a.task = e.task
      BY <1>3, MatchEntry
    <3>2. PICK f \in cache : b = [f EXCEPT !.ready = @ \/ f.task \in complete]
                             /\ b.task = f.task
      BY <1>3, MatchEntry
    <3>3. e = f
      BY <2>1, <3>1, <3>2
    <3> QED
      BY <3>1, <3>2, <3>3
  <2> QED
    BY <2>1, <2>2, <2>3, <2>4
<1>4. CASE PurgeCache
  <2> DEFINE old == {e \in cache : e.ready /\ e.id < nextCacheID - MaxCache}
  <2>1. /\ cache' = cache \ old /\ complete' = complete \ {e.task : e \in old}
        /\ at = "purge" /\ at' # "enter" /\ stale = 0
        /\ UNCHANGED <<views, pending>>
    BY <1>4 DEF PurgeCache
  <2>2. \A e \in cache' : e.ready => e.task \in complete'
    BY <2>1
  <2>3. \A t \in pending' \cup complete' : \E e \in cache' : e.task = t
    <3> SUFFICES ASSUME NEW t \in pending' \cup complete'
                 PROVE  \E e \in cache' : e.task = t
      OBVIOUS
    <3>1. PICK e \in cache : e.task = t
      BY <2>1
    <3>2. e \notin old
      BY <2>1, <3>1
    <3> QED
      BY <2>1, <3>1, <3>2
  <2>4. pending' \cap complete' = {} /\ \A e \in cache' : e.task \in 1 .. Len(views')
    BY <2>1
  <2>5. \A e, f \in cache' : e.task = f.task => e = f
    BY <2>1
  <2> HIDE DEF old
  <2> QED
    BY <2>1, <2>2, <2>3, <2>4, <2>5
<1>5. CASE PollEvent \/ NoEvent \/ BeginSearch \/ EndSearch \/ Show
  <2>1. /\ at # "enter" /\ at' # "enter"
        /\ UNCHANGED <<cache, views, pending, complete, stale>>
    BY <1>5 DEF PollEvent, NoEvent, BeginSearch, EndSearch, Show, hostVars
  <2> QED
    BY <2>1
<1>6. CASE End
  <2>1. /\ at # "enter" /\ at' # "enter"
        /\ UNCHANGED <<cache, views, pending, complete, stale>>
    BY <1>6 DEF End, hostVars
  <2> QED
    BY <2>1
<1>7. CASE Answer
  <2>1. /\ pending' \cup complete' = pending \cup complete
        /\ pending' \cap complete' = {} /\ complete \subseteq complete'
        /\ UNCHANGED <<at, cache, views, stale>>
    BY <1>7 DEF Answer, appVars
  <2> QED
    BY <2>1
<1>8. CASE User \/ UNCHANGED vars
  <2>1. UNCHANGED <<at, cache, views, pending, complete, stale>>
    BY <1>8 DEF User, vars, appVars, hostVars
  <2> QED
    BY <2>1
<1> QED
  BY <1>1, <1>2, <1>3, <1>4, <1>5, <1>6, <1>7, <1>8 DEF Next, Frame

\* The cache, the host's queues and Mandelbrot::purgeCache: unless an ID was read
\* from a deleted task, no result is left on the host's queue without a view and
\* none is deleted while a view has it.
THEOREM Tracked == Spec => []ResultsTracked
<1>1. Init => TrackInv
  BY DEF Init, TrackInv, ResultsTracked
<1>2. TypeOK /\ TrackInv => ResultsTracked
  BY ViewConstants DEF TrackInv, ResultsTracked, TypeOK
<1> QED
  BY <1>1, <1>2, TrackNext, TypeCorrect, PTL DEF Spec

-----------------------------------------------------------------------------
\* The image is that of the current view.
LEMMA ShowNext == TypeOK /\ ShowInv /\ [Next]_vars => ShowInv'
<1> SUFFICES ASSUME TypeOK, ShowInv, [Next]_vars, stale' = 0 PROVE ShowInv'
  BY DEF ShowInv
<1> USE DEF ShowInv, ShownIsCurrent
<1>0. Len(views) \in Nat
  BY DEF TypeOK
<1>1. CASE NewView
  <2>1. PICK v \in View : views' = Append(views, v) /\ asked' = v
    <3>1. PICK f \in Missing : views' = Append(views, Ahead(f)) /\ asked' = Ahead(f)
      BY <1>1 DEF NewView
    <3>2. Ahead(f) \in View
      BY <3>1, ViewMoved DEF Missing, TypeOK
    <3> QED
      BY <3>1, <3>2
  <2>2. /\ Len(views') = Len(views) + 1 /\ views'[Len(views')] = asked'
        /\ \A t \in 1 .. Len(views) : t \in 1 .. Len(views') /\ views'[t] = views[t]
    BY <1>0, <2>1 DEF TypeOK
  <2>3. /\ at = "search" /\ at' = "enter" /\ stale = 0
        /\ UNCHANGED <<cache, viewResult, view, stateChanged, shown>>
    BY <1>1 DEF NewView, inputVars
  <2> QED
    BY <2>2, <2>3
<1>2. CASE EnterView
  <2>1. /\ stale = 0 /\ at = "enter" /\ at' = "search"
        /\ cache' = cache \cup {[id |-> nextCacheID, view |-> asked,
                                 task |-> Len(views), ready |-> FALSE]}
        /\ UNCHANGED <<views, viewResult, view, stateChanged, shown>>
    BY <1>2 DEF EnterView, hostVars, inputVars, TypeOK
  <2>2. Len(views) \in 1 .. Len(views) /\ asked = views[Len(views)]
    BY <1>0, <2>1 DEF TypeOK
  <2> DEFINE new == [id |-> nextCacheID, view |-> asked, task |-> Len(views),
                     ready |-> FALSE]
  <2>3. new.task = Len(views) /\ new.view = asked
    OBVIOUS
  <2>4. cache' = cache \cup {new}
    BY <2>1
  <2> HIDE DEF new
  <2> QED
    BY <2>1, <2>2, <2>3, <2>4
<1>3. CASE EndSearch
  <2>1. /\ at' = "match" /\ stale = 0
        /\ UNCHANGED <<cache, views, view, stateChanged, shown>>
    BY <1>3 DEF EndSearch, hostVars, inputVars
  <2>2. CASE viewResult' = 0
    BY <2>1, <2>2
  <2>3. CASE viewResult' # 0
    <3>1. PICK e \in cache : e.view = view /\ viewResult' = e.task
      BY <1>3, <2>3 DEF EndSearch
    <3> QED
      BY <2>1, <3>1
  <2> QED
    BY <2>2, <2>3
<1>4. CASE Match
  <2>1. /\ at = "match" /\ at' = "show" /\ stale = 0
        /\ UNCHANGED <<views, viewResult, view, stateChanged, shown>>
    BY <1>4 DEF Match, hostVars, inputVars
  <2>2. \A a \in cache' : a.task \in 1 .. Len(views) /\ views[a.task] = a.view
    BY <1>4, <2>1, MatchEntry
  <2> QED
    BY <2>1, <2>2
<1>5. CASE Show
  <2>1. /\ at = "show" /\ at' = "purge" /\ stale = 0 /\ viewResult' = 0
        /\ UNCHANGED <<cache, views, view>>
        /\ \/ viewResult # 0 /\ shown' = views[viewResult]
           \/ UNCHANGED <<shown, stateChanged>>
    BY <1>5 DEF Show, hostVars, inputVars
  <2> QED
    BY <2>1
<1>6. CASE PollEvent
  <2>1. /\ at = "events" /\ at' # "enter" /\ stale = 0
        /\ UNCHANGED <<cache, views, viewResult, shown>>
        /\ stateChanged' \/ UNCHANGED <<view, stateChanged>>
    BY <1>6 DEF PollEvent, Handle, hostVars
  <2> QED
    BY <2>1
<1>7. CASE NoEvent \/ End \/ BeginSearch \/ PurgeCache
  <2>1. /\ at \notin {"enter", "match", "show"} /\ at' # "enter" /\ stale = 0
        /\ cache' \subseteq cache
        /\ UNCHANGED <<views, viewResult, view, stateChanged, shown>>
    BY <1>7 DEF NoEvent, End, BeginSearch, PurgeCache, hostVars, inputVars
  <2> QED
    BY <2>1
<1>8. CASE User \/ Answer \/ UNCHANGED vars
  <2>1. UNCHANGED <<at, asked, cache, views, viewResult, view, stateChanged, shown, stale>>
    BY <1>8 DEF User, Answer, vars, appVars, hostVars, inputVars
  <2> QED
    BY <2>1
<1> QED
  BY <1>1, <1>2, <1>3, <1>4, <1>5, <1>6, <1>7, <1>8 DEF Next, Frame

\* The main loop of CFMandelbrot (main.cpp:145-290): however keys, searches and results
\* take turns, an image that is not out of date is that of the current view, unless
\* an ID was read from a deleted task.
THEOREM Current == Spec => []ShownIsCurrent
<1>1. Init => ShowInv
  BY DEF Init, ShowInv, ShownIsCurrent
<1>2. TypeOK /\ ShowInv => ShownIsCurrent
  BY ViewConstants DEF ShowInv, ShownIsCurrent, TypeOK
<1> QED
  BY <1>1, <1>2, ShowNext, TypeCorrect, PTL DEF Spec
=============================================================================
