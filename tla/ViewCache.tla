----------------------------- MODULE ViewCache -----------------------------
(***************************************************************************)
(* The render loop of the Mandelbrot application and its cache of views.   *)
(* Each frame handles the window's events, asks the host for the current   *)
(* view and for those the user is zooming to, one for every node, attaches *)
(* the results that have come to their views, shows the current one and    *)
(* throws out the oldest.                                                  *)
(*                                                                         *)
(* The host is its two queues: it answers tasks in any order while the     *)
(* application goes on (EveryTaskDone in HostDispatch).  A view is a       *)
(* position and a zoom level; how far a key pans is left open.             *)
(***************************************************************************)
EXTENDS Integers, FiniteSets, Sequences

CONSTANTS
  Positions,   \* offsets of the view
  Home,        \* the offset Mandelbrot::reset sets
  SavedViews,  \* what savedata.bin may hold
  MaxNodes,    \* host and clients at most
  MaxCache,    \* results kept in the cache: 400 in the code
  MaxEvents,   \* bound: events of the window
  MaxStale     \* bound: IDs read wrong

\* With more nodes than results kept, the views asked for would push each other
\* out of the cache for ever.
ASSUME ViewConstants ==
  /\ Home \in Positions
  /\ SavedViews \subseteq Positions \X Int
  /\ MaxNodes \in Nat \ {0} /\ MaxCache \in Nat /\ MaxCache >= MaxNodes
  /\ MaxEvents \in Nat /\ MaxStale \in Nat

VARIABLES
  at,               \* where the application's thread is in its frame
  view,             \* offset and zoomLevel of the current view
  zoomingIn, stateChanged,
  isOpen,           \* window.isOpen()
  events, sent,     \* the window's queue of events, how many there were
  shown,            \* view of the image on the screen, or <<>>
  cache,            \* Mandelbrot::cache
  nextCacheID,      \* Mandelbrot::nextCacheID
  left, maxDepth,   \* passes of the search still to do, views it looks ahead
  asked,            \* view newView is entering in the cache
  viewResult,       \* result of the current view, or 0
  views,            \* views[t]: view of task t
  pending, complete,\* tasks the host works on, those it has results of
  stale             \* IDs that were read wrong after the task was deleted

appVars   == <<at, left, maxDepth, asked, viewResult>>
inputVars == <<view, zoomingIn, isOpen, events, sent>>
hostVars  == <<views, pending, complete>>
vars == <<appVars, inputVars, stateChanged, shown, cache, nextCacheID, hostVars,
          stale>>

View == Positions \X Int

\* MandelbrotViewData; ready says that result is set.
Entry == [id : Nat, view : View, task : Nat, ready : BOOLEAN]

TypeOK ==
  /\ at \in {"events", "depth", "search", "enter", "match", "show", "purge",
             "ended"}
  /\ view \in View /\ zoomingIn \in BOOLEAN /\ stateChanged \in BOOLEAN
  /\ isOpen \in BOOLEAN /\ sent \in 0 .. MaxEvents
  /\ cache \subseteq Entry
  /\ nextCacheID \in Nat
  /\ left \in 0 .. MaxNodes /\ maxDepth \in 0 .. MaxNodes - 1
  /\ at = "enter" => asked \in View /\ Len(views) # 0 /\ left # 0
  /\ views \in Seq(View)
  /\ pending \subseteq 1 .. Len(views) /\ complete \subseteq 1 .. Len(views)
  /\ viewResult \in Nat /\ stale \in 0 .. MaxStale

Init ==
  /\ at = "events" /\ view \in SavedViews
  /\ zoomingIn = TRUE /\ stateChanged = TRUE /\ isOpen = TRUE
  /\ events = <<>> /\ sent = 0 /\ shown = <<>>
  /\ cache = {} /\ nextCacheID = 0
  /\ left = 0 /\ maxDepth = 0 /\ asked = <<>> /\ viewResult = 0
  /\ views = <<>> /\ pending = {} /\ complete = {}
  /\ stale = 0

-----------------------------------------------------------------------------
(* The events.  Those that change nothing are left out; Escape closes too. *)

Events == {"close", "R", "T", "Equal", "Dash", "WASD"}

Zoom(by) == view' = <<view[1], view[2] + by>>

Handle(event) ==
  \/ /\ event = "close"
     /\ isOpen' = FALSE
     /\ UNCHANGED <<view, zoomingIn, stateChanged>>
  \/ /\ stateChanged' = TRUE /\ UNCHANGED isOpen
     /\ \/ event = "R" /\ view' = <<Home, 0>> /\ zoomingIn' = TRUE
        \/ event = "T" /\ view' = <<view[1], 0>> /\ zoomingIn' = TRUE
        \/ event = "Equal" /\ Zoom(1) /\ zoomingIn' = TRUE
        \/ event = "Dash" /\ Zoom(-1) /\ zoomingIn' = FALSE
        \/ /\ event = "WASD"
           /\ \E p \in Positions \ {view[1]} : view' = <<p, view[2]>>
           /\ UNCHANGED zoomingIn

\* Once the image is out of date the next event is still taken from the queue,
\* and forgotten.
PollEvent ==
  /\ at = "events" /\ isOpen /\ events # <<>>
  /\ events' = Tail(events)
  /\ IF stateChanged
     THEN at' = "depth" /\ UNCHANGED <<view, zoomingIn, isOpen, stateChanged>>
     ELSE Handle(Head(events)) /\ UNCHANGED at
  /\ UNCHANGED <<left, maxDepth, asked, viewResult, sent, shown, cache,
                 nextCacheID, hostVars, stale>>

NoEvent ==
  /\ at = "events" /\ (isOpen => events = <<>>)
  /\ at' = "depth"
  /\ UNCHANGED <<left, maxDepth, asked, viewResult, inputVars, stateChanged,
                 shown, cache, nextCacheID, hostVars, stale>>

\* The window was closed, or another thread has thrown.
End ==
  /\ at \in {"events", "depth"}
  /\ at = "depth" => ~isOpen
  /\ at' = "ended"
  /\ UNCHANGED <<left, maxDepth, asked, viewResult, inputVars, stateChanged,
                 shown, cache, nextCacheID, hostVars, stale>>

-----------------------------------------------------------------------------
(* The views to ask for. *)

\* The number of nodes is read twice, for the passes and for how far to look ahead;
\* nodes come and go in between and from frame to frame.
BeginSearch ==
  /\ at = "depth" /\ isOpen
  /\ at' = "search"
  /\ left' \in 1 .. MaxNodes
  /\ maxDepth' \in 0 .. MaxNodes - 1
  /\ UNCHANGED <<asked, viewResult, inputVars, stateChanged, shown, cache, nextCacheID,
                 hostVars, stale>>

Ahead(f) == <<view[1], IF zoomingIn THEN view[2] + f ELSE view[2] - f>>

\* Mutant: views still being computed are asked for again.
CachedReady(v) == \E e \in cache : e.view = v /\ e.ready

Cached(v) == \E e \in cache : e.view = v

\* Mutant: only the views ahead are asked for.
MissingAhead == {f \in 1 .. maxDepth : ~Cached(Ahead(f))}

\* Zoom factors whose views are not in the cache.
Missing == {f \in 0 .. maxDepth : ~Cached(Ahead(f))}

\* Mandelbrot::newView: the task is given to the host.
NewView ==
  /\ at = "search" /\ left > 0
  /\ \E f \in Missing :
       /\ \A g \in Missing : f <= g
       /\ views' = Append(views, Ahead(f)) /\ asked' = Ahead(f)
  /\ pending' = pending \cup {Len(views')}
  /\ at' = "enter"
  /\ UNCHANGED <<left, maxDepth, viewResult, inputVars, stateChanged, shown,
                 cache, nextCacheID, complete, stale>>

\* newView goes on: the ID is read from the task, which the host deletes when it
\* accepts the result, and that may be before.  What is read then is still that ID, or
\* that of another task which has the memory now, or of none.
EnterView ==
  /\ at = "enter"
  /\ \E t \in {Len(views), 0} \cup pending :
       /\ cache' = cache \cup {[id |-> nextCacheID, view |-> asked, task |-> t,
                                ready |-> FALSE]}
       /\ IF t = Len(views) THEN UNCHANGED stale
          ELSE stale < MaxStale /\ stale' = stale + 1
  /\ nextCacheID' = nextCacheID + 1
  /\ left' = left - 1
  /\ asked' = <<>>
  /\ at' = "search"
  /\ UNCHANGED <<maxDepth, viewResult, inputVars, stateChanged, shown,
                 hostVars>>

\* Mutant: the result found last is taken, whichever view it is of.
EndSearchAnyView ==
  /\ at = "search" /\ (left = 0 \/ Missing = {})
  /\ \/ \E e \in cache, f \in 0 .. maxDepth :
          e.view = Ahead(f) /\ e.ready /\ viewResult' = e.task
     \/ viewResult' = 0
  /\ at' = "match" /\ left' = 0 /\ maxDepth' = 0
  /\ UNCHANGED <<asked, inputVars, stateChanged, shown, cache,
                 nextCacheID, hostVars, stale>>

\* After the last pass, or when a pass has found all views, as the next ones will.
EndSearch ==
  /\ at = "search" /\ (left = 0 \/ Missing = {})
  /\ \/ \E e \in cache : e.view = view /\ e.ready /\ viewResult' = e.task
     \/ /\ \A e \in cache : e.view = view => ~e.ready
        /\ viewResult' = 0
  /\ at' = "match" /\ left' = 0 /\ maxDepth' = 0
  /\ UNCHANGED <<asked, inputVars, stateChanged, shown, cache,
                 nextCacheID, hostVars, stale>>

\* Results that have come are attached to their views.
Match ==
  /\ at = "match"
  /\ cache' = {[e EXCEPT !.ready = @ \/ e.task \in complete] : e \in cache}
  /\ at' = "show"
  /\ UNCHANGED <<left, maxDepth, asked, viewResult, inputVars, stateChanged,
                 shown, nextCacheID, hostVars, stale>>

Show ==
  /\ at = "show"
  /\ IF stateChanged /\ viewResult # 0
     THEN shown' = views[viewResult] /\ stateChanged' = FALSE
     ELSE UNCHANGED <<shown, stateChanged>>
  /\ at' = "purge" /\ viewResult' = 0
  /\ UNCHANGED <<left, maxDepth, asked, inputVars, cache,
                 nextCacheID, hostVars, stale>>

\* Mutant: views still being computed are thrown out too.
PurgeCachePending ==
  /\ at = "purge"
  /\ LET old == {e \in cache : e.id < nextCacheID - MaxCache}
     IN  /\ cache' = cache \ old
         /\ complete' = complete \ {e.task : e \in old}
         /\ at' = "events"
  /\ UNCHANGED <<left, maxDepth, asked, viewResult, inputVars, stateChanged,
                 shown, nextCacheID, views, pending, stale>>

\* Mandelbrot::purgeCache.  removeResultFromQueue throws, and the program ends, if
\* a result is not on the queue any more, as when two views share one.
PurgeCache ==
  /\ at = "purge"
  /\ LET old == {e \in cache : e.ready /\ e.id < nextCacheID - MaxCache}
         gone == \/ ~({e.task : e \in old} \subseteq complete)
                 \/ \E e, f \in old : e # f /\ e.task = f.task
     IN  /\ cache' = cache \ old
         /\ complete' = complete \ {e.task : e \in old}
         /\ at' = IF gone THEN "ended" ELSE "events"
  /\ UNCHANGED <<left, maxDepth, asked, viewResult, inputVars, stateChanged,
                 shown, nextCacheID, views, pending, stale>>

-----------------------------------------------------------------------------
(* The user and the host. *)

\* An event that comes elsewhere in the frame is only seen when the frame begins.
User ==
  /\ at = "events" /\ isOpen /\ sent < MaxEvents
  /\ \E e \in Events : events' = Append(events, e)
  /\ sent' = sent + 1
  /\ UNCHANGED <<appVars, view, zoomingIn, isOpen, stateChanged, shown, cache,
                 nextCacheID, hostVars, stale>>

Answer ==
  /\ at # "ended"
  /\ \E t \in pending : pending' = pending \ {t} /\ complete' = complete \cup {t}
  /\ UNCHANGED <<appVars, inputVars, stateChanged, shown, cache, nextCacheID,
                 views, stale>>

-----------------------------------------------------------------------------
Frame ==
  \/ PollEvent \/ NoEvent \/ BeginSearch \/ NewView \/ EnterView
  \/ EndSearch \/ Match \/ Show \/ PurgeCache

Next == Frame \/ End \/ User \/ Answer

Spec == Init /\ [][Next]_vars

\* The loop goes on frame after frame, and the host answers its tasks.
FairSpec == Spec /\ WF_vars(Frame) /\ WF_vars(Answer)

-----------------------------------------------------------------------------
(* Properties. *)

\* When the image is not out of date it is that of the current view, whatever
\* keys were pressed while results were on their way.
ShownIsCurrent == stateChanged \/ stale > 0 \/ shown = view

\* A view is asked for once: no key, however quick, and no node that joins makes
\* the loop compute a view that is in the cache or under way.
AskedOnce == \A e, f \in cache : e.view = f.view => e = f

\* Every result is tied to one view of the cache until it is thrown out with it:
\* none is left on the host's queue for good, none is deleted under the cache.
ResultsTracked ==
  stale > 0 \/
    /\ \A t \in pending \cup complete :
         \/ \E e \in cache : e.task = t
         \/ at = "enter" /\ t = Len(views)
    /\ \A e \in cache : e.ready => e.task \in complete
    /\ \A e, f \in cache : e.task = f.task => e = f

\* The view the user has chosen is shown in the end, though the cache may throw it
\* out between its result and its showing.
ViewShown ==
  stateChanged ~> ~stateChanged \/ stale > 0 \/ at = "ended" \/ ~isOpen

\* The inductive invariant behind AskedOnce: the view being entered is not there yet.
EnterInv ==
  /\ AskedOnce
  /\ at = "enter" => ~Cached(asked)

\* The inductive invariant behind ResultsTracked: unless an ID was read wrong, each
\* entry has a task of its own that the host works on or has answered.
TrackInv ==
  stale = 0 =>
    /\ ResultsTracked
    /\ pending \cap complete = {}
    /\ \A e \in cache : e.task \in 1 .. Len(views)
    /\ at = "enter" => \A e \in cache : e.task # Len(views)

\* The inductive invariant behind ShownIsCurrent: the cache says truly which view a
\* task was for, and a result about to be shown is of the current view.
ShowInv ==
  stale = 0 =>
    /\ \A e \in cache : e.task \in 1 .. Len(views) /\ views[e.task] = e.view
    /\ at = "enter" => asked = views[Len(views)]
    /\ viewResult # 0 =>
         /\ at \in {"match", "show"}
         /\ viewResult \in 1 .. Len(views) /\ views[viewResult] = view
    /\ ShownIsCurrent
=============================================================================
