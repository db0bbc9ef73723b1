------------------------------ MODULE Renderer ------------------------------
(***************************************************************************)
(* osgViewer::Renderer (osg/Renderer.cpp) in the threading modes fgfs-run  *)
(* can ask for: one thread culls a frame into a SceneView while another    *)
(* draws the frame before it.  Two blocking queues pass the SceneViews on: *)
(*                                                                         *)
(*    availableQueue --cull()--> drawQueue --draw()--> availableQueue      *)
(*                                                                         *)
(* fgfs-run's default, DrawThreadPerContext, culls in the viewer's own     *)
(* thread; FGFS_THREADING may ask for a cull thread of its own.  The model *)
(* has the latter, which can do all the former can: stop while culling.    *)
(*                                                                         *)
(* The viewer (not part of the repository, modelled from the calls the     *)
(* Renderer expects) stops the threads by calling release() until they are *)
(* gone, and starts them with a new mode and reset().  With _graphicsThread*)
(* DoesCull the graphics thread runs cull_draw() and the queues rest.      *)
(***************************************************************************)
EXTENDS Naturals, Sequences, ThreadSafeQueue

CONSTANTS
    Views,      \* number of SceneViews; _sceneView[2] in the code
    MaxFrame,   \* bound: frames culled
    MaxDynamic, \* bound: dynamic objects in one frame
    CountMax,   \* the largest _dynamicObjectCount, an unsigned int: 2^32 - 1 in the code
    NoView      \* the null SceneView pointer

ASSUME ViewsAssumption == Views \in Nat \ {0}
ASSUME BoundsAssumption == MaxFrame \in Nat /\ MaxDynamic \in Nat
ASSUME CountAssumption == CountMax \in Nat /\ MaxDynamic <= CountMax
ASSUME NoViewAssumption == NoView \notin Nat

View == 0 .. Views - 1
MaybeView == View \union {NoView}
Thread == {"cull", "draw"}

VARIABLES
    availableQueue, drawQueue,
    done,               \* _done
    graphicsThreadDoesCull,
    compileOnNextDraw,
    culled,             \* per SceneView: the frame its render graph holds
    dynamicObjects,     \* per SceneView: getDynamicObjectCount()
    references,         \* SceneViews holding references to dependent cameras
    cullPc, cullView,   \* the cull thread: where it is, its sceneView
    drawPc, drawView,   \* the graphics thread
    stateCount,         \* State::_dynamicObjectCount of the context
    left,               \* dynamic objects sceneView->draw() has yet to come to
    completions,        \* completed() calls for the frame being drawn
    frame,              \* newest frame number given out by the viewer
    drawn,              \* newest frame drawn
    cancelled,          \* the threads have been told to end
    viewer              \* the viewer's own progress through stop and start

sceneVars == <<culled, dynamicObjects, references>>
cullVars == <<cullPc, cullView>>
drawVars == <<drawPc, drawView, stateCount, left, completions>>
flags == <<done, graphicsThreadDoesCull>>
viewerVars == <<cancelled, viewer>>
vars == <<availableQueue, drawQueue, flags, compileOnNextDraw, sceneVars,
          cullVars, drawVars, frame, drawn, viewerVars>>

CullPlaces == {"idle", "take", "cull", "add", "exited"}
DrawPlaces == {"idle", "take", "collate", "compile", "check", "count", "draw",
               "add", "tail", "exited"}
ViewerPlaces == {"running", "release", "releaseAvailable", "releaseDraw",
                 "join", "stopped"}

\* The queue with every SceneView in it, lowest first.
AllViews == [items |-> [i \in 1 .. Views |-> i - 1], released |-> TRUE, waiting |-> {}]

Init ==
    /\ availableQueue = AllViews
    /\ drawQueue = NewQueue
    /\ done = FALSE
    /\ graphicsThreadDoesCull = TRUE
    /\ compileOnNextDraw = TRUE
    /\ culled = [v \in View |-> 0]
    /\ dynamicObjects = [v \in View |-> 0]
    /\ references = {}
    /\ cullPc = "exited" /\ cullView = NoView
    /\ drawPc = "exited" /\ drawView = NoView
    /\ stateCount = 0
    /\ left = 0
    /\ completions = 0
    /\ frame = 0
    /\ drawn = 0
    /\ cancelled = FALSE
    /\ viewer = "stopped"
-----------------------------------------------------------------------------
(***************************************************************************)
(* The cull thread runs cull() for frame after frame.                      *)
(***************************************************************************)
\* `if (_done || _graphicsThreadDoesCull) return;' - returning changes nothing.
CullEnter ==
    /\ cullPc = "idle" /\ ~cancelled
    /\ ~done /\ ~graphicsThreadDoesCull
    /\ frame < MaxFrame
    /\ cullPc' = "take"
    /\ UNCHANGED <<availableQueue, drawQueue, flags, compileOnNextDraw, sceneVars,
                   cullView, drawVars, frame, drawn, viewerVars>>

\* Faulty: the null SceneView a released queue may give is not looked for.
CullTakeUnchecked ==
    /\ cullPc = "take"
    /\ \/ /\ CanTake(availableQueue, "cull")
          /\ cullView' = Head(availableQueue.items)
          /\ availableQueue' = Taken(availableQueue)
          /\ cullPc' = "cull"
       \/ /\ GivesNull(availableQueue, "cull")
          /\ cullPc' = "cull"
          /\ UNCHANGED <<availableQueue, cullView>>
       \/ /\ MustWait(availableQueue, "cull")
          /\ availableQueue' = Asleep(availableQueue, "cull")
          /\ UNCHANGED cullVars
    /\ UNCHANGED <<drawQueue, flags, compileOnNextDraw, sceneVars, drawVars,
                   frame, drawn, viewerVars>>

CullTake ==
    /\ cullPc = "take"
    /\ \/ /\ CanTake(availableQueue, "cull")
          /\ cullView' = Head(availableQueue.items)
          /\ availableQueue' = Taken(availableQueue)
          /\ cullPc' = "cull"
       \/ /\ GivesNull(availableQueue, "cull")
          /\ cullPc' = "idle"
          /\ UNCHANGED <<availableQueue, cullView>>
       \/ /\ MustWait(availableQueue, "cull")
          /\ availableQueue' = Asleep(availableQueue, "cull")
          /\ UNCHANGED cullVars
    /\ UNCHANGED <<drawQueue, flags, compileOnNextDraw, sceneVars, drawVars,
                   frame, drawn, viewerVars>>

\* updateSceneView() stamps the viewer's frame on the SceneView, and the cull
\* traversal fills its render graph and counts the dynamic objects in it.
CullTraverse ==
    /\ cullPc = "cull"
    /\ frame' = frame + 1
    /\ culled' = [culled EXCEPT ![cullView] = frame']
    /\ \E n \in 0 .. MaxDynamic :
          dynamicObjects' = [dynamicObjects EXCEPT ![cullView] = n]
    /\ cullPc' = "add"
    /\ UNCHANGED <<availableQueue, drawQueue, flags, compileOnNextDraw, references,
                   cullView, drawVars, drawn, viewerVars>>

CullAdd ==
    /\ cullPc = "add"
    /\ drawQueue' = Add(drawQueue, cullView)
    /\ cullView' = NoView
    /\ cullPc' = "idle"
    /\ UNCHANGED <<availableQueue, flags, compileOnNextDraw, sceneVars, drawVars,
                   frame, drawn, viewerVars>>

\* The thread loop ends between two operations once it has been cancelled.
CullExit ==
    /\ cullPc = "idle" /\ cancelled
    /\ cullPc' = "exited"
    /\ UNCHANGED <<availableQueue, drawQueue, flags, compileOnNextDraw, sceneVars,
                   cullView, drawVars, frame, drawn, viewerVars>>
-----------------------------------------------------------------------------
(***************************************************************************)
(* The graphics thread runs draw() over and over.                          *)
(***************************************************************************)
DrawEnter ==
    /\ drawPc = "idle" /\ ~cancelled
    /\ ~graphicsThreadDoesCull
    /\ drawPc' = "take"
    /\ UNCHANGED <<availableQueue, drawQueue, flags, compileOnNextDraw, sceneVars,
                   cullVars, drawView, stateCount, left, completions, frame, drawn, viewerVars>>

\* A SceneView taken while _done is set is in neither queue from now on.
DrawTake ==
    /\ drawPc = "take"
    /\ \/ /\ CanTake(drawQueue, "draw")
          /\ drawQueue' = Taken(drawQueue)
          /\ IF done THEN drawPc' = "idle" /\ UNCHANGED drawView
                     ELSE drawPc' = "collate" /\ drawView' = Head(drawQueue.items)
       \/ /\ GivesNull(drawQueue, "draw")
          /\ drawPc' = "idle"
          /\ UNCHANGED <<drawQueue, drawView>>
       \/ /\ MustWait(drawQueue, "draw")
          /\ drawQueue' = Asleep(drawQueue, "draw")
          /\ UNCHANGED <<drawPc, drawView>>
    /\ UNCHANGED <<availableQueue, flags, compileOnNextDraw, sceneVars, cullVars,
                   stateCount, left, completions, frame, drawn, viewerVars>>

DrawCollate ==
    /\ drawPc = "collate"
    /\ references' = references \union {drawView}
    /\ drawPc' = IF compileOnNextDraw THEN "compile" ELSE "check"
    /\ UNCHANGED <<availableQueue, drawQueue, flags, compileOnNextDraw, culled,
                   dynamicObjects, cullVars, drawView, stateCount, left, completions,
                   frame, drawn, viewerVars>>

\* Faulty: compile() forgets to clear the flag.
DrawCompileEveryFrame ==
    /\ drawPc = "compile"
    /\ drawPc' = "check"
    /\ UNCHANGED <<availableQueue, drawQueue, flags, compileOnNextDraw, sceneVars,
                   cullVars, drawView, stateCount, left, completions, frame, drawn,
                   viewerVars>>

\* compile() works on _sceneView[0], whichever SceneView is being drawn.
DrawCompile ==
    /\ drawPc = "compile"
    /\ compileOnNextDraw' = FALSE
    /\ drawPc' = "check"
    /\ UNCHANGED <<availableQueue, drawQueue, flags, sceneVars, cullVars, drawView,
                   stateCount, left, completions, frame, drawn, viewerVars>>

\* The two early returns of draw(): the SceneView is put back in no queue.
DrawCheck ==
    /\ drawPc = "check"
    /\ IF done \/ graphicsThreadDoesCull
       THEN drawPc' = "idle" /\ drawView' = NoView
       ELSE drawPc' = "count" /\ UNCHANGED drawView
    /\ UNCHANGED <<availableQueue, drawQueue, flags, compileOnNextDraw, sceneVars,
                   cullVars, stateCount, left, completions, frame, drawn, viewerVars>>

\* Faulty: the count is left as it is, as cull_draw() leaves it.
DrawUncounted ==
    /\ drawPc = "count"
    /\ left' = dynamicObjects[drawView]
    /\ completions' = IF left' = 0 THEN 1 ELSE 0
    /\ drawPc' = "draw"
    /\ UNCHANGED <<availableQueue, drawQueue, flags, compileOnNextDraw, sceneVars,
                   cullVars, drawView, stateCount, frame, drawn, viewerVars>>

\* setDynamicObjectCount() without the callback, then completed() if there is
\* nothing dynamic to draw.
DrawCount ==
    /\ drawPc = "count"
    /\ stateCount' = dynamicObjects[drawView]
    /\ left' = dynamicObjects[drawView]
    /\ completions' = IF dynamicObjects[drawView] = 0 THEN 1 ELSE 0
    /\ drawPc' = "draw"
    /\ UNCHANGED <<availableQueue, drawQueue, flags, compileOnNextDraw, sceneVars,
                   cullVars, drawView, frame, drawn, viewerVars>>

\* An unsigned count after n decrements, and whether one of them made it zero.
Decremented(c, n) == IF n <= c THEN c - n ELSE (c + CountMax + 1) - n
PassesZero(c, n) == 0 < c /\ c <= n

\* State::decrementDynamicObjectCount(), once per dynamic object drawn, whatever
\* the count is.
DrawDynamicObject ==
    /\ drawPc = "draw" /\ left > 0
    /\ left' = left - 1
    /\ stateCount' = Decremented(stateCount, 1)
    /\ completions' = IF PassesZero(stateCount, 1) THEN completions + 1 ELSE completions
    /\ UNCHANGED <<availableQueue, drawQueue, flags, compileOnNextDraw, sceneVars,
                   cullVars, drawPc, drawView, frame, drawn, viewerVars>>

\* The rest of sceneView->draw(), up to its return.
DrawTraverse ==
    /\ drawPc = "draw" /\ left = 0
    /\ drawn' = culled[drawView]
    /\ drawPc' = "add"
    /\ UNCHANGED <<availableQueue, drawQueue, flags, compileOnNextDraw, sceneVars,
                   cullVars, drawView, stateCount, left, completions, frame, viewerVars>>

DrawAdd ==
    /\ drawPc = "add"
    /\ availableQueue' = Add(availableQueue, drawView)
    /\ drawPc' = "tail"
    /\ UNCHANGED <<drawQueue, flags, compileOnNextDraw, sceneVars, cullVars,
                   drawView, stateCount, left, completions, frame, drawn, viewerVars>>

\* What draw() still does after it gave the SceneView back: the statistics, and
\* sceneView->clearReferencesToDependentCameras().
DrawTail ==
    /\ drawPc = "tail"
    /\ references' = references \ {drawView}
    /\ drawView' = NoView
    /\ drawPc' = "idle"
    /\ UNCHANGED <<availableQueue, drawQueue, flags, compileOnNextDraw, culled,
                   dynamicObjects, cullVars, stateCount, left, completions, frame, drawn,
                   viewerVars>>

DrawExit ==
    /\ drawPc = "idle" /\ cancelled
    /\ drawPc' = "exited"
    /\ UNCHANGED <<availableQueue, drawQueue, flags, compileOnNextDraw, sceneVars,
                   cullVars, drawView, stateCount, left, completions, frame, drawn, viewerVars>>

\* cull_draw(): the whole frame on _sceneView[0], by the graphics thread if
\* there is one and by the viewer itself if the threads are stopped.  Drawing
\* decrements the count for each dynamic object; cull_draw() never sets it.
CullDraw ==
    /\ graphicsThreadDoesCull
    /\ (drawPc = "idle" /\ ~cancelled) \/ viewer = "stopped"
    /\ ~done
    /\ frame < MaxFrame
    /\ frame' = frame + 1
    /\ culled' = [culled EXCEPT ![0] = frame']
    /\ compileOnNextDraw' = FALSE
    /\ drawn' = frame'
    /\ \E n \in 0 .. MaxDynamic :
          /\ dynamicObjects' = [dynamicObjects EXCEPT ![0] = n]
          /\ stateCount' = Decremented(stateCount, n)
          /\ completions' = IF PassesZero(stateCount, n) THEN 1 ELSE 0
    /\ UNCHANGED <<availableQueue, drawQueue, flags, references, cullVars, drawPc,
                   drawView, left, viewerVars>>
-----------------------------------------------------------------------------
\* A thread may wake from _cond.wait for no reason.
SpuriousWakeup ==
    /\ \/ /\ "cull" \in availableQueue.waiting
          /\ availableQueue' = Awake(availableQueue, "cull")
          /\ UNCHANGED drawQueue
       \/ /\ "draw" \in drawQueue.waiting
          /\ drawQueue' = Awake(drawQueue, "draw")
          /\ UNCHANGED availableQueue
    /\ UNCHANGED <<flags, compileOnNextDraw, sceneVars, cullVars, drawVars, frame,
                   drawn, viewerVars>>
-----------------------------------------------------------------------------
(***************************************************************************)
(* The viewer.  Renderer::release() is three steps: _done, then one queue  *)
(* after the other.                                                        *)
(***************************************************************************)
ReleaseDone ==
    /\ viewer \in {"running", "release"}
    /\ done' = TRUE
    /\ viewer' = "releaseAvailable"
    /\ UNCHANGED <<availableQueue, drawQueue, graphicsThreadDoesCull,
                   compileOnNextDraw, sceneVars, cullVars, drawVars, frame, drawn,
                   cancelled>>

ReleaseAvailable ==
    /\ viewer = "releaseAvailable"
    /\ availableQueue' = Release(availableQueue)
    /\ viewer' = "releaseDraw"
    /\ UNCHANGED <<drawQueue, flags, compileOnNextDraw, sceneVars, cullVars,
                   drawVars, frame, drawn, cancelled>>

ReleaseDraw ==
    /\ viewer = "releaseDraw"
    /\ drawQueue' = Release(drawQueue)
    /\ viewer' = "join"
    /\ UNCHANGED <<availableQueue, flags, compileOnNextDraw, sceneVars, cullVars,
                   drawVars, frame, drawn, cancelled>>

\* The threads are told to end after the operation they are in.
Cancel ==
    /\ viewer = "join" /\ ~cancelled
    /\ cancelled' = TRUE
    /\ UNCHANGED <<availableQueue, drawQueue, flags, compileOnNextDraw, sceneVars,
                   cullVars, drawVars, frame, drawn, viewer>>

\* Cancelling a thread calls release() again as long as the thread lives.
ReleaseAgain ==
    /\ viewer = "join" /\ cancelled
    /\ cullPc # "exited" \/ drawPc # "exited"
    /\ viewer' = "release"
    /\ UNCHANGED <<availableQueue, drawQueue, flags, compileOnNextDraw, sceneVars,
                   cullVars, drawVars, frame, drawn, cancelled>>

\* Single threaded from here: setGraphicsThreadDoesCull(true), done reset.
Join ==
    /\ viewer = "join" /\ cancelled
    /\ cullPc = "exited" /\ drawPc = "exited"
    /\ graphicsThreadDoesCull' = TRUE
    /\ done' = FALSE
    /\ viewer' = "stopped"
    /\ UNCHANGED <<availableQueue, drawQueue, compileOnNextDraw, sceneVars, cullVars,
                   drawVars, frame, drawn, cancelled>>

\* Faulty: a reset() that does not refill _availableQueue.
StartThreadingUnfilled ==
    /\ viewer = "stopped"
    /\ graphicsThreadDoesCull' \in BOOLEAN
    /\ drawQueue' = Reset(drawQueue)
    /\ cullPc' = "idle" /\ drawPc' = "idle"
    /\ cancelled' = FALSE
    /\ viewer' = "running"
    /\ UNCHANGED <<availableQueue, done, compileOnNextDraw, sceneVars, cullView,
                   drawView, stateCount, left, completions, frame, drawn>>

\* setGraphicsThreadDoesCull(flag) and Renderer::reset(), while no thread runs.
StartThreading ==
    /\ viewer = "stopped"
    /\ graphicsThreadDoesCull' \in BOOLEAN
    /\ availableQueue' = AllViews
    /\ drawQueue' = Reset(drawQueue)
    /\ cullPc' = "idle" /\ drawPc' = "idle"
    /\ cancelled' = FALSE
    /\ viewer' = "running"
    /\ UNCHANGED <<done, compileOnNextDraw, sceneVars, cullView, drawView,
                   stateCount, left, completions, frame, drawn>>
-----------------------------------------------------------------------------
CullThread == CullEnter \/ CullTake \/ CullTraverse \/ CullAdd \/ CullExit

DrawThread ==
    \/ DrawEnter \/ DrawTake \/ DrawCollate \/ DrawCompile \/ DrawCheck
    \/ DrawCount \/ DrawDynamicObject \/ DrawTraverse \/ DrawAdd \/ DrawTail
    \/ DrawExit

Stopping == \/ viewer # "running" /\ ReleaseDone
            \/ ReleaseAvailable \/ ReleaseDraw \/ Cancel \/ ReleaseAgain \/ Join

Next == \/ CullThread \/ DrawThread \/ CullDraw \/ SpuriousWakeup
        \/ ReleaseDone \/ ReleaseAvailable \/ ReleaseDraw \/ Cancel
        \/ ReleaseAgain \/ Join \/ StartThreading

\* The threads are scheduled; a stop once begun is carried through.  The user
\* need neither stop nor start anything, and no wakeup need be spurious.
Fairness ==
    /\ WF_vars(CullThread)
    /\ WF_vars(DrawThread)
    /\ WF_vars(Stopping)

Spec == Init /\ [][Next]_vars
FairSpec == Spec /\ Fairness
-----------------------------------------------------------------------------
TypeOK ==
    /\ availableQueue \in QueueOf(View, {"cull"})
    /\ drawQueue \in QueueOf(View, {"draw"})
    /\ done \in BOOLEAN
    /\ graphicsThreadDoesCull \in BOOLEAN
    /\ compileOnNextDraw \in BOOLEAN
    /\ culled \in [View -> Nat]
    /\ dynamicObjects \in [View -> 0 .. MaxDynamic]
    /\ references \subseteq View
    /\ cullPc \in CullPlaces /\ cullView \in MaybeView
    /\ drawPc \in DrawPlaces /\ drawView \in MaybeView
    /\ stateCount \in 0 .. CountMax
    /\ left \in 0 .. MaxDynamic
    /\ completions \in Nat
    /\ frame \in Nat
    /\ drawn \in Nat
    /\ cancelled \in BOOLEAN
    /\ viewer \in ViewerPlaces

\* The SceneView a thread works on, from taking it to giving it back.
CullHas == IF cullPc \in {"cull", "add"} THEN {cullView} ELSE {}
DrawHas == IF drawPc \in {"collate", "compile", "check", "count", "draw", "add"}
           THEN {drawView} ELSE {}

(***************************************************************************)
(* No SceneView is in two hands: not twice in a queue, not in two queues,  *)
(* not in a queue while a thread works on it, not with both threads.  The  *)
(* render graph of a SceneView has no lock of its own; this is its lock.   *)
(***************************************************************************)
SoleOwner ==
    /\ Distinct(availableQueue) /\ Distinct(drawQueue)
    /\ Items(availableQueue) \intersect Items(drawQueue) = {}
    /\ (CullHas \union DrawHas) \intersect (Items(availableQueue) \union Items(drawQueue)) = {}
    /\ CullHas \intersect DrawHas = {}

\* While culling and drawing overlap and are not being stopped no SceneView is
\* lost: each is queued or worked on.  One lost would end the overlap, and both
\* lost would leave both threads waiting for ever.
NoneLost ==
    viewer = "running" /\ ~graphicsThreadDoesCull =>
        View \subseteq Items(availableQueue) \union Items(drawQueue)
                       \union CullHas \union DrawHas

\* compile() reads _sceneView[0] in the draw thread, whichever SceneView is to be
\* drawn: the cull thread must not be at work on _sceneView[0] then.
CompileAlone == drawPc = "compile" => 0 \notin CullHas

\* For a frame draw() draws, the viewer is told exactly once that the dynamic
\* objects are drawn, and never before the last of them is - whatever the frames
\* of cull_draw() before it have made of the count.
CompletedOnce ==
    /\ drawPc = "draw" => completions = (IF left = 0 THEN 1 ELSE 0)
    /\ drawPc \in {"add", "tail"} => completions = 1

\* The comment on the constructor's last lines: the draw traversal does not get
\* at a SceneView until the cull traversal of it is complete.
DrawAwaitsCull ==
    cullPc \in {"cull", "add"} => ~(drawPc # "idle" /\ drawView = cullView)

\* The frames on their way from cull to draw, oldest first.
InFlight ==
    LET queued == [i \in 1 .. Len(drawQueue.items) |-> culled[drawQueue.items[i]]]
    IN  IF viewer = "stopped" THEN << >>
        ELSE IF drawPc \in {"collate", "compile", "check", "count", "draw"}
        THEN <<culled[drawView]>> \o queued
        ELSE queued

Pipe == INSTANCE FramePipe WITH
            Capacity <- Views,
            inside <- InFlight,
            newest <- IF cullPc = "add" THEN frame - 1 ELSE frame,
            shown <- drawn,
            open <- ~done

\* Culling and drawing in two threads is a pipe: in order, none lost.
IsPipe == Pipe!Spec

\* A frame that was culled is drawn, unless the threads are stopped first.
DrawnOrStopped ==
    \A f \in 1 .. MaxFrame : (cullPc = "add" /\ frame = f) ~> (drawn >= f \/ done)

\* Stopping the threads always succeeds, wherever they were.
StopSucceeds == done ~> viewer = "stopped"
=============================================================================
