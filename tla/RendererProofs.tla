--------------------------- MODULE RendererProofs ---------------------------
(***************************************************************************)
(* For any number of SceneViews, frames and dynamic objects: the Renderer  *)
(* keeps its types, a SceneView is never in two hands, compile() has       *)
(* _sceneView[0] to itself, completed() is called once per frame, and the  *)
(* two threads with their queues are the pipe of FramePipe.                *)
(***************************************************************************)
EXTENDS Renderer, SequenceTheorems, TLAPS

\* What add() does to the contents of a queue.
LEMMA AddItems ==
    ASSUME NEW S, NEW T, NEW q \in QueueOf(S, T), NEW v \in S
    PROVE  /\ Add(q, v) \in QueueOf(S, T)
           /\ Items(Add(q, v)) = Items(q) \union {v}
           /\ Distinct(q) /\ v \notin Items(q) => Distinct(Add(q, v))
<1> DEFINE s == q.items
           r == Append(s, v)
<1>1. s \in Seq(S) /\ r \in Seq(S) /\ Add(q, v).items = r
  BY DEF QueueOf, Add
<1>2. Len(r) = Len(s) + 1 /\ Len(s) \in Nat
  BY <1>1
<1>3. \A i \in 1 .. Len(r) : r[i] = IF i = Len(s) + 1 THEN v ELSE s[i]
  BY <1>1, <1>2
<1>4. Add(q, v) \in QueueOf(S, T)
  BY <1>1 DEF QueueOf, Add
<1>5. Items(Add(q, v)) = Items(q) \union {v}
  BY <1>1, <1>2, <1>3 DEF Items
<1>6. ASSUME Distinct(q), v \notin Items(q) PROVE Distinct(Add(q, v))
  BY <1>1, <1>2, <1>3, <1>6 DEF Distinct, Items
<1> QED
  BY <1>4, <1>5, <1>6

\* What takeFront() leaves of the contents of a queue.
LEMMA TakenItems ==
    ASSUME NEW S, NEW T, NEW q \in QueueOf(S, T), q.items # << >>
    PROVE  /\ Taken(q) \in QueueOf(S, T)
           /\ Head(q.items) \in S
           /\ Head(q.items) \in Items(q)
           /\ Items(Taken(q)) \subseteq Items(q)
           /\ Items(q) = Items(Taken(q)) \union {Head(q.items)}
           /\ Distinct(q) => Distinct(Taken(q)) /\ Head(q.items) \notin Items(Taken(q))
<1> DEFINE s == q.items
           r == Tail(s)
<1>1. s \in Seq(S) /\ s # << >> /\ r \in Seq(S) /\ Taken(q).items = r
  BY DEF QueueOf, Taken
<1>2. Len(s) \in Nat \ {0} /\ Len(r) = Len(s) - 1
  BY <1>1
<1>3. \A i \in 1 .. Len(r) : r[i] = s[i + 1]
  BY <1>1, <1>2
<1>4. Head(s) = s[1] /\ s[1] \in S
  BY <1>1, <1>2
<1>5. Taken(q) \in QueueOf(S, T)
  BY <1>1 DEF QueueOf, Taken
<1>6. Items(q) = Items(Taken(q)) \union {Head(q.items)}
  <2>1. \A i \in 1 .. Len(s) : i = 1 \/ (i - 1 \in 1 .. Len(r) /\ s[i] = r[i - 1])
    BY <1>2, <1>3
  <2>2. \A i \in 1 .. Len(r) : i + 1 \in 1 .. Len(s)
    BY <1>2
  <2>3. Items(q) = {s[i] : i \in 1 .. Len(s)} /\ Items(Taken(q)) = {r[i] : i \in 1 .. Len(r)}
    BY <1>1 DEF Items
  <2>4. ASSUME NEW x \in Items(q) PROVE x \in Items(Taken(q)) \union {Head(q.items)}
    <3>1. PICK i \in 1 .. Len(s) : x = s[i]
      BY <2>3
    <3> QED
      BY <3>1, <2>1, <2>3, <1>4
  <2>5. ASSUME NEW x \in Items(Taken(q)) PROVE x \in Items(q)
    <3>1. PICK i \in 1 .. Len(r) : x = r[i]
      BY <2>3
    <3> QED
      BY <3>1, <2>2, <2>3, <1>3
  <2>6. Head(q.items) \in Items(q)
    BY <1>2, <1>4, <2>3
  <2> QED
    BY <2>4, <2>5, <2>6
<1>7. ASSUME Distinct(q)
      PROVE  Distinct(Taken(q)) /\ Head(q.items) \notin Items(Taken(q))
  <2>1. \A i \in 1 .. Len(r) : i + 1 \in 1 .. Len(s) /\ i + 1 # 1
    BY <1>2
  <2> QED
    BY <1>1, <1>2, <1>3, <1>4, <1>7, <2>1 DEF Distinct, Items
<1> QED
  BY <1>4, <1>5, <1>6, <1>7

\* The calls that touch no item.
LEMMA SameItems ==
    ASSUME NEW S, NEW T, NEW q \in QueueOf(S, T), NEW t \in T
    PROVE  /\ \A r \in {Release(q), Asleep(q, t), Awake(q, t)} :
                 r \in QueueOf(S, T) /\ r.items = q.items
           /\ Reset(q) \in QueueOf(S, T)
           /\ Reset(q).items = << >>
<1>1. Release(q) \in QueueOf(S, T) /\ Release(q).items = q.items
  BY DEF QueueOf, Release
<1>2. Asleep(q, t) \in QueueOf(S, T) /\ Asleep(q, t).items = q.items
  BY DEF QueueOf, Asleep
<1>3. Awake(q, t) \in QueueOf(S, T) /\ Awake(q, t).items = q.items
  BY DEF QueueOf, Awake
<1>4. Reset(q) \in QueueOf(S, T) /\ Reset(q).items = << >>
  <2>1. << >> \in Seq(S)
    OBVIOUS
  <2> QED
    BY <2>1 DEF QueueOf, Reset
<1> QED
  BY <1>1, <1>2, <1>3, <1>4

\* The queue reset() fills holds every SceneView once.
LEMMA AllViewsItems ==
    /\ AllViews \in QueueOf(View, {"cull"})
    /\ Distinct(AllViews)
    /\ Items(AllViews) = View
<1>1. /\ AllViews.items = [i \in 1 .. Views |-> i - 1]
      /\ Len(AllViews.items) = Views
      /\ AllViews.items \in Seq(View)
  BY ViewsAssumption DEF AllViews, View
<1>2. AllViews \in QueueOf(View, {"cull"})
  BY <1>1 DEF AllViews, QueueOf
<1>3. Distinct(AllViews)
  BY <1>1, ViewsAssumption DEF Distinct
<1>4. \A v \in View : v + 1 \in 1 .. Views /\ AllViews.items[v + 1] = v
  BY <1>1, ViewsAssumption DEF View
<1>5. Items(AllViews) = View
  <2>1. \A i \in 1 .. Views : AllViews.items[i] \in View
    BY <1>1, ViewsAssumption DEF View
  <2>2. \A v \in View : v \in Items(AllViews)
    BY <1>1, <1>4 DEF Items
  <2>3. \A v \in Items(AllViews) : v \in View
    BY <1>1, <2>1 DEF Items
  <2> QED
    BY <2>2, <2>3
<1> QED
  BY <1>2, <1>3, <1>5
-----------------------------------------------------------------------------
\* A thread that holds a SceneView holds one of the Renderer's.
Holding ==
    /\ cullPc \in {"cull", "add"} => cullView \in View
    /\ drawPc \in {"collate", "compile", "check", "count", "draw", "add", "tail"}
          => drawView \in View

Typed == TypeOK /\ Holding

LEMMA InitTyped == Init => Typed
<1> SUFFICES ASSUME Init PROVE Typed
  OBVIOUS
<1>1. NewQueue \in QueueOf(View, {"draw"})
  BY DEF NewQueue, QueueOf
<1>2. 0 \in 0 .. MaxDynamic /\ 0 \in 0 .. CountMax
  BY BoundsAssumption, CountAssumption
<1> QED
  BY <1>1, <1>2, AllViewsItems
  DEF Init, Typed, TypeOK, Holding, CullPlaces, DrawPlaces, ViewerPlaces, MaybeView

\* The count is unsigned: decremented, it is one of its values again.
LEMMA DecrementedTyped ==
    ASSUME NEW c \in 0 .. CountMax, NEW n \in 0 .. MaxDynamic
    PROVE  Decremented(c, n) \in 0 .. CountMax
BY CountAssumption, BoundsAssumption DEF Decremented

\* Every action keeps the types.
LEMMA NextTyped == Typed /\ [Next]_vars => Typed'
<1> SUFFICES ASSUME Typed, [Next]_vars PROVE Typed'
  OBVIOUS
<1> USE NoViewAssumption, BoundsAssumption, CountAssumption, ViewsAssumption
    DEF Typed, TypeOK, Holding, flags, sceneVars, cullVars, drawVars, viewerVars,
        CullPlaces, DrawPlaces, ViewerPlaces, MaybeView
<1>1. CASE CullEnter
  BY <1>1 DEF CullEnter
<1>2. CASE CullTake
  <2>1. CASE CanTake(availableQueue, "cull")
    <3>1. /\ Taken(availableQueue) \in QueueOf(View, {"cull"})
          /\ Head(availableQueue.items) \in View
      BY <2>1, TakenItems DEF CanTake
    <3> QED
      BY <1>2, <2>1, <3>1 DEF CullTake, CanTake, GivesNull, MustWait
  <2>2. CASE ~CanTake(availableQueue, "cull")
    <3>1. Asleep(availableQueue, "cull") \in QueueOf(View, {"cull"})
      BY SameItems
    <3> QED
      BY <1>2, <2>2, <3>1 DEF CullTake
  <2> QED
    BY <2>1, <2>2
<1>3. CASE CullTraverse
  BY <1>3 DEF CullTraverse
<1>4. CASE CullAdd
  <2>1. Add(drawQueue, cullView) \in QueueOf(View, {"draw"})
    BY <1>4, AddItems DEF CullAdd
  <2> QED
    BY <1>4, <2>1 DEF CullAdd
<1>5. CASE CullExit
  BY <1>5 DEF CullExit
<1>6. CASE DrawEnter
  BY <1>6 DEF DrawEnter
<1>7. CASE DrawTake
  <2>1. CASE CanTake(drawQueue, "draw")
    <3>1. /\ Taken(drawQueue) \in QueueOf(View, {"draw"})
          /\ Head(drawQueue.items) \in View
      BY <2>1, TakenItems DEF CanTake
    <3> QED
      BY <1>7, <2>1, <3>1 DEF DrawTake, CanTake, GivesNull, MustWait
  <2>2. CASE ~CanTake(drawQueue, "draw")
    <3>1. Asleep(drawQueue, "draw") \in QueueOf(View, {"draw"})
      BY SameItems
    <3> QED
      BY <1>7, <2>2, <3>1 DEF DrawTake
  <2> QED
    BY <2>1, <2>2
<1>8. CASE DrawCollate
  BY <1>8 DEF DrawCollate
<1>9. CASE DrawCompile
  BY <1>9 DEF DrawCompile
<1>10. CASE DrawCheck
  BY <1>10 DEF DrawCheck
<1>11. CASE DrawCount
  BY <1>11 DEF DrawCount
<1>12. CASE DrawDynamicObject
  <2>1. stateCount' \in 0 .. CountMax
    <3>1. 1 \in 0 .. MaxDynamic
      BY <1>12 DEF DrawDynamicObject
    <3> QED
      BY <1>12, <3>1, DecrementedTyped DEF DrawDynamicObject
  <2> QED
    BY <1>12, <2>1 DEF DrawDynamicObject
<1>13. CASE DrawTraverse
  BY <1>13 DEF DrawTraverse
<1>14. CASE DrawAdd
  <2>1. Add(availableQueue, drawView) \in QueueOf(View, {"cull"})
    BY <1>14, AddItems DEF DrawAdd
  <2> QED
    BY <1>14, <2>1 DEF DrawAdd
<1>15. CASE DrawTail
  BY <1>15 DEF DrawTail
<1>16. CASE DrawExit
  BY <1>16 DEF DrawExit
<1>17. CASE CullDraw
  <2>1. 0 \in View
    BY DEF View
  <2>2. culled' \in [View -> Nat] /\ frame' \in Nat /\ drawn' \in Nat
    BY <1>17, <2>1 DEF CullDraw
  <2>3. compileOnNextDraw' \in BOOLEAN
    BY <1>17 DEF CullDraw
  <2>4. /\ dynamicObjects' \in [View -> 0 .. MaxDynamic]
        /\ stateCount' \in 0 .. CountMax
        /\ completions' \in Nat
    <3>1. PICK n \in 0 .. MaxDynamic :
             /\ dynamicObjects' = [dynamicObjects EXCEPT ![0] = n]
             /\ stateCount' = Decremented(stateCount, n)
             /\ completions' = IF PassesZero(stateCount, n) THEN 1 ELSE 0
      BY <1>17 DEF CullDraw
    <3> QED
      BY <2>1, <3>1, DecrementedTyped
  <2> QED
    BY <1>17, <2>2, <2>3, <2>4 DEF CullDraw
<1>18. CASE SpuriousWakeup
  <2>1. /\ Awake(availableQueue, "cull") \in QueueOf(View, {"cull"})
        /\ Awake(drawQueue, "draw") \in QueueOf(View, {"draw"})
    BY SameItems
  <2> QED
    BY <1>18, <2>1 DEF SpuriousWakeup
<1>19. CASE ReleaseDone
  BY <1>19 DEF ReleaseDone
<1>20. CASE ReleaseAvailable
  <2>1. Release(availableQueue) \in QueueOf(View, {"cull"})
    BY SameItems
  <2> QED
    BY <1>20, <2>1 DEF ReleaseAvailable
<1>21. CASE ReleaseDraw
  <2>1. Release(drawQueue) \in QueueOf(View, {"draw"})
    BY SameItems
  <2> QED
    BY <1>21, <2>1 DEF ReleaseDraw
<1>22. CASE Cancel
  BY <1>22 DEF Cancel
<1>23. CASE ReleaseAgain
  BY <1>23 DEF ReleaseAgain
<1>24. CASE Join
  BY <1>24 DEF Join
<1>25. CASE StartThreading
  <2>1. Reset(drawQueue) \in QueueOf(View, {"draw"})
    BY SameItems
  <2> QED
    BY <1>25, <2>1, AllViewsItems DEF StartThreading
<1>26. CASE UNCHANGED vars
  BY <1>26 DEF vars
<1> QED
  BY <1>1, <1>2, <1>3, <1>4, <1>5, <1>6, <1>7, <1>8, <1>9, <1>10, <1>11, <1>12,
     <1>13, <1>14, <1>15, <1>16, <1>17, <1>18, <1>19, <1>20, <1>21, <1>22, <1>23, <1>24,
     <1>25, <1>26
  DEF Next, CullThread, DrawThread

\* Spec keeps to its types, with any number of SceneViews, frames and dynamic
\* objects and any width of the count: State's count of dynamic objects, which is
\* decremented without a look at it and not set by cull_draw(), wraps to another
\* of its values, and neither thread ever works on a SceneView it was not given.
THEOREM Typing == Spec => []TypeOK
<1>1. Typed => TypeOK
  BY DEF Typed
<1> QED
  BY InitTyped, NextTyped, <1>1, PTL DEF Spec
-----------------------------------------------------------------------------
(***************************************************************************)
(* Ownership.  SoleOwner and NoneLost say together that each SceneView is  *)
(* in exactly one place; they are inductive once it is known that nobody   *)
(* raises _done except to stop the threads.                                *)
(***************************************************************************)
Running == viewer \in {"running", "stopped"} => ~done

Owned == Typed /\ Running /\ SoleOwner /\ NoneLost

LEMMA InitOwned == Init => Owned
<1> SUFFICES ASSUME Init PROVE Owned
  OBVIOUS
<1>1. Items(drawQueue) = {} /\ Distinct(drawQueue)
  BY DEF Init, NewQueue, Items, Distinct
<1>2. CullHas = {} /\ DrawHas = {}
  BY DEF Init, CullHas, DrawHas
<1> QED
  BY <1>1, <1>2, InitTyped, AllViewsItems
  DEF Init, Owned, Running, SoleOwner, NoneLost

\* A step that leaves the items and the holdings alone.
LEMMA SameItemsOwners ==
    ASSUME SoleOwner, NoneLost,
           availableQueue'.items = availableQueue.items,
           drawQueue'.items = drawQueue.items,
           CullHas' = CullHas, DrawHas' = DrawHas,
           viewer' = "running" => viewer = "running" /\ UNCHANGED graphicsThreadDoesCull
    PROVE  SoleOwner' /\ NoneLost'
<1>1. Items(availableQueue)' = Items(availableQueue) /\ Items(drawQueue)' = Items(drawQueue)
  BY DEF Items
<1>2. /\ Distinct(availableQueue)' <=> Distinct(availableQueue)
      /\ Distinct(drawQueue)' <=> Distinct(drawQueue)
  BY DEF Distinct
<1> QED
  BY <1>1, <1>2 DEF SoleOwner, NoneLost

LEMMA NextOwned == Owned /\ [Next]_vars => Owned'
<1> SUFFICES ASSUME Owned, [Next]_vars PROVE Owned'
  OBVIOUS
<1>0. Typed' /\ Typed
  BY NextTyped DEF Owned
<1>a. TypeOK
  BY <1>0 DEF Typed
<1>b. Running'
  BY DEF Owned, Running, Next, vars, flags, viewerVars, CullThread, DrawThread,
         CullEnter, CullTake, CullTraverse, CullAdd, CullExit, DrawEnter,
         DrawTake, DrawCollate, DrawCompile, DrawCheck, DrawCount,
         DrawDynamicObject, DrawTraverse, DrawAdd, DrawTail, DrawExit,
         CullDraw, SpuriousWakeup, ReleaseDone, ReleaseAvailable,
         ReleaseDraw, Cancel, ReleaseAgain, Join, StartThreading
<1> SUFFICES SoleOwner' /\ NoneLost'
  BY <1>0, <1>b DEF Owned
<1> USE DEF Owned, flags, cullVars, drawVars, viewerVars
<1>1. CASE CullEnter
  BY <1>1, SameItemsOwners DEF CullEnter, CullHas, DrawHas
<1>2. CASE CullTake
  <2>1. CASE CanTake(availableQueue, "cull")
    <3> DEFINE v == Head(availableQueue.items)
    <3>1. /\ availableQueue' = Taken(availableQueue) /\ drawQueue' = drawQueue
          /\ CullHas = {} /\ CullHas' = {v} /\ DrawHas' = DrawHas
          /\ viewer' = viewer /\ graphicsThreadDoesCull' = graphicsThreadDoesCull
      BY <1>2, <2>1 DEF CullTake, CanTake, GivesNull, MustWait, CullHas, DrawHas
    <3>2. /\ v \in Items(availableQueue)
          /\ Items(availableQueue) = Items(availableQueue') \union {v}
          /\ Distinct(availableQueue') /\ v \notin Items(availableQueue')
      BY <1>a, <2>1, <3>1, TakenItems DEF TypeOK, CanTake, SoleOwner
    <3> HIDE DEF v
    <3> QED
      BY <3>1, <3>2 DEF SoleOwner, NoneLost
  <2>2. CASE ~CanTake(availableQueue, "cull")
    <3>1. availableQueue'.items = availableQueue.items /\ drawQueue' = drawQueue
      <4>1. Asleep(availableQueue, "cull").items = availableQueue.items
        BY <1>a DEF TypeOK, QueueOf, Asleep
      <4> QED
        BY <1>2, <2>2, <4>1 DEF CullTake
    <3>2. CullHas' = CullHas /\ DrawHas' = DrawHas
      BY <1>2, <2>2 DEF CullTake, CullHas, DrawHas
    <3>3. viewer' = viewer /\ graphicsThreadDoesCull' = graphicsThreadDoesCull
      BY <1>2 DEF CullTake
    <3> QED
      BY <3>1, <3>2, <3>3, SameItemsOwners
  <2> QED
    BY <2>1, <2>2
<1>3. CASE CullTraverse
  BY <1>3, SameItemsOwners DEF CullTraverse, CullHas, DrawHas
<1>4. CASE CullAdd
  <2>1. /\ drawQueue' = Add(drawQueue, cullView) /\ availableQueue' = availableQueue
        /\ CullHas = {cullView} /\ CullHas' = {} /\ DrawHas' = DrawHas
        /\ viewer' = viewer /\ graphicsThreadDoesCull' = graphicsThreadDoesCull
        /\ cullView \in View
    BY <1>4, <1>0 DEF CullAdd, CullHas, DrawHas, Typed, Holding
  <2>2. Items(drawQueue') = Items(drawQueue) \union {cullView} /\ Distinct(drawQueue')
    BY <1>a, <2>1, AddItems DEF TypeOK, SoleOwner
  <2> QED
    BY <2>1, <2>2 DEF SoleOwner, NoneLost
<1>5. CASE CullExit
  BY <1>5, SameItemsOwners DEF CullExit, CullHas, DrawHas
<1>6. CASE DrawEnter
  BY <1>6, SameItemsOwners DEF DrawEnter, CullHas, DrawHas
<1>7. CASE DrawTake
  <2>1. CASE CanTake(drawQueue, "draw")
    <3> DEFINE v == Head(drawQueue.items)
    <3>1. /\ drawQueue' = Taken(drawQueue) /\ availableQueue' = availableQueue
          /\ DrawHas = {} /\ CullHas' = CullHas
          /\ DrawHas' = IF done THEN {} ELSE {v}
          /\ viewer' = viewer /\ graphicsThreadDoesCull' = graphicsThreadDoesCull
      BY <1>7, <2>1 DEF DrawTake, CanTake, GivesNull, MustWait, CullHas, DrawHas
    <3>2. /\ v \in Items(drawQueue)
          /\ Items(drawQueue) = Items(drawQueue') \union {v}
          /\ Distinct(drawQueue') /\ v \notin Items(drawQueue')
      BY <1>a, <2>1, <3>1, TakenItems DEF TypeOK, CanTake, SoleOwner
    <3> HIDE DEF v
    <3> QED
      BY <3>1, <3>2 DEF SoleOwner, NoneLost, Running
  <2>2. CASE ~CanTake(drawQueue, "draw")
    <3>1. drawQueue'.items = drawQueue.items /\ availableQueue' = availableQueue
      <4>1. Asleep(drawQueue, "draw").items = drawQueue.items
        BY <1>a DEF TypeOK, QueueOf, Asleep
      <4> QED
        BY <1>7, <2>2, <4>1 DEF DrawTake
    <3>2. CullHas' = CullHas /\ DrawHas' = DrawHas
      BY <1>7, <2>2 DEF DrawTake, CullHas, DrawHas
    <3>3. viewer' = viewer /\ graphicsThreadDoesCull' = graphicsThreadDoesCull
      BY <1>7 DEF DrawTake
    <3> QED
      BY <3>1, <3>2, <3>3, SameItemsOwners
  <2> QED
    BY <2>1, <2>2
<1>8. CASE DrawCollate
  BY <1>8, SameItemsOwners DEF DrawCollate, CullHas, DrawHas
<1>9. CASE DrawCompile
  BY <1>9, SameItemsOwners DEF DrawCompile, CullHas, DrawHas
<1>10. CASE DrawCheck
  <2>1. UNCHANGED <<availableQueue, drawQueue, viewer, graphicsThreadDoesCull>>
    BY <1>10 DEF DrawCheck
  <2>2. /\ CullHas' = CullHas /\ DrawHas' \subseteq DrawHas
        /\ ~done /\ ~graphicsThreadDoesCull => DrawHas' = DrawHas
    BY <1>10 DEF DrawCheck, CullHas, DrawHas
  <2>3. SoleOwner'
    BY <2>1, <2>2 DEF SoleOwner
  <2>4. NoneLost'
    BY <2>1, <2>2 DEF NoneLost, Running
  <2> QED
    BY <2>3, <2>4
<1>11. CASE DrawCount
  BY <1>11, SameItemsOwners DEF DrawCount, CullHas, DrawHas
<1>12. CASE DrawDynamicObject
  BY <1>12, SameItemsOwners DEF DrawDynamicObject, CullHas, DrawHas
<1>13. CASE DrawTraverse
  BY <1>13, SameItemsOwners DEF DrawTraverse, CullHas, DrawHas
<1>14. CASE DrawAdd
  <2>1. /\ availableQueue' = Add(availableQueue, drawView) /\ drawQueue' = drawQueue
        /\ DrawHas = {drawView} /\ DrawHas' = {} /\ CullHas' = CullHas
        /\ viewer' = viewer /\ graphicsThreadDoesCull' = graphicsThreadDoesCull
        /\ drawView \in View
    BY <1>14, <1>0 DEF DrawAdd, CullHas, DrawHas, Typed, Holding
  <2>2. /\ Items(availableQueue') = Items(availableQueue) \union {drawView}
        /\ Distinct(availableQueue')
    BY <1>a, <2>1, AddItems DEF TypeOK, SoleOwner
  <2> QED
    BY <2>1, <2>2 DEF SoleOwner, NoneLost
<1>15. CASE DrawTail
  BY <1>15, SameItemsOwners DEF DrawTail, CullHas, DrawHas
<1>16. CASE DrawExit
  BY <1>16, SameItemsOwners DEF DrawExit, CullHas, DrawHas
<1>17. CASE CullDraw
  BY <1>17, SameItemsOwners DEF CullDraw, CullHas, DrawHas
<1>18. CASE SpuriousWakeup
  <2>1. /\ availableQueue'.items = availableQueue.items
        /\ drawQueue'.items = drawQueue.items
    <3>1. /\ Awake(availableQueue, "cull").items = availableQueue.items
          /\ Awake(drawQueue, "draw").items = drawQueue.items
      BY <1>a DEF TypeOK, QueueOf, Awake
    <3> QED
      BY <1>18, <3>1 DEF SpuriousWakeup
  <2>2. CullHas' = CullHas /\ DrawHas' = DrawHas
    BY <1>18 DEF SpuriousWakeup, CullHas, DrawHas
  <2>3. /\ viewer' = "running" => viewer = "running"
        /\ graphicsThreadDoesCull' = graphicsThreadDoesCull
    BY <1>18 DEF SpuriousWakeup
  <2> QED
    BY <2>1, <2>2, <2>3, SameItemsOwners
<1>19. CASE ReleaseDone
  BY <1>19, SameItemsOwners DEF ReleaseDone, CullHas, DrawHas
<1>20. CASE ReleaseAvailable
  <2>1. /\ availableQueue'.items = availableQueue.items
        /\ drawQueue'.items = drawQueue.items
    <3>1. Release(availableQueue).items = availableQueue.items
      BY <1>a DEF TypeOK, QueueOf, Release
    <3> QED
      BY <1>20, <3>1 DEF ReleaseAvailable
  <2>2. CullHas' = CullHas /\ DrawHas' = DrawHas
    BY <1>20 DEF ReleaseAvailable, CullHas, DrawHas
  <2>3. /\ viewer' = "running" => viewer = "running"
        /\ graphicsThreadDoesCull' = graphicsThreadDoesCull
    BY <1>20 DEF ReleaseAvailable
  <2> QED
    BY <2>1, <2>2, <2>3, SameItemsOwners
<1>21. CASE ReleaseDraw
  <2>1. /\ availableQueue'.items = availableQueue.items
        /\ drawQueue'.items = drawQueue.items
    <3>1. Release(drawQueue).items = drawQueue.items
      BY <1>a DEF TypeOK, QueueOf, Release
    <3> QED
      BY <1>21, <3>1 DEF ReleaseDraw
  <2>2. CullHas' = CullHas /\ DrawHas' = DrawHas
    BY <1>21 DEF ReleaseDraw, CullHas, DrawHas
  <2>3. /\ viewer' = "running" => viewer = "running"
        /\ graphicsThreadDoesCull' = graphicsThreadDoesCull
    BY <1>21 DEF ReleaseDraw
  <2> QED
    BY <2>1, <2>2, <2>3, SameItemsOwners
<1>22. CASE Cancel
  BY <1>22, SameItemsOwners DEF Cancel, CullHas, DrawHas
<1>23. CASE ReleaseAgain
  BY <1>23, SameItemsOwners DEF ReleaseAgain, CullHas, DrawHas
<1>24. CASE Join
  <2>1. /\ UNCHANGED <<availableQueue, drawQueue>> /\ viewer' = "stopped"
        /\ CullHas' = CullHas /\ DrawHas' = DrawHas
    BY <1>24 DEF Join, CullHas, DrawHas
  <2> QED
    BY <2>1, SameItemsOwners
<1>25. CASE StartThreading
  <2>1. /\ availableQueue' = AllViews /\ drawQueue'.items = << >>
        /\ CullHas' = {} /\ DrawHas' = {}
    <3>1. Reset(drawQueue).items = << >>
      BY <1>a DEF TypeOK, QueueOf, Reset
    <3> QED
      BY <1>25, <3>1 DEF StartThreading, CullHas, DrawHas
  <2>2. Items(drawQueue') = {} /\ Distinct(drawQueue')
    BY <2>1 DEF Items, Distinct
  <2> QED
    BY <2>1, <2>2, AllViewsItems DEF SoleOwner, NoneLost
<1>26. CASE UNCHANGED vars
  BY <1>26, SameItemsOwners DEF vars, CullHas, DrawHas
<1> QED
  BY <1>1, <1>2, <1>3, <1>4, <1>5, <1>6, <1>7, <1>8, <1>9, <1>10, <1>11, <1>12,
     <1>13, <1>14, <1>15, <1>16, <1>17, <1>18, <1>19, <1>20, <1>21, <1>22, <1>23, <1>24,
     <1>25, <1>26
  DEF Next, CullThread, DrawThread

\* A SceneView is never in two hands, however the threads are interleaved, woken
\* and stopped, and with any number of SceneViews.
THEOREM OneOwner == Spec => []SoleOwner
<1>1. Owned => SoleOwner
  BY DEF Owned
<1> QED
  BY InitOwned, NextOwned, <1>1, PTL DEF Spec

\* As long as culling and drawing overlap, no SceneView gets lost.
THEOREM AllKept == Spec => []NoneLost
<1>1. Owned => NoneLost
  BY DEF Owned
<1> QED
  BY InitOwned, NextOwned, <1>1, PTL DEF Spec

-----------------------------------------------------------------------------
(* Who compiles, who completes, and the pipe                                *)

(***************************************************************************)
(* Where the threads can be in each mode.  With _graphicsThreadDoesCull    *)
(* both rest between two operations and nothing is on its way; everywhere  *)
(* but in "running" and "stopped" the viewer has raised _done.             *)
(***************************************************************************)
Modes ==
    /\ viewer = "stopped" =>
          cullPc = "exited" /\ drawPc = "exited" /\ graphicsThreadDoesCull
    /\ viewer \notin {"running", "stopped"} => done
    /\ graphicsThreadDoesCull =>
          cullPc \in {"idle", "exited"} /\ drawPc \in {"idle", "exited"}
    /\ graphicsThreadDoesCull /\ viewer # "stopped" => drawQueue.items = << >>

\* A SceneView that is about to be queued holds the newest frame.
Stamped == cullPc = "add" => culled[cullView] = frame

(***************************************************************************)
(* The flag is lowered while the first frame is drawn.  Until then that    *)
(* frame is in _sceneView[0]: reset() queues it first and the queues keep  *)
(* the order, so that it is the next to be drawn, culled or taken.         *)
(***************************************************************************)
ZeroIsNext ==
    \/ drawQueue.items # << >> /\ Head(drawQueue.items) = 0
    \/ drawQueue.items = << >> /\ CullHas = {0}
    \/ /\ drawQueue.items = << >> /\ CullHas = {}
       /\ availableQueue.items # << >> /\ Head(availableQueue.items) = 0

FirstIsZero ==
    /\ drawPc = "compile" => compileOnNextDraw
    /\ compileOnNextDraw /\ DrawHas # {} =>
          drawPc \in {"collate", "compile"} /\ drawView = 0
    /\ compileOnNextDraw /\ DrawHas = {} /\ viewer # "stopped" /\ ~done => ZeroIsNext

\* The SceneViews in the queues and in the threads' hands are at most Views.
Room ==
    Len(availableQueue.items) + Len(drawQueue.items)
        + (IF CullHas = {} THEN 0 ELSE 1) + (IF DrawHas = {} THEN 0 ELSE 1) <= Views

\* While draw() draws, the count is that of the dynamic objects still to come:
\* what cull_draw() left in it is gone.
Counted == drawPc = "draw" => stateCount = left

Piped == Owned /\ Modes /\ Stamped /\ FirstIsZero /\ Room /\ Counted /\ CompletedOnce

-----------------------------------------------------------------------------
\* What add() does to both ends of a queue and to its length.
LEMMA AddEnds ==
    ASSUME NEW S, NEW T, NEW q \in QueueOf(S, T), NEW v \in S
    PROVE  /\ Add(q, v).items = Append(q.items, v)
           /\ q.items \in Seq(S)
           /\ Len(Add(q, v).items) = Len(q.items) + 1
           /\ Add(q, v).items # << >>
           /\ Head(Add(q, v).items) = IF q.items = << >> THEN v ELSE Head(q.items)
<1>1. q.items \in Seq(S) /\ Add(q, v).items = Append(q.items, v)
  BY DEF QueueOf, Add
<1> DEFINE s == q.items
           r == Append(s, v)
<1>2. s \in Seq(S) /\ r \in Seq(S) /\ Len(r) = Len(s) + 1 /\ Len(s) \in Nat
  BY <1>1
<1>3. r # << >> /\ Head(r) = r[1]
  <2> HIDE DEF r
  <2> QED
    BY <1>2
<1>4. r[1] = IF s = << >> THEN v ELSE Head(s)
  <2>1. CASE s = << >>
    BY <2>1, <1>2
  <2>2. CASE s # << >>
    BY <2>2, <1>2
  <2> QED
    BY <2>1, <2>2
<1> QED
  BY <1>1, <1>2, <1>3, <1>4

\* What takeFront() does to the length of a queue that has an item.
LEMMA TakenEnds ==
    ASSUME NEW S, NEW T, NEW q \in QueueOf(S, T), q.items # << >>
    PROVE  /\ Taken(q).items = Tail(q.items)
           /\ q.items \in Seq(S)
           /\ Len(Taken(q).items) = Len(q.items) - 1
<1>1. q.items \in Seq(S) /\ Taken(q).items = Tail(q.items)
  BY DEF QueueOf, Taken
<1> QED
  BY <1>1

\* The lengths that Room adds up are numbers.
LEMMA QueueLengths ==
    TypeOK => Len(availableQueue.items) \in Nat /\ Len(drawQueue.items) \in Nat
BY DEF TypeOK, QueueOf
-----------------------------------------------------------------------------
\* At first every SceneView is available, and none holds a frame.
LEMMA InitPiped == Init => Piped
<1> SUFFICES ASSUME Init PROVE Piped
  OBVIOUS
<1>1. Modes /\ Stamped /\ FirstIsZero /\ Counted /\ CompletedOnce
  BY DEF Init, Modes, Stamped, FirstIsZero, Counted, CompletedOnce, DrawHas, NewQueue
<1>2. Room
  <2>1. Len(availableQueue.items) = Views /\ Len(drawQueue.items) = 0
    BY ViewsAssumption DEF Init, AllViews, NewQueue
  <2>2. CullHas = {} /\ DrawHas = {}
    BY DEF Init, CullHas, DrawHas
  <2> QED
    BY <2>1, <2>2, ViewsAssumption DEF Room
<1> QED
  BY <1>1, <1>2, InitOwned DEF Piped

\* completed() is called once for each frame draw() draws: cull_draw() runs only
\* where draw() does not, and draw() sets the count before it draws.
LEMMA NextCompleted ==
    Typed /\ Modes /\ Counted /\ CompletedOnce /\ [Next]_vars => Counted' /\ CompletedOnce'
<1> SUFFICES ASSUME Typed, Modes, Counted, CompletedOnce, [Next]_vars
             PROVE  Counted' /\ CompletedOnce'
  OBVIOUS
<1>1. left \in 0 .. MaxDynamic /\ MaxDynamic \in Nat
  BY BoundsAssumption DEF Typed, TypeOK
<1>2. CASE DrawDynamicObject
  <2>1. stateCount = left /\ completions = 0 /\ drawPc' = "draw" /\ left > 0
    BY <1>1, <1>2 DEF DrawDynamicObject, Counted, CompletedOnce
  <2>2. stateCount' = left - 1 /\ left' = left - 1
    BY <1>1, <1>2, <2>1 DEF DrawDynamicObject, Decremented
  <2>3. completions' = IF left = 1 THEN 1 ELSE 0
    BY <1>1, <1>2, <2>1 DEF DrawDynamicObject, PassesZero
  <2> QED
    BY <1>1, <2>1, <2>2, <2>3 DEF Counted, CompletedOnce
<1>3. CASE CullDraw
  <2>1. drawPc' = drawPc /\ drawPc \in {"idle", "exited"}
    BY <1>3 DEF CullDraw, Modes
  <2> QED
    BY <2>1 DEF Counted, CompletedOnce
<1>4. CASE ~DrawDynamicObject /\ ~CullDraw
  BY <1>4 DEF Counted, CompletedOnce, Next, vars, drawVars, CullThread, DrawThread,
         CullEnter, CullTake, CullTraverse, CullAdd, CullExit, DrawEnter,
         DrawTake, DrawCollate, DrawCompile, DrawCheck, DrawCount,
         DrawTraverse, DrawAdd, DrawTail, DrawExit,
         SpuriousWakeup, ReleaseDone, ReleaseAvailable,
         ReleaseDraw, Cancel, ReleaseAgain, Join, StartThreading
<1> QED
  BY <1>2, <1>3, <1>4

\* The calls that put nothing into the two queues and take nothing out.
LEMMA QueueCalls ==
    TypeOK => /\ Asleep(availableQueue, "cull").items = availableQueue.items
              /\ Awake(availableQueue, "cull").items = availableQueue.items
              /\ Release(availableQueue).items = availableQueue.items
              /\ Asleep(drawQueue, "draw").items = drawQueue.items
              /\ Awake(drawQueue, "draw").items = drawQueue.items
              /\ Release(drawQueue).items = drawQueue.items
              /\ Reset(drawQueue).items = << >>
BY DEF TypeOK, QueueOf, Asleep, Awake, Release, Reset

\* The viewer changes the mode only while both threads have ended.
LEMMA NextModes == Typed /\ Running /\ Modes /\ [Next]_vars => Modes'
<1> SUFFICES ASSUME Typed, Running, Modes, [Next]_vars PROVE Modes'
  OBVIOUS
<1> USE DEF Modes, flags, cullVars, drawVars, viewerVars
<1>1. CASE DrawTake
  <2>1. ~graphicsThreadDoesCull /\ UNCHANGED <<graphicsThreadDoesCull, viewer, done, cullPc>>
    BY <1>1 DEF DrawTake
  <2> QED
    BY <1>1, <2>1
<1>2. CASE CullAdd
  BY <1>2 DEF CullAdd
<1>3. CASE StartThreading
  <2>1. drawQueue'.items = << >>
    BY <1>3, QueueCalls DEF StartThreading, Typed, TypeOK
  <2> QED
    BY <1>3, <2>1 DEF StartThreading, Running
<1>4. CASE SpuriousWakeup
  <2>1. drawQueue'.items = drawQueue.items
    BY <1>4, QueueCalls DEF SpuriousWakeup, Typed, TypeOK
  <2> QED
    BY <1>4, <2>1 DEF SpuriousWakeup
<1>5. CASE ReleaseDraw
  <2>1. drawQueue'.items = drawQueue.items
    BY <1>5, QueueCalls DEF ReleaseDraw, Typed, TypeOK
  <2> QED
    BY <1>5, <2>1 DEF ReleaseDraw
<1>6. CASE ~(DrawTake \/ CullAdd \/ StartThreading \/ SpuriousWakeup \/ ReleaseDraw)
  BY <1>6 DEF Next, vars, CullThread, DrawThread,
         CullEnter, CullTake, CullTraverse, CullExit, DrawEnter,
         DrawCollate, DrawCompile, DrawCheck, DrawCount, DrawDynamicObject,
         DrawTraverse, DrawAdd, DrawTail, DrawExit,
         CullDraw, ReleaseDone, ReleaseAvailable, Cancel, ReleaseAgain, Join
<1> QED
  BY <1>1, <1>2, <1>3, <1>4, <1>5, <1>6

\* Nobody but the cull thread counts frames while it is culling one.
LEMMA NextStamped == Typed /\ Modes /\ Stamped /\ [Next]_vars => Stamped'
<1> SUFFICES ASSUME Typed, Modes, Stamped, [Next]_vars PROVE Stamped'
  OBVIOUS
<1> USE DEF Stamped, sceneVars, cullVars
<1>1. CASE CullTraverse
  BY <1>1 DEF CullTraverse, Typed, TypeOK, Holding
<1>2. CASE CullDraw
  BY <1>2 DEF CullDraw, Modes
<1>3. CASE ~(CullTraverse \/ CullDraw)
  BY <1>3 DEF Next, vars, CullThread, DrawThread,
         CullEnter, CullTake, CullAdd, CullExit, DrawEnter,
         DrawTake, DrawCollate, DrawCompile, DrawCheck, DrawCount,
         DrawDynamicObject, DrawTraverse, DrawAdd, DrawTail, DrawExit,
         SpuriousWakeup, ReleaseDone, ReleaseAvailable,
         ReleaseDraw, Cancel, ReleaseAgain, Join, StartThreading
<1> QED
  BY <1>1, <1>2, <1>3
-----------------------------------------------------------------------------
(***************************************************************************)
(* What a step does to the SceneViews in the queues and the hands: nothing,*)
(* or one of the transfers below.  The lemmas that follow look at nothing  *)
(* else of a step.                                                         *)
(***************************************************************************)
Rests ==
    /\ availableQueue'.items = availableQueue.items
    /\ drawQueue'.items = drawQueue.items
    /\ CullHas' = CullHas
    /\ DrawHas' = DrawHas

CullTakes ==
    /\ availableQueue.items # << >> /\ availableQueue' = Taken(availableQueue)
    /\ drawQueue' = drawQueue
    /\ CullHas = {} /\ CullHas' = {Head(availableQueue.items)}
    /\ DrawHas' = DrawHas

CullGives ==
    /\ cullView \in View /\ drawQueue' = Add(drawQueue, cullView)
    /\ availableQueue' = availableQueue
    /\ CullHas = {cullView} /\ CullHas' = {}
    /\ DrawHas' = DrawHas

DrawTakes ==
    /\ drawQueue.items # << >> /\ drawQueue' = Taken(drawQueue)
    /\ availableQueue' = availableQueue
    /\ DrawHas = {} /\ DrawHas' = (IF done THEN {} ELSE {Head(drawQueue.items)})
    /\ CullHas' = CullHas

DrawGives ==
    /\ drawView \in View /\ availableQueue' = Add(availableQueue, drawView)
    /\ drawQueue' = drawQueue
    /\ DrawHas = {drawView} /\ DrawHas' = {}
    /\ CullHas' = CullHas

DrawDrops ==
    /\ UNCHANGED <<availableQueue, drawQueue>>
    /\ DrawHas = {drawView} /\ DrawHas' = {}
    /\ CullHas' = CullHas

Refills ==
    /\ availableQueue' = AllViews /\ drawQueue'.items = << >>
    /\ CullHas' = {} /\ DrawHas' = {}

\* The actions behind each transfer.
Transfer ==
    \/ CullTake /\ CullTakes
    \/ CullAdd /\ CullGives
    \/ DrawTake /\ DrawTakes
    \/ DrawAdd /\ DrawGives
    \/ DrawCheck /\ drawPc' = "idle" /\ DrawDrops
    \/ StartThreading /\ Refills

\* Every step hands over what a transfer hands over, or leaves the lists alone.
LEMMA NextTransfer == Typed /\ [Next]_vars => Rests \/ Transfer
<1> SUFFICES ASSUME Typed, [Next]_vars PROVE Rests \/ Transfer
  OBVIOUS
<1>0. TypeOK
  BY DEF Typed
<1> USE DEF cullVars, drawVars, CullHas, DrawHas
<1>1. CASE CullTake
  <2>1. CASE CanTake(availableQueue, "cull")
    BY <1>1, <2>1 DEF CullTake, CanTake, GivesNull, MustWait, Transfer, CullTakes
  <2>2. CASE ~CanTake(availableQueue, "cull")
    <3>1. availableQueue'.items = availableQueue.items
      BY <1>0, <1>1, <2>2, QueueCalls DEF CullTake, TypeOK
    <3> QED
      BY <1>1, <2>2, <3>1 DEF CullTake, Rests
  <2> QED
    BY <2>1, <2>2
<1>2. CASE CullAdd
  BY <1>2 DEF CullAdd, Transfer, CullGives, Typed, Holding
<1>3. CASE DrawTake
  <2>1. CASE CanTake(drawQueue, "draw")
    BY <1>3, <2>1 DEF DrawTake, CanTake, GivesNull, MustWait, Transfer, DrawTakes
  <2>2. CASE ~CanTake(drawQueue, "draw")
    <3>1. drawQueue'.items = drawQueue.items
      BY <1>0, <1>3, <2>2, QueueCalls DEF DrawTake, TypeOK
    <3> QED
      BY <1>3, <2>2, <3>1 DEF DrawTake, Rests
  <2> QED
    BY <2>1, <2>2
<1>4. CASE DrawAdd
  BY <1>4 DEF DrawAdd, Transfer, DrawGives, Typed, Holding
<1>5. CASE DrawCheck
  BY <1>5 DEF DrawCheck, Rests, Transfer, DrawDrops
<1>6. CASE StartThreading
  <2>1. drawQueue'.items = << >>
    BY <1>0, <1>6, QueueCalls DEF StartThreading, TypeOK
  <2> QED
    BY <1>6, <2>1 DEF StartThreading, Transfer, Refills
<1>7. CASE SpuriousWakeup
  <2>1. availableQueue'.items = availableQueue.items /\ drawQueue'.items = drawQueue.items
    BY <1>0, <1>7, QueueCalls DEF SpuriousWakeup, TypeOK
  <2> QED
    BY <1>7, <2>1 DEF SpuriousWakeup, Rests
<1>8. CASE ReleaseAvailable
  <2>1. availableQueue'.items = availableQueue.items
    BY <1>0, <1>8, QueueCalls DEF ReleaseAvailable, TypeOK
  <2> QED
    BY <1>8, <2>1 DEF ReleaseAvailable, Rests
<1>9. CASE ReleaseDraw
  <2>1. drawQueue'.items = drawQueue.items
    BY <1>0, <1>9, QueueCalls DEF ReleaseDraw, TypeOK
  <2> QED
    BY <1>9, <2>1 DEF ReleaseDraw, Rests
<1>10. CASE ~(CullTake \/ CullAdd \/ DrawTake \/ DrawAdd \/ DrawCheck \/ StartThreading
              \/ SpuriousWakeup \/ ReleaseAvailable \/ ReleaseDraw)
  BY <1>10 DEF Rests, Next, vars, CullThread, DrawThread,
         CullEnter, CullTraverse, CullExit, DrawEnter,
         DrawCollate, DrawCompile, DrawCount,
         DrawDynamicObject, DrawTraverse, DrawTail, DrawExit,
         CullDraw, ReleaseDone, Cancel, ReleaseAgain, Join
<1> QED
  BY <1>1, <1>2, <1>3, <1>4, <1>5, <1>6, <1>7, <1>8, <1>9, <1>10
-----------------------------------------------------------------------------
\* No step makes a SceneView.
LEMMA NextRoom == Typed /\ Room /\ [Next]_vars => Room'
<1> SUFFICES ASSUME Typed, Room, [Next]_vars PROVE Room'
  OBVIOUS
<1> DEFINE a == Len(availableQueue.items)
           d == Len(drawQueue.items)
           c == IF CullHas = {} THEN 0 ELSE 1
           h == IF DrawHas = {} THEN 0 ELSE 1
<1>0. a \in Nat /\ d \in Nat /\ Views \in Nat /\ c \in 0 .. 1 /\ h \in 0 .. 1
  BY QueueLengths, ViewsAssumption DEF Typed
<1>1. (Room <=> a + d + c + h <= Views) /\ (Room' <=> a' + d' + c' + h' <= Views)
  BY DEF Room
<1>2. Rests => a' = a /\ d' = d /\ c' = c /\ h' = h
  BY DEF Rests
<1>3. CullTakes => a' = a - 1 /\ d' = d /\ c' = c + 1 /\ h' = h
  <2> SUFFICES ASSUME CullTakes PROVE a' = a - 1 /\ d' = d /\ c' = c + 1 /\ h' = h
    OBVIOUS
  <2>1. a' = a - 1
    BY TakenEnds DEF CullTakes, Typed, TypeOK
  <2>2. d' = d /\ h' = h
    BY DEF CullTakes
  <2>3. c = 0 /\ c' = 1
    BY DEF CullTakes
  <2> HIDE DEF a, c, d, h
  <2> QED
    BY <2>1, <2>2, <2>3
<1>4. CullGives => a' = a /\ d' = d + 1 /\ c' = c - 1 /\ h' = h
  BY AddEnds DEF CullGives, Typed, TypeOK
<1>5. DrawTakes => a' = a /\ d' = d - 1 /\ c' = c /\ h' \in {h, h + 1}
  BY TakenEnds DEF DrawTakes, Typed, TypeOK
<1>6. DrawGives => a' = a + 1 /\ d' = d /\ c' = c /\ h' = h - 1
  BY AddEnds DEF DrawGives, Typed, TypeOK
<1>7. DrawDrops => a' = a /\ d' = d /\ c' = c /\ h' = h - 1
  BY DEF DrawDrops
<1>8. Refills => a' = Views /\ d' = 0 /\ c' = 0 /\ h' = 0
  BY ViewsAssumption DEF Refills, AllViews
<1>9. \/ Rests \/ CullTakes \/ CullGives \/ DrawTakes \/ DrawGives \/ DrawDrops
      \/ Refills
  BY NextTransfer DEF Transfer
<1>10. a + d + c + h <= Views
  BY <1>1
<1> HIDE DEF a, d, c, h
<1>11. a' + d' + c' + h' <= Views
  BY <1>0, <1>2, <1>3, <1>4, <1>5, <1>6, <1>7, <1>8, <1>9, <1>10
<1> QED
  BY <1>1, <1>11

\* Whatever is not a transfer leaves the order of the SceneViews alone; the flag,
\* once lowered, stays lowered.
LEMMA NextFirstIsZero ==
    Typed /\ Modes /\ FirstIsZero /\ [Next]_vars => FirstIsZero'
<1> SUFFICES ASSUME Typed, Modes, FirstIsZero, [Next]_vars PROVE FirstIsZero'
  OBVIOUS
<1>1. compileOnNextDraw' => compileOnNextDraw
  BY DEF Next, vars, CullThread, DrawThread,
         CullEnter, CullTake, CullTraverse, CullAdd, CullExit, DrawEnter,
         DrawTake, DrawCollate, DrawCompile, DrawCheck, DrawCount,
         DrawDynamicObject, DrawTraverse, DrawAdd, DrawTail, DrawExit,
         CullDraw, SpuriousWakeup, ReleaseDone, ReleaseAvailable,
         ReleaseDraw, Cancel, ReleaseAgain, Join, StartThreading
<1>2. \/ StartThreading \/ Join
      \/ (~done' => ~done) /\ (viewer' # "stopped" => viewer # "stopped")
  BY DEF flags, viewerVars, Next, vars, CullThread, DrawThread,
         CullEnter, CullTake, CullTraverse, CullAdd, CullExit, DrawEnter,
         DrawTake, DrawCollate, DrawCompile, DrawCheck, DrawCount,
         DrawDynamicObject, DrawTraverse, DrawAdd, DrawTail, DrawExit,
         CullDraw, SpuriousWakeup, ReleaseDone, ReleaseAvailable,
         ReleaseDraw, Cancel, ReleaseAgain
<1>3. CASE Rests
  <2>1. drawPc' = "compile" => compileOnNextDraw'
    BY DEF FirstIsZero, Modes, Next, vars, drawVars, CullThread, DrawThread,
           CullEnter, CullTake, CullTraverse, CullAdd, CullExit, DrawEnter,
           DrawTake, DrawCollate, DrawCompile, DrawCheck, DrawCount,
           DrawDynamicObject, DrawTraverse, DrawAdd, DrawTail, DrawExit,
           CullDraw, SpuriousWakeup, ReleaseDone, ReleaseAvailable,
           ReleaseDraw, Cancel, ReleaseAgain, Join, StartThreading
  <2>2. compileOnNextDraw' /\ DrawHas' # {} =>
           drawPc' \in {"collate", "compile"} /\ drawView' = 0
    BY <1>1, <1>3
       DEF Rests, DrawHas, FirstIsZero, Modes, Next, vars, drawVars, CullThread, DrawThread,
           CullEnter, CullTake, CullTraverse, CullAdd, CullExit, DrawEnter,
           DrawTake, DrawCollate, DrawCompile, DrawCheck, DrawCount,
           DrawDynamicObject, DrawTraverse, DrawAdd, DrawTail, DrawExit,
           CullDraw, SpuriousWakeup, ReleaseDone, ReleaseAvailable,
           ReleaseDraw, Cancel, ReleaseAgain, Join, StartThreading
  <2>3. ZeroIsNext => ZeroIsNext'
    BY <1>3 DEF Rests, ZeroIsNext
  <2>4. compileOnNextDraw' /\ DrawHas' = {} /\ viewer' # "stopped" /\ ~done' => ZeroIsNext'
    <3>1. CASE Join
      BY <3>1 DEF Join
    <3>2. CASE StartThreading
      <4>1. availableQueue'.items # << >> /\ Head(availableQueue'.items) = 0
        BY <3>2, ViewsAssumption DEF StartThreading, AllViews
      <4>2. drawQueue'.items = << >> /\ CullHas' = {}
        BY <3>2, QueueCalls DEF StartThreading, CullHas, Typed
      <4> QED
        BY <4>1, <4>2 DEF ZeroIsNext
    <3>3. CASE ~(Join \/ StartThreading)
      BY <1>1, <1>2, <1>3, <2>3, <3>3 DEF FirstIsZero, Rests
    <3> QED
      BY <3>1, <3>2, <3>3
  <2> QED
    BY <2>1, <2>2, <2>4 DEF FirstIsZero
<1>4. CASE CullTake /\ CullTakes
  <2>1. UNCHANGED <<drawPc, drawView, viewer, done>> /\ DrawHas' = DrawHas
    BY <1>4 DEF CullTake, drawVars, viewerVars, flags, CullTakes
  <2>2. ZeroIsNext => ZeroIsNext'
    BY <1>4 DEF CullTakes, ZeroIsNext
  <2>3. compileOnNextDraw' = compileOnNextDraw
    BY <1>4 DEF CullTake
  <2> QED
    BY <2>1, <2>2, <2>3 DEF FirstIsZero
<1>5. CASE CullAdd /\ CullGives
  <2>1. /\ UNCHANGED <<drawPc, drawView, viewer, done, compileOnNextDraw>>
        /\ DrawHas' = DrawHas
    BY <1>5 DEF CullAdd, drawVars, viewerVars, flags, CullGives
  <2>2. ZeroIsNext => ZeroIsNext'
    <3>1. /\ drawQueue'.items # << >>
          /\ Head(drawQueue'.items) = IF drawQueue.items = << >> THEN cullView
                                                                 ELSE Head(drawQueue.items)
      BY <1>5, AddEnds DEF CullGives, Typed, TypeOK
    <3> QED
      BY <1>5, <3>1 DEF CullGives, ZeroIsNext
  <2> QED
    BY <2>1, <2>2 DEF FirstIsZero
<1>6. CASE DrawTake /\ DrawTakes
  <2>1. /\ UNCHANGED <<viewer, done, compileOnNextDraw>>
        /\ drawPc' \in {"idle", "collate", "take"}
        /\ drawPc = "take" /\ viewer # "stopped"
    BY <1>6 DEF DrawTake, DrawTakes, viewerVars, flags, Modes
  <2>2. CASE done
    BY <1>6, <2>1, <2>2 DEF FirstIsZero, DrawTakes
  <2>3. CASE ~done
    <3>1. drawPc' = "collate" /\ drawView' = Head(drawQueue.items) /\ DrawHas' = {drawView'}
      BY <1>6, <2>3 DEF DrawTake, DrawTakes, CanTake, GivesNull, MustWait, DrawHas
    <3>2. compileOnNextDraw => ZeroIsNext
      BY <1>6, <2>1, <2>3 DEF FirstIsZero, DrawTakes
    <3>3. compileOnNextDraw => drawView' = 0
      BY <1>6, <3>1, <3>2 DEF ZeroIsNext, DrawTakes
    <3> QED
      BY <2>1, <3>1, <3>3 DEF FirstIsZero
  <2> QED
    BY <2>2, <2>3
<1>7. CASE \/ DrawAdd /\ DrawGives
           \/ DrawCheck /\ drawPc' = "idle" /\ DrawDrops
  <2>1. ~compileOnNextDraw /\ ~compileOnNextDraw' /\ drawPc' # "compile"
    BY <1>1, <1>7 DEF DrawAdd, DrawGives, DrawCheck, DrawDrops, FirstIsZero
  <2> QED
    BY <2>1 DEF FirstIsZero
<1>8. CASE StartThreading /\ Refills
  <2>1. availableQueue'.items # << >> /\ Head(availableQueue'.items) = 0
    BY <1>8, ViewsAssumption DEF StartThreading, AllViews
  <2>2. ZeroIsNext'
    BY <1>8, <2>1 DEF Refills, ZeroIsNext
  <2> QED
    BY <1>8, <2>2 DEF StartThreading, Refills, FirstIsZero
<1>9. Rests \/ Transfer
  BY NextTransfer
<1> QED
  BY <1>3, <1>4, <1>5, <1>6, <1>7, <1>8, <1>9 DEF Transfer

\* The invariant is inductive.
LEMMA NextPiped == Piped /\ [Next]_vars => Piped'
BY NextOwned, NextModes, NextStamped, NextFirstIsZero, NextRoom, NextCompleted
   DEF Piped, Owned

\* The invariant the theorems of this module rest on.
LEMMA AlwaysPiped == Spec => []Piped
BY InitPiped, NextPiped, PTL DEF Spec

\* compile() may read _sceneView[0] although another SceneView is to be drawn:
\* whenever it is called, the cull thread is not at work on _sceneView[0].
THEOREM CompilesAlone == Spec => []CompileAlone
<1>1. Piped => CompileAlone
  <2> SUFFICES ASSUME Piped, drawPc = "compile" PROVE 0 \notin CullHas
    BY DEF CompileAlone
  <2>1. DrawHas = {drawView} /\ compileOnNextDraw
    BY DEF DrawHas, Piped, FirstIsZero
  <2>2. drawView = 0
    BY <2>1 DEF Piped, FirstIsZero
  <2> QED
    BY <2>1, <2>2 DEF Piped, Owned, SoleOwner
<1> QED
  BY <1>1, AlwaysPiped, PTL

\* With any number of dynamic objects in a frame, and whatever the unguarded
\* decrements of cull_draw() have made of the count before, completed() is called
\* once for a frame draw() draws, and not before its last dynamic object is drawn.
THEOREM CompletesOnce == Spec => []CompletedOnce
<1>1. Piped => CompletedOnce
  BY DEF Piped
<1> QED
  BY <1>1, AlwaysPiped, PTL
-----------------------------------------------------------------------------
(***************************************************************************)
(* The refinement.  InFlight is built with Along: the frames c gives to    *)
(* the SceneViews of a queue, in the order of the queue.                   *)
(***************************************************************************)
Along(c, s) == [i \in 1 .. Len(s) |-> c[s[i]]]

\* The frames of the SceneViews of s are a sequence, as long as s.
LEMMA AlongIsSeq ==
    ASSUME NEW S, NEW c \in [S -> Nat]
    PROVE  \A s \in Seq(S) :
              /\ Along(c, s) \in Seq(Nat)
              /\ Len(Along(c, s)) = Len(s)
              /\ \A i \in 1 .. Len(s) : Along(c, s)[i] = c[s[i]]
<1> SUFFICES ASSUME NEW s \in Seq(S)
             PROVE  /\ Along(c, s) \in Seq(Nat)
                    /\ Len(Along(c, s)) = Len(s)
                    /\ \A i \in 1 .. Len(s) : Along(c, s)[i] = c[s[i]]
  OBVIOUS
<1>1. Len(s) \in Nat /\ \A i \in 1 .. Len(s) : s[i] \in S
  OBVIOUS
<1>2. Along(c, s) \in [1 .. Len(s) -> Nat]
  BY <1>1 DEF Along
<1> QED
  BY <1>1, <1>2 DEF Along

\* A SceneView queued behind s brings its frame behind the frames of s.
LEMMA AlongAppend ==
    ASSUME NEW S, NEW c \in [S -> Nat], NEW s \in Seq(S), NEW v \in S
    PROVE  Along(c, Append(s, v)) = Append(Along(c, s), c[v])
<1> DEFINE t == Append(s, v)
           l == Along(c, t)
           r == Append(Along(c, s), c[v])
<1>1. t \in Seq(S) /\ Len(t) = Len(s) + 1 /\ Len(s) \in Nat
  BY AppendProperties
<1>2. \A i \in 1 .. Len(s) + 1 : t[i] = IF i = Len(s) + 1 THEN v ELSE s[i]
  BY <1>1, AppendProperties
<1>3. /\ l \in Seq(Nat) /\ Len(l) = Len(s) + 1
      /\ \A i \in 1 .. Len(s) + 1 : l[i] = c[t[i]]
  <2> HIDE DEF t
  <2>1. Along(c, t) \in Seq(Nat) /\ Len(Along(c, t)) = Len(t)
    BY <1>1, AlongIsSeq
  <2>2. \A i \in 1 .. Len(t) : Along(c, t)[i] = c[t[i]]
    BY DEF Along
  <2> QED
    BY <1>1, <2>1, <2>2
<1>4. /\ Along(c, s) \in Seq(Nat) /\ Len(Along(c, s)) = Len(s)
      /\ \A i \in 1 .. Len(s) : Along(c, s)[i] = c[s[i]]
  BY AlongIsSeq
<1>5. c[v] \in Nat
  OBVIOUS
<1>6. /\ r \in Seq(Nat) /\ Len(r) = Len(s) + 1
      /\ \A i \in 1 .. Len(s) + 1 : r[i] = IF i = Len(s) + 1 THEN c[v] ELSE c[s[i]]
  BY <1>1, <1>4, <1>5, AppendProperties
<1> HIDE DEF t, l, r
<1>7. \A i \in 1 .. Len(l) : l[i] = r[i]
  <2> TAKE i \in 1 .. Len(l)
  <2>1. i \in 1 .. Len(s) + 1
    BY <1>3
  <2>2. l[i] = c[t[i]] /\ t[i] = IF i = Len(s) + 1 THEN v ELSE s[i]
    BY <1>2, <1>3, <2>1
  <2>3. r[i] = IF i = Len(s) + 1 THEN c[v] ELSE c[s[i]]
    BY <1>6, <2>1
  <2> QED
    BY <2>2, <2>3
<1>8. l = r
  BY <1>3, <1>6, <1>7, SeqEqual
<1> QED
  BY <1>8 DEF t, l, r

\* The oldest SceneView of s has the oldest of the frames, and the others the rest.
LEMMA AlongTail ==
    ASSUME NEW S, NEW c \in [S -> Nat], NEW s \in Seq(S), s # << >>
    PROVE  /\ Along(c, s) # << >>
           /\ Head(Along(c, s)) = c[Head(s)]
           /\ Tail(Along(c, s)) = Along(c, Tail(s))
<1> DEFINE t == Tail(s)
           f == Along(c, s)
           l == Tail(f)
           r == Along(c, t)
<1>1. t \in Seq(S) /\ Len(s) \in Nat \ {0} /\ Len(t) = Len(s) - 1
  BY EmptySeq, HeadTailProperties
<1>2. \A i \in 1 .. Len(s) - 1 : t[i] = s[i + 1]
  BY <1>1, HeadTailProperties
<1>3. f \in Seq(Nat) /\ Len(f) = Len(s) /\ \A i \in 1 .. Len(s) : f[i] = c[s[i]]
  BY AlongIsSeq
<1>4. /\ r \in Seq(Nat) /\ Len(r) = Len(s) - 1
      /\ \A i \in 1 .. Len(s) - 1 : r[i] = c[t[i]]
  <2> HIDE DEF t
  <2>1. Along(c, t) \in Seq(Nat) /\ Len(Along(c, t)) = Len(t)
    BY <1>1, AlongIsSeq
  <2>2. \A i \in 1 .. Len(t) : Along(c, t)[i] = c[t[i]]
    BY DEF Along
  <2> QED
    BY <1>1, <2>1, <2>2
<1>5. f # << >>
  <2> HIDE DEF f
  <2> QED
    BY <1>1, <1>3
<1>6. /\ l \in Seq(Nat) /\ Len(l) = Len(s) - 1
      /\ \A i \in 1 .. Len(s) - 1 : l[i] = f[i + 1]
  <2> HIDE DEF f
  <2> QED
    BY <1>1, <1>3, <1>5, HeadTailProperties
<1>7. Head(f) = f[1] /\ Head(s) = s[1]
  <2> HIDE DEF f
  <2> QED
    BY <1>1, <1>3, <1>5
<1>8. \A i \in 1 .. Len(l) : l[i] = r[i]
  <2> HIDE DEF f, l, r, t
  <2> SUFFICES ASSUME NEW i \in 1 .. Len(s) - 1 PROVE l[i] = r[i]
    BY <1>6
  <2>1. i + 1 \in 1 .. Len(s)
    BY <1>1
  <2>2. l[i] = f[i + 1] /\ f[i + 1] = c[s[i + 1]]
    BY <2>1, <1>3, <1>6
  <2>3. r[i] = c[t[i]] /\ t[i] = s[i + 1]
    BY <1>2, <1>4
  <2> QED
    BY <2>2, <2>3
<1>9. l = r
  <2> HIDE DEF l, r
  <2> QED
    BY <1>4, <1>6, <1>8, SeqEqual
<1>10. f[1] = c[s[1]]
  BY <1>1, <1>3
<1> QED
  BY <1>5, <1>7, <1>9, <1>10

\* The frames of s depend on the SceneViews in s only.
LEMMA AlongAgrees ==
    ASSUME NEW c, NEW d, NEW s, \A i \in 1 .. Len(s) : d[s[i]] = c[s[i]]
    PROVE  Along(d, s) = Along(c, s)
BY DEF Along

\* A sequence behind one more element at the front.
LEMMA Pushed ==
    ASSUME NEW S, NEW e \in S, NEW s \in Seq(S)
    PROVE  /\ <<e>> \o s \in Seq(S)
           /\ Len(<<e>> \o s) = Len(s) + 1
           /\ <<e>> \o s # << >>
           /\ Head(<<e>> \o s) = e
           /\ Tail(<<e>> \o s) = s
           /\ \A x \in S : Append(<<e>> \o s, x) = <<e>> \o Append(s, x)
<1> DEFINE p == <<e>> \o s
           t == Tail(p)
<1>0. <<e>> \in Seq(S) /\ Len(<<e>>) = 1 /\ <<e>>[1] = e /\ Len(s) \in Nat
  OBVIOUS
<1>1. /\ p \in Seq(S) /\ Len(p) = Len(s) + 1
      /\ \A i \in 1 .. Len(s) + 1 : p[i] = IF i = 1 THEN e ELSE s[i - 1]
  BY <1>0, ConcatProperties
<1>2. p # << >> /\ Head(p) = p[1] /\ p[1] = e
  <2> HIDE DEF p
  <2> QED
    BY <1>0, <1>1
<1>3. t \in Seq(S) /\ Len(t) = Len(s) /\ \A i \in 1 .. Len(s) : t[i] = p[i + 1]
  <2> HIDE DEF p
  <2> QED
    BY <1>0, <1>1, <1>2, HeadTailProperties
<1>4. t = s
  <2>1. \A i \in 1 .. Len(s) : i + 1 \in 1 .. Len(s) + 1 /\ i + 1 # 1 /\ i + 1 - 1 = i
    BY <1>0
  <2>2. \A i \in 1 .. Len(t) : t[i] = s[i]
    <3> HIDE DEF p, t
    <3> QED
      BY <1>1, <1>3, <2>1
  <2> HIDE DEF t
  <2> QED
    BY <1>3, <2>2, SeqEqual
<1>5. \A x \in S : Append(p, x) = <<e>> \o Append(s, x)
  <2> SUFFICES ASSUME NEW x \in S PROVE Append(p, x) = <<e>> \o Append(s, x)
    OBVIOUS
  <2>1. <<x>> \in Seq(S)
    OBVIOUS
  <2>2. Append(p, x) = (<<e>> \o s) \o <<x>>
    <3>1. Append(p, x) = p \o <<x>>
      <4> HIDE DEF p
      <4> QED
        BY <1>1, AppendIsConcat
    <3> QED
      BY <3>1
  <2>3. Append(s, x) = s \o <<x>>
    BY AppendIsConcat
  <2>4. (<<e>> \o s) \o <<x>> = <<e>> \o (s \o <<x>>)
    BY <1>0, <2>1, ConcatAssociative
  <2> QED
    BY <2>2, <2>3, <2>4
<1> QED
  BY <1>1, <1>2, <1>4, <1>5

\* A sequence is its head in front of its tail.
LEMMA HeadAndTail ==
    ASSUME NEW S, NEW s \in Seq(S), s # << >>
    PROVE  s = <<Head(s)>> \o Tail(s)
<1> DEFINE t == Tail(s)
           r == <<Head(s)>> \o t
<1>1. /\ Head(s) \in S /\ t \in Seq(S) /\ Len(t) = Len(s) - 1
      /\ \A i \in 1 .. Len(t) : t[i] = s[i + 1]
  BY HeadTailProperties
<1>2. Len(s) \in Nat \ {0} /\ Head(s) = s[1]
  BY EmptySeq
<1>3. <<Head(s)>> \in Seq(S) /\ Len(<<Head(s)>>) = 1 /\ <<Head(s)>>[1] = Head(s)
  BY <1>1
<1> HIDE DEF t
<1>4. /\ r \in Seq(S) /\ Len(r) = 1 + Len(t)
      /\ \A i \in 1 .. 1 + Len(t) : r[i] = IF i <= 1 THEN Head(s) ELSE t[i - 1]
  BY <1>1, <1>3, ConcatProperties
<1> HIDE DEF r
<1>5. ASSUME NEW i \in 1 .. Len(s) PROVE s[i] = r[i]
  <2>1. CASE i = 1
    BY <1>1, <1>2, <1>4, <2>1
  <2>2. CASE i # 1
    <3>1. i - 1 \in 1 .. Len(t) /\ i - 1 + 1 = i /\ ~(i <= 1) /\ i \in 1 .. 1 + Len(t)
      BY <1>1, <1>2, <2>2
    <3> QED
      BY <1>1, <1>4, <3>1
  <2> QED
    BY <2>1, <2>2
<1>6. s = r
  BY <1>1, <1>2, <1>4, <1>5, SeqEqual
<1> QED
  BY <1>6 DEF r, t
-----------------------------------------------------------------------------
\* The draw thread holds a frame that it has not shown yet.
OnScreen == drawPc \in {"collate", "compile", "check", "count", "draw"}

Queued == Along(culled, drawQueue.items)

\* What `newest' is mapped to.
Newest == IF cullPc = "add" THEN frame - 1 ELSE frame

\* InFlight in these words, before and after a step.
LEMMA InFlightIs ==
    /\ InFlight = IF viewer = "stopped" THEN << >>
                  ELSE IF OnScreen THEN <<culled[drawView]>> \o Queued ELSE Queued
    /\ InFlight' = IF viewer' = "stopped" THEN << >>
                   ELSE IF OnScreen' THEN <<culled'[drawView']>> \o Queued' ELSE Queued'
BY DEF InFlight, OnScreen, Queued, Along

\* The types of the frames in flight, and what becomes of their sequence when a
\* frame is put in behind it or the one in front is taken out.
LEMMA InFlightTyped ==
    ASSUME Piped
    PROVE  /\ culled \in [View -> Nat] /\ drawQueue.items \in Seq(View)
           /\ Queued \in Seq(Nat) /\ Len(Queued) = Len(drawQueue.items)
           /\ OnScreen => drawView \in View /\ culled[drawView] \in Nat
           /\ OnScreen => DrawHas = {drawView} /\ viewer # "stopped"
           /\ frame \in Nat /\ drawn \in Nat /\ done \in BOOLEAN /\ Newest \in Int
<1>1. culled \in [View -> Nat] /\ drawQueue.items \in Seq(View)
  BY DEF Piped, Owned, Typed, TypeOK, QueueOf
<1>2. Queued \in Seq(Nat) /\ Len(Queued) = Len(drawQueue.items)
  BY <1>1, AlongIsSeq DEF Queued
<1>3. OnScreen => drawView \in View /\ culled[drawView] \in Nat
  BY <1>1 DEF OnScreen, Piped, Owned, Typed, Holding
<1>4. OnScreen => DrawHas = {drawView} /\ viewer # "stopped"
  BY DEF OnScreen, DrawHas, Piped, Modes
<1>5. frame \in Nat /\ drawn \in Nat /\ done \in BOOLEAN /\ Newest \in Int
  BY DEF Piped, Owned, Typed, TypeOK, Newest
<1> QED
  BY <1>1, <1>2, <1>3, <1>4, <1>5

\* The renderer's first state is one of the pipe's.
LEMMA InitPipe == Init => Pipe!Init
<1> SUFFICES ASSUME Init PROVE Pipe!Init
  OBVIOUS
<1>1. InFlight = << >>
  BY InFlightIs DEF Init
<1> QED
  BY <1>1 DEF Init, Pipe!Init

\* A step that moves no frame is a stutter of the pipe.
LEMMA Stutters ==
    ASSUME InFlight' = InFlight, Newest' = Newest, drawn' = drawn, done' = done
    PROVE  UNCHANGED Pipe!pipeVars
BY DEF Pipe!pipeVars, Newest

\* Culling a frame is not yet a step of the pipe.
LEMMA TraverseStutters == Piped /\ CullTraverse => UNCHANGED Pipe!pipeVars
<1> SUFFICES ASSUME Piped, CullTraverse PROVE UNCHANGED Pipe!pipeVars
  OBVIOUS
<1>1. cullView \in View /\ CullHas = {cullView}
  BY DEF CullTraverse, Piped, Owned, Typed, Holding, CullHas
<1>2. /\ culled' = [culled EXCEPT ![cullView] = frame + 1] /\ frame' = frame + 1
      /\ UNCHANGED <<drawQueue, drawPc, drawView, viewer, drawn, done>>
      /\ cullPc = "cull" /\ cullPc' = "add"
  BY DEF CullTraverse, drawVars, viewerVars, flags
<1>3. cullView \notin Items(drawQueue) /\ cullView \notin DrawHas
  BY <1>1 DEF Piped, Owned, SoleOwner
<1>4. Queued' = Queued
  <2>1. \A i \in 1 .. Len(drawQueue.items) : drawQueue.items[i] # cullView
    BY <1>3 DEF Items
  <2>2. \A i \in 1 .. Len(drawQueue.items) : drawQueue.items[i] \in View
    BY InFlightTyped
  <2>3. \A i \in 1 .. Len(drawQueue.items) :
           culled'[drawQueue.items[i]] = culled[drawQueue.items[i]]
    <3>1. culled \in [View -> Nat]
      BY InFlightTyped
    <3>2. \A v \in View \ {cullView} : culled'[v] = culled[v]
      BY <1>2, <3>1
    <3>3. ASSUME NEW i \in 1 .. Len(drawQueue.items)
          PROVE  culled'[drawQueue.items[i]] = culled[drawQueue.items[i]]
      <4> DEFINE v == drawQueue.items[i]
      <4>1. v \in View \ {cullView}
        BY <2>1, <2>2
      <4> HIDE DEF v
      <4>2. culled'[v] = culled[v]
        BY <3>2, <4>1
      <4> QED
        BY <4>2 DEF v
    <3> QED
      BY <3>3
  <2>4. Along(culled', drawQueue.items) = Along(culled, drawQueue.items)
    BY <2>3, AlongAgrees
  <2> QED
    BY <1>2, <2>4 DEF Queued
<1>5. OnScreen => culled'[drawView] = culled[drawView]
  BY <1>1, <1>2, <1>3, InFlightTyped
<1>6. InFlight' = InFlight
  BY <1>2, <1>4, <1>5, InFlightIs DEF OnScreen
<1>7. Newest' = Newest
  BY <1>2, InFlightTyped DEF Newest
<1> QED
  BY <1>2, <1>6, <1>7, Stutters

\* A SceneView queued for drawing is a frame put into the pipe: there is room
\* for it, and it is newer than every frame before.
LEMMA AddPuts == Piped /\ CullAdd => Pipe!Put
<1> SUFFICES ASSUME Piped, CullAdd PROVE Pipe!Put
  OBVIOUS
<1>1. cullView \in View /\ CullHas = {cullView} /\ viewer # "stopped"
  BY DEF CullAdd, Piped, Owned, Typed, Holding, CullHas, Modes
<1>2. /\ drawQueue' = Add(drawQueue, cullView)
      /\ UNCHANGED <<culled, drawPc, drawView, viewer, drawn, done, frame>>
      /\ cullPc = "add" /\ cullPc' = "idle" /\ culled[cullView] = frame
  BY DEF CullAdd, drawVars, sceneVars, viewerVars, flags, Piped, Stamped
<1>3. Queued' = Append(Queued, frame)
  <2>1. drawQueue'.items = Append(drawQueue.items, cullView)
    BY <1>2 DEF Add
  <2>2. culled \in [View -> Nat] /\ drawQueue.items \in Seq(View)
    BY InFlightTyped
  <2>3. Along(culled, Append(drawQueue.items, cullView))
           = Append(Along(culled, drawQueue.items), culled[cullView])
    BY <1>1, <2>2, AlongAppend
  <2> QED
    BY <1>2, <2>1, <2>3 DEF Queued
<1>4. InFlight' = Append(InFlight, frame)
  <2>1. CASE OnScreen
    <3>1. Append(<<culled[drawView]>> \o Queued, frame)
             = <<culled[drawView]>> \o Append(Queued, frame)
      BY <2>1, InFlightTyped, Pushed
    <3> QED
      BY <1>1, <1>2, <1>3, <2>1, <3>1, InFlightIs DEF OnScreen
  <2>2. CASE ~OnScreen
    BY <1>1, <1>2, <1>3, <2>2, InFlightIs DEF OnScreen
  <2> QED
    BY <2>1, <2>2
<1>5. Len(InFlight) < Views
  <2> DEFINE a == Len(availableQueue.items)
             d == Len(drawQueue.items)
  <2>1. a \in Nat /\ d \in Nat /\ Views \in Nat
    BY QueueLengths, ViewsAssumption DEF Piped, Owned, Typed
  <2>2. CASE OnScreen
    <3>1. Len(InFlight) = d + 1
      BY <1>1, <2>2, InFlightIs, InFlightTyped, Pushed
    <3>2. a + d + 1 + 1 <= Views
      BY <1>1, <2>2, InFlightTyped DEF Piped, Room
    <3> HIDE DEF a, d
    <3> QED
      BY <2>1, <3>1, <3>2
  <2>3. CASE ~OnScreen
    <3>1. Len(InFlight) = d
      BY <1>1, <2>3, InFlightIs, InFlightTyped
    <3>2. a + d + 1 + (IF DrawHas = {} THEN 0 ELSE 1) <= Views
      BY <1>1 DEF Piped, Room
    <3> HIDE DEF a, d
    <3> QED
      BY <2>1, <3>1, <3>2
  <2> QED
    BY <2>2, <2>3
<1>6. Newest' = frame /\ Newest' = Newest + 1
  BY <1>2, InFlightTyped DEF Newest
<1> QED
  BY <1>2, <1>4, <1>5, <1>6 DEF Pipe!Put, Newest

\* The frame in front, drawn or given up: what is left of InFlight.
LEMMA LeavesScreen ==
    ASSUME Piped, OnScreen, ~OnScreen', UNCHANGED <<culled, viewer>>,
           drawQueue'.items = drawQueue.items
    PROVE  /\ InFlight # << >>
           /\ Head(InFlight) = culled[drawView]
           /\ InFlight' = Tail(InFlight)
<1>1. InFlight = <<culled[drawView]>> \o Queued
  BY InFlightIs, InFlightTyped
<1>2. Queued' = Queued
  BY DEF Queued
<1>3. InFlight' = Queued
  BY <1>2, InFlightIs, InFlightTyped
<1>4. /\ <<culled[drawView]>> \o Queued # << >>
      /\ Head(<<culled[drawView]>> \o Queued) = culled[drawView]
      /\ Tail(<<culled[drawView]>> \o Queued) = Queued
  <2>1. culled[drawView] \in Nat /\ Queued \in Seq(Nat)
    BY InFlightTyped
  <2>2. \A e \in Nat, s \in Seq(Nat) :
           <<e>> \o s # << >> /\ Head(<<e>> \o s) = e /\ Tail(<<e>> \o s) = s
    BY Pushed
  <2> QED
    BY <2>1, <2>2
<1> QED
  BY <1>1, <1>3, <1>4

\* Taking a SceneView for drawing moves no frame, unless it is thrown away because
\* the threads are being stopped.
LEMMA TakeDrops == Piped /\ DrawTake => Pipe!Drop \/ UNCHANGED Pipe!pipeVars
<1> SUFFICES ASSUME Piped, DrawTake PROVE Pipe!Drop \/ UNCHANGED Pipe!pipeVars
  OBVIOUS
<1>0. TypeOK /\ viewer # "stopped" /\ ~OnScreen
  BY DEF DrawTake, Piped, Owned, Typed, Modes, OnScreen
<1>1. UNCHANGED <<culled, viewer, drawn, done, cullPc, frame>>
  BY DEF DrawTake, sceneVars, viewerVars, flags, cullVars
<1>2. Newest' = Newest
  BY <1>1 DEF Newest
<1>3. InFlight = Queued
  BY <1>0, InFlightIs
<1>4. CASE CanTake(drawQueue, "draw")
  <2> DEFINE s == drawQueue.items
  <2>1. /\ s # << >> /\ drawQueue' = Taken(drawQueue)
        /\ IF done THEN drawPc' = "idle" ELSE drawPc' = "collate" /\ drawView' = Head(s)
    BY <1>4 DEF DrawTake, CanTake, GivesNull, MustWait
  <2>2. drawQueue'.items = Tail(s)
    BY <1>0, <2>1, TakenEnds DEF TypeOK
  <2>3. /\ Queued # << >> /\ Head(Queued) = culled[Head(s)]
        /\ Tail(Queued) = Along(culled, Tail(s))
    <3>1. culled \in [View -> Nat] /\ s \in Seq(View)
      BY InFlightTyped
    <3> HIDE DEF s
    <3>2. /\ Along(culled, s) # << >> /\ Head(Along(culled, s)) = culled[Head(s)]
          /\ Tail(Along(culled, s)) = Along(culled, Tail(s))
      BY <2>1, <3>1, AlongTail
    <3> QED
      BY <3>2 DEF Queued, s
  <2>4. Queued' = Tail(Queued)
    BY <1>1, <2>2, <2>3 DEF Queued
  <2>5. CASE done
    <3>1. InFlight' = Tail(InFlight) /\ InFlight # << >>
      BY <1>0, <1>1, <1>3, <2>1, <2>3, <2>4, <2>5, InFlightIs DEF OnScreen
    <3> QED
      BY <1>1, <1>2, <2>5, <3>1 DEF Pipe!Drop, Newest
  <2>6. CASE ~done
    <3>1. InFlight' = <<culled[Head(s)]>> \o Tail(Queued)
      BY <1>0, <1>1, <2>1, <2>4, <2>6, InFlightIs DEF OnScreen
    <3>2. Queued = <<Head(Queued)>> \o Tail(Queued)
      BY <2>3, InFlightTyped, HeadAndTail
    <3>3. InFlight' = InFlight
      BY <1>3, <2>3, <3>1, <3>2
    <3> QED
      BY <1>1, <1>2, <3>3, Stutters
  <2> QED
    BY <2>5, <2>6
<1>5. CASE ~CanTake(drawQueue, "draw")
  <2>1. drawQueue'.items = drawQueue.items /\ drawPc' \in {"idle", "take"}
    BY <1>0, <1>5, QueueCalls DEF DrawTake
  <2>2. InFlight' = InFlight
    BY <1>0, <1>1, <1>3, <2>1, InFlightIs DEF OnScreen, Queued
  <2> QED
    BY <1>1, <1>2, <2>2, Stutters
<1> QED
  BY <1>4, <1>5

\* draw() giving its SceneView up early: only while the threads are being stopped.
LEMMA CheckDrops == Piped /\ DrawCheck => Pipe!Drop \/ UNCHANGED Pipe!pipeVars
<1> SUFFICES ASSUME Piped, DrawCheck PROVE Pipe!Drop \/ UNCHANGED Pipe!pipeVars
  OBVIOUS
<1>1. /\ UNCHANGED <<culled, drawQueue, viewer, drawn, done, cullPc, frame>>
      /\ OnScreen /\ ~graphicsThreadDoesCull
  BY DEF DrawCheck, sceneVars, viewerVars, flags, cullVars, OnScreen, Piped, Modes
<1>2. Newest' = Newest
  BY <1>1 DEF Newest
<1>3. CASE done
  <2>1. ~OnScreen'
    BY <1>3 DEF DrawCheck, OnScreen
  <2>2. InFlight # << >> /\ InFlight' = Tail(InFlight)
    BY <1>1, <2>1, LeavesScreen
  <2> QED
    BY <1>1, <1>2, <1>3, <2>2 DEF Pipe!Drop, Newest
<1>4. CASE ~done
  <2>1. drawPc' = "count" /\ drawView' = drawView
    BY <1>1, <1>4 DEF DrawCheck
  <2>2. InFlight' = InFlight
    BY <1>1, <2>1, InFlightIs DEF OnScreen, Queued
  <2> QED
    BY <1>1, <1>2, <2>2, Stutters
<1> QED
  BY <1>3, <1>4

\* A frame drawn is the oldest frame in the pipe.
LEMMA TraverseGets == Piped /\ DrawTraverse => Pipe!Get
<1> SUFFICES ASSUME Piped, DrawTraverse PROVE Pipe!Get
  OBVIOUS
<1>1. /\ UNCHANGED <<culled, drawQueue, viewer, done, cullPc, frame>>
      /\ drawn' = culled[drawView] /\ OnScreen /\ ~OnScreen'
  BY DEF DrawTraverse, sceneVars, viewerVars, flags, cullVars, OnScreen
<1>2. InFlight # << >> /\ Head(InFlight) = culled[drawView] /\ InFlight' = Tail(InFlight)
  BY <1>1, LeavesScreen
<1>3. Newest' = Newest
  BY <1>1 DEF Newest
<1> QED
  BY <1>1, <1>2, <1>3 DEF Pipe!Get, Newest

\* No SceneView in the draw queue, no frame.
LEMMA EmptyQueue ==
    /\ drawQueue.items = << >> => Queued = << >>
    /\ drawQueue'.items = << >> => Queued' = << >>
BY DEF Queued, Along

\* A frame culled and drawn by one thread goes through an empty pipe.
LEMMA CullDrawPasses == Piped /\ CullDraw => Pipe!Through
<1> SUFFICES ASSUME Piped, CullDraw PROVE Pipe!Through
  OBVIOUS
<1>1. /\ UNCHANGED <<drawQueue, viewer, done, cullPc, drawPc>>
      /\ frame' = frame + 1 /\ drawn' = frame'
      /\ graphicsThreadDoesCull
  BY DEF CullDraw, viewerVars, flags, cullVars, drawVars
<1>2. ~OnScreen /\ ~OnScreen' /\ cullPc # "add"
  BY <1>1 DEF OnScreen, Piped, Modes
<1>3. viewer # "stopped" => drawQueue.items = << >>
  BY <1>1 DEF Piped, Modes
<1>4. InFlight = << >> /\ InFlight' = << >>
  BY <1>1, <1>2, <1>3, InFlightIs, EmptyQueue
<1>5. Newest = frame /\ Newest' = frame + 1
  BY <1>1, <1>2 DEF Newest
<1> QED
  BY <1>1, <1>4, <1>5 DEF Pipe!Through, Newest

\* The pipe closes when the first release() begins.
LEMMA ReleaseCloses == Piped /\ ReleaseDone => Pipe!Close \/ UNCHANGED Pipe!pipeVars
<1> SUFFICES ASSUME Piped, ReleaseDone PROVE Pipe!Close \/ UNCHANGED Pipe!pipeVars
  OBVIOUS
<1>1. /\ UNCHANGED <<culled, drawQueue, drawPc, drawView, drawn, cullPc, frame>>
      /\ viewer # "stopped" /\ viewer' # "stopped" /\ done'
  BY DEF ReleaseDone, sceneVars, cullVars, drawVars
<1>2. InFlight' = InFlight /\ Newest' = Newest
  BY <1>1, InFlightIs DEF OnScreen, Queued, Newest
<1>3. CASE done
  BY <1>1, <1>2, <1>3, InFlightTyped, Stutters DEF Pipe!pipeVars, Newest
<1>4. CASE ~done
  BY <1>1, <1>2, <1>4 DEF Pipe!Close, Newest
<1> QED
  BY <1>3, <1>4

\* It is open again, and empty, once both threads have ended.
LEMMA JoinReopens == Piped /\ Join => Pipe!Reopen
<1> SUFFICES ASSUME Piped, Join PROVE Pipe!Reopen
  OBVIOUS
<1>1. /\ UNCHANGED <<drawn, cullPc, frame>>
      /\ viewer' = "stopped" /\ done /\ ~done'
  BY DEF Join, cullVars, Piped, Modes
<1>2. InFlight' = << >> /\ Newest' = Newest
  BY <1>1, InFlightIs DEF Newest
<1> QED
  BY <1>1, <1>2 DEF Pipe!Reopen, Newest

\* The threads start with nothing in flight.
LEMMA StartStutters == Piped /\ StartThreading => UNCHANGED Pipe!pipeVars
<1> SUFFICES ASSUME Piped, StartThreading PROVE UNCHANGED Pipe!pipeVars
  OBVIOUS
<1>0. TypeOK
  BY DEF Piped, Owned, Typed
<1>1. /\ UNCHANGED <<drawn, done, frame>> /\ viewer = "stopped"
      /\ cullPc # "add" /\ cullPc' # "add" /\ ~OnScreen'
      /\ drawQueue'.items = << >>
  BY <1>0, QueueCalls DEF StartThreading, OnScreen, Piped, Modes
<1>2. InFlight' = InFlight /\ Newest' = Newest
  BY <1>1, InFlightIs, EmptyQueue DEF Newest
<1> QED
  BY <1>1, <1>2, Stutters

\* What the other steps do concerns no frame.
LEMMA OthersStutter ==
    /\ Piped
    /\ \/ CullEnter \/ CullTake \/ CullExit
       \/ DrawEnter \/ DrawCollate \/ DrawCompile \/ DrawCount
       \/ DrawDynamicObject \/ DrawAdd \/ DrawTail \/ DrawExit
       \/ SpuriousWakeup \/ ReleaseAvailable \/ ReleaseDraw \/ Cancel
       \/ ReleaseAgain \/ UNCHANGED vars
    => UNCHANGED Pipe!pipeVars
<1> SUFFICES ASSUME Piped,
                    \/ CullEnter \/ CullTake \/ CullExit
                    \/ DrawEnter \/ DrawCollate \/ DrawCompile \/ DrawCount
                    \/ DrawDynamicObject \/ DrawAdd \/ DrawTail \/ DrawExit
                    \/ SpuriousWakeup \/ ReleaseAvailable \/ ReleaseDraw \/ Cancel
                    \/ ReleaseAgain \/ UNCHANGED vars
             PROVE  UNCHANGED Pipe!pipeVars
  OBVIOUS
<1>0. TypeOK
  BY DEF Piped, Owned, Typed
<1> USE DEF vars, flags, sceneVars, cullVars, drawVars, viewerVars, CullEnter, CullTake,
            CullExit, DrawEnter, DrawCollate, DrawCompile, DrawCount, DrawDynamicObject,
            DrawAdd, DrawTail, DrawExit, SpuriousWakeup, ReleaseAvailable,
            ReleaseDraw, Cancel, ReleaseAgain
<1>1. drawQueue'.items = drawQueue.items
  BY <1>0, QueueCalls
<1>2. UNCHANGED <<culled, done, drawn, frame>>
  OBVIOUS
<1>3. (viewer' = "stopped") = (viewer = "stopped")
  OBVIOUS
<1>4. OnScreen' = OnScreen /\ (OnScreen => drawView' = drawView)
  BY DEF OnScreen
<1>5. (cullPc' = "add") = (cullPc = "add")
  OBVIOUS
<1>6. Queued' = Queued
  BY <1>1, <1>2 DEF Queued
<1>7. InFlight' = InFlight /\ Newest' = Newest
  BY <1>2, <1>3, <1>4, <1>5, <1>6, InFlightIs DEF Newest
<1> QED
  BY <1>2, <1>7, Stutters

(***************************************************************************)
(* With any number of SceneViews, frames and dynamic objects, culling in   *)
(* one thread and drawing in the other is a pipe: frames are drawn in the  *)
(* order they were culled, none twice, none missing as long as the threads *)
(* are not being stopped, and never more than Views are on their way.      *)
(***************************************************************************)
THEOREM Refinement == Spec => IsPipe
<1>1. Piped /\ [Next]_vars => [Pipe!Next]_(Pipe!pipeVars)
  BY TraverseStutters, AddPuts, TakeDrops, CheckDrops, TraverseGets, CullDrawPasses,
     ReleaseCloses, JoinReopens, StartStutters, OthersStutter
  DEF Next, CullThread, DrawThread, Pipe!Next
<1> QED
  BY InitPipe, AlwaysPiped, <1>1, PTL DEF Spec, IsPipe, Pipe!Spec
=============================================================================
