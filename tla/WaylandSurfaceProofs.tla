------------------------- MODULE WaylandSurfaceProofs -------------------------
(***************************************************************************)
(* For any number of buffers, sizes, swaps and failures: what the          *)
(* compositor holds is left alone, what is locked comes back, the back     *)
(* buffer fits the surface, its age can be relied on, and the format       *)
(* tables have one owner.                                                  *)
(***************************************************************************)
EXTENDS WaylandSurface, NumberInduction

Buffer == [wl : BOOLEAN, image : [size : Nat, batch : Nat], age : Nat,
           locked : BOOLEAN, release : BOOLEAN]

\* The variables that TypeOK says little or nothing of.
Typed ==
    /\ kind \in {"drm", "swrast", "kopper"}
    /\ window \in Sizes \union {0} /\ width \in Sizes \union {0}
    /\ surface \in {"none", "live", "crashed"} /\ private \in {"none", "live", "dangling"}
    /\ resized \in BOOLEAN /\ received \in BOOLEAN
    /\ buffers \in [Slots -> Buffer]
    /\ content \in [Slots -> Nat]
    /\ back \in 0 .. NumBuffers /\ current \in 0 .. NumBuffers
    /\ throttle \in {"none", "frame", "sync", "uncommitted"}
    /\ held \subseteq Slots /\ lost \subseteq Slots
    /\ interval \in {0, 1}
    /\ frame \in 0 .. MaxFrame

(***************************************************************************)
(* Where a call can be.  A request for buffers passes "update" and         *)
(* "choose"; a swap of kind "drm" counts its frame before it asks for a    *)
(* buffer, one of kind "swrast" after it.                                  *)
(***************************************************************************)
Places ==
    /\ <<call, step>> \in
          {<<"none", "idle">>, <<"render", "update">>, <<"render", "choose">>,
           <<"swap", "throttle">>, <<"swap", "update">>, <<"swap", "choose">>,
           <<"swap", "present">>}
    /\ surface = "none" => call = "none"
    /\ call = "swap" => kind # "kopper"
    /\ step = "choose" => kind # "kopper" /\ (kind = "drm" => ~resized)
    /\ step \in {"update", "choose"} => back = 0
    /\ step = "present" => back # 0 /\ frame > 0
    /\ kind = "drm" /\ step = "throttle" => frame < MaxFrame
    /\ kind = "drm" /\ call = "swap" /\ step \in {"update", "choose"} => frame > 0
    /\ kind = "swrast" /\ call = "swap" /\ step # "present" => frame < MaxFrame
    /\ kind = "swrast" /\ step = "throttle" => back # 0

\* The size the surface has follows the window's, at the latest with the next buffer.
Follows ==
    /\ surface = "none" => private # "live"
    /\ surface = "live" => private = "live" /\ width # 0
    /\ kind = "drm" /\ surface = "live" /\ window # 0 /\ window # width => resized

(***************************************************************************)
(* The buffers.  One that waits to be destroyed is locked and lost its     *)
(* image; an image was made for the surface as it is, or it will be given  *)
(* up before it is drawn into.                                             *)
(***************************************************************************)
Bare == surface = "none" \/ kind = "kopper" => \A i \in Slots : ~HasImage(buffers, i)

BackIsLocked == back # 0 /\ HasImage(buffers, back) => buffers[back].locked

GivenUp ==
    \A i \in Slots : buffers[i].release =>
        buffers[i].locked /\ ~HasImage(buffers, i) /\ i # back

ImagesFit ==
    \A i \in Slots : HasImage(buffers, i) =>
        /\ buffers[i].image.size = width \/ (kind = "drm" /\ resized /\ i # back)
        /\ buffers[i].image.batch = feedback.batch \/ received
        /\ kind = "swrast" => buffers[i].wl

\* The age of a buffer is exact, and only kind "drm" counts it.
AgeIsExact ==
    \A i \in Slots : buffers[i].age > 0 =>
        /\ kind = "drm"
        /\ content[i] \in 1 .. frame
        /\ buffers[i].age = frame - content[i] + 1

\* Between two batches the only table mapped is the one in force.
TableInForce ==
    /\ feedback.pending = 0
    /\ feedback.batch \in 0 .. MaxBatch
    /\ feedback.table \in {MapFailed} \union (0 .. feedback.batch)
    /\ feedback.mapped = {feedback.table} \ {0, MapFailed}
    /\ feedback = [pending |-> 0, table |-> feedback.table, batch |-> feedback.batch,
                   mapped |-> feedback.mapped]

Pooled ==
    /\ Typed /\ Places /\ Follows /\ Bare /\ BackIsLocked /\ GivenUp /\ ImagesFit
    /\ HeldIsLocked /\ LockedIsAwaited /\ AgeIsExact /\ TableInForce
-----------------------------------------------------------------------------
(***************************************************************************)
(* The scan of get_back_bo.  Youngest is a recursive function: that there  *)
(* is a function with these values is shown by induction, and so is what   *)
(* they are.                                                               *)
(***************************************************************************)
\* The scan's candidate after it has looked at buffer n, which b was before.
Better(b, n) ==
    IF /\ ~buffers[n].locked
       /\ b = 0 \/ ~HasImage(buffers, b)
          \/ (buffers[n].age > 0 /\ buffers[n].age < buffers[b].age)
    THEN n ELSE b

\* f gives the candidates up to buffer n.
Scan(f, n) == f = [k \in 0 .. n |-> IF k = 0 THEN 0 ELSE Better(f[k - 1], k)]

\* The loop over the buffers runs: there is such a function of places.
LEMMA ScanExists == \E f : Scan(f, NumBuffers)
<1> DEFINE T == {n \in Nat : \E f : Scan(f, n)}
<1>0. NumBuffers \in Nat
  BY BuffersAssumption
<1>1. 0 \in T
  <2>1. Scan([k \in 0 .. 0 |-> 0], 0)
    BY DEF Scan
  <2> QED
    BY <2>1
<1>2. ASSUME NEW n \in 1 .. NumBuffers, n - 1 \in T PROVE n \in T
  <2>0. n \in Nat /\ n # 0 /\ n - 1 \in Nat
    BY <1>0
  <2>1. PICK g : Scan(g, n - 1)
    BY <1>2
  <2> DEFINE h == [k \in 0 .. n |-> IF k = n THEN Better(g[n - 1], n) ELSE g[k]]
  <2>2. ASSUME NEW k \in 0 .. n
        PROVE  h[k] = IF k = 0 THEN 0 ELSE Better(h[k - 1], k)
    <3>1. CASE k = n
      <4>1. h[k - 1] = g[n - 1] /\ h[k] = Better(g[n - 1], n)
        BY <2>0, <3>1
      <4> QED
        BY <2>0, <3>1, <4>1
    <3>2. CASE k # n
      <4>1. k \in 0 .. n - 1 /\ (k # 0 => k - 1 \in 0 .. n /\ k - 1 # n)
        BY <2>0, <3>2
      <4>2. g[k] = IF k = 0 THEN 0 ELSE Better(g[k - 1], k)
        BY <2>1, <4>1 DEF Scan
      <4>3. h[k] = g[k] /\ (k # 0 => h[k - 1] = g[k - 1])
        BY <3>2, <4>1
      <4> QED
        BY <4>2, <4>3
    <3> QED
      BY <3>1, <3>2
  <2>3. Scan(h, n)
    <3>1. h = [k \in 0 .. n |-> h[k]]
      OBVIOUS
    <3> HIDE DEF h
    <3> QED
      BY <2>2, <3>1 DEF Scan
  <2> QED
    BY <2>0, <2>3
<1>3. 0 .. NumBuffers \subseteq T
  <2> HIDE DEF T
  <2> QED
    BY <1>0, <1>1, <1>2, UpTo
<1> QED
  BY <1>0, <1>3

\* Youngest is the function that the loop over the buffers defines.
LEMMA YoungestScans ==
    \A n \in 0 .. NumBuffers :
        Youngest[n] = IF n = 0 THEN 0 ELSE Better(Youngest[n - 1], n)
<1>1. Youngest = CHOOSE f : Scan(f, NumBuffers)
  BY DEF Youngest, Scan, Better
<1>2. Scan(Youngest, NumBuffers)
  BY <1>1, ScanExists
<1> QED
  BY <1>2 DEF Scan

\* The scan ends with no buffer or with one that is unlocked.
LEMMA YoungestIsUnlocked ==
    \/ Youngest[NumBuffers] = 0
    \/ Youngest[NumBuffers] \in Slots /\ ~buffers[Youngest[NumBuffers]].locked
<1> DEFINE Right(n) == \/ Youngest[n] = 0
                       \/ Youngest[n] \in Slots /\ ~buffers[Youngest[n]].locked
           T == {n \in 0 .. NumBuffers : Right(n)}
<1>0. NumBuffers \in Nat
  BY BuffersAssumption
<1>1. 0 \in T
  BY <1>0, YoungestScans
<1>2. ASSUME NEW n \in 1 .. NumBuffers, n - 1 \in T PROVE n \in T
  <2>1. n \in 0 .. NumBuffers /\ n # 0 /\ n \in Slots
    BY <1>0 DEF Slots
  <2>2. Youngest[n] = Better(Youngest[n - 1], n)
    BY <2>1, YoungestScans
  <2>3. Youngest[n] = Youngest[n - 1] \/ (Youngest[n] = n /\ ~buffers[n].locked)
    BY <2>2 DEF Better
  <2> QED
    BY <1>2, <2>1, <2>3
<1>3. 0 .. NumBuffers \subseteq T
  <2> HIDE DEF T
  <2> QED
    BY <1>0, <1>1, <1>2, UpTo
<1>4. NumBuffers \in T
  BY <1>0, <1>3
<1> QED
  BY <1>4

\* The buffer to draw into is one that nobody uses.
LEMMA ChosenIsUnlocked ==
    ASSUME Chosen # 0
    PROVE  Chosen \in Slots /\ ~buffers[Chosen].locked
<1> DEFINE free == {i \in Slots : ~buffers[i].locked}
<1>1. CASE kind = "drm"
  BY <1>1, YoungestIsUnlocked DEF Chosen
<1>2. CASE kind # "drm"
  <2>1. free # {} /\ Chosen = Min(free)
    BY <1>2 DEF Chosen
  <2>2. free \subseteq Nat
    BY BuffersAssumption DEF Slots
  <2>3. Min(free) \in free
    <3> HIDE DEF free
    <3>1. PICK m \in free : \A k \in free : m <= k
      BY <2>1, <2>2, LeastElement
    <3> QED
      BY <3>1 DEF Min
  <2> QED
    BY <2>1, <2>3
<1> QED
  BY <1>1, <1>2
-----------------------------------------------------------------------------
\* Buffer by buffer, what the operators of the pool do.
LEMMA PoolOperators ==
    ASSUME NEW b \in [Slots -> Buffer]
    PROVE  /\ ReleaseBuffers(b) \in [Slots -> Buffer]
           /\ Trimmed(b) \in [Slots -> Buffer]
           /\ Aged(b) \in [Slots -> Buffer]
           /\ \A i \in Slots :
                 /\ ReleaseBuffers(b)[i].image = NoImage /\ ReleaseBuffers(b)[i].age = 0
                 /\ ReleaseBuffers(b)[i].locked = b[i].locked
                 /\ (ReleaseBuffers(b)[i].wl <=> b[i].wl /\ b[i].locked)
                 /\ ReleaseBuffers(b)[i].release => b[i].release \/ b[i].locked
           /\ \A i \in Slots : Trimmed(b)[i] = b[i] \/ (~b[i].locked /\ Trimmed(b)[i] = NoBuffer)
           /\ \A i \in Slots :
                 /\ Aged(b)[i].image = b[i].image /\ Aged(b)[i].wl = b[i].wl
                 /\ Aged(b)[i].locked = b[i].locked /\ Aged(b)[i].release = b[i].release
                 /\ Aged(b)[i].age = IF b[i].age > 0 THEN b[i].age + 1 ELSE 0
<1>0. /\ NoBuffer \in Buffer /\ NoImage \in [size : Nat, batch : Nat]
      /\ \A i \in Slots : b[i] \in Buffer
  BY DEF NoBuffer, NoImage, Buffer
<1>1. ASSUME NEW i \in Slots
      PROVE  LET r == ReleaseBuffers(b)[i]
             IN  /\ r \in Buffer
                 /\ r.image = NoImage /\ r.age = 0 /\ r.locked = b[i].locked
                 /\ (r.wl <=> b[i].wl /\ b[i].locked)
                 /\ r.release => b[i].release \/ b[i].locked
  BY <1>0 DEF ReleaseBuffers, Buffer
<1>2. ASSUME NEW i \in Slots
      PROVE  /\ Trimmed(b)[i] \in Buffer
             /\ Trimmed(b)[i] = b[i] \/ (~b[i].locked /\ Trimmed(b)[i] = NoBuffer)
  BY <1>0 DEF Trimmed
<1>3. ASSUME NEW i \in Slots
      PROVE  LET r == Aged(b)[i]
             IN  /\ r \in Buffer
                 /\ r.image = b[i].image /\ r.wl = b[i].wl
                 /\ r.locked = b[i].locked /\ r.release = b[i].release
                 /\ r.age = IF b[i].age > 0 THEN b[i].age + 1 ELSE 0
  BY <1>0 DEF Aged, Buffer
<1>4. ReleaseBuffers(b) \in [Slots -> Buffer]
  BY <1>1 DEF ReleaseBuffers
<1>5. Trimmed(b) \in [Slots -> Buffer]
  BY <1>2 DEF Trimmed
<1>6. Aged(b) \in [Slots -> Buffer]
  BY <1>3 DEF Aged
<1> QED
  BY <1>1, <1>2, <1>3, <1>4, <1>5, <1>6

\* What a release event does to the buffer it is for.
LEMMA ReleasedBuffer ==
    ASSUME NEW b \in [Slots -> Buffer], NEW i \in Slots
    PROVE  /\ BufferRelease(b, i) \in [Slots -> Buffer]
           /\ \A j \in Slots \ {i} : BufferRelease(b, i)[j] = b[j]
           /\ LET r == BufferRelease(b, i)[i]
              IN  /\ ~r.locked /\ ~r.release /\ r.image = b[i].image
                  /\ r.age \in {0, b[i].age}
                  /\ ~b[i].release => r.wl = b[i].wl
<1>1. b[i] \in Buffer
  OBVIOUS
<1>2. CASE b[i].release
  BY <1>1, <1>2 DEF BufferRelease, NoBuffer, Buffer
<1>3. CASE ~b[i].release
  BY <1>1, <1>3 DEF BufferRelease, Buffer
<1> QED
  BY <1>2, <1>3
-----------------------------------------------------------------------------
\* At first there is no buffer.
LEMMA InitPooled == Init => Pooled
<1> SUFFICES ASSUME Init PROVE Pooled
  OBVIOUS
<1>1. Min(Sizes) \in Sizes
  <2>1. PICK m \in Sizes : \A k \in Sizes : m <= k
    BY SizesAssumption, LeastElement
  <2> QED
    BY <2>1 DEF Min
<1>2. NoBuffer \in Buffer /\ ~NoBuffer.locked /\ ~NoBuffer.release /\ NoBuffer.image = NoImage
      /\ NoBuffer.age = 0
  BY DEF NoBuffer, NoImage, Buffer
<1>3. buffers \in [Slots -> Buffer] /\ \A i \in Slots : buffers[i] = NoBuffer
  BY <1>2 DEF Init
<1>4. Typed
  <2>1. 0 \in 0 .. NumBuffers /\ 0 \in 0 .. MaxFrame /\ content \in [Slots -> Nat]
    BY BuffersAssumption, BoundsAssumption DEF Init
  <2> QED
    BY <1>1, <1>3, <2>1, KindsAssumption DEF Init, Typed
<1>5. Places /\ Follows
  BY DEF Init, Places, Follows
<1>6. /\ Bare /\ BackIsLocked /\ GivenUp /\ ImagesFit
      /\ HeldIsLocked /\ LockedIsAwaited /\ AgeIsExact
  BY <1>2, <1>3 DEF Init, Bare, BackIsLocked, GivenUp, ImagesFit, HeldIsLocked, LockedIsAwaited,
         AgeIsExact, HasImage
<1>7. TableInForce
  BY BoundsAssumption DEF Init, TableInForce, NoFeedback
<1> QED
  BY <1>4, <1>5, <1>6, <1>7 DEF Pooled

\* The pool after an allocation and after a swap keeps its type.
LEMMA PoolTyped ==
    ASSUME Typed, NEW i \in Slots, NEW img \in [size : Nat, batch : Nat], NEW w \in BOOLEAN,
           NEW r \in BOOLEAN, NEW l \in BOOLEAN
    PROVE  /\ [buffers EXCEPT ![i].locked = l] \in [Slots -> Buffer]
           /\ [buffers EXCEPT ![i].age = 0] \in [Slots -> Buffer]
           /\ [buffers EXCEPT ![i].age = 1] \in [Slots -> Buffer]
           /\ [buffers EXCEPT ![i].image = img, ![i].age = 0, ![i].locked = TRUE,
                              ![i].wl = w] \in [Slots -> Buffer]
           /\ [buffers EXCEPT ![i].age = 1, ![i].wl = TRUE, ![i].release = r]
                 \in [Slots -> Buffer]
<1>1. buffers \in [Slots -> Buffer] /\ buffers[i] \in Buffer
  BY DEF Typed
<1>2. [buffers EXCEPT ![i].locked = l] \in [Slots -> Buffer]
  BY <1>1 DEF Buffer
<1>3. [buffers EXCEPT ![i].age = 0] \in [Slots -> Buffer]
  BY <1>1 DEF Buffer
<1>4. [buffers EXCEPT ![i].age = 1] \in [Slots -> Buffer]
  BY <1>1 DEF Buffer
<1>5. [buffers EXCEPT ![i].image = img, ![i].age = 0, ![i].locked = TRUE,
                      ![i].wl = w] \in [Slots -> Buffer]
  BY <1>1 DEF Buffer
<1>6. [buffers EXCEPT ![i].age = 1, ![i].wl = TRUE, ![i].release = r] \in [Slots -> Buffer]
  BY <1>1 DEF Buffer
<1> QED
  BY <1>2, <1>3, <1>4, <1>5, <1>6

\* A new image has the size of the surface, which is one.
LEMMA NewImageTyped ==
    ASSUME Pooled
    PROVE  /\ NewImage \in [size : Nat, batch : Nat]
           /\ NewImage.size = width /\ NewImage.batch = feedback.batch
BY SizesAssumption DEF Pooled, Typed, TableInForce, NewImage

\* Every step keeps the types.
LEMMA NextTyped == Pooled /\ [Next]_vars => Typed'
<1> SUFFICES ASSUME Pooled, [Next]_vars PROVE Typed'
  OBVIOUS
<1>0. Typed /\ Places
  BY DEF Pooled
<1>a. NumBuffers \in Nat \ {0} /\ 0 \in 0 .. NumBuffers /\ \A i \in Slots : i \in 0 .. NumBuffers
  BY BuffersAssumption DEF Slots
<1>b. Sizes \subseteq Nat \ {0} /\ Intervals \subseteq {0, 1} /\ MaxFrame \in Nat
      /\ 0 \in 0 .. MaxFrame
  BY SizesAssumption, BoundsAssumption
<1> USE DEF size, client, flags, pool, server, Returns
<1>1. CASE CreateSurface
  BY <1>0, <1>b, <1>1 DEF CreateSurface, Typed
<1>2. CASE DestroySurface
  <2>1. [i \in Slots |-> NoBuffer] \in [Slots -> Buffer] /\ [i \in Slots |-> 0] \in [Slots -> Nat]
    BY DEF NoBuffer, NoImage, Buffer
  <2> QED
    BY <1>0, <1>a, <1>b, <1>2, <2>1 DEF DestroySurface, Typed
<1>3. CASE Resize \/ DestroyWindow
  <2>1. window' \in Sizes \union {0} /\ width' \in {width, window'}
    BY <1>3 DEF Resize, DestroyWindow
  <2>2. resized' \in BOOLEAN /\ surface' \in {surface, "crashed"}
    BY <1>0, <1>3 DEF Resize, DestroyWindow, Typed
  <2>3. UNCHANGED <<kind, private, received, buffers, content, back, current, throttle, held,
                    lost, interval, frame>>
    BY <1>3 DEF Resize, DestroyWindow
  <2> QED
    BY <1>0, <2>1, <2>2, <2>3 DEF Typed
<1>4. CASE BeginRender \/ BeginSwap
  BY <1>0, <1>4 DEF BeginRender, BeginSwap, Typed
<1>5. CASE Throttled
  <2>1. Aged(buffers) \in [Slots -> Buffer]
    BY <1>0, PoolOperators DEF Typed
  <2>2. frame < MaxFrame
    BY <1>0, <1>5 DEF Throttled, Places, Typed
  <2> QED
    BY <1>0, <1>b, <1>5, <2>1, <2>2 DEF Throttled, Typed
<1>6. CASE UpdateBuffers \/ SwrastUpdateBuffers \/ KopperUpdateBuffers
  <2>1. ReleaseBuffers(buffers) \in [Slots -> Buffer]
    BY <1>0, PoolOperators DEF Typed
  <2>2. buffers' \in [Slots -> Buffer] /\ content' \in [Slots -> Nat]
    BY <1>0, <1>6, <2>1 DEF UpdateBuffers, SwrastUpdateBuffers, KopperUpdateBuffers, Typed
  <2>3. width' \in Sizes \union {0} /\ current' \in 0 .. NumBuffers
    BY <1>0, <1>a, <1>6 DEF UpdateBuffers, SwrastUpdateBuffers, KopperUpdateBuffers, Typed
  <2>4. resized' \in BOOLEAN /\ received' \in BOOLEAN
    BY <1>0, <1>6 DEF UpdateBuffers, SwrastUpdateBuffers, KopperUpdateBuffers, Typed
  <2>5. UNCHANGED <<kind, window, surface, private, back, throttle, held, lost, interval, frame>>
    BY <1>6 DEF UpdateBuffers, SwrastUpdateBuffers, KopperUpdateBuffers
  <2> QED
    BY <1>0, <2>2, <2>3, <2>4, <2>5 DEF Typed
<1>7. CASE ChooseBack
  <2>1. [buffers EXCEPT ![Chosen].locked = TRUE] \in [Slots -> Buffer] /\ Chosen \in Slots
    <3>1. Chosen \in Slots
      BY <1>7, ChosenIsUnlocked DEF ChooseBack
    <3>2. \A i \in Slots : [buffers EXCEPT ![i].locked = TRUE] \in [Slots -> Buffer]
      BY <1>0 DEF Typed, Buffer
    <3> QED
      BY <3>1, <3>2
  <2>2. buffers' \in [Slots -> Buffer]
    BY <1>7, <2>1, PoolOperators DEF ChooseBack
  <2>3. /\ back' = Chosen
        /\ UNCHANGED <<kind, window, surface, private, width, resized, received, content,
                       current, throttle, held, lost, interval, frame>>
    BY <1>7 DEF ChooseBack, Chose
  <2> QED
    BY <1>0, <1>a, <2>1, <2>2, <2>3 DEF Typed
<1>8. CASE AllocateBack
  <2> DEFINE b == [buffers EXCEPT ![Chosen].image = NewImage, ![Chosen].age = 0,
                       ![Chosen].locked = TRUE,
                       ![Chosen].wl = buffers[Chosen].wl \/ kind = "swrast"]
  <2>1. b \in [Slots -> Buffer] /\ Chosen \in Slots
    <3>1. Chosen \in Slots
      BY <1>8, ChosenIsUnlocked DEF AllocateBack
    <3>2. (buffers[Chosen].wl \/ kind = "swrast") \in BOOLEAN
      OBVIOUS
    <3> QED
      BY <1>0, <3>1, <3>2, NewImageTyped, PoolTyped
  <2>2. buffers' = Trimmed(b)
    BY <1>8 DEF AllocateBack
  <2>3. buffers' \in [Slots -> Buffer]
    <3> HIDE DEF b
    <3> QED
      BY <2>1, <2>2, PoolOperators
  <2>4. content' \in [Slots -> Nat]
    BY <1>0, <1>8, <2>1 DEF AllocateBack, Typed
  <2>5. /\ back' = Chosen
        /\ UNCHANGED <<kind, window, surface, private, width, resized, received, current,
                       throttle, held, lost, interval, frame>>
    BY <1>8 DEF AllocateBack, Chose
  <2> HIDE DEF b
  <2> QED
    BY <1>0, <1>a, <2>1, <2>3, <2>4, <2>5 DEF Typed
<1>9. CASE AllocateBackFails
  <2>1. Chosen \in Slots
    BY <1>9, ChosenIsUnlocked DEF AllocateBackFails
  <2>2. buffers' \in [Slots -> Buffer]
    BY <1>0, <1>9, <2>1, PoolTyped DEF AllocateBackFails, Typed, Buffer
  <2>3. back' = Chosen /\ content' = content
    BY <1>9 DEF AllocateBackFails, Chose
  <2>4. UNCHANGED <<kind, window, surface, private, width, resized, received, current,
                    throttle, held, lost, interval, frame>>
    BY <1>9 DEF AllocateBackFails, Chose
  <2> QED
    BY <1>0, <1>a, <2>1, <2>2, <2>3, <2>4 DEF Typed
<1>10. CASE ChooseFails
  BY <1>0, <1>10 DEF ChooseFails, Typed
<1>11. CASE Present
  <2>1. back \in Slots
    BY <1>0, <1>a, <1>11 DEF Present, Places, Typed, Slots
  <2>2. buffers' \in [Slots -> Buffer]
    BY <1>0, <1>11, <2>1, PoolTyped DEF Present, Typed, Buffer
  <2>3. content' \in [Slots -> Nat]
    BY <1>0, <1>b, <1>11, <2>1 DEF Present, Typed
  <2> QED
    BY <1>0, <1>a, <1>11, <2>1, <2>2, <2>3 DEF Present, Typed
<1>12. CASE PresentFails
  <2>1. back \in Slots
    BY <1>0, <1>a, <1>12 DEF PresentFails, Places, Typed, Slots
  <2>2. buffers' \in [Slots -> Buffer]
    BY <1>0, <1>12, <2>1, PoolTyped DEF PresentFails, Typed, Buffer
  <2>3. content' \in [Slots -> Nat]
    BY <1>0, <1>b, <1>12, <2>1 DEF PresentFails, Typed
  <2> QED
    BY <1>0, <1>a, <1>12, <2>1, <2>2, <2>3 DEF PresentFails, Typed
<1>13. CASE SwrastPresent
  <2>1. back \in Slots
    BY <1>0, <1>a, <1>13 DEF SwrastPresent, Places, Typed, Slots
  <2>2. content' \in [Slots -> Nat]
    BY <1>0, <1>b, <1>13, <2>1 DEF SwrastPresent, Typed
  <2> QED
    BY <1>0, <1>a, <1>13, <2>1, <2>2 DEF SwrastPresent, Typed
<1>14. CASE PresentNothing
  BY <1>0, <1>14 DEF PresentNothing, Typed
<1>15. CASE ThrottleFails
  <2>1. CASE kind = "swrast" /\ HasImage(buffers, back)
    <3>1. back \in Slots /\ frame < MaxFrame
      BY <1>0, <1>a, <1>15, <2>1 DEF ThrottleFails, Places, Typed, Slots
    <3>2. content' \in [Slots -> Nat] /\ frame' \in 0 .. MaxFrame
      BY <1>0, <1>b, <1>15, <2>1, <3>1 DEF ThrottleFails, Typed
    <3> QED
      BY <1>0, <1>a, <1>15, <2>1, <3>1, <3>2 DEF ThrottleFails, Typed
  <2>2. CASE ~(kind = "swrast" /\ HasImage(buffers, back))
    BY <1>0, <1>15, <2>2 DEF ThrottleFails, Typed
  <2> QED
    BY <2>1, <2>2
<1>16. CASE \E i \in Slots : DispatchRelease(i)
  <2>1. PICK i \in Slots : DispatchRelease(i)
    BY <1>16
  <2>2. buffers' \in [Slots -> Buffer]
    BY <1>0, <2>1, ReleasedBuffer DEF DispatchRelease, Typed
  <2> QED
    BY <1>0, <2>1, <2>2 DEF DispatchRelease, Typed
<1>17. CASE DispatchDone \/ DispatchFeedback
  <2>1. CASE DispatchDone
    BY <1>0, <2>1 DEF DispatchDone, Typed
  <2>2. CASE DispatchFeedback
    BY <1>0, <2>2 DEF DispatchFeedback, Typed
  <2> QED
    BY <1>17, <2>1, <2>2
<1>18. CASE UNCHANGED vars
  BY <1>0, <1>18 DEF vars, Typed
<1> QED
  BY <1>1, <1>2, <1>3, <1>4, <1>5, <1>6, <1>7, <1>8, <1>9, <1>10, <1>11, <1>12, <1>13,
     <1>14, <1>15, <1>16, <1>17, <1>18
  DEF Next, Application, Client, Failure

\* Every step of a call leads to a step of the same kind of call.
LEMMA NextPlaces == Pooled /\ [Next]_vars => Places'
<1> SUFFICES ASSUME Pooled, [Next]_vars PROVE Places'
  OBVIOUS
<1>0. Places /\ Follows
  BY DEF Pooled
<1>a. frame \in Nat /\ MaxFrame \in Nat /\ kind \in {"drm", "swrast", "kopper"}
  BY BoundsAssumption DEF Pooled, Typed
<1> USE DEF size, client, flags, pool, server, Returns
<1>1. CASE Application
  <2>1. CASE CreateSurface \/ DestroySurface
    BY <1>0, <2>1 DEF CreateSurface, DestroySurface, Places
  <2>2. CASE Resize \/ DestroyWindow
    BY <1>0, <2>2 DEF Resize, DestroyWindow, Places
  <2>3. CASE BeginRender
    BY <1>0, <2>3 DEF BeginRender, Places
  <2>4. CASE BeginSwap
    BY <1>0, <2>4 DEF BeginSwap, Places
  <2> QED
    BY <1>1, <2>1, <2>2, <2>3, <2>4 DEF Application
<1>2. CASE Throttled
  BY <1>0, <1>a, <1>2 DEF Throttled, Places
<1>3. CASE UpdateBuffers \/ SwrastUpdateBuffers \/ KopperUpdateBuffers
  BY <1>0, <1>3 DEF UpdateBuffers, SwrastUpdateBuffers, KopperUpdateBuffers, Places
<1>4. CASE ChooseBack \/ AllocateBack
  <2>1. /\ step = "choose" /\ back' # 0
        /\ step' = IF call = "render" THEN "idle" ELSE IF kind = "drm" THEN "present" ELSE "throttle"
        /\ call' = IF call = "render" THEN "none" ELSE call
        /\ UNCHANGED <<kind, surface, frame>>
    BY <1>4 DEF ChooseBack, AllocateBack, Chose
  <2> QED
    BY <1>0, <1>a, <2>1 DEF Places
<1>5. CASE AllocateBackFails
  <2>1. CASE kind = "swrast" /\ Chose(Chosen)
    <3>1. /\ step = "choose" /\ back' # 0
          /\ step' = IF call = "render" THEN "idle" ELSE "throttle"
          /\ call' = IF call = "render" THEN "none" ELSE call
          /\ UNCHANGED <<kind, surface, frame>>
      BY <1>5, <2>1 DEF AllocateBackFails, Chose
    <3> QED
      BY <1>0, <2>1, <3>1 DEF Places
  <2>2. CASE ~(kind = "swrast" /\ Chose(Chosen))
    BY <1>0, <1>5, <2>2 DEF AllocateBackFails, Places
  <2> QED
    BY <2>1, <2>2
<1>6. CASE ChooseFails \/ PresentFails \/ ThrottleFails
  BY <1>0, <1>6 DEF ChooseFails, PresentFails, ThrottleFails, Places
<1>7. CASE Present \/ SwrastPresent \/ PresentNothing
  BY <1>0, <1>7 DEF Present, SwrastPresent, PresentNothing, Places
<1>8. CASE \/ (\E i \in Slots : DispatchRelease(i)) \/ DispatchDone \/ DispatchFeedback
           \/ UNCHANGED vars
  <2>1. UNCHANGED <<kind, surface, call, step, back, resized, frame>>
    BY <1>8 DEF vars, DispatchRelease, DispatchDone, DispatchFeedback
  <2> QED
    BY <1>0, <2>1 DEF Places
<1> QED
  BY <1>1, <1>2, <1>3, <1>4, <1>5, <1>6, <1>7, <1>8 DEF Next, Client, Failure

\* Every step keeps the surface, its private part and its size in line.
LEMMA NextFollows == Pooled /\ [Next]_vars => Follows'
<1> SUFFICES ASSUME Pooled, [Next]_vars PROVE Follows'
  OBVIOUS
<1>0. Places /\ Follows /\ Typed
  BY DEF Pooled
<1>a. 0 \notin Sizes
  BY SizesAssumption
<1> USE DEF size, client, flags, pool, server, Returns
<1>1. CASE CreateSurface \/ DestroySurface
  BY <1>0, <1>1 DEF CreateSurface, DestroySurface, Follows
<1>2. CASE Resize
  BY <1>0, <1>a, <1>2 DEF Resize, Follows
<1>3. CASE DestroyWindow
  BY <1>0, <1>3 DEF DestroyWindow, Follows
<1>4. CASE UpdateBuffers
  BY <1>0, <1>4 DEF UpdateBuffers, Follows
<1>5. CASE SwrastUpdateBuffers
  BY <1>0, <1>5 DEF SwrastUpdateBuffers, Follows
<1>6. CASE KopperUpdateBuffers
  BY <1>0, <1>6 DEF KopperUpdateBuffers, Follows
<1>7. CASE ChooseFails \/ PresentNothing \/ ThrottleFails
  BY <1>0, <1>7 DEF ChooseFails, PresentNothing, ThrottleFails, Follows
<1>8. CASE AllocateBackFails
  <2>1. UNCHANGED <<kind, surface, private, width, window, resized>>
    BY <1>8 DEF AllocateBackFails, Chose
  <2> QED
    BY <1>0, <2>1 DEF Follows
<1>9. CASE \/ BeginRender \/ BeginSwap \/ Throttled \/ ChooseBack \/ AllocateBack
           \/ Present \/ SwrastPresent \/ PresentFails
           \/ (\E i \in Slots : DispatchRelease(i)) \/ DispatchDone \/ DispatchFeedback
           \/ UNCHANGED vars
  <2>1. UNCHANGED <<kind, surface, private, width, window, resized>>
    BY <1>9 DEF vars, BeginRender, BeginSwap, Throttled, ChooseBack, AllocateBack, Chose,
           Present, SwrastPresent, PresentFails, DispatchRelease, DispatchDone, DispatchFeedback
  <2> QED
    BY <1>0, <2>1 DEF Follows
<1> QED
  BY <1>1, <1>2, <1>3, <1>4, <1>5, <1>6, <1>7, <1>8, <1>9 DEF Next, Application, Client, Failure

\* A batch that comes with a table, or with the mark of one that cannot be mapped.
LEMMA BatchWithTable ==
    ASSUME NEW f, f.pending # 0
    PROVE  FeedbackDone(TrancheFormats(f))
             = [pending |-> 0, table |-> f.pending, batch |-> f.batch + 1,
                mapped |-> f.mapped \ {f.table}]
BY DEF TrancheFormats, FeedbackDone

\* A batch of feedback, with a table, without one, or with one that cannot be mapped.
LEMMA NextTable == Pooled /\ [Next]_vars => TableInForce'
<1> SUFFICES ASSUME Pooled, [Next]_vars PROVE TableInForce'
  OBVIOUS
<1>0. TableInForce /\ MaxBatch \in Nat
  BY BoundsAssumption DEF Pooled
<1> USE DEF size, client, flags, pool, server, Returns
<1>1. CASE DispatchFeedback
  <2> DEFINE c == feedback.batch
             t == feedback.table
             m == {t} \ {0, MapFailed}
  <2>1. /\ c \in Nat /\ c + 1 \in 0 .. MaxBatch /\ c + 1 # 0 /\ c + 1 # MapFailed
        /\ t \in Int /\ t # c + 1 /\ t \in {MapFailed} \union (0 .. c + 1)
    BY <1>0, <1>1 DEF DispatchFeedback, TableInForce, MapFailed
  <2>2. feedback = [pending |-> 0, table |-> t, batch |-> c, mapped |-> m]
    BY <1>0 DEF TableInForce
  <2> HIDE DEF c, t
  <2>3. CASE feedback' = FeedbackDone(TrancheFormats(FormatTable(feedback, TRUE)))
    <3>1. FormatTable(feedback, TRUE)
             = [pending |-> c + 1, table |-> t, batch |-> c, mapped |-> m \union {c + 1}]
      BY <2>2 DEF FormatTable
    <3>2. feedback' = [pending |-> 0, table |-> c + 1, batch |-> c + 1,
                       mapped |-> (m \union {c + 1}) \ {t}]
      <4> DEFINE f == FormatTable(feedback, TRUE)
      <4>1. f = [pending |-> c + 1, table |-> t, batch |-> c, mapped |-> m \union {c + 1}]
        BY <3>1
      <4> HIDE DEF f, m
      <4>2. f.pending = c + 1 /\ f.table = t /\ f.batch = c /\ f.mapped = m \union {c + 1}
        BY <4>1
      <4>3. c + 1 # 0
        BY <2>1 DEF MapFailed
      <4>4. FeedbackDone(TrancheFormats(f)) = [pending |-> 0, table |-> f.pending,
                batch |-> f.batch + 1, mapped |-> f.mapped \ {f.table}]
        BY <4>2, <4>3, BatchWithTable
      <4> QED
        BY <2>3, <4>2, <4>4 DEF f
    <3> QED
      BY <2>1, <3>2 DEF TableInForce
  <2>4. CASE feedback' = FeedbackDone(TrancheFormats(FormatTable(feedback, FALSE)))
    <3>1. FormatTable(feedback, FALSE)
             = [pending |-> MapFailed, table |-> t, batch |-> c, mapped |-> m]
      BY <2>2 DEF FormatTable
    <3>2. feedback' = [pending |-> 0, table |-> MapFailed, batch |-> c + 1, mapped |-> m \ {t}]
      <4> DEFINE f == FormatTable(feedback, FALSE)
      <4>1. f = [pending |-> MapFailed, table |-> t, batch |-> c, mapped |-> m]
        BY <3>1
      <4> HIDE DEF f, m
      <4>2. f.pending = MapFailed /\ f.table = t /\ f.batch = c /\ f.mapped = m
        BY <4>1
      <4>3. MapFailed # 0
        BY <2>1 DEF MapFailed
      <4>4. FeedbackDone(TrancheFormats(f)) = [pending |-> 0, table |-> f.pending,
                batch |-> f.batch + 1, mapped |-> f.mapped \ {f.table}]
        BY <4>2, <4>3, BatchWithTable
      <4> QED
        BY <2>4, <4>2, <4>4 DEF f
    <3> QED
      BY <2>1, <3>2 DEF TableInForce
  <2>5. CASE feedback' = FeedbackDone(TrancheFormats(feedback))
    <3>1. feedback' = [pending |-> 0, table |-> t, batch |-> c + 1, mapped |-> m \ {0}]
      BY <2>1, <2>2, <2>5 DEF TrancheFormats, FeedbackDone
    <3> QED
      BY <2>1, <3>1 DEF TableInForce
  <2> QED
    BY <1>1, <2>3, <2>4, <2>5 DEF DispatchFeedback
<1>2. CASE DestroySurface
  BY <1>0, <1>2 DEF DestroySurface, TableInForce, NoFeedback
<1>3. CASE ~(DispatchFeedback \/ DestroySurface)
  <2>1. feedback' = feedback
    BY <1>3 DEF vars, Next, Application, Client, Failure, CreateSurface, Resize, DestroyWindow,
           BeginRender, BeginSwap, Throttled, UpdateBuffers, SwrastUpdateBuffers,
           KopperUpdateBuffers, ChooseBack, AllocateBack, AllocateBackFails, Chose, ChooseFails,
           Present, PresentFails, SwrastPresent, PresentNothing, ThrottleFails,
           DispatchRelease, DispatchDone
  <2> QED
    BY <1>0, <2>1 DEF TableInForce
<1> QED
  BY <1>1, <1>2, <1>3
-----------------------------------------------------------------------------
\* What the invariant says of one buffer.
Right(i) ==
    /\ surface = "none" \/ kind = "kopper" => ~HasImage(buffers, i)
    /\ i = back /\ HasImage(buffers, i) => buffers[i].locked
    /\ buffers[i].release => buffers[i].locked /\ ~HasImage(buffers, i) /\ i # back
    /\ HasImage(buffers, i) =>
          /\ buffers[i].image.size = width \/ (kind = "drm" /\ resized /\ i # back)
          /\ buffers[i].image.batch = feedback.batch \/ received
          /\ kind = "swrast" => buffers[i].wl
    /\ i \in held => buffers[i].wl /\ buffers[i].locked /\ i # back
    /\ buffers[i].locked => i \in {back} \union held \union lost
    /\ buffers[i].age > 0 =>
          /\ kind = "drm"
          /\ content[i] \in 1 .. frame
          /\ buffers[i].age = frame - content[i] + 1

\* The invariant, a buffer at a time.
LEMMA BufferByBuffer ==
    /\ Pooled => \A i \in Slots : Right(i)
    /\ Typed /\ (\A i \in Slots : Right(i)) =>
          /\ Bare /\ BackIsLocked /\ GivenUp /\ ImagesFit
          /\ HeldIsLocked /\ LockedIsAwaited /\ AgeIsExact
<1>1. Pooled => \A i \in Slots : Right(i)
  <2>0. \A i \in Slots : i # 0
    BY DEF Slots
  <2> QED
    BY <2>0 DEF Pooled, Right, Bare, BackIsLocked, GivenUp, ImagesFit, HeldIsLocked,
           LockedIsAwaited, AgeIsExact
<1>2. ASSUME Typed, \A i \in Slots : Right(i)
      PROVE  /\ Bare /\ BackIsLocked /\ GivenUp /\ ImagesFit
             /\ HeldIsLocked /\ LockedIsAwaited /\ AgeIsExact
  <2>1. held \subseteq Slots /\ (back # 0 => back \in Slots)
    BY <1>2, BuffersAssumption DEF Typed, Slots
  <2>2. Bare /\ GivenUp /\ ImagesFit
    BY <1>2 DEF Right, Bare, GivenUp, ImagesFit
  <2>3. BackIsLocked /\ HeldIsLocked
    BY <1>2, <2>1 DEF Right, BackIsLocked, HeldIsLocked
  <2>4. LockedIsAwaited /\ AgeIsExact
    BY <1>2 DEF Right, LockedIsAwaited, AgeIsExact
  <2> QED
    BY <2>2, <2>3, <2>4
<1> QED
  BY <1>1, <1>2

\* Every step keeps every buffer right.
LEMMA NextRight == Pooled /\ [Next]_vars => \A i \in Slots : Right(i)'
<1> SUFFICES ASSUME Pooled, [Next]_vars, NEW i \in Slots PROVE Right(i)'
  OBVIOUS
<1>0. Right(i) /\ Places /\ Follows /\ TableInForce
  BY BufferByBuffer DEF Pooled
<1>a. /\ buffers \in [Slots -> Buffer] /\ buffers[i] \in Buffer /\ content \in [Slots -> Nat]
      /\ content[i] \in Nat /\ frame \in Nat /\ i # 0 /\ kind \in {"drm", "swrast", "kopper"}
      /\ (back # 0 => back \in Slots)
      /\ surface \in {"none", "live", "crashed"}
  BY BuffersAssumption DEF Pooled, Typed, Slots
<1>b. NoBuffer \in Buffer /\ ~NoBuffer.locked /\ ~NoBuffer.release /\ NoBuffer.image = NoImage
      /\ NoBuffer.age = 0 /\ ~NoBuffer.wl
  BY DEF NoBuffer, NoImage, Buffer
<1> USE DEF size, client, flags, pool, server, Returns, HasImage
<1>1. CASE CreateSurface
  BY <1>0, <1>1 DEF CreateSurface, Right
<1>2. CASE DestroySurface
  <2>1. buffers'[i] = NoBuffer
    BY <1>2 DEF DestroySurface
  <2> QED
    BY <1>2, <1>b, <2>1 DEF DestroySurface, Right
<1>3. CASE Resize
  BY <1>0, <1>a, <1>3 DEF Resize, Right, Follows
<1>4. CASE \/ DestroyWindow \/ BeginRender \/ BeginSwap \/ KopperUpdateBuffers \/ ChooseFails
           \/ PresentNothing
  <2>1. UNCHANGED <<kind, resized, received, buffers, back, content, held, feedback, frame, lost>>
        /\ (surface' = surface \/ surface' = "crashed")
    BY <1>4 DEF DestroyWindow, BeginRender, BeginSwap, KopperUpdateBuffers, ChooseFails,
           PresentNothing
  <2>2. width' = width \/ (kind = "kopper" /\ step = "update")
    BY <1>4 DEF DestroyWindow, BeginRender, BeginSwap, KopperUpdateBuffers, ChooseFails,
           PresentNothing
  <2> QED
    BY <1>0, <1>a, <2>1, <2>2 DEF Right
<1>5. CASE Throttled
  <2>1. CASE kind = "drm"
    <3>1. /\ buffers'[i].image = buffers[i].image /\ buffers'[i].wl = buffers[i].wl
          /\ buffers'[i].locked = buffers[i].locked /\ buffers'[i].release = buffers[i].release
      BY <1>a, <1>5, <2>1, PoolOperators DEF Throttled
    <3>a. buffers'[i].age = IF buffers[i].age > 0 THEN buffers[i].age + 1 ELSE 0
      BY <1>a, <1>5, <2>1, PoolOperators DEF Throttled
    <3>2. UNCHANGED <<kind, surface, width, resized, received, back, content, held, feedback, lost>>
          /\ frame' = frame + 1
      BY <1>5 DEF Throttled
    <3>3. buffers'[i].age > 0 =>
             content[i] \in 1 .. frame + 1 /\ buffers'[i].age = frame + 1 - content[i] + 1
      <4>1. buffers[i].age \in Nat
        BY <1>a DEF Buffer
      <4> QED
        BY <1>0, <1>a, <3>a, <4>1 DEF Right
    <3>4. HasImage(buffers, i)' <=> HasImage(buffers, i)
      BY <3>1
    <3> QED
      BY <1>0, <1>a, <2>1, <3>1, <3>2, <3>3, <3>4 DEF Right
  <2>2. CASE kind # "drm"
    BY <1>0, <2>2, <1>5 DEF Throttled, Right
  <2> QED
    BY <2>1, <2>2
<1>6. CASE UpdateBuffers
  <2>1. CASE resized \/ received
    <3>1. /\ buffers'[i].image = NoImage /\ buffers'[i].age = 0
          /\ buffers'[i].locked = buffers[i].locked
          /\ (buffers'[i].wl <=> buffers[i].wl /\ buffers[i].locked)
          /\ (buffers'[i].release => buffers[i].release \/ buffers[i].locked)
      BY <1>a, <1>6, <2>1, PoolOperators DEF UpdateBuffers
    <3>2. back = 0 /\ back' = 0 /\ ~HasImage(buffers, i)'
          /\ UNCHANGED <<kind, surface, content, held, feedback, frame, lost>>
      BY <1>0, <1>6, <3>1 DEF UpdateBuffers, Places
    <3> QED
      BY <1>0, <1>a, <3>1, <3>2 DEF Right
  <2>2. CASE ~(resized \/ received)
    <3>1. surface = "live" /\ width' = width
      BY <1>0, <1>a, <1>6, <2>2 DEF UpdateBuffers, Places, Follows, Next, vars
    <3> QED
      BY <1>0, <1>6, <2>2, <3>1 DEF UpdateBuffers, Right
  <2> QED
    BY <2>1, <2>2
<1>7. CASE SwrastUpdateBuffers
  <2>1. CASE window \notin {0, width}
    <3>1. /\ buffers'[i].image = NoImage /\ buffers'[i].age = 0
          /\ buffers'[i].locked = buffers[i].locked
          /\ (buffers'[i].wl <=> buffers[i].wl /\ buffers[i].locked)
          /\ (buffers'[i].release => buffers[i].release \/ buffers[i].locked)
      BY <1>a, <1>7, <2>1, PoolOperators DEF SwrastUpdateBuffers
    <3>2. back = 0 /\ back' = 0 /\ ~HasImage(buffers, i)'
          /\ UNCHANGED <<kind, surface, content, held, feedback, frame, lost>>
      BY <1>0, <1>7, <3>1 DEF SwrastUpdateBuffers, Places
    <3> QED
      BY <1>0, <1>a, <3>1, <3>2 DEF Right
  <2>2. CASE window \in {0, width}
    BY <1>0, <1>7, <2>2 DEF SwrastUpdateBuffers, Right
  <2> QED
    BY <2>1, <2>2
<1>8. CASE ChooseBack
  <2> DEFINE b == [buffers EXCEPT ![Chosen].locked = TRUE]
  <2>1. Chosen \in Slots /\ ~buffers[Chosen].locked /\ HasImage(buffers, Chosen)
    BY <1>8, ChosenIsUnlocked DEF ChooseBack
  <2>2. b \in [Slots -> Buffer] /\ buffers' = Trimmed(b)
    BY <1>a, <1>8, <2>1 DEF ChooseBack, Buffer
  <2>3. (i # Chosen => b[i] = buffers[i]) /\ (i = Chosen => b[i] = [buffers[i] EXCEPT !.locked = TRUE])
    BY <1>a, <2>1
  <2> HIDE DEF b
  <2>4. buffers'[i] = b[i] \/ (~b[i].locked /\ buffers'[i] = NoBuffer)
    BY <2>2, PoolOperators
  <2>5. step = "choose" /\ back = 0 /\ back' = Chosen
        /\ UNCHANGED <<kind, surface, width, resized, received, content, held, feedback, frame, lost>>
    BY <1>0, <1>8 DEF ChooseBack, Chose, Places
  <2>6. CASE i = Chosen
    <3>1. /\ buffers'[i].locked /\ buffers'[i].image = buffers[i].image
          /\ buffers'[i].wl = buffers[i].wl /\ buffers'[i].age = buffers[i].age
          /\ buffers'[i].release = buffers[i].release
      BY <1>a, <2>3, <2>4, <2>6 DEF Buffer
    <3> QED
      BY <1>0, <2>1, <2>5, <2>6, <3>1 DEF Right, Places
  <2>7. CASE i # Chosen
    BY <1>0, <1>a, <1>b, <2>3, <2>4, <2>5, <2>7 DEF Right
  <2> QED
    BY <2>6, <2>7
<1>9. CASE AllocateBack
  <2> DEFINE b == [buffers EXCEPT ![Chosen].image = NewImage, ![Chosen].age = 0,
                       ![Chosen].locked = TRUE,
                       ![Chosen].wl = buffers[Chosen].wl \/ kind = "swrast"]
  <2>1. Chosen \in Slots /\ ~buffers[Chosen].locked
    BY <1>9, ChosenIsUnlocked DEF AllocateBack
  <2>2. b \in [Slots -> Buffer]
    <3>1. (buffers[Chosen].wl \/ kind = "swrast") \in BOOLEAN
      OBVIOUS
    <3> QED
      BY <2>1, <3>1, NewImageTyped, PoolTyped DEF Pooled
  <2>3. buffers' = Trimmed(b)
    BY <1>9 DEF AllocateBack
  <2>4. /\ (i # Chosen => b[i] = buffers[i])
        /\ (i = Chosen => b[i] = [buffers[i] EXCEPT !.image = NewImage, !.age = 0, !.locked = TRUE,
                                         !.wl = buffers[i].wl \/ kind = "swrast"])
    BY <1>a, <2>1
  <2> HIDE DEF b
  <2>5. buffers'[i] = b[i] \/ (~b[i].locked /\ buffers'[i] = NoBuffer)
    BY <2>2, <2>3, PoolOperators
  <2>6. step = "choose" /\ back = 0 /\ back' = Chosen
        /\ content' = [content EXCEPT ![Chosen] = 0]
        /\ UNCHANGED <<kind, surface, width, resized, received, held, feedback, frame, lost>>
    BY <1>0, <1>9 DEF AllocateBack, Chose, Places
  <2>7. CASE i = Chosen
    <3>1. /\ buffers'[i].locked /\ buffers'[i].image = NewImage
          /\ (buffers'[i].wl <=> buffers[i].wl \/ kind = "swrast") /\ buffers'[i].age = 0
          /\ buffers'[i].release = buffers[i].release
      <4>1. /\ b[i].locked /\ b[i].image = NewImage /\ b[i].age = 0
            /\ (b[i].wl <=> buffers[i].wl \/ kind = "swrast") /\ b[i].release = buffers[i].release
        <5> HIDE DEF NewImage
        <5> QED
          BY <1>a, <2>4, <2>7 DEF Buffer
      <4> QED
        BY <2>5, <4>1
    <3>2. surface # "none" /\ kind # "kopper"
      BY <1>0, <2>6 DEF Places
    <3>3. buffers'[i].image.size = width /\ buffers'[i].image.batch = feedback.batch
      BY <3>1, NewImageTyped
    <3>4. ~buffers'[i].release /\ i \notin held
      BY <1>0, <2>1, <2>7, <3>1 DEF Right
    <3> QED
      BY <2>6, <2>7, <3>1, <3>2, <3>3, <3>4 DEF Right
  <2>8. CASE i # Chosen
    <3>1. content'[i] = content[i]
      BY <1>a, <2>6, <2>8
    <3> QED
      BY <1>0, <1>a, <1>b, <2>4, <2>5, <2>6, <2>8, <3>1 DEF Right
  <2> QED
    BY <2>7, <2>8
<1>10. CASE AllocateBackFails
  <2>1. Chosen \in Slots /\ ~buffers[Chosen].locked /\ ~HasImage(buffers, Chosen)
    BY <1>10, ChosenIsUnlocked DEF AllocateBackFails
  <2>2. step = "choose" /\ back = 0 /\ back' = Chosen
        /\ buffers' = [buffers EXCEPT ![Chosen].age = 0]
        /\ UNCHANGED <<kind, surface, width, resized, received, content, held, feedback, frame, lost>>
    BY <1>0, <1>10 DEF AllocateBackFails, Chose, Places
  <2>3. /\ buffers'[i].image = buffers[i].image /\ buffers'[i].locked = buffers[i].locked
        /\ buffers'[i].wl = buffers[i].wl /\ buffers'[i].release = buffers[i].release
        /\ buffers'[i].age \in {0, buffers[i].age}
    BY <1>a, <2>1, <2>2 DEF Buffer
  <2> QED
    BY <1>0, <1>a, <2>1, <2>2, <2>3 DEF Right
<1>11. CASE Present
  <2>1. back \in Slots /\ frame > 0 /\ kind = "drm" /\ HasImage(buffers, back)
    BY <1>0, <1>a, <1>11 DEF Present, Places
  <2>2. UNCHANGED <<kind, surface, width, resized, received, feedback, frame, lost>>
        /\ back' = 0 /\ held' = held \union {back} /\ content' = [content EXCEPT ![back] = frame]
    BY <1>11 DEF Present
  <2>3. CASE i = back
    <3>1. /\ buffers'[i].image = buffers[i].image /\ buffers'[i].locked = buffers[i].locked
          /\ buffers'[i].wl /\ buffers'[i].age = 1
          /\ (buffers'[i].release => buffers[i].release)
          /\ content'[i] = frame
      BY <1>a, <1>11, <2>3 DEF Present, Buffer
    <3>2. 1 = frame - frame + 1 /\ frame \in 1 .. frame
      BY <1>a, <2>1
    <3> QED
      BY <1>0, <1>a, <2>1, <2>2, <2>3, <3>1, <3>2 DEF Right
  <2>4. CASE i # back
    <3>1. buffers'[i] = buffers[i] /\ content'[i] = content[i]
      BY <1>a, <1>11, <2>4 DEF Present
    <3> QED
      BY <1>0, <1>a, <2>2, <2>4, <3>1 DEF Right
  <2> QED
    BY <2>3, <2>4
<1>12. CASE PresentFails
  <2>1. back \in Slots /\ frame > 0 /\ kind = "drm" /\ HasImage(buffers, back)
    BY <1>0, <1>a, <1>12 DEF PresentFails, Places
  <2>2. UNCHANGED <<kind, surface, width, resized, received, feedback, frame, held>>
        /\ back' = 0 /\ lost' = lost \union {back} /\ content' = [content EXCEPT ![back] = frame]
        /\ buffers' = [buffers EXCEPT ![back].age = 1]
    BY <1>12 DEF PresentFails
  <2>3. CASE i = back
    <3>1. /\ buffers'[i].image = buffers[i].image /\ buffers'[i].locked = buffers[i].locked
          /\ buffers'[i].wl = buffers[i].wl /\ buffers'[i].age = 1
          /\ buffers'[i].release = buffers[i].release
          /\ content'[i] = frame
      BY <1>a, <2>2, <2>3 DEF Buffer
    <3>2. 1 = frame - frame + 1 /\ frame \in 1 .. frame
      BY <1>a, <2>1
    <3> QED
      BY <1>0, <1>a, <2>1, <2>2, <2>3, <3>1, <3>2 DEF Right
  <2>4. CASE i # back
    <3>1. buffers'[i] = buffers[i] /\ content'[i] = content[i]
      BY <1>a, <2>2, <2>4
    <3> QED
      BY <1>0, <1>a, <2>2, <2>4, <3>1 DEF Right
  <2> QED
    BY <2>3, <2>4
<1>13. CASE SwrastPresent
  <2>1. kind = "swrast" /\ HasImage(buffers, back) /\ back \in Slots
    BY <1>0, <1>a, <1>13 DEF SwrastPresent, Places
  <2>2. UNCHANGED <<kind, surface, width, resized, received, buffers, feedback, frame, lost>>
        /\ back' = 0 /\ held' = held \union {back}
    BY <1>13 DEF SwrastPresent
  <2> QED
    BY <1>0, <1>a, <2>1, <2>2 DEF Right
<1>14. CASE ThrottleFails
  <2>1. CASE kind = "swrast" /\ HasImage(buffers, back)
    <3>1. UNCHANGED <<kind, surface, width, resized, received, buffers, feedback, held>>
          /\ back' = 0 /\ lost' = lost \union {back}
      BY <1>14, <2>1 DEF ThrottleFails
    <3> QED
      BY <1>0, <1>a, <2>1, <3>1 DEF Right
  <2>2. CASE ~(kind = "swrast" /\ HasImage(buffers, back))
    <3>1. /\ UNCHANGED <<kind, width, resized, received, buffers, feedback, held, back, lost, frame,
                         content>>
          /\ surface' = surface \/ surface' = "crashed"
      BY <1>14, <2>2 DEF ThrottleFails
    <3> QED
      BY <1>0, <3>1 DEF Right
  <2> QED
    BY <2>1, <2>2
<1>15. CASE \E j \in Slots : DispatchRelease(j)
  <2>1. PICK j \in Slots : DispatchRelease(j)
    BY <1>15
  <2>2. Right(j) /\ j \in held /\ buffers' = BufferRelease(buffers, j) /\ held' = held \ {j}
        /\ UNCHANGED <<kind, surface, width, resized, received, back, content, feedback, frame, lost>>
    BY <2>1, BufferByBuffer DEF DispatchRelease
  <2>3. CASE i = j
    <3>1. /\ ~buffers'[i].locked /\ ~buffers'[i].release /\ buffers'[i].image = buffers[i].image
          /\ buffers'[i].age \in {0, buffers[i].age}
          /\ (~buffers[i].release => buffers'[i].wl = buffers[i].wl)
      BY <1>a, <2>2, <2>3, ReleasedBuffer
    <3> QED
      BY <1>0, <1>a, <2>2, <2>3, <3>1 DEF Right
  <2>4. CASE i # j
    <3>1. buffers'[i] = buffers[i]
      BY <1>a, <2>2, <2>4, ReleasedBuffer
    <3> QED
      BY <1>0, <1>a, <2>2, <2>4, <3>1 DEF Right
  <2> QED
    BY <2>3, <2>4
<1>16. CASE DispatchFeedback
  BY <1>0, <1>16 DEF DispatchFeedback, Right
<1>17. CASE DispatchDone \/ UNCHANGED vars
  BY <1>0, <1>17 DEF DispatchDone, vars, Right
<1> QED
  BY <1>1, <1>2, <1>3, <1>4, <1>5, <1>6, <1>7, <1>8, <1>9, <1>10, <1>11, <1>12, <1>13, <1>14,
     <1>15, <1>16, <1>17
  DEF Next, Application, Client, Failure

\* The invariant holds in every state.
LEMMA AlwaysPooled == Spec => []Pooled
<1>1. Pooled /\ [Next]_vars => Pooled'
  <2> SUFFICES ASSUME Pooled, [Next]_vars PROVE Pooled'
    OBVIOUS
  <2>1. Typed' /\ Places' /\ Follows' /\ TableInForce'
    BY NextTyped, NextPlaces, NextFollows, NextTable
  <2>2. \A i \in Slots : Right(i)'
    BY NextRight
  <2>3. Typed' /\ (\A i \in Slots : Right(i))' =>
           (/\ Bare /\ BackIsLocked /\ GivenUp /\ ImagesFit
            /\ HeldIsLocked /\ LockedIsAwaited /\ AgeIsExact)'
    BY BufferByBuffer, PTL
  <2> QED
    BY <2>1, <2>2, <2>3 DEF Pooled
<1> QED
  BY <1>1, InitPooled, PTL DEF Spec
-----------------------------------------------------------------------------
(***************************************************************************)
(* The types of the variables of platform_wayland.c; an age is at most the *)
(* number of swaps.                                                        *)
(***************************************************************************)
THEOREM TypeCorrect == Spec => []TypeOK
<1>1. Pooled => TypeOK
  <2> SUFFICES ASSUME Pooled PROVE TypeOK
    OBVIOUS
  <2>1. Typed /\ Places /\ AgeIsExact /\ TableInForce
    BY DEF Pooled
  <2>2. ASSUME NEW i \in Slots PROVE buffers[i].age \in 0 .. MaxFrame + 1
    <3>1. buffers[i].age \in Nat /\ frame \in 0 .. MaxFrame /\ MaxFrame \in Nat
      BY <2>1, BoundsAssumption DEF Typed, Buffer
    <3>2. buffers[i].age > 0 =>
             content[i] \in 1 .. frame /\ buffers[i].age = frame - content[i] + 1
      BY <2>1 DEF AgeIsExact
    <3> QED
      BY <3>1, <3>2
  <2>3. /\ call \in {"none", "render", "swap"} /\ (call = "none") = (step = "idle")
        /\ step \in {"idle", "throttle", "update", "choose", "present"}
    BY <2>1 DEF Places
  <2> QED
    BY <2>1, <2>2, <2>3 DEF TypeOK, Typed, TableInForce
<1> QED
  BY <1>1, AlwaysPooled, PTL

(***************************************************************************)
(* The assertion of wl_buffer_release: what the compositor holds is locked *)
(* and known, and the client does not draw into it.                        *)
(***************************************************************************)
THEOREM HeldAreLocked == Spec => []HeldIsLocked
<1>1. Pooled => HeldIsLocked
  BY DEF Pooled
<1> QED
  BY <1>1, AlwaysPooled, PTL

(***************************************************************************)
(* No buffer is locked for good, but those the client gave up when its     *)
(* commit failed.                                                          *)
(***************************************************************************)
THEOREM LockedAreAwaited == Spec => []LockedIsAwaited
<1>1. Pooled => LockedIsAwaited
  BY DEF Pooled
<1> QED
  BY <1>1, AlwaysPooled, PTL

(***************************************************************************)
(* dri2_wl_query_buffer_age: the age that get_back_bo and the swaps keep   *)
(* is never less than the content's.                                       *)
(***************************************************************************)
THEOREM AgesAreSafe == Spec => []AgeIsSafe
<1>1. Pooled => AgeIsSafe
  <2> SUFFICES ASSUME Pooled, NEW i \in Slots, buffers[i].age > 0
               PROVE  content[i] # 0 /\ buffers[i].age >= frame - content[i] + 1
    BY DEF AgeIsSafe
  <2>1. frame \in Nat /\ content[i] \in 1 .. frame /\ buffers[i].age = frame - content[i] + 1
    BY DEF Pooled, AgeIsExact, Typed
  <2> QED
    BY <2>1
<1> QED
  BY <1>1, AlwaysPooled, PTL

(***************************************************************************)
(* update_buffers and resize_callback: the buffer drawn into has the size  *)
(* of the surface, and follows the feedback.                               *)
(***************************************************************************)
THEOREM BacksFit == Spec => []BackFits
<1>1. Pooled => BackFits
  <2> SUFFICES ASSUME Pooled, back # 0, HasImage(buffers, back)
               PROVE  /\ buffers[back].image.size = width
                      /\ buffers[back].image.batch = feedback.batch \/ received
    BY DEF BackFits
  <2>1. back \in Slots
    BY BuffersAssumption DEF Pooled, Typed, Slots
  <2> QED
    BY <2>1 DEF Pooled, ImagesFit
<1> QED
  BY <1>1, AlwaysPooled, PTL

(***************************************************************************)
(* The handlers of dmabuf feedback leave every mapped format table with    *)
(* one owner.                                                              *)
(***************************************************************************)
THEOREM TablesAreOwned == Spec => []TablesOwned
<1>1. Pooled => TablesOwned
  BY DEF Pooled, TableInForce, TablesOwned, MapFailed
<1> QED
  BY <1>1, AlwaysPooled, PTL
=============================================================================
