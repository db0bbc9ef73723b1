--------------------------- MODULE WaylandSurface ---------------------------
(***************************************************************************)
(* A window surface of mesa/platform_wayland.c: the colour buffers that go *)
(* round between the client and the compositor.  The client draws into the *)
(* back buffer, attaches and commits it, and may draw into it again when   *)
(* the compositor's release event was dispatched.  Buffers are given up    *)
(* when the window is resized or the compositor prefers others (dmabuf     *)
(* feedback); one the compositor holds is destroyed once it is released.   *)
(*                                                                         *)
(* A size is one number.  An image is the size and the batch of feedback   *)
(* it was allocated for; the data of a buffer in shared memory (swrast)    *)
(* and the linear copy for another GPU come and go with the image and are  *)
(* not told apart from it.  The compositor sends an event when the client  *)
(* dispatches it: one that is late cannot be told from one sent late.      *)
(***************************************************************************)
EXTENDS Integers, Sequences, FiniteSets, FiniteSetsExt

CONSTANTS
    NumBuffers,     \* ARRAY_SIZE(color_buffers)
    TrimAge,        \* BUFFER_TRIM_AGE_HYSTERESIS
    Kinds,          \* of "drm", "swrast", "kopper"
    Intervals,      \* swap intervals the application sets, of {0, 1}
    Sizes,          \* sizes of the window, alike: it begins with the least
    MaxFrame,       \* bounds for one life of the surface: swaps,
    MaxResize,      \*   changes of the window's size,
    MaxBatch,       \*   batches of dmabuf feedback,
    MaxFailure      \*   allocations and dispatches that fail

ASSUME BuffersAssumption == NumBuffers \in Nat \ {0} /\ TrimAge \in Nat
ASSUME SizesAssumption ==
    Sizes \subseteq Nat \ {0} /\ Sizes # {} /\ Intervals \subseteq {0, 1}
ASSUME KindsAssumption == Kinds \subseteq {"drm", "swrast", "kopper"}
ASSUME BoundsAssumption ==
    MaxFrame \in Nat /\ MaxResize \in Nat /\ MaxBatch \in Nat /\ MaxFailure \in Nat

VARIABLES
    kind,           \* "drm", "swrast" or "kopper": which vtbl of the display is used
    surface,        \* "none", "live", or "crashed" for good
    private,        \* the window's driver_private: "none", "live" or "dangling"
    window,         \* the size of the wl_egl_window, 0 if wl_win is NULL
    call, step,     \* the call the client is in, and how far it is
    width,          \* base.Width
    interval,       \* base.SwapInterval
    resized, received,          \* resized, received_dmabuf_feedback
    buffers,        \* color_buffers
    back, current,  \* numbers of buffers, 0 for NULL
    throttle,       \* throttle_callback, and what it waits for
    held, shown,    \* the compositor: buffers it uses, and the one attached last
    feedback,       \* pending_dmabuf_feedback, dmabuf_feedback and the format tables mapped
    frame, content, \* ghosts: swaps, and the swap that gave each buffer its content,
    lost,           \*   locked buffers the compositor was never told of
    resizes, failures

client == <<call, step>>
size == <<window, resizes>>
flags == <<resized, received>>
pool == <<buffers, back, current, content>>
server == <<held, shown>>
vars == <<kind, surface, private, size, client, width, interval, flags, pool, throttle,
          server, feedback, frame, lost, failures>>

Slots == 1 .. NumBuffers
NoImage == [size |-> 0, batch |-> 0]
NoBuffer == [wl |-> FALSE, image |-> NoImage, age |-> 0, locked |-> FALSE, release |-> FALSE]
NoFeedback == [pending |-> 0, table |-> 0, batch |-> 0, mapped |-> {}]
MapFailed == -1

HasImage(b, i) == b[i].image # NoImage

Init ==
    /\ kind \in Kinds
    /\ surface = "none" /\ private = "none"
    /\ window = Min(Sizes) /\ width = 0 /\ resizes = 0
    /\ call = "none" /\ step = "idle"
    /\ interval = 0 /\ resized = FALSE /\ received = FALSE
    /\ buffers = [i \in Slots |-> NoBuffer]
    /\ back = 0 /\ current = 0 /\ throttle = "none"
    /\ held = {} /\ shown = 0 /\ feedback = NoFeedback
    /\ frame = 0 /\ content = [i \in Slots |-> 0]
    /\ lost = {} /\ failures = 0
-----------------------------------------------------------------------------
(***************************************************************************)
(* The pool of buffers.                                                    *)
(***************************************************************************)
\* Faulty: a buffer the compositor still uses is destroyed like the others.
ReleaseHeldBuffers(b) ==
    [i \in Slots |-> [b[i] EXCEPT !.image = NoImage, !.age = 0, !.wl = FALSE]]

\* dri2_wl_release_buffers: images go at once, the wl_buffer of a locked one later.
ReleaseBuffers(b) ==
    [i \in Slots |->
        [b[i] EXCEPT !.image = NoImage, !.age = 0,
                     !.wl = b[i].wl /\ b[i].locked,
                     !.release = b[i].release \/ (b[i].wl /\ b[i].locked)]]

\* Faulty: a buffer that was given up stays locked when it is released.
BufferReleaseOnly(b, i) ==
    IF b[i].release THEN [b EXCEPT ![i] = [NoBuffer EXCEPT !.image = b[i].image, !.locked = TRUE]]
    ELSE [b EXCEPT ![i].locked = FALSE]

\* wl_buffer_release
BufferRelease(b, i) ==
    IF b[i].release THEN [b EXCEPT ![i] = [NoBuffer EXCEPT !.image = b[i].image]]
    ELSE [b EXCEPT ![i].locked = FALSE]

\* The scan of get_back_bo for an unlocked buffer with an image and the least age, up
\* to and including buffer n.
Youngest[n \in 0 .. NumBuffers] ==
    IF n = 0 THEN 0
    ELSE LET b == Youngest[n - 1]
         IN  IF /\ ~buffers[n].locked
                /\ b = 0 \/ ~HasImage(buffers, b)
                   \/ (buffers[n].age > 0 /\ buffers[n].age < buffers[b].age)
             THEN n ELSE b

\* The buffer to draw into: swrast takes the first that is unlocked.
Chosen ==
    IF kind = "drm" THEN Youngest[NumBuffers]
    ELSE LET free == {i \in Slots : ~buffers[i].locked}
         IN  IF free = {} THEN 0 ELSE Min(free)

\* Unlocked buffers that were not needed for a while.
Trimmed(b) ==
    [i \in Slots |->
        IF ~b[i].locked /\ b[i].wl /\ b[i].age > TrimAge THEN NoBuffer ELSE b[i]]

\* Faulty: ages of locked buffers stand still.
AgedUnlocked(b) ==
    [i \in Slots |->
        [b[i] EXCEPT !.age = IF b[i].age > 0 /\ ~b[i].locked THEN b[i].age + 1 ELSE b[i].age]]

Aged(b) == [i \in Slots |-> [b[i] EXCEPT !.age = IF b[i].age > 0 THEN b[i].age + 1 ELSE 0]]
-----------------------------------------------------------------------------
(***************************************************************************)
(* Life of the surface.                                                    *)
(***************************************************************************)
\* Faulty: intervals above 1, for which no frame callback would come, are let through.
CreateSurfaceAnyInterval ==
    /\ surface = "none" /\ private = "none" /\ window # 0
    /\ surface' = "live" /\ private' = "live" /\ width' = window
    /\ interval' \in Intervals \union {2}
    /\ UNCHANGED <<kind, size, client, flags, pool, throttle, server, feedback, frame, lost,
                   failures>>

\* dri2_wl_create_window_surface, one for each window.  Every failure gives back what
\* was acquired before it, but the last leaves the window's pointer and callbacks.
CreateSurface ==
    /\ surface = "none" /\ private = "none" /\ window # 0
    /\ \/ /\ surface' = "live" /\ private' = "live" /\ width' = window
          /\ interval' \in Intervals
          /\ UNCHANGED failures
       \/ /\ failures < MaxFailure
          /\ failures' = failures + 1
          /\ private' \in {"none", "dangling"}
          /\ UNCHANGED <<surface, width, interval>>
    /\ UNCHANGED <<kind, size, client, flags, pool, throttle, server, feedback, frame, lost>>

\* dri2_wl_destroy_surface
DestroySurface ==
    /\ surface = "live" /\ call = "none"
    /\ surface' = "none" /\ private' = "none"
    /\ interval' = 0 /\ width' = 0 /\ resized' = FALSE /\ received' = FALSE
    /\ buffers' = [i \in Slots |-> NoBuffer] /\ content' = [i \in Slots |-> 0]
    /\ back' = 0 /\ current' = 0 /\ throttle' = "none"
    /\ held' = {} /\ shown' = 0 /\ feedback' = NoFeedback
    /\ lost' = {} /\ frame' = 0 /\ failures' = 0
    /\ UNCHANGED <<kind, size, client>>

\* Faulty: the size changes under the buffer that is drawn into.
ResizeAtOnce ==
    /\ window # 0 /\ call = "none" /\ resizes < MaxResize /\ resizes' = resizes + 1
    /\ window' \in Sizes \ {window}
    /\ IF kind = "drm" /\ private = "live" /\ width # window'
       THEN resized' = TRUE /\ width' = window'
       ELSE UNCHANGED <<resized, width>>
    /\ UNCHANGED <<kind, surface, private, client, interval, received, pool, throttle, server,
                   feedback, frame, lost, failures>>

\* wl_egl_window_resize and, with the flush extension, resize_callback.
Resize ==
    /\ window # 0 /\ call = "none" /\ resizes < MaxResize /\ resizes' = resizes + 1
    /\ window' \in Sizes \ {window}
    /\ IF kind = "drm" /\ private = "live" /\ width # window'
       THEN resized' = TRUE /\ width' = IF back = 0 THEN window' ELSE width
       ELSE UNCHANGED <<resized, width>>
    /\ surface' = IF kind = "drm" /\ private = "dangling" THEN "crashed" ELSE surface
    /\ UNCHANGED <<kind, private, client, interval, received, pool, throttle, server, feedback,
                   frame, lost, failures>>

\* wl_egl_window_destroy and destroy_window_callback
DestroyWindow ==
    /\ window # 0 /\ call = "none"
    /\ window' = 0
    /\ surface' = IF private = "dangling" THEN "crashed" ELSE surface
    /\ UNCHANGED <<kind, private, resizes, client, width, interval, flags, pool, throttle, server,
                   feedback, frame, lost, failures>>
-----------------------------------------------------------------------------
(***************************************************************************)
(* Drawing and swapping.                                                   *)
(***************************************************************************)
Returns == call' = "none" /\ step' = "idle"

\* The driver asks for buffers, or the application for the age of the back buffer.
BeginRender ==
    /\ surface = "live" /\ call = "none" /\ back = 0
    /\ call' = "render" /\ step' = "update"
    /\ UNCHANGED <<kind, surface, private, size, width, interval, flags, pool, throttle, server,
                   feedback, frame, lost, failures>>

BeginSwap ==
    /\ surface = "live" /\ call = "none" /\ kind # "kopper" /\ window # 0 /\ frame < MaxFrame
    /\ call' = "swap"
    /\ step' = IF kind = "swrast" /\ back = 0 THEN "update" ELSE "throttle"
    /\ UNCHANGED <<kind, surface, private, size, width, interval, flags, pool, throttle, server,
                   feedback, frame, lost, failures>>

\* Nothing is left to wait for.  From here on the frame counts.
Throttled ==
    /\ step = "throttle" /\ throttle = "none"
    /\ step' = IF back = 0 THEN "update" ELSE "present"
    /\ frame' = frame + 1
    /\ buffers' = IF kind = "drm" THEN Aged(buffers) ELSE buffers
    /\ UNCHANGED <<kind, surface, private, size, call, width, interval, flags, back, current,
                   content, throttle, server, feedback, lost, failures>>

\* update_buffers up to get_back_bo: a new size or new feedback gives the buffers up.
UpdateBuffers ==
    /\ kind = "drm" /\ step = "update"
    /\ width' = IF window = 0 THEN width ELSE window
    /\ buffers' = IF resized \/ received THEN ReleaseBuffers(buffers) ELSE buffers
    /\ resized' = FALSE /\ received' = FALSE
    /\ step' = "choose"
    /\ UNCHANGED <<kind, surface, private, size, call, interval, back, current, content, throttle,
                   server, feedback, frame, lost, failures>>

\* swrast_update_buffers up to the choice of a buffer
SwrastUpdateBuffers ==
    /\ kind = "swrast" /\ step = "update"
    /\ IF window \notin {0, width}
       THEN /\ buffers' = ReleaseBuffers(buffers)
            /\ width' = window /\ current' = 0
       ELSE UNCHANGED <<buffers, width, current>>
    /\ step' = "choose"
    /\ UNCHANGED <<kind, surface, private, size, call, interval, flags, back, content, throttle,
                   server, feedback, frame, lost, failures>>

\* kopper_update_buffers: Vulkan has the buffers, only the size is followed.
KopperUpdateBuffers ==
    /\ kind = "kopper" /\ step = "update"
    /\ width' = IF window = 0 THEN width ELSE window
    /\ Returns
    /\ UNCHANGED <<kind, surface, private, size, interval, flags, pool, throttle, server,
                   feedback, frame, lost, failures>>

\* create_dri_image: for the surface as it is, from the feedback in force or, without one
\* that fits, from the formats of the display.
NewImage == [size |-> width, batch |-> feedback.batch]

Chose(i) ==
    /\ back' = i
    /\ step' = IF call = "render" THEN "idle" ELSE IF kind = "drm" THEN "present" ELSE "throttle"
    /\ call' = IF call = "render" THEN "none" ELSE call
    /\ UNCHANGED <<kind, surface, private, size, width, interval, flags, current, throttle,
                   server, feedback, frame, lost>>

\* get_back_bo finds an unlocked buffer, and locks it.
ChooseBack ==
    /\ step = "choose" /\ Chosen # 0 /\ HasImage(buffers, Chosen)
    /\ buffers' = Trimmed([buffers EXCEPT ![Chosen].locked = TRUE])
    /\ Chose(Chosen)
    /\ UNCHANGED <<content, failures>>

\* The buffer it finds has no image, and gets one.
AllocateBack ==
    /\ step = "choose" /\ Chosen # 0 /\ ~HasImage(buffers, Chosen)
    /\ buffers' = Trimmed([buffers EXCEPT
            ![Chosen].image = NewImage, ![Chosen].age = 0, ![Chosen].locked = TRUE,
            ![Chosen].wl = buffers[Chosen].wl \/ kind = "swrast"])
    /\ content' = [content EXCEPT ![Chosen] = 0]
    /\ Chose(Chosen)
    /\ UNCHANGED failures

\* That fails.  The buffer stays unlocked, and yet it is the back buffer from now on;
\* swrast does not notice and goes on.
AllocateBackFails ==
    /\ step = "choose" /\ Chosen # 0 /\ ~HasImage(buffers, Chosen) /\ failures < MaxFailure
    /\ failures' = failures + 1
    /\ buffers' = [buffers EXCEPT ![Chosen].age = 0]
    /\ \/ kind = "swrast" /\ Chose(Chosen)
       \/ /\ kind = "drm" /\ back' = Chosen /\ Returns
          /\ UNCHANGED <<kind, surface, private, size, width, interval, flags, current, throttle,
                         server, feedback, frame, lost>>
    /\ UNCHANGED content

\* All are locked, and the dispatch or the round trip to wait for a release fails.
ChooseFails ==
    /\ step = "choose" /\ Chosen = 0 /\ failures < MaxFailure
    /\ failures' = failures + 1
    /\ Returns
    /\ surface' = IF kind = "swrast" /\ call = "swap" THEN "crashed" ELSE surface
    /\ UNCHANGED <<kind, private, size, width, interval, flags, pool, throttle, server,
                   feedback, frame, lost>>

\* The rest of dri2_wl_swap_buffers_with_damage: the back buffer becomes the current one,
\* is attached and committed.
Present ==
    /\ step = "present" /\ kind = "drm" /\ HasImage(buffers, back)
    /\ current' = back /\ back' = 0
    /\ content' = [content EXCEPT ![back] = frame]
    /\ buffers' = [buffers EXCEPT ![back].age = 1, ![back].wl = TRUE,
                    ![back].release = buffers[back].wl /\ buffers[back].release]
    /\ held' = held \union {back} /\ shown' = back
    /\ throttle' = IF interval > 0 THEN "frame" ELSE "sync"
    /\ Returns
    /\ UNCHANGED <<kind, surface, private, size, width, interval, flags, feedback, frame, lost,
                   failures>>

\* create_wl_buffer fails for a buffer the compositor does not know yet.  The frame
\* callback was asked for before, and without a commit it never comes.
PresentFails ==
    /\ step = "present" /\ kind = "drm" /\ HasImage(buffers, back) /\ ~buffers[back].wl
    /\ failures < MaxFailure /\ failures' = failures + 1
    /\ current' = back /\ back' = 0
    /\ content' = [content EXCEPT ![back] = frame]
    /\ buffers' = [buffers EXCEPT ![back].age = 1]
    /\ lost' = lost \union {back}
    /\ throttle' = IF interval > 0 THEN "uncommitted" ELSE "none"
    /\ Returns
    /\ UNCHANGED <<kind, surface, private, size, width, interval, flags, server, feedback, frame>>

\* dri2_wl_swrast_attach_backbuffer and dri2_wl_swrast_commit_backbuffer
SwrastPresent ==
    /\ step = "present" /\ kind = "swrast" /\ HasImage(buffers, back)
    /\ current' = back /\ back' = 0
    /\ content' = [content EXCEPT ![back] = frame]
    /\ held' = held \union {back} /\ shown' = back
    /\ throttle' = IF interval > 0 THEN "frame" ELSE "sync"
    /\ Returns
    /\ UNCHANGED <<kind, surface, private, size, width, interval, flags, buffers, feedback, frame, lost, failures>>

\* A back buffer without an image: queryImage, or the copy, goes through NULL.
PresentNothing ==
    /\ step = "present" /\ ~HasImage(buffers, back)
    /\ surface' = "crashed" /\ Returns
    /\ UNCHANGED <<kind, private, size, width, interval, flags, pool, throttle, server,
                   feedback, frame, lost, failures>>

\* The wait for the last frame fails.  swrast goes on and commits, with nothing
\* attached.
ThrottleFails ==
    /\ step = "throttle" /\ throttle # "none" /\ failures < MaxFailure
    /\ failures' = failures + 1
    /\ IF kind = "swrast" /\ HasImage(buffers, back)
       THEN /\ current' = back /\ back' = 0
            /\ lost' = lost \union {back}
            /\ frame' = frame + 1
            /\ content' = [content EXCEPT ![back] = frame']
            /\ UNCHANGED surface
       ELSE /\ surface' = IF kind = "swrast" THEN "crashed" ELSE surface
            /\ UNCHANGED <<current, back, lost, frame, content>>
    /\ Returns
    /\ UNCHANGED <<kind, private, size, width, interval, flags, buffers, throttle, server,
                   feedback>>
-----------------------------------------------------------------------------
(***************************************************************************)
(* Events.  They are dispatched while the client waits for a callback or   *)
(* for a buffer.                                                           *)
(***************************************************************************)
Dispatching == step = "choose" \/ (step = "throttle" /\ throttle # "none")

\* The compositor has no more use for a buffer.
DispatchRelease(i) ==
    /\ Dispatching /\ i \in held
    /\ held' = held \ {i}
    /\ buffers' = BufferRelease(buffers, i)
    /\ UNCHANGED <<kind, surface, private, size, client, width, interval, flags, back, current,
                   content, throttle, shown, feedback, frame, lost, failures>>

\* wayland_throttle_callback: it answers a sync, or the frame callback of a surface that
\* was committed.
DispatchDone ==
    /\ Dispatching /\ throttle \in {"frame", "sync"}
    /\ throttle' = "none"
    /\ UNCHANGED <<kind, surface, private, size, client, width, interval, flags, pool, server,
                   feedback, frame, lost, failures>>

\* surface_dmabuf_feedback_format_table, where mmap may fail
FormatTable(f, ok) ==
    LET n == f.batch + 1
    IN  IF ok THEN [f EXCEPT !.pending = n, !.mapped = f.mapped \union {n}]
        ELSE [f EXCEPT !.pending = MapFailed]

\* Faulty: the table is taken and left with its owner too.
TrancheFormatsShared(f) == IF f.pending = 0 THEN [f EXCEPT !.pending = f.table] ELSE f

\* surface_dmabuf_feedback_tranche_formats: a batch without a table steals the last one.
TrancheFormats(f) ==
    IF f.pending = 0 THEN [f EXCEPT !.pending = f.table, !.table = 0] ELSE f

\* surface_dmabuf_feedback_done: pending becomes current.
FeedbackDone(f) ==
    [pending |-> 0, table |-> f.pending, batch |-> f.batch + 1, mapped |-> f.mapped \ {f.table}]

\* A batch of feedback.  It comes with a table or relies on an earlier one, and the
\* buffers are to be given up for it.
DispatchFeedback ==
    /\ Dispatching /\ kind = "drm" /\ feedback.batch < MaxBatch
    /\ \/ /\ feedback' = FeedbackDone(TrancheFormats(FormatTable(feedback, TRUE)))
          /\ UNCHANGED failures
       \/ /\ failures < MaxFailure /\ failures' = failures + 1
          /\ feedback' = FeedbackDone(TrancheFormats(FormatTable(feedback, FALSE)))
       \/ /\ feedback.batch > 0
          /\ feedback' = FeedbackDone(TrancheFormats(feedback))
          /\ UNCHANGED failures
    /\ received' = TRUE
    /\ UNCHANGED <<kind, surface, private, size, client, width, interval, resized, pool, throttle,
                   server, frame, lost>>
-----------------------------------------------------------------------------
Client ==
    \/ Throttled \/ UpdateBuffers \/ SwrastUpdateBuffers \/ KopperUpdateBuffers
    \/ ChooseBack \/ AllocateBack \/ Present \/ SwrastPresent \/ PresentNothing

Failure == AllocateBackFails \/ ChooseFails \/ PresentFails \/ ThrottleFails

Application ==
    \/ CreateSurface \/ DestroySurface \/ Resize \/ DestroyWindow \/ BeginRender \/ BeginSwap

Next ==
    /\ surface # "crashed"
    /\ \/ Application \/ Client \/ Failure
       \/ \E i \in Slots : DispatchRelease(i)
       \/ DispatchDone \/ DispatchFeedback

\* The client goes on.  A compositor that shows the window answers its callbacks and lets
\* go of every buffer but the one it shows.
Fairness ==
    /\ WF_vars(Client) /\ WF_vars(DispatchDone)
    /\ \A i \in Slots : WF_vars(i # shown /\ DispatchRelease(i))

Spec == Init /\ [][Next]_vars /\ Fairness
-----------------------------------------------------------------------------
TypeOK ==
    /\ surface \in {"none", "live", "crashed"} /\ private \in {"none", "live", "dangling"}
    /\ window \in Sizes \union {0} /\ width \in Sizes \union {0}
    /\ call \in {"none", "render", "swap"} /\ (call = "none") = (step = "idle")
    /\ step \in {"idle", "throttle", "update", "choose", "present"}
    /\ \A i \in Slots : buffers[i].age \in 0 .. MaxFrame + 1
    /\ back \in 0 .. NumBuffers /\ current \in 0 .. NumBuffers
    /\ throttle \in {"none", "frame", "sync", "uncommitted"}
    /\ held \union lost \subseteq Slots
    /\ interval \in {0, 1} /\ frame \in 0 .. MaxFrame /\ feedback.batch \in 0 .. MaxBatch

\* Whatever the compositor uses is locked and known to wl_buffer_release (the assertion at
\* platform_wayland.c:286), and nothing is drawn into it.
HeldIsLocked ==
    \A i \in held : buffers[i].wl /\ buffers[i].locked /\ i # back

\* A locked buffer is the one drawn into or will be unlocked by a release event, apart
\* from those the client gave up without telling the compositor.
LockedIsAwaited ==
    \A i \in Slots : buffers[i].locked => i \in {back} \union held \union lost

\* EGL_EXT_buffer_age: an application that redraws what changed in the last `age'
\* frames gets a whole picture.
AgeIsSafe ==
    \A i \in Slots : buffers[i].age > 0 =>
        content[i] # 0 /\ buffers[i].age >= frame - content[i] + 1

\* What is drawn into has the size of the surface, and was allocated for the newest
\* feedback unless that came in the middle of the frame.
BackFits ==
    (back # 0 /\ HasImage(buffers, back)) =>
        /\ buffers[back].image.size = width
        /\ buffers[back].image.batch = feedback.batch \/ received

\* Each mapped format table has one owner: none is leaked, unmapped twice or used
\* after it is unmapped.
TablesOwned ==
    LET f == feedback
    IN  /\ f.mapped = {f.pending, f.table} \ {0, MapFailed}
        /\ f.pending \in f.mapped => f.pending # f.table

\* The last swap asked for a frame callback and failed before the commit, or at most
\* one buffer is left: the two ways the surface is stuck after a failure.
Stuck == throttle = "uncommitted" \/ Cardinality(Slots \ lost) <= 1

\* A swap or a request for buffers returns, if the compositor shows the window, unless
\* an earlier failure left the surface stuck.
CallsReturn == call # "none" ~> call = "none" \/ Stuck \/ surface = "crashed"
=============================================================================
