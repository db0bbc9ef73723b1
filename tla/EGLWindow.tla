----------------------------- MODULE EGLWindow -----------------------------
(***************************************************************************)
(* The life of the windows of osg/GraphicsWindowEGL.cpp: created and       *)
(* realized on the viewer's thread, then drawn by a graphics thread each,  *)
(* and closed by the viewer when that thread has stopped.  All windows     *)
(* use one EGL display (module WaylandDisplay); a window asks the provider *)
(* of a shared buffer first (module HybrisShare).                          *)
(*                                                                         *)
(* A window's context is named like the window, and so is its thread: init *)
(* makes at most one context.  What EGL does with contexts, and how the    *)
(* viewer goes about windows and threads, belongs to libraries outside the *)
(* repository.                                                             *)
(***************************************************************************)
EXTENDS WaylandDisplay, HybrisShare

CONSTANTS
    Windows,        \* the windows, which are the clients of the provider
    MaxRealize      \* bound: attempts to realize a window

ASSUME WindowsAssumption == Windows = Clients /\ "viewer" \notin Windows
ASSUME MaxRealizeAssumption == MaxRealize \in Nat

VARIABLES
    window,         \* what each window knows of itself
    contexts,       \* the contexts that EGL has
    current,        \* the context current on each thread, or Nobody
    drawing,        \* the windows whose graphics thread runs
    viewer          \* what the viewer does: a window and a step

windowVars == <<window, contexts, current, drawing, viewer>>
vars == <<displayVars, shareVars, windowVars>>

Threads == Windows \union {"viewer"}

Absent == [made |-> FALSE, valid |-> FALSE, realized |-> FALSE, mode |-> "none", tries |-> 0]

Idle == [window |-> Nobody, step |-> "idle"]

Init ==
    /\ DisplayInit /\ ShareInit
    /\ window = [w \in Windows |-> Absent]
    /\ contexts = {} /\ current = [t \in Threads |-> Nobody] /\ drawing = {}
    /\ viewer = Idle
-----------------------------------------------------------------------------
(***************************************************************************)
(* EGL.                                                                    *)
(***************************************************************************)
\* eglMakeCurrent succeeds with a context that EGL has and no other thread holds.
MayBind(t, w) ==
    /\ stage = "ready" /\ w \in contexts
    /\ \A u \in Threads \ {t} : current[u] # w

Binds(t, w) == current' = [current EXCEPT ![t] = w]

\* eglInitialize on a display that was terminated, or failed, begins anew.
Reinitialize ==
    /\ stage' = "start" /\ objects' = {} /\ drmName' = FALSE /\ formats' = {}
    /\ device' = "none" /\ authenticated' = FALSE /\ prime' = FALSE /\ configs' = {}
    /\ UNCHANGED <<option, compositor>>

\* eglTerminate takes every context of the display, whoever made it.
TerminateDisplay ==
    /\ contexts' = {}
    /\ IF stage = "ready" THEN Teardown("ended") ELSE UNCHANGED displayVars
-----------------------------------------------------------------------------
(***************************************************************************)
(* Creating a window.                                                      *)
(***************************************************************************)
At(w, step) == viewer.window = w /\ viewer.step = step

Goes(w, step) == viewer' = [window |-> w, step |-> step]

\* The constructor, up to eglInitialize in init().
Construct(w) ==
    /\ viewer = Idle /\ ~window[w].made /\ window[w].tries = 0
    /\ window' = [window EXCEPT ![w] = [Absent EXCEPT !.made = TRUE]]
    /\ Goes(w, "initialize")
    /\ IF stage \in {"ended", "failed", "broken"} THEN Reinitialize ELSE UNCHANGED displayVars
    /\ UNCHANGED <<shareVars, contexts, current, drawing>>

\* The rest of init(): the API, a configuration, the context.
CreateContext(w) ==
    /\ At(w, "initialize") /\ stage = "ready"
    /\ window' = [window EXCEPT ![w].valid = TRUE]
    /\ contexts' = contexts \union {w}
    /\ viewer' = Idle
    /\ UNCHANGED <<displayVars, shareVars, current, drawing>>

\* Closing, also as the destructor does it.
Closed == [Absent EXCEPT !.tries = MaxRealize]

\* init() fails at eglInitialize or later.  createGraphicsContext drops the window, and
\* its destructor terminates the display, which other windows may be using.
CreateFails(w) ==
    /\ At(w, "initialize") /\ stage \in {"ready", "failed", "broken"}
    /\ window' = [window EXCEPT ![w] = Closed]
    /\ TerminateDisplay
    /\ Binds("viewer", Nobody)
    /\ viewer' = Idle
    /\ UNCHANGED <<shareVars, drawing>>
-----------------------------------------------------------------------------
(***************************************************************************)
(* realizeImplementation().                                                *)
(***************************************************************************)
\* A surface, and the context made current on the viewer's thread.
Realize(w) ==
    /\ viewer = Idle /\ window[w].valid /\ ~window[w].realized
    /\ window[w].tries < MaxRealize
    /\ window' = [window EXCEPT ![w].tries = window[w].tries + 1, ![w].mode = "none"]
    /\ IF MayBind("viewer", w) THEN Binds("viewer", w) /\ Goes(w, "entries")
       ELSE UNCHANGED <<current, viewer>>
    /\ UNCHANGED <<displayVars, shareVars, contexts, drawing>>

\* The entry points for framebuffers and textures.  Without them realizing fails, and the
\* context stays current.
RealizeEntries(w) ==
    /\ At(w, "entries")
    /\ viewer' = Idle \/ Goes(w, "connect")
    /\ UNCHANGED <<displayVars, shareVars, window, contexts, current, drawing>>

\* tryHybrisBuffer() up to recvmsg()
TryHybrisBuffer(w) ==
    /\ At(w, "connect") /\ program = "provider" /\ server = "listening"
    /\ Becomes(w, "connected")
    /\ Goes(w, "receive")
    /\ UNCHANGED <<displayVars, program, server, accepted, answered, gpu, buffer, verdict,
                   window, contexts, current, drawing>>

\* The rest of it: an image around the restored buffer.  A failure after the description
\* arrived gives back the connection only.
HybrisImage(w) ==
    /\ At(w, "receive") /\ clients[w] = "described"
    /\ \/ /\ window' = [window EXCEPT ![w].mode = "hybris"]
          /\ Becomes(w, "mapped")
       \/ /\ Becomes(w, "failed")
          /\ UNCHANGED window
    /\ Goes(w, IF window'[w].mode = "hybris" THEN "framebuffer" ELSE "allocate")
    /\ UNCHANGED <<displayVars, program, server, accepted, answered, gpu, buffer, verdict,
                   contexts, current, drawing>>

\* Its early returns: no provider, or none that answers.
NoHybrisBuffer(w) ==
    /\ \/ At(w, "connect") /\ UNCHANGED clients
       \/ At(w, "receive") /\ server = "ended" /\ clients[w] = "connected" /\ Becomes(w, "failed")
    /\ Goes(w, "allocate")
    /\ UNCHANGED <<displayVars, program, server, accepted, answered, gpu, buffer, verdict,
                   window, contexts, current, drawing>>

\* allocDmaHeap() and the import of what it allocated, or a texture to be read back.
AllocateBuffer(w) ==
    /\ At(w, "allocate")
    /\ \E mode \in {"dmabuf", "readback"} : window' = [window EXCEPT ![w].mode = mode]
    /\ Goes(w, "framebuffer")
    /\ UNCHANGED <<displayVars, shareVars, contexts, current, drawing>>

\* The framebuffer is not complete: as above, the context stays current.
RealizeFails(w) ==
    /\ At(w, "framebuffer")
    /\ viewer' = Idle
    /\ UNCHANGED <<displayVars, shareVars, window, contexts, current, drawing>>

\* Faulty: the context is kept.
RealizedKeeping(w) ==
    /\ At(w, "framebuffer")
    /\ window' = [window EXCEPT ![w].realized = TRUE]
    /\ viewer' = Idle
    /\ UNCHANGED <<displayVars, shareVars, contexts, current, drawing>>

\* The end: the context is handed back.
Realized(w) ==
    /\ At(w, "framebuffer")
    /\ window' = [window EXCEPT ![w].realized = TRUE]
    /\ Binds("viewer", Nobody)
    /\ viewer' = Idle
    /\ UNCHANGED <<displayVars, shareVars, contexts, drawing>>
-----------------------------------------------------------------------------
(***************************************************************************)
(* Drawing and closing.                                                    *)
(***************************************************************************)
\* The viewer starts the graphics thread of a window, once it is realized.
StartThread(w) ==
    /\ viewer = Idle /\ window[w].realized /\ w \notin drawing
    /\ drawing' = drawing \union {w}
    /\ UNCHANGED <<displayVars, shareVars, window, contexts, current, viewer>>

\* makeCurrentImplementation()
MakeCurrent(w) ==
    /\ w \in drawing /\ current[w] = Nobody
    /\ window[w].realized /\ MayBind(w, w)
    /\ Binds(w, w)
    /\ UNCHANGED <<displayVars, shareVars, window, contexts, drawing, viewer>>

\* swapBuffersImplementation(): the frame is whole.  What is rendered into a shared buffer
\* is what the provider sees.
SwapBuffers(w) ==
    /\ current[w] = w /\ window[w].mode = "hybris"
    /\ buffer' = "whole"
    /\ UNCHANGED <<displayVars, program, server, accepted, clients, answered, gpu, verdict,
                   windowVars>>

\* releaseContextImplementation()
ReleaseContext(w) ==
    /\ current[w] = w
    /\ Binds(w, Nobody)
    /\ UNCHANGED <<displayVars, shareVars, window, contexts, drawing, viewer>>

\* The graphics thread ends between two frames.
StopThread(w) ==
    /\ viewer = Idle /\ w \in drawing /\ current[w] = Nobody
    /\ drawing' = drawing \ {w}
    /\ UNCHANGED <<displayVars, shareVars, window, contexts, current, viewer>>

\* Faulty: the window believes that it is realized still.
CloseButRealized(w) ==
    /\ viewer = Idle /\ window[w].made /\ w \notin drawing
    /\ window' = [window EXCEPT ![w] = [Closed EXCEPT !.realized = window[w].realized]]
    /\ TerminateDisplay
    /\ Binds("viewer", Nobody)
    /\ UNCHANGED <<shareVars, drawing, viewer>>

\* closeImplementation().  init() ran once and for all, so the window is never used again.
Close(w) ==
    /\ viewer = Idle /\ window[w].made /\ w \notin drawing
    /\ window' = [window EXCEPT ![w] = Closed]
    /\ TerminateDisplay
    /\ Binds("viewer", Nobody)
    /\ UNCHANGED <<shareVars, drawing, viewer>>
-----------------------------------------------------------------------------
\* eglInitialize on the viewer's thread
InitializeDisplay ==
    /\ viewer.step = "initialize"
    /\ DisplayNext
    /\ UNCHANGED <<shareVars, windowVars>>

\* The tools run without a window.
Tools ==
    /\ ShareNext
    /\ UNCHANGED <<displayVars, windowVars>>

Window(w) ==
    \/ Construct(w) \/ CreateContext(w) \/ CreateFails(w)
    \/ Realize(w) \/ RealizeEntries(w) \/ TryHybrisBuffer(w) \/ HybrisImage(w)
    \/ NoHybrisBuffer(w) \/ AllocateBuffer(w) \/ RealizeFails(w) \/ Realized(w)
    \/ StartThread(w) \/ MakeCurrent(w) \/ SwapBuffers(w) \/ ReleaseContext(w)
    \/ StopThread(w) \/ Close(w)

Next ==
    \/ Tools
    \/ /\ program = "provider"
       /\ InitializeDisplay \/ \E w \in Windows : Window(w)

Spec == Init /\ [][Next]_vars
-----------------------------------------------------------------------------
\* A context is current on one thread at most, and once its window is realized it was
\* handed back: the graphics thread can bind it (the comment at
\* GraphicsWindowEGL.cpp:712, EGL_BAD_ACCESS).
HandedBack ==
    \A w \in Windows :
        /\ Cardinality({t \in Threads : current[t] = w}) <= 1
        /\ window[w].realized => current["viewer"] # w

\* A window that believes to be realized has its context, unless another window was
\* closed, or could not be created, and took the display along.
UsableUntilClosed ==
    \A w \in Windows : window[w].realized =>
        \/ stage = "ready" /\ w \in contexts
        \/ \E v \in Windows \ {w} : window[v] = Closed
=============================================================================
