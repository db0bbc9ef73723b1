--------------------------- MODULE EGLWindowProofs ---------------------------
(***************************************************************************)
(* For any windows, clients and compositors: a display that is ready can   *)
(* be used and one that ended left nothing behind, the verdict on the      *)
(* shared buffer is right, and a window that is realized can be drawn.     *)
(***************************************************************************)
EXTENDS EGLWindow, FiniteSetTheorems, TLAPS

(***************************************************************************)
(* The display.  Only hardware binds the dmabuf protocol; its feedback is  *)
(* given back before the next stage; and from "driver" on the device, or   *)
(* the shared memory, is there.                                            *)
(***************************************************************************)
Stages == {"start", "registry", "extensions", "drm", "authenticate", "driver", "ready",
           "failed", "broken", "ended", "crashed"}

DisplayTyped ==
    /\ option \in {"hardware", "software", "zink"}
    /\ stage \in Stages
    /\ objects \subseteq Owned \union {"feedback"}
    /\ device \in {"none", "render", "primary"}

FeedbackGivenBack == "feedback" \in objects => stage \in {"extensions", "broken", "crashed"}

NothingKept ==
    /\ stage \in {"start", "failed", "ended"} => objects = {}
    /\ stage = "broken" => objects \subseteq {"feedback"}

SharedMemoryThere ==
    option # "hardware" =>
        /\ "feedback" \notin objects /\ "wl_dmabuf" \notin objects
        /\ stage \in {"extensions", "driver", "ready"} => "wl_shm" \in objects /\ formats # {}
        /\ stage \notin {"drm", "authenticate"}
        /\ stage = "extensions" => option = "zink"

DeviceThere ==
    option = "hardware" =>
        /\ stage \in {"authenticate", "driver", "ready"} => device # "none"
        /\ stage \in {"driver", "ready"} => authenticated

ConfigsTaken == stage = "ready" => \A f \in configs : LinearFormat(f) \in formats

DisplayRight ==
    /\ DisplayTyped /\ FeedbackGivenBack /\ NothingKept
    /\ SharedMemoryThere /\ DeviceThere /\ ConfigsTaken

(***************************************************************************)
(* The shared buffer.  A client that waits has not drawn; one that has     *)
(* drawn has drawn all; hybshare serves one client, and what the memory    *)
(* holds tells how far that is.                                            *)
(***************************************************************************)
Waiting == {"out", "connected", "failed"}

ShareTyped ==
    /\ program \in {"share", "gl", "provider"}
    /\ clients \in [Clients -> {"out", "connected", "described", "mapped", "attached",
                                "finishing", "drawn", "failed", "closed"}]
    /\ answered \in BOOLEAN /\ gpu \in BOOLEAN
    /\ buffer \in {"none", "part", "whole"}
    /\ server \in {"start", "listening", "sent", "ended", "failed"}

DrawnIsWhole ==
    program # "provider" =>
        /\ answered => buffer = "whole"
        /\ \A c \in Clients : clients[c] = "drawn" => buffer = "whole"
        /\ \A c \in Clients : clients[c] = "finishing" => gpu \/ buffer = "whole"

\* How far the only client of hybshare is, and with it the buffer.
Progress(c) ==
    /\ clients[c] \in {"described", "mapped", "drawn", "closed", "failed"}
    /\ clients[c] \in {"described", "failed"} => buffer = "none"
    /\ clients[c] \in {"described", "mapped", "drawn", "failed"} => ~answered
    /\ clients[c] = "mapped" => buffer # "whole"
    /\ clients[c] = "closed" => answered

OneIsServed ==
    program = "share" =>
        /\ ~gpu
        /\ \A c \in Clients : clients[c] \notin {"attached", "finishing"}
        /\ server \in {"start", "listening"} =>
              ~answered /\ buffer = "none" /\ \A c \in Clients : clients[c] \in Waiting
        /\ server = "sent" =>
              /\ accepted \in Clients /\ Progress(accepted)
              /\ \A c \in Clients \ {accepted} : clients[c] \in Waiting
        /\ server = "ended" =>
              \/ answered /\ verdict = "shared"
              \/ /\ ~answered /\ verdict = "apart"
                 /\ \A c \in Clients : clients[c] \in Waiting

GlAnswered == program = "gl" /\ server = "ended" => answered /\ verdict = "shared"

ShareRight == ShareTyped /\ DrawnIsWhole /\ OneIsServed /\ GlAnswered

(***************************************************************************)
(* The windows.  While the viewer realizes one, the display is there and   *)
(* its context is current; a window that was closed stays closed.          *)
(***************************************************************************)
Realizing == {"entries", "connect", "receive", "allocate", "framebuffer"}

WindowRecord == [made : BOOLEAN, valid : BOOLEAN, realized : BOOLEAN,
                 mode : {"none", "hybris", "dmabuf", "readback"}, tries : Nat]

WindowsTyped ==
    /\ window \in [Windows -> WindowRecord]
    /\ current \in [Threads -> Windows \union {Nobody}]
    /\ \/ viewer = Idle
       \/ viewer \in [window : Windows, step : Realizing \union {"initialize"}]

ViewerRight ==
    /\ viewer.step # "idle" => window[viewer.window].made
    /\ viewer.step = "initialize" => ~window[viewer.window].realized
    /\ viewer.step \in Realizing =>
          /\ stage = "ready" /\ viewer.window \in contexts
          /\ window[viewer.window].tries > 0 /\ ~window[viewer.window].realized

RealizedRight ==
    \A w \in Windows :
        /\ window[w].valid => window[w].made
        /\ window[w].tries \in 0 .. MaxRealize
        /\ window[w].realized => window[w].tries > 0
        /\ window[w].realized => current["viewer"] # w

\* No context is current on two threads.
CurrentOnce == \A t, u \in Threads : current[t] = current[u] /\ current[t] # Nobody => t = u

WindowsRight ==
    WindowsTyped /\ ViewerRight /\ RealizedRight /\ CurrentOnce /\ UsableUntilClosed

Right == DisplayRight /\ ShareRight /\ WindowsRight
-----------------------------------------------------------------------------
\* Before the display is connected it has nothing that must be handed back.
LEMMA InitDisplay == DisplayInit => DisplayRight
BY OptionsAssumption
DEF DisplayInit, DisplayRight, DisplayTyped, Stages, FeedbackGivenBack, NothingKept,
    SharedMemoryThere, DeviceThere, ConfigsTaken

\* What the display has is left alone by the steps of others.
LEMMA SameDisplay == DisplayRight /\ UNCHANGED displayVars => DisplayRight'
BY DEF DisplayRight, displayVars, DisplayTyped, FeedbackGivenBack, NothingKept,
       SharedMemoryThere, DeviceThere, ConfigsTaken, LinearFormat

\* dri2_teardown_wayland gives everything back but the feedback.
LEMMA TornDown ==
    ASSUME DisplayRight, NEW s \in {"failed", "ended", "broken"}, Teardown(s),
           stage = "extensions" => s = "broken", stage \notin {"broken", "crashed"}
    PROVE  DisplayRight'
<1>1. /\ stage' = s /\ objects' = objects \ Owned /\ option' = option /\ device' = "none"
      /\ formats' = formats
  BY DEF Teardown
<1>2. DisplayTyped' /\ objects' \subseteq {"feedback"}
  BY <1>1 DEF DisplayRight, DisplayTyped, Stages
<1>3. "feedback" \in objects' => s = "broken"
  BY <1>1 DEF DisplayRight, FeedbackGivenBack
<1>4. FeedbackGivenBack' /\ NothingKept'
  BY <1>1, <1>2, <1>3 DEF FeedbackGivenBack, NothingKept
<1>5. SharedMemoryThere'
  BY <1>1 DEF DisplayRight, SharedMemoryThere
<1>6. DeviceThere' /\ ConfigsTaken'
  BY <1>1 DEF DeviceThere, ConfigsTaken
<1> QED
  BY <1>2, <1>4, <1>5, <1>6 DEF DisplayRight

\* Every step of the initialization, stage by stage.
LEMMA NextDisplay == DisplayRight /\ DisplayNext => DisplayRight'
<1> SUFFICES ASSUME DisplayRight, DisplayNext PROVE DisplayRight'
  OBVIOUS
<1>0. DisplayTyped /\ FeedbackGivenBack /\ NothingKept /\ SharedMemoryThere /\ DeviceThere
  BY DEF DisplayRight
<1> USE DEF DisplayTyped, Stages, FeedbackGivenBack, NothingKept, SharedMemoryThere, DeviceThere
<1>1. CASE Connect
  <2>1. stage' \in {"registry", "crashed"} /\ UNCHANGED <<option, device>>
    BY <1>1 DEF Connect
  <2>2. objects' \subseteq {"formats", "queue", "wrapper", "registry", "connection"}
    BY <1>0, <1>1 DEF Connect
  <2>3. objects' \subseteq Owned
    BY <2>2 DEF Owned
  <2>4. DisplayTyped'
    BY <1>0, <2>1, <2>3
  <2>5. (FeedbackGivenBack /\ NothingKept /\ SharedMemoryThere)'
    BY <1>0, <2>1, <2>2
  <2>6. DeviceThere' /\ ConfigsTaken'
    BY <2>1 DEF ConfigsTaken
  <2> QED
    BY <2>4, <2>5, <2>6 DEF DisplayRight
<1>2. CASE RegistryDrm
  <2>1. stage = "registry" /\ option = "hardware" /\ stage' = "extensions"
        /\ UNCHANGED <<option, device>>
    BY <1>2 DEF RegistryDrm
  <2>2. objects' \subseteq objects \union {"wl_dmabuf", "feedback"}
    BY <1>2 DEF RegistryDrm
  <2>3. DisplayTyped'
    BY <1>0, <2>1, <2>2 DEF Owned
  <2> QED
    BY <1>0, <2>1, <2>2, <2>3 DEF DisplayRight, ConfigsTaken
<1>3. CASE RegistrySwrast
  <2>1. /\ stage = "registry" /\ option # "hardware" /\ UNCHANGED <<option, device>>
        /\ stage' = (IF option = "zink" THEN "extensions" ELSE "driver")
        /\ objects' = objects \union {"wl_shm"} /\ formats' # {}
    BY <1>3 DEF RegistrySwrast
  <2>2. DisplayTyped'
    BY <1>0, <2>1 DEF Owned
  <2> QED
    BY <1>0, <2>1, <2>2 DEF DisplayRight, ConfigsTaken
<1>4. CASE RegistrySwrastFails
  BY <1>4, TornDown DEF RegistrySwrastFails
<1>5. CASE Extensions
  <2>1. /\ stage = "extensions" /\ UNCHANGED option
        /\ device' \in {"none", "render", "primary"}
        /\ authenticated' <=> device' = "render"
        /\ stage' = (IF device' = "render" \/ option = "zink" THEN "driver" ELSE "drm")
    BY <1>0, <1>5 DEF Extensions
  <2>2. objects' \subseteq (objects \ {"feedback"}) \union {"device"}
        /\ (objects \ {"feedback"}) \subseteq objects'
    BY <1>5 DEF Extensions
  <2>3. option # "hardware" => UNCHANGED formats
    BY <1>0, <1>5 DEF Extensions
  <2>4. DisplayTyped'
    BY <1>0, <2>1, <2>2 DEF Owned
  <2>5. FeedbackGivenBack' /\ NothingKept'
    BY <2>1, <2>2
  <2>6. SharedMemoryThere'
    BY <1>0, <2>1, <2>2, <2>3
  <2>7. DeviceThere' /\ ConfigsTaken'
    BY <1>0, <2>1 DEF ConfigsTaken
  <2> QED
    BY <2>4, <2>5, <2>6, <2>7 DEF DisplayRight
<1>6. CASE ExtensionsFails
  <2>1. CASE option = "zink" /\ stage' = "driver" /\ UNCHANGED <<option, objects, formats, device>>
    BY <1>0, <1>6, <2>1 DEF ExtensionsFails, DisplayRight, ConfigsTaken
  <2>2. CASE Teardown("broken")
    BY <1>6, <2>2, TornDown DEF ExtensionsFails
  <2> QED
    BY <1>6, <2>1, <2>2 DEF ExtensionsFails
<1>7. CASE Drm
  <2>1. /\ stage = "drm" /\ UNCHANGED option /\ device' \in {"render", "primary"}
        /\ authenticated' <=> device' = "render"
        /\ stage' = (IF device' = "render" THEN "driver" ELSE "authenticate")
        /\ objects' = objects \union {"wl_drm", "device"}
    BY <1>7 DEF Drm
  <2>2. DisplayTyped'
    BY <1>0, <2>1 DEF Owned
  <2> QED
    BY <1>0, <2>1, <2>2 DEF DisplayRight, ConfigsTaken
<1>8. CASE Authenticate
  BY <1>0, <1>8 DEF Authenticate, DisplayRight, ConfigsTaken
<1>9. CASE LoadDriver \/ LoadSwrast
  <2>1. /\ stage = "driver" /\ stage' = "ready" /\ configs' = Configs
        /\ UNCHANGED <<option, objects, formats, device, authenticated>>
    BY <1>9 DEF LoadDriver, LoadSwrast
  <2>2. ConfigsTaken'
    BY <2>1 DEF ConfigsTaken, Configs, LinearFormat
  <2> QED
    BY <1>0, <2>1, <2>2 DEF DisplayRight
<1>10. CASE Fails
  BY <1>10, TornDown DEF Fails
<1> QED
  BY <1>1, <1>2, <1>3, <1>4, <1>5, <1>6, <1>7, <1>8, <1>9, <1>10 DEF DisplayNext

\* What the windows do with the display: begin anew, or end it.
LEMMA DisplayBeginsOrEnds ==
    ASSUME DisplayRight
    PROVE  /\ Reinitialize => DisplayRight'
           /\ TerminateDisplay => DisplayRight'
<1>1. ASSUME Reinitialize PROVE DisplayRight'
  <2>1. stage' = "start" /\ objects' = {} /\ option' = option /\ device' = "none"
    BY <1>1 DEF Reinitialize
  <2> QED
    BY <2>1 DEF DisplayRight, DisplayTyped, Stages, FeedbackGivenBack, NothingKept,
           SharedMemoryThere, DeviceThere, ConfigsTaken
<1>2. ASSUME TerminateDisplay PROVE DisplayRight'
  BY <1>2, SameDisplay, TornDown DEF TerminateDisplay
<1> QED
  BY <1>1, <1>2
-----------------------------------------------------------------------------
\* At first nobody has opened the buffer.
LEMMA InitShare == ShareInit => ShareRight
<1> SUFFICES ASSUME ShareInit PROVE ShareRight
  OBVIOUS
<1>1. ShareTyped
  BY ProgramsAssumption DEF ShareInit, ShareTyped
<1>2. \A c \in Clients : clients[c] = "out"
  BY DEF ShareInit
<1>3. server = "start" /\ ~answered /\ ~gpu /\ buffer = "none"
  BY DEF ShareInit
<1>4. DrawnIsWhole
  BY <1>2, <1>3 DEF DrawnIsWhole
<1>5. OneIsServed /\ GlAnswered
  BY <1>2, <1>3 DEF OneIsServed, GlAnswered, Waiting
<1> QED
  BY <1>1, <1>4, <1>5 DEF ShareRight

\* The shared buffer is left alone by the steps of others.
LEMMA SameShare == ShareRight /\ UNCHANGED shareVars => ShareRight'
BY DEF ShareRight, shareVars, ShareTyped, DrawnIsWhole, OneIsServed, GlAnswered, Progress

\* A provider promises nothing.
LEMMA ProvidersShare == ShareTyped' /\ program' = "provider" => ShareRight'
BY DEF ShareRight, DrawnIsWhole, OneIsServed, GlAnswered

\* What the server does, with no client but one served.
LEMMA NextServer == ShareRight /\ ShareServer => ShareRight'
<1> SUFFICES ASSUME ShareRight, ShareServer PROVE ShareRight'
  OBVIOUS
<1>0. ShareTyped /\ DrawnIsWhole /\ OneIsServed /\ GlAnswered
  BY DEF ShareRight
<1>1. CASE Listen
  <2>1. /\ server = "start" /\ server' \in {"listening", "failed"}
        /\ UNCHANGED <<program, accepted, clients, answered, gpu, buffer, verdict>>
    BY <1>1 DEF Listen
  <2> QED
    BY <1>0, <2>1 DEF ShareRight, ShareTyped, DrawnIsWhole, OneIsServed, GlAnswered
<1>2. CASE ProviderListen \/ ProviderLook \/ ProviderEnds
  BY <1>0, <1>2, ProvidersShare DEF ProviderListen, ProviderLook, ProviderEnds, ShareTyped
<1>3. CASE \E c \in Clients : ProviderAccept(c)
  <2>1. PICK c \in Clients : ProviderAccept(c)
    BY <1>3
  <2> QED
    BY <1>0, <2>1, ProvidersShare DEF ProviderAccept, ShareTyped
<1>4. CASE \E c \in Clients : SendDesc(c)
  <2>1. PICK c \in Clients : SendDesc(c)
    BY <1>4
  <2>2. /\ server = "listening" /\ clients[c] = "connected"
        /\ UNCHANGED <<program, answered, gpu, buffer, verdict>>
    BY <2>1 DEF SendDesc
  <2>3. CASE server' = "failed" /\ UNCHANGED <<accepted, clients>>
    BY <1>0, <2>2, <2>3 DEF ShareRight, ShareTyped, DrawnIsWhole, OneIsServed, GlAnswered
  <2>4. CASE server' = "sent" /\ accepted' = c /\ clients' = [clients EXCEPT ![c] = "described"]
    <3>1. ShareTyped'
      BY <1>0, <2>2, <2>4 DEF ShareTyped
    <3>2. clients'[c] = "described" /\ \A d \in Clients \ {c} : clients'[d] = clients[d]
      BY <1>0, <2>4 DEF ShareTyped
    <3>3. DrawnIsWhole'
      BY <1>0, <2>2, <3>2 DEF DrawnIsWhole
    <3>4. OneIsServed' /\ GlAnswered'
      BY <1>0, <2>2, <2>4, <3>2 DEF OneIsServed, GlAnswered, Progress, Waiting
    <3> QED
      BY <3>1, <3>3, <3>4 DEF ShareRight
  <2> QED
    BY <2>1, <2>3, <2>4 DEF SendDesc
<1>5. CASE ShareLook
  <2>1. /\ server = "sent" /\ program = "share"
        /\ answered \/ clients[accepted] \in {"failed", "closed"}
        /\ accepted' = Nobody /\ UNCHANGED <<program, clients, answered, gpu, buffer>>
        /\ server' \in {"ended", "failed"} /\ (server' = "ended" => verdict' = Look)
    BY <1>5 DEF ShareLook, Gone
  <2>2. answered => Look = "shared"
    BY <1>0, <2>1 DEF DrawnIsWhole, Look
  <2>3. ~answered => Look = "apart" /\ \A c \in Clients : clients[c] \in Waiting
    BY <1>0, <2>1 DEF OneIsServed, Progress, Waiting, Look
  <2> QED
    BY <1>0, <2>1, <2>2, <2>3 DEF ShareRight, ShareTyped, DrawnIsWhole, OneIsServed, GlAnswered
<1>6. CASE GlLook
  <2>1. /\ program = "gl" /\ server' \in {"ended", "failed"}
        /\ UNCHANGED <<program, clients, answered, gpu, buffer>>
        /\ server' = "ended" => answered /\ verdict' = Look
    BY <1>6 DEF GlLook
  <2>2. answered => Look = "shared"
    BY <1>0, <2>1 DEF DrawnIsWhole, Look
  <2> QED
    BY <1>0, <2>1, <2>2 DEF ShareRight, ShareTyped, DrawnIsWhole, OneIsServed, GlAnswered
<1> QED
  BY <1>1, <1>2, <1>3, <1>4, <1>5, <1>6 DEF ShareServer

\* The GPU of hybgl.
LEMMA NextGpu == ShareRight /\ GpuDraws => ShareRight'
<1> SUFFICES ASSUME ShareRight, GpuDraws PROVE ShareRight'
  OBVIOUS
<1>0. ShareTyped /\ DrawnIsWhole /\ OneIsServed /\ GlAnswered
  BY DEF ShareRight
<1>1. /\ gpu /\ buffer' = (IF buffer = "none" THEN "part" ELSE "whole")
      /\ gpu' <=> buffer = "none"
      /\ gpu' \in BOOLEAN
      /\ UNCHANGED <<program, server, accepted, clients, answered, verdict>>
  BY DEF GpuDraws
<1>2. ShareTyped'
  BY <1>0, <1>1 DEF ShareTyped
<1>3. DrawnIsWhole'
  BY <1>0, <1>1 DEF DrawnIsWhole
<1>4. OneIsServed' /\ GlAnswered'
  BY <1>0, <1>1 DEF OneIsServed, GlAnswered
<1> QED
  BY <1>2, <1>3, <1>4 DEF ShareRight

\* What a client does.  One of hybshare that does more than wait is the one served.
LEMMA NextClient ==
    ASSUME ShareRight, NEW c \in Clients, ShareClient(c)
    PROVE  ShareRight'
<1>0. ShareTyped /\ DrawnIsWhole /\ OneIsServed /\ GlAnswered
  BY DEF ShareRight
<1>1. UNCHANGED <<program, server, accepted, verdict>>
  BY DEF ShareClient, ConnectClient, Restore, HungUp, Paint, MakeContext, Clear, Finish,
         Acknowledge
<1>2. /\ ShareTyped'
      /\ clients' = [clients EXCEPT ![c] = clients'[c]]
      /\ \A d \in Clients \ {c} : clients'[d] = clients[d]
  <2>1. \E place \in {"connected", "mapped", "attached", "finishing", "drawn", "failed",
                       "closed"} :
           clients' = [clients EXCEPT ![c] = place]
    BY DEF ShareClient, ConnectClient, Restore, HungUp, Paint, MakeContext, Clear, Finish,
           Acknowledge, Becomes
  <2>2. answered' \in BOOLEAN /\ gpu' \in BOOLEAN /\ buffer' \in {"none", "part", "whole"}
    BY <1>0
    DEF ShareClient, ConnectClient, Restore, HungUp, Paint, MakeContext, Clear, Finish,
        Acknowledge, ShareTyped
  <2> QED
    BY <1>0, <1>1, <2>1, <2>2 DEF ShareTyped
<1>3. DrawnIsWhole'
  <2>1. CASE Paint(c)
    <3>1. /\ program = "share" /\ UNCHANGED <<answered, gpu>>
          /\ buffer' = (IF buffer = "none" THEN "part" ELSE "whole")
          /\ clients'[c] = (IF buffer = "none" THEN "mapped" ELSE "drawn")
      BY <1>0, <2>1 DEF Paint, Becomes, ShareTyped
    <3> QED
      BY <1>0, <1>1, <1>2, <3>1 DEF DrawnIsWhole
  <2>2. CASE Clear(c)
    <3>1. UNCHANGED <<answered, buffer>> /\ gpu' /\ clients'[c] = "finishing"
      BY <1>0, <2>2 DEF Clear, Becomes, ShareTyped
    <3> QED
      BY <1>0, <1>1, <1>2, <3>1 DEF DrawnIsWhole
  <2>3. CASE Finish(c)
    <3>1. UNCHANGED <<answered, buffer, gpu>> /\ ~gpu /\ clients[c] = "finishing"
      BY <2>3 DEF Finish
    <3> QED
      BY <1>0, <1>1, <1>2, <3>1 DEF DrawnIsWhole
  <2>4. CASE Acknowledge(c)
    <3>1. UNCHANGED <<buffer, gpu>> /\ clients[c] = "drawn" /\ clients'[c] = "closed"
      BY <1>0, <2>4 DEF Acknowledge, Becomes, ShareTyped
    <3> QED
      BY <1>0, <1>1, <1>2, <3>1 DEF DrawnIsWhole
  <2>5. CASE ConnectClient(c) \/ Restore(c) \/ HungUp(c) \/ MakeContext(c)
    <3>1. /\ UNCHANGED <<answered, buffer, gpu>>
          /\ clients'[c] \in {"connected", "failed", "mapped", "attached"}
      BY <1>0, <2>5 DEF ConnectClient, Restore, HungUp, MakeContext, Becomes, ShareTyped
    <3> QED
      BY <1>0, <1>1, <1>2, <3>1 DEF DrawnIsWhole
  <2> QED
    BY <2>1, <2>2, <2>3, <2>4, <2>5 DEF ShareClient
<1>4. OneIsServed'
  <2> SUFFICES ASSUME program = "share" PROVE OneIsServed'
    BY <1>1 DEF OneIsServed
  <2>1. CASE ConnectClient(c) \/ HungUp(c)
    <3>1. /\ clients[c] \in {"out", "connected"} /\ clients'[c] \in Waiting
          /\ UNCHANGED <<answered, buffer, gpu>>
      BY <1>0, <2>1 DEF ConnectClient, HungUp, Becomes, Waiting, ShareTyped
    <3> QED
      BY <1>0, <1>1, <1>2, <3>1 DEF OneIsServed, Progress, Waiting
  <2>2. CASE Restore(c)
    <3>1. /\ clients[c] = "described" /\ clients'[c] \in {"mapped", "failed"}
          /\ UNCHANGED <<answered, buffer, gpu>>
      BY <1>0, <2>2 DEF Restore, Becomes, ShareTyped
    <3> QED
      BY <1>0, <1>1, <1>2, <3>1 DEF OneIsServed, Progress, Waiting
  <2>3. CASE Paint(c)
    <3>1. /\ clients[c] = "mapped" /\ UNCHANGED <<answered, gpu>>
          /\ buffer' = (IF buffer = "none" THEN "part" ELSE "whole")
          /\ clients'[c] = (IF buffer = "none" THEN "mapped" ELSE "drawn")
      BY <1>0, <2>3 DEF Paint, Becomes, ShareTyped
    <3> QED
      BY <1>0, <1>1, <1>2, <3>1 DEF OneIsServed, Progress, Waiting
  <2>4. CASE MakeContext(c) \/ Clear(c) \/ Finish(c)
    BY <1>0, <2>4 DEF MakeContext, Clear, Finish, OneIsServed
  <2>5. CASE Acknowledge(c)
    <3>1. /\ clients[c] = "drawn" /\ clients'[c] = "closed" /\ answered'
          /\ UNCHANGED <<buffer, gpu>>
      BY <1>0, <2>5 DEF Acknowledge, Becomes, ShareTyped
    <3> QED
      BY <1>0, <1>1, <1>2, <3>1 DEF OneIsServed, Progress, Waiting
  <2> QED
    BY <2>1, <2>2, <2>3, <2>4, <2>5 DEF ShareClient
<1>5. GlAnswered'
  <2>1. answered => answered'
    BY DEF ShareClient, ConnectClient, Restore, HungUp, Paint, MakeContext, Clear, Finish,
           Acknowledge
  <2> QED
    BY <1>0, <1>1, <2>1 DEF GlAnswered
<1> QED
  BY <1>2, <1>3, <1>4, <1>5 DEF ShareRight

\* Every step of a client of the shared buffer keeps its invariant.
LEMMA NextShare == ShareRight /\ ShareNext => ShareRight'
BY NextServer, NextGpu, NextClient DEF ShareNext
-----------------------------------------------------------------------------
\* Windows that are absent or closed.
LEMMA ClosedRecord ==
    /\ Absent \in WindowRecord /\ Closed \in WindowRecord
    /\ ~Absent.made /\ ~Absent.valid /\ ~Absent.realized /\ Absent.tries = 0
    /\ ~Closed.made /\ ~Closed.valid /\ ~Closed.realized /\ Closed.tries = MaxRealize
BY MaxRealizeAssumption DEF Absent, Closed, WindowRecord

\* At first no window is realized.
LEMMA InitWindows == Init => WindowsRight
<1> SUFFICES ASSUME Init PROVE WindowsRight
  OBVIOUS
<1>1. \A w \in Windows : window[w] = Absent
  BY DEF Init
<1>2. WindowsTyped
  BY ClosedRecord DEF Init, WindowsTyped
<1>3. ViewerRight
  BY DEF Init, ViewerRight, Idle, Realizing
<1>4. RealizedRight /\ UsableUntilClosed
  BY <1>1, ClosedRecord, MaxRealizeAssumption DEF RealizedRight, UsableUntilClosed
<1>5. CurrentOnce
  BY DEF Init, CurrentOnce
<1> QED
  BY <1>2, <1>3, <1>4, <1>5 DEF WindowsRight

\* A step of the display, or of the shared buffer, leaves what is said of the windows.
LEMMA SameWindows ==
    ASSUME WindowsRight, UNCHANGED windowVars, stage = "ready" => stage' = "ready",
           viewer.step \in Realizing => UNCHANGED stage
    PROVE  WindowsRight'
<1>1. UNCHANGED <<window, contexts, current, drawing, viewer>>
  BY DEF windowVars
<1>2. WindowsTyped' /\ RealizedRight' /\ CurrentOnce'
  BY <1>1 DEF WindowsRight, WindowsTyped, RealizedRight, CurrentOnce
<1>3. ViewerRight'
  BY <1>1 DEF WindowsRight, ViewerRight
<1>4. UsableUntilClosed'
  BY <1>1 DEF WindowsRight, UsableUntilClosed
<1> QED
  BY <1>2, <1>3, <1>4 DEF WindowsRight

\* An action of the viewer or of a graphics thread keeps the types.
LEMMA NextWindowsTyped ==
    ASSUME WindowsRight, NEW w \in Windows, Window(w)
    PROVE  WindowsTyped'
<1>0. WindowsTyped /\ window[w] \in WindowRecord /\ w \in Threads /\ "viewer" \in Threads
  BY DEF WindowsRight, WindowsTyped, Threads
<1>1. window' \in [Windows -> WindowRecord]
  <2> USE DEF WindowsTyped
  <2>1. CASE Construct(w)
    <3>1. [Absent EXCEPT !.made = TRUE] \in WindowRecord
      BY DEF Absent, WindowRecord
    <3> QED
      BY <1>0, <2>1, <3>1 DEF Construct
  <2>2. CASE CreateFails(w) \/ Close(w)
    BY <1>0, <2>2, ClosedRecord DEF CreateFails, Close
  <2>3. CASE CreateContext(w)
    BY <1>0, <2>3 DEF CreateContext, WindowRecord
  <2>4. CASE Realize(w)
    <3> DEFINE r == [window[w] EXCEPT !.tries = window[w].tries + 1, !.mode = "none"]
    <3>1. r \in WindowRecord
      <4>1. [window[w] EXCEPT !.tries = window[w].tries + 1] \in WindowRecord
        BY <1>0 DEF WindowRecord
      <4>2. r = [[window[w] EXCEPT !.tries = window[w].tries + 1] EXCEPT !.mode = "none"]
        OBVIOUS
      <4> QED
        BY <4>1, <4>2 DEF WindowRecord
    <3>2. window' = [window EXCEPT ![w] = r]
      BY <1>0, <2>4 DEF Realize
    <3> HIDE DEF r
    <3> QED
      BY <1>0, <3>1, <3>2
  <2>5. CASE HybrisImage(w)
    BY <1>0, <2>5 DEF HybrisImage, WindowRecord
  <2>6. CASE AllocateBuffer(w)
    <3>1. PICK mode \in {"dmabuf", "readback"} : window' = [window EXCEPT ![w].mode = mode]
      BY <2>6 DEF AllocateBuffer
    <3>2. [window[w] EXCEPT !.mode = mode] \in WindowRecord
      BY <1>0 DEF WindowRecord
    <3> QED
      BY <1>0, <3>1, <3>2
  <2>7. CASE Realized(w)
    BY <1>0, <2>7 DEF Realized, WindowRecord
  <2>8. CASE \/ RealizeEntries(w) \/ TryHybrisBuffer(w) \/ NoHybrisBuffer(w) \/ RealizeFails(w)
             \/ StartThread(w) \/ MakeCurrent(w) \/ SwapBuffers(w) \/ ReleaseContext(w)
             \/ StopThread(w)
    BY <1>0, <2>8 DEF RealizeEntries, TryHybrisBuffer, NoHybrisBuffer, RealizeFails,
           StartThread, MakeCurrent, SwapBuffers, ReleaseContext, StopThread, windowVars
  <2> QED
    BY <2>1, <2>2, <2>3, <2>4, <2>5, <2>6, <2>7, <2>8 DEF Window
<1>2. current' \in [Threads -> Windows \union {Nobody}]
  <2>1. \/ UNCHANGED current
        \/ \E t \in Threads, x \in Windows \union {Nobody} : Binds(t, x)
    BY <1>0
    DEF Window, Construct, CreateContext, CreateFails, Realize, RealizeEntries, TryHybrisBuffer,
        HybrisImage, NoHybrisBuffer, AllocateBuffer, RealizeFails, Realized, StartThread,
        MakeCurrent, SwapBuffers, ReleaseContext, StopThread, Close, windowVars
  <2> QED
    BY <1>0, <2>1 DEF WindowsTyped, Binds
<1>3. \/ viewer' = Idle
      \/ viewer' \in [window : Windows, step : Realizing \union {"initialize"}]
  <2>1. \/ viewer' = Idle \/ viewer' = viewer
        \/ \E s \in Realizing \union {"initialize"} : Goes(w, s)
    BY <1>0
    DEF Window, Construct, CreateContext, CreateFails, Realize, RealizeEntries, TryHybrisBuffer,
        HybrisImage, NoHybrisBuffer, AllocateBuffer, RealizeFails, Realized, StartThread,
        MakeCurrent, SwapBuffers, ReleaseContext, StopThread, Close, windowVars, Realizing
  <2> QED
    BY <1>0, <2>1 DEF WindowsTyped, Goes
<1> QED
  BY <1>1, <1>2, <1>3 DEF WindowsTyped

\* Only Realized makes a window realized that was not.
LEMMA WhoRealizes ==
    ASSUME WindowsRight, NEW w \in Windows, Window(w),
           ~CreateFails(w), ~Close(w), ~Realized(w), window'[w].realized
    PROVE  window[w].realized
<1>1. /\ w \in DOMAIN window
      /\ DOMAIN window[w] = {"made", "valid", "realized", "mode", "tries"}
  BY DEF WindowsRight, WindowsTyped, WindowRecord
<1>2. CASE Construct(w)
  <2>1. window'[w] = [Absent EXCEPT !.made = TRUE]
    BY <1>1, <1>2 DEF Construct
  <2> QED
    BY <2>1 DEF Absent
<1>3. CASE CreateContext(w) \/ Realize(w)
  BY <1>1, <1>3 DEF CreateContext, Realize
<1>4. CASE HybrisImage(w) \/ AllocateBuffer(w)
  <2>1. UNCHANGED window \/ \E m : window' = [window EXCEPT ![w].mode = m]
    BY <1>4 DEF HybrisImage, AllocateBuffer
  <2> QED
    BY <1>1, <2>1
<1>5. CASE \/ RealizeEntries(w) \/ TryHybrisBuffer(w) \/ NoHybrisBuffer(w) \/ RealizeFails(w)
           \/ StartThread(w) \/ MakeCurrent(w) \/ SwapBuffers(w) \/ ReleaseContext(w)
           \/ StopThread(w)
  <2>1. UNCHANGED window
    BY <1>5 DEF RealizeEntries, TryHybrisBuffer, NoHybrisBuffer, RealizeFails, StartThread,
           MakeCurrent, SwapBuffers, ReleaseContext, StopThread, windowVars
  <2> QED
    BY <2>1
<1> QED
  BY <1>2, <1>3, <1>4, <1>5 DEF Window

\* What an action does to the windows: only its own changes, and it stays closed.
LEMMA WindowChanges ==
    ASSUME WindowsRight, NEW w \in Windows, Window(w)
    PROVE  /\ \A v \in Windows \ {w} : window'[v] = window[v]
           /\ window[w] = Closed /\ MaxRealize > 0 => window'[w] = Closed
           /\ window'[w].valid => window'[w].made
           /\ window'[w].tries \in 0 .. MaxRealize
           /\ window'[w].realized => window'[w].tries > 0
<1>0. WindowsTyped /\ ViewerRight /\ RealizedRight /\ window[w] \in WindowRecord
  BY DEF WindowsRight, WindowsTyped
<1>a. MaxRealize \in Nat
  BY MaxRealizeAssumption
<1>b. /\ w \in DOMAIN window /\ DOMAIN window[w] = {"made", "valid", "realized", "mode", "tries"}
      /\ window[w].tries \in Nat
  BY <1>0 DEF WindowsTyped, WindowRecord
<1>1. CASE Construct(w)
  <2>1. window' = [window EXCEPT ![w] = [Absent EXCEPT !.made = TRUE]] /\ window[w].tries = 0
    BY <1>1 DEF Construct
  <2> QED
    BY <1>a, <1>b, <2>1, ClosedRecord DEF Absent
<1>2. CASE CreateFails(w) \/ Close(w)
  <2>1. window' = [window EXCEPT ![w] = Closed]
    BY <1>2 DEF CreateFails, Close
  <2> QED
    BY <1>a, <1>b, <2>1, ClosedRecord
<1>3. CASE CreateContext(w)
  <2>1. window' = [window EXCEPT ![w].valid = TRUE] /\ window[w].made
    BY <1>0, <1>3 DEF CreateContext, At, ViewerRight
  <2> QED
    BY <1>0, <1>b, <2>1, ClosedRecord DEF RealizedRight
<1>4. CASE Realize(w)
  <2>1. window' = [window EXCEPT ![w].tries = window[w].tries + 1, ![w].mode = "none"]
        /\ window[w].valid /\ window[w].tries < MaxRealize
    BY <1>4 DEF Realize
  <2>2. /\ \A v \in Windows \ {w} : window'[v] = window[v]
        /\ window'[w].made = window[w].made /\ window'[w].tries = window[w].tries + 1
    BY <1>0, <1>b, <2>1 DEF WindowsTyped
  <2>3. window[w] # Closed /\ window[w].made
    BY <1>0, <2>1, ClosedRecord DEF RealizedRight
  <2>4. window'[w].tries \in 0 .. MaxRealize /\ window'[w].tries > 0
    <3>1. window[w].tries < MaxRealize /\ window[w].tries \in Nat
      BY <1>b, <2>1
    <3> QED
      BY <1>a, <2>2, <3>1
  <2> QED
    BY <2>2, <2>3, <2>4
<1>5. CASE HybrisImage(w) \/ AllocateBuffer(w)
  <2>1. window[w].made /\ (UNCHANGED window \/ \E m : window' = [window EXCEPT ![w].mode = m])
    BY <1>0, <1>5 DEF HybrisImage, AllocateBuffer, At, ViewerRight
  <2>2. /\ \A v \in Windows \ {w} : window'[v] = window[v]
        /\ window'[w].made = window[w].made /\ window'[w].tries = window[w].tries
        /\ window'[w].valid = window[w].valid /\ window'[w].realized = window[w].realized
    <3>1. CASE UNCHANGED window
      BY <3>1
    <3>2. ASSUME NEW m, window' = [window EXCEPT ![w].mode = m]
          PROVE  /\ \A v \in Windows \ {w} : window'[v] = window[v]
                 /\ window'[w].made = window[w].made /\ window'[w].tries = window[w].tries
                 /\ window'[w].valid = window[w].valid
                 /\ window'[w].realized = window[w].realized
      BY <1>0, <1>b, <3>2 DEF WindowsTyped
    <3> QED
      BY <2>1, <3>1, <3>2
  <2>3. window[w] # Closed
    BY <2>1, ClosedRecord
  <2> QED
    BY <1>0, <2>2, <2>3 DEF RealizedRight
<1>6. CASE Realized(w)
  <2>1. window' = [window EXCEPT ![w].realized = TRUE] /\ window[w].made /\ window[w].tries > 0
    BY <1>0, <1>6 DEF Realized, At, ViewerRight, Realizing
  <2> QED
    BY <1>0, <1>b, <2>1, ClosedRecord DEF RealizedRight
<1>7. CASE \/ RealizeEntries(w) \/ TryHybrisBuffer(w) \/ NoHybrisBuffer(w) \/ RealizeFails(w)
           \/ StartThread(w) \/ MakeCurrent(w) \/ SwapBuffers(w) \/ ReleaseContext(w)
           \/ StopThread(w)
  <2>1. UNCHANGED window
    BY <1>7 DEF RealizeEntries, TryHybrisBuffer, NoHybrisBuffer, RealizeFails, StartThread,
           MakeCurrent, SwapBuffers, ReleaseContext, StopThread, windowVars
  <2> QED
    BY <1>0, <2>1 DEF RealizedRight
<1> QED
  BY <1>1, <1>2, <1>3, <1>4, <1>5, <1>6, <1>7 DEF Window

\* The viewer goes on with the window it realizes, or is done with it.
LEMMA NextViewer ==
    ASSUME WindowsRight, NEW w \in Windows, Window(w)
    PROVE  ViewerRight'
<1>0. WindowsTyped /\ ViewerRight /\ RealizedRight /\ window[w] \in WindowRecord
      /\ WindowsTyped'
  BY NextWindowsTyped DEF WindowsRight, WindowsTyped
<1>a. /\ w \in DOMAIN window /\ DOMAIN window[w] = {"made", "valid", "realized", "mode", "tries"}
      /\ window[w].tries \in Nat
  BY <1>0 DEF WindowsTyped, WindowRecord
<1>1. CASE \/ CreateContext(w) \/ CreateFails(w) \/ RealizeFails(w) \/ Realized(w) \/ Close(w)
  <2>1. viewer'.step = "idle"
    BY <1>1 DEF CreateContext, CreateFails, RealizeFails, Realized, Close, Idle
  <2> QED
    BY <2>1 DEF ViewerRight, Realizing
<1>2. CASE Construct(w)
  <2>1. viewer'.step = "initialize" /\ viewer'.window = w
        /\ window' = [window EXCEPT ![w] = [Absent EXCEPT !.made = TRUE]]
    BY <1>2 DEF Construct, Goes
  <2>2. window'[w].made /\ ~window'[w].realized
    BY <1>a, <2>1 DEF Absent
  <2> QED
    BY <2>1, <2>2 DEF ViewerRight, Realizing
<1>3. CASE Realize(w)
  <2>1. UNCHANGED <<displayVars, contexts>>
    BY <1>3 DEF Realize
  <2>2. CASE viewer'.step = "idle"
    BY <2>2 DEF ViewerRight, Realizing
  <2>3. CASE viewer'.step # "idle"
    <3>1. viewer'.window = w /\ viewer'.step = "entries" /\ stage = "ready" /\ w \in contexts
      BY <1>3, <2>3 DEF Realize, Goes, MayBind, Idle
    <3>2. window'[w].made /\ ~window'[w].realized /\ window'[w].tries > 0
      BY <1>0, <1>a, <1>3 DEF Realize, RealizedRight
    <3> QED
      BY <2>1, <3>1, <3>2 DEF ViewerRight, displayVars
  <2> QED
    BY <2>2, <2>3
<1>4. CASE HybrisImage(w) \/ AllocateBuffer(w) \/ RealizeEntries(w) \/ TryHybrisBuffer(w)
           \/ NoHybrisBuffer(w)
  <2>1. UNCHANGED <<displayVars, contexts>> /\ viewer.step \in Realizing /\ viewer.window = w
    BY <1>4 DEF HybrisImage, AllocateBuffer, RealizeEntries, TryHybrisBuffer, NoHybrisBuffer,
           At, Realizing
  <2>2. UNCHANGED window \/ \E m : window' = [window EXCEPT ![w].mode = m]
    BY <1>4 DEF HybrisImage, AllocateBuffer, RealizeEntries, TryHybrisBuffer, NoHybrisBuffer
  <2>3. viewer' = Idle \/ (viewer'.window = w /\ viewer'.step \in Realizing)
    BY <1>4 DEF HybrisImage, AllocateBuffer, RealizeEntries, TryHybrisBuffer, NoHybrisBuffer,
           Goes, Realizing
  <2>4. window'[w].made /\ ~window'[w].realized /\ window'[w].tries > 0
    BY <1>0, <1>a, <2>1, <2>2 DEF ViewerRight, Realizing
  <2>5. CASE viewer' = Idle
    BY <2>5 DEF ViewerRight, Idle, Realizing
  <2>6. CASE viewer'.window = w /\ viewer'.step \in Realizing
    BY <1>0, <2>1, <2>4, <2>6 DEF ViewerRight, Realizing, displayVars
  <2> QED
    BY <2>3, <2>5, <2>6
<1>5. CASE \/ StartThread(w) \/ MakeCurrent(w) \/ SwapBuffers(w) \/ ReleaseContext(w)
           \/ StopThread(w)
  <2>1. UNCHANGED <<stage, window, contexts, viewer>>
    BY <1>5 DEF StartThread, MakeCurrent, SwapBuffers, ReleaseContext, StopThread, windowVars,
           displayVars
  <2> QED
    BY <1>0, <2>1 DEF ViewerRight
<1> QED
  BY <1>1, <1>2, <1>3, <1>4, <1>5 DEF Window

\* Who binds a context: the viewer while it realizes, and the window's own thread.
LEMMA BindChanges ==
    ASSUME WindowsRight, NEW w \in Windows, Window(w)
    PROVE  \/ UNCHANGED current
           \/ Binds("viewer", Nobody)
           \/ Binds(w, Nobody)
           \/ Binds(w, w) /\ MayBind(w, w)
           \/ Realize(w) /\ Binds("viewer", w) /\ MayBind("viewer", w)
BY DEF Window, Construct, CreateContext, CreateFails, Realize, RealizeEntries, TryHybrisBuffer,
       HybrisImage, NoHybrisBuffer, AllocateBuffer, RealizeFails, Realized, StartThread,
       MakeCurrent, SwapBuffers, ReleaseContext, StopThread, Close, windowVars

\* No step makes a context current on a second thread.
LEMMA NextOnce ==
    ASSUME WindowsRight, NEW w \in Windows, Window(w)
    PROVE  CurrentOnce'
<1>0. WindowsTyped /\ CurrentOnce /\ w \in Threads /\ "viewer" \in Threads
  BY DEF WindowsRight, Threads
<1>1. CASE UNCHANGED current
  BY <1>0, <1>1 DEF CurrentOnce
<1>2. CASE \E t \in Threads : Binds(t, Nobody)
  BY <1>0, <1>2 DEF CurrentOnce, Binds, WindowsTyped
<1>3. CASE \E t \in Threads : Binds(t, w) /\ MayBind(t, w)
  BY <1>0, <1>3 DEF CurrentOnce, Binds, MayBind, WindowsTyped
<1> QED
  BY <1>0, <1>1, <1>2, <1>3, BindChanges

\* No step leaves a window realized that the viewer did not try, or still has current.
LEMMA NextRealized ==
    ASSUME WindowsRight, NEW w \in Windows, Window(w)
    PROVE  RealizedRight'
<1>0. WindowsTyped /\ RealizedRight /\ window[w] \in WindowRecord
  BY DEF WindowsRight, WindowsTyped
<1>1. ASSUME NEW v \in Windows
      PROVE  /\ window'[v].valid => window'[v].made
             /\ window'[v].tries \in 0 .. MaxRealize
             /\ window'[v].realized => window'[v].tries > 0
  BY <1>0, WindowChanges DEF RealizedRight
<1>2. ASSUME NEW v \in Windows, window'[v].realized PROVE current'["viewer"] # v
  <2>a. "viewer" \notin Windows /\ Nobody \notin Windows /\ "viewer" \in Threads
    BY WindowsAssumption, NobodyAssumption DEF Threads
  <2>1. CASE Realized(w)
    <3>1. current'["viewer"] = Nobody
      BY <1>0, <2>a, <2>1 DEF Realized, Binds, WindowsTyped
    <3> QED
      BY <2>a, <3>1
  <2>2. CASE ~Realized(w)
    <3>1. window[v].realized
      <4>1. CASE v # w
        BY <1>2, <4>1, WindowChanges
      <4>2. CASE v = w
        <5>1. ~CreateFails(w) /\ ~Close(w)
          BY <1>0, <1>2, <4>2, ClosedRecord DEF CreateFails, Close, WindowsTyped
        <5> QED
          BY <1>2, <2>2, <4>2, <5>1, WhoRealizes
      <4> QED
        BY <4>1, <4>2
    <3>2. CASE Realize(w)
      <4>1. v # w /\ current'["viewer"] \in {w, current["viewer"]}
        BY <1>0, <2>a, <3>1, <3>2 DEF Realize, Binds, WindowsTyped
      <4> QED
        BY <1>0, <3>1, <4>1 DEF RealizedRight
    <3>3. CASE ~Realize(w)
      <4>1. current'["viewer"] \in {Nobody, current["viewer"]}
        BY <1>0, <2>a, <3>3, BindChanges DEF Binds, WindowsTyped
      <4> QED
        BY <1>0, <2>a, <3>1, <4>1 DEF RealizedRight
    <3> QED
      BY <3>2, <3>3
  <2> QED
    BY <2>1, <2>2
<1> QED
  BY <1>1, <1>2 DEF RealizedRight

\* Who takes the display from a window that is realized is closed, and stays it.
LEMMA NextUsable ==
    ASSUME WindowsRight, NEW w \in Windows, Window(w)
    PROVE  UsableUntilClosed'
<1>0. /\ WindowsTyped /\ RealizedRight /\ UsableUntilClosed /\ ViewerRight
      /\ RealizedRight'
  BY NextRealized DEF WindowsRight
<1>a. MaxRealize \in Nat /\ w \in DOMAIN window
  BY MaxRealizeAssumption, <1>0 DEF WindowsTyped
<1> SUFFICES ASSUME NEW u \in Windows, window'[u].realized
             PROVE  \/ stage' = "ready" /\ u \in contexts'
                    \/ \E v \in Windows \ {u} : window'[v] = Closed
  BY DEF UsableUntilClosed
<1>1. MaxRealize > 0
  BY <1>0, <1>a DEF RealizedRight
<1>2. \A v \in Windows : window[v] = Closed => window'[v] = Closed
  BY <1>1, WindowChanges
<1>3. CASE CreateFails(w) \/ Close(w)
  <2>1. window'[w] = Closed
    BY <1>a, <1>3 DEF CreateFails, Close
  <2>2. w # u
    BY <2>1, ClosedRecord
  <2> QED
    BY <2>1, <2>2
<1>4. CASE Realized(w) /\ u = w
  <2>1. stage = "ready" /\ w \in contexts /\ UNCHANGED <<displayVars, contexts>>
    BY <1>0, <1>4 DEF Realized, At, ViewerRight, Realizing
  <2> QED
    BY <1>4, <2>1 DEF displayVars
<1>5. CASE ~(CreateFails(w) \/ Close(w)) /\ ~(Realized(w) /\ u = w)
  <2>1. window[u].realized
    <3>1. CASE u # w
      BY <3>1, WindowChanges
    <3>2. CASE u = w
      <4>1. ~CreateFails(w) /\ ~Close(w) /\ ~Realized(w)
        BY <1>5, <3>2
      <4> QED
        BY <3>2, <4>1, WhoRealizes
    <3> QED
      BY <3>1, <3>2
  <2>2. \/ stage = "ready" /\ u \in contexts
        \/ \E v \in Windows \ {u} : window[v] = Closed
    BY <1>0, <2>1 DEF UsableUntilClosed
  <2>3. contexts \subseteq contexts' /\ (stage = "ready" => stage' = "ready")
    BY <1>5
    DEF Window, Construct, CreateContext, Realize, RealizeEntries, TryHybrisBuffer,
        HybrisImage, NoHybrisBuffer, AllocateBuffer, RealizeFails, Realized, StartThread,
        MakeCurrent, SwapBuffers, ReleaseContext, StopThread, windowVars, displayVars
  <2> QED
    BY <1>2, <2>2, <2>3
<1> QED
  BY <1>3, <1>4, <1>5

\* The display, and the buffer, while a window acts.
LEMMA WindowsShare ==
    ASSUME DisplayRight, ShareTyped, program = "provider", NEW w \in Windows, Window(w)
    PROVE  DisplayRight' /\ ShareRight'
<1>1. UNCHANGED displayVars \/ Reinitialize \/ TerminateDisplay
  BY DEF Window, Construct, CreateContext, CreateFails, Realize, RealizeEntries,
         TryHybrisBuffer, HybrisImage, NoHybrisBuffer, AllocateBuffer, RealizeFails, Realized,
         StartThread, MakeCurrent, SwapBuffers, ReleaseContext, StopThread, Close
<1>2. /\ UNCHANGED <<program, server, answered, gpu>> /\ buffer' \in {buffer, "whole"}
      /\ UNCHANGED clients \/ \E place \in {"connected", "mapped", "failed"} : Becomes(w, place)
  BY DEF Window, Construct, CreateContext, CreateFails, Realize, RealizeEntries,
         TryHybrisBuffer, HybrisImage, NoHybrisBuffer, AllocateBuffer, RealizeFails, Realized,
         StartThread, MakeCurrent, SwapBuffers, ReleaseContext, StopThread, Close, shareVars
<1>3. ShareTyped'
  BY <1>2, WindowsAssumption DEF ShareTyped, Becomes
<1> QED
  BY <1>1, <1>2, <1>3, SameDisplay, DisplayBeginsOrEnds, ProvidersShare

\* The invariant holds in every state.
LEMMA AlwaysRight == Spec => []Right
<1>1. Init => Right
  BY InitDisplay, InitShare, InitWindows DEF Init, Right
<1>2. Right /\ [Next]_vars => Right'
  <2> SUFFICES ASSUME Right, [Next]_vars PROVE Right'
    OBVIOUS
  <2>0. DisplayRight /\ ShareRight /\ WindowsRight /\ ShareTyped
    BY DEF Right, ShareRight
  <2>1. CASE Tools
    <3>1. UNCHANGED displayVars /\ UNCHANGED windowVars /\ ShareNext
      BY <2>1 DEF Tools
    <3>2. UNCHANGED stage
      BY <3>1 DEF displayVars
    <3> QED
      BY <2>0, <3>1, <3>2, SameDisplay, SameWindows, NextShare DEF Right
  <2>2. CASE InitializeDisplay
    <3>1. viewer.step = "initialize" /\ DisplayNext /\ UNCHANGED shareVars /\ UNCHANGED windowVars
      BY <2>2 DEF InitializeDisplay
    <3>2. stage # "ready" /\ viewer.step \notin Realizing
      BY <3>1
      DEF DisplayNext, Connect, RegistryDrm, RegistrySwrast, RegistrySwrastFails, Extensions,
          ExtensionsFails, Drm, Authenticate, LoadDriver, LoadSwrast, Fails, Realizing
    <3> QED
      BY <2>0, <3>1, <3>2, NextDisplay, SameShare, SameWindows DEF Right
  <2>3. CASE program = "provider" /\ \E w \in Windows : Window(w)
    <3>1. PICK w \in Windows : Window(w)
      BY <2>3
    <3>2. DisplayRight' /\ ShareRight'
      BY <2>0, <2>3, <3>1, WindowsShare
    <3>3. WindowsTyped' /\ ViewerRight' /\ RealizedRight'
      BY <2>0, <3>1, NextWindowsTyped, NextViewer, NextRealized
    <3>4. CurrentOnce' /\ UsableUntilClosed'
      BY <2>0, <3>1, NextOnce, NextUsable
    <3> QED
      BY <3>2, <3>3, <3>4 DEF Right, WindowsRight
  <2>4. CASE UNCHANGED vars
    <3>1. UNCHANGED displayVars /\ UNCHANGED shareVars /\ UNCHANGED windowVars
      BY <2>4 DEF vars
    <3>2. UNCHANGED stage
      BY <3>1 DEF displayVars
    <3> QED
      BY <2>0, <3>1, <3>2, SameDisplay, SameShare, SameWindows DEF Right
  <2> QED
    BY <2>1, <2>2, <2>3, <2>4 DEF Next
<1> QED
  BY <1>1, <1>2, PTL DEF Spec
-----------------------------------------------------------------------------
(***************************************************************************)
(* dri2_initialize_wayland: a display that is ready can render, and the    *)
(* compositor takes the buffers of every configuration.                    *)
(***************************************************************************)
THEOREM ReadyCanBeUsed == Spec => []ReadyIsUsable
<1>1. Right => ReadyIsUsable
  BY DEF Right, DisplayRight, SharedMemoryThere, DeviceThere, ConfigsTaken, ReadyIsUsable
<1> QED
  BY <1>1, AlwaysRight, PTL

(***************************************************************************)
(* dri2_teardown_wayland, on every path: nothing is left but the feedback. *)
(***************************************************************************)
THEOREM NothingIsLeft == Spec => []NothingLeft
<1>1. Right => NothingLeft
  <2> SUFFICES ASSUME Right PROVE NothingLeft
    OBVIOUS
  <2>1. stage \in {"failed", "ended"} => objects = {}
    BY DEF Right, DisplayRight, NothingKept
  <2>2. stage = "broken" => objects \subseteq {"feedback"}
    BY DEF Right, DisplayRight, NothingKept
  <2> QED
    BY <2>1, <2>2 DEF NothingLeft
<1> QED
  BY <1>1, AlwaysRight, PTL

(***************************************************************************)
(* run_server of hybshare and hybgl: what it says of the shared buffer.    *)
(***************************************************************************)
THEOREM VerdictsAreRight == Spec => []VerdictIsRight
<1>1. Right => VerdictIsRight
  BY DEF Right, ShareRight, ShareTyped, OneIsServed, GlAnswered, VerdictIsRight
<1> QED
  BY <1>1, AlwaysRight, PTL

(***************************************************************************)
(* realizeImplementation hands the context back: it is current on one      *)
(* thread at most, and the graphics thread can bind it.                    *)
(***************************************************************************)
THEOREM ContextsAreHandedBack == Spec => []HandedBack
<1>1. Right => HandedBack
  <2> SUFFICES ASSUME Right, NEW w \in Windows
               PROVE  /\ Cardinality({t \in Threads : current[t] = w}) <= 1
                      /\ window[w].realized => current["viewer"] # w
    BY DEF HandedBack
  <2> DEFINE S == {t \in Threads : current[t] = w}
  <2>1. ASSUME S = {} PROVE Cardinality(S) <= 1
    <3> HIDE DEF S
    <3> QED
      BY <2>1, FS_EmptySet
  <2>2. ASSUME S # {} PROVE Cardinality(S) <= 1
    <3>1. PICK t \in S : TRUE
      BY <2>2
    <3>2. \A u \in S : u = t
      BY NobodyAssumption, WindowsAssumption DEF Right, WindowsRight, CurrentOnce
    <3>3. S = {t}
      BY <3>1, <3>2
    <3> HIDE DEF S
    <3> QED
      BY <3>3, FS_Singleton
  <2>3. window[w].realized => current["viewer"] # w
    BY DEF Right, WindowsRight, RealizedRight
  <2>4. Cardinality(S) <= 1
    BY <2>1, <2>2
  <2> QED
    BY <2>3, <2>4
<1> QED
  BY <1>1, AlwaysRight, PTL

(***************************************************************************)
(* A window that is realized has its context, until another one takes the  *)
(* display along (eglTerminate in closeImplementation).                    *)
(***************************************************************************)
THEOREM RealizedAreUsable == Spec => []UsableUntilClosed
<1>1. Right => UsableUntilClosed
  BY DEF Right, WindowsRight
<1> QED
  BY <1>1, AlwaysRight, PTL
=============================================================================
