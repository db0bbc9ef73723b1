--------------------------- MODULE WaylandDisplay ---------------------------
(***************************************************************************)
(* The display of mesa/platform_wayland.c: dri2_initialize_wayland connects*)
(* to the compositor, learns from a series of round trips what it offers,  *)
(* opens the device and loads the driver; dri2_teardown_wayland gives back *)
(* what it acquired.  A round trip handles every event the compositor sent *)
(* in answer to the requests before it.                                    *)
(*                                                                         *)
(* Of a compositor only what it offers matters: the version of its dmabuf  *)
(* protocol (0 for none), wl_drm, wl_shm, and the formats it takes.        *)
(***************************************************************************)
EXTENDS Integers, FiniteSets

CONSTANTS
    Options,        \* of "hardware", "software", "zink"
    Compositors     \* what a compositor may offer

\* The formats buffers may have, each with a substitute of the same precision: another
\* of these, one that no compositor can announce ("unknown"), or none.
dri2_wl_visuals ==
    [ABGR16F |-> "none", XBGR16F |-> "none",
     XRGB2101010 |-> "XBGR2101010", ARGB2101010 |-> "ABGR2101010",
     XBGR2101010 |-> "XRGB2101010", ABGR2101010 |-> "ARGB2101010",
     XRGB8888 |-> "none", ARGB8888 |-> "none", ABGR8888 |-> "none", XBGR8888 |-> "none",
     RGB565 |-> "none", ARGB1555 |-> "unknown", XRGB1555 |-> "unknown",
     ARGB4444 |-> "unknown", XRGB4444 |-> "unknown"]

Formats == DOMAIN dri2_wl_visuals

ASSUME OptionsAssumption == Options \subseteq {"hardware", "software", "zink"}
ASSUME CompositorsAssumption ==
    Compositors \subseteq [dmabuf : {0, 3, 4}, drm : BOOLEAN, shm : BOOLEAN,
                           formats : SUBSET Formats]

VARIABLES
    option,         \* disp->Options
    compositor,     \* what it offers
    stage,          \* how far the initialization is
    objects,        \* what was acquired and not given back
    drmName,        \* wl_drm_name: is wl_drm known?
    formats,        \* formats_bitmap
    device,         \* fd_render_gpu: "none", "render" or "primary"
    authenticated,
    prime,          \* is the display on another GPU?
    configs         \* the formats of the EGL configurations

displayVars == <<option, compositor, stage, objects, drmName, formats, device, authenticated,
                 prime, configs>>

DisplayInit ==
    /\ option \in Options /\ compositor \in Compositors
    /\ stage = "start" /\ objects = {} /\ drmName = FALSE /\ formats = {}
    /\ device = "none" /\ authenticated = FALSE /\ prime = FALSE /\ configs = {}

\* What dri2_teardown_wayland, and dri2_display_destroy before it, give back.
Owned == {"formats", "wl_drm", "wl_dmabuf", "wl_shm", "registry", "wrapper", "queue",
          "connection", "device"}

\* Faulty: the connection is closed whoever opened it, and the device is forgotten.
TeardownButDevice(s) ==
    /\ stage' = s
    /\ objects' = objects \ (Owned \ {"device"})
    /\ device' = "none"
    /\ UNCHANGED <<option, compositor, drmName, formats, authenticated, prime, configs>>

Teardown(s) ==
    /\ stage' = s
    /\ objects' = objects \ Owned
    /\ device' = "none"
    /\ UNCHANGED <<option, compositor, drmName, formats, authenticated, prime, configs>>

\* Any other step that fails: the connection, a round trip, the device, the driver.
Fails ==
    /\ stage \in {"start", "registry", "drm", "authenticate", "driver"}
    /\ Teardown("failed")
-----------------------------------------------------------------------------
\* Up to the first round trip.  The clean-up after dri2_wl_formats_init failed frees
\* what that function had freed, or goes through a pointer that was never set.
Connect ==
    /\ stage = "start"
    /\ \/ /\ stage' = "registry"
          /\ \E own \in BOOLEAN :
                objects' = {"formats", "queue", "wrapper", "registry"}
                           \union (IF own THEN {"connection"} ELSE {})
       \/ stage' = "crashed" /\ UNCHANGED objects
    /\ UNCHANGED <<option, compositor, drmName, formats, device, authenticated,
                   prime, configs>>

\* registry_handle_global_drm
RegistryDrm ==
    /\ stage = "registry" /\ option = "hardware"
    /\ drmName' = compositor.drm
    /\ objects' = objects \union (IF compositor.dmabuf >= 3 THEN {"wl_dmabuf"} ELSE {})
                          \union (IF compositor.dmabuf >= 4 THEN {"feedback"} ELSE {})
    /\ stage' = "extensions"
    /\ UNCHANGED <<option, compositor, formats, device, authenticated,
                   prime, configs>>

\* registry_handle_global_swrast: no device is open yet, so only wl_shm is bound; the
\* second round trip brings its formats.  Zink goes on without a device.
RegistrySwrast ==
    /\ stage = "registry" /\ option # "hardware"
    /\ compositor.shm /\ compositor.formats # {}
    /\ formats' = compositor.formats
    /\ objects' = objects \union {"wl_shm"}
    /\ stage' = IF option = "zink" THEN "extensions" ELSE "driver"
    /\ UNCHANGED <<option, compositor, drmName, device, authenticated,
                   prime, configs>>

RegistrySwrastFails ==
    /\ stage = "registry" /\ option # "hardware"
    /\ ~compositor.shm \/ compositor.formats = {}
    /\ Teardown("failed")

\* The round trip of dri2_initialize_wayland_drm_extensions: the default feedback of
\* version 4 brings formats, if its table can be mapped, and the device, if that can be
\* opened; version 3 brings formats only.
Extensions ==
    /\ stage = "extensions"
    /\ \/ /\ "feedback" \in objects
          /\ formats' \in {{}, compositor.formats}
          /\ device' \in {"none", "render"}
       \/ /\ "feedback" \notin objects
          /\ formats' = IF "wl_dmabuf" \in objects THEN compositor.formats ELSE formats
          /\ UNCHANGED device
    /\ authenticated' = (device' = "render")
    /\ objects' = (objects \ {"feedback"}) \union (IF device' = "render" THEN {"device"} ELSE {})
    /\ stage' = IF device' = "render" \/ option = "zink" THEN "driver" ELSE "drm"
    /\ UNCHANGED <<option, compositor, drmName, prime, configs>>

\* The connection breaks in that round trip: the feedback is not given back.
ExtensionsFails ==
    /\ stage = "extensions"
    /\ \/ /\ option = "zink"
          /\ stage' = "driver"
          /\ UNCHANGED <<option, compositor, objects, drmName, formats, device, authenticated,
                   prime, configs>>
       \/ option = "hardware" /\ Teardown("broken")

\* Without a device wl_drm is asked for one.  A primary node needs the compositor's
\* authentication, which takes one more round trip.
Drm ==
    /\ stage = "drm" /\ drmName
    /\ device' \in {"render", "primary"}
    /\ authenticated' = (device' = "render")
    /\ formats' = formats \union compositor.formats
    /\ objects' = objects \union {"wl_drm", "device"}
    /\ stage' = IF authenticated' THEN "driver" ELSE "authenticate"
    /\ UNCHANGED <<option, compositor, drmName, prime, configs>>

Authenticate ==
    /\ stage = "authenticate"
    /\ authenticated' = TRUE /\ stage' = "driver"
    /\ UNCHANGED <<option, compositor, objects, drmName, formats, device, prime, configs>>

\* Faulty: any substitute will do, whether the compositor takes it or not.
ConfigsUnchecked == {f \in Formats : f \in formats \/ (prime' /\ dri2_wl_visuals[f] # "none")}

\* dri2_wl_add_configs_for_visuals: for another GPU the buffer is copied anyway, and may
\* be converted to the substitute.
Configs == {f \in Formats : f \in formats \/ (prime' /\ dri2_wl_visuals[f] \in formats)}

\* The rest of the initialization: the GPU the user prefers, the driver and the screen.
LoadDriver ==
    /\ stage = "driver" /\ option = "hardware"
    /\ prime' \in BOOLEAN
    /\ configs' = Configs
    /\ stage' = "ready"
    /\ UNCHANGED <<option, compositor, objects, drmName, formats, device, authenticated>>

\* The same for swrast and zink.
LoadSwrast ==
    /\ stage = "driver" /\ option # "hardware"
    /\ prime' = FALSE
    /\ configs' = Configs
    /\ stage' = "ready"
    /\ UNCHANGED <<option, compositor, objects, drmName, formats, device, authenticated>>

DisplayNext ==
    \/ Connect \/ RegistryDrm \/ RegistrySwrast \/ RegistrySwrastFails
    \/ Extensions \/ ExtensionsFails \/ Drm \/ Authenticate \/ LoadDriver
    \/ LoadSwrast \/ Fails
-----------------------------------------------------------------------------
DisplayTypeOK ==
    /\ option \in Options /\ compositor \in Compositors
    /\ stage \in {"start", "registry", "extensions", "drm", "authenticate", "driver", "ready",
                  "failed", "broken", "ended", "crashed"}
    /\ objects \subseteq Owned \union {"feedback"}
    /\ formats \subseteq Formats
    /\ device \in {"none", "render", "primary"}
    /\ {authenticated, prime, drmName} \subseteq BOOLEAN /\ configs \subseteq Formats

\* The format of the buffers the compositor gets (get_back_bo).
LinearFormat(f) == IF f \in formats THEN f ELSE dri2_wl_visuals[f]

\* A display that is ready can be used: the GPU may render, or shared memory is there
\* in a format the compositor takes; and the buffers of every configuration have a format
\* the compositor takes (the assertions at platform_wayland.c:1160).
ReadyIsUsable ==
    stage = "ready" =>
        /\ IF option = "hardware" THEN device # "none" /\ authenticated
           ELSE "wl_shm" \in objects /\ formats # {}
        /\ \A f \in configs : LinearFormat(f) \in formats

\* However the initialization or the display ends, what was acquired is given back:
\* all but the default feedback when the round trip for it breaks.
NothingLeft ==
    /\ stage \in {"failed", "ended"} => objects = {}
    /\ stage = "broken" => objects = {"feedback"} \intersect objects
=============================================================================
