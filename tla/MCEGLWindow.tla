---------------------------- MODULE MCEGLWindow ----------------------------
(***************************************************************************)
(* Compositors for the windows: one with all there is, and for each thing  *)
(* one that lacks it.                                                      *)
(***************************************************************************)
EXTENDS EGLWindow, TLC

Offer(dmabuf, drm, shm, f) == [dmabuf |-> dmabuf, drm |-> drm, shm |-> shm, formats |-> f]

Plain == {"XRGB8888", "RGB565"}
Deep == {"XBGR2101010"}

MCCompositors ==
    {Offer(4, TRUE, TRUE, Plain \union Deep), Offer(3, TRUE, TRUE, Deep),
     Offer(0, FALSE, FALSE, Plain), Offer(0, FALSE, TRUE, {})}

MCSymmetry == Permutations(Windows)
=============================================================================
