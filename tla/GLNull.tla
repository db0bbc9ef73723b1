-------------------------------- MODULE GLNull --------------------------------
(* The null pointer, which the modules about OpenGL objects share.          *)
CONSTANT None
=============================================================================
