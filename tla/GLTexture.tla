------------------------------ MODULE GLTexture ------------------------------
(***************************************************************************)
(* osg::Texture2D, and osg::Texture1D as the OpenGL ES port draws it: a     *)
(* Texture2D of height one in a side table.  The operators act on the       *)
(* record `c` of GLState, on the fields                                     *)
(*   images     the modified count and the size of each image              *)
(*   image      the image of each texture, None once it was let go         *)
(*   seen       the count of the image when it was last loaded, by texture  *)
(*   object     the texture object: its size and what OpenGL holds in it    *)
(*   dims       the size the texture itself remembers (_textureWidth, ...)  *)
(*   side       the Texture2D objects made for the one-dimensional ones     *)
(*   unref      the textures that let their image go once it is loaded      *)
(*   bound      the texture bound to unit 0, None for object 0             *)
(*                                                                         *)
(* One texture unit is modelled.  A texture of a subload callback or of a   *)
(* pbuffer is not: the program here has none.                               *)
(***************************************************************************)
EXTENDS Naturals, GLNull

CONSTANTS Textures,     \* the osg::Texture objects that state sets hold
          OneDimensional, \* those of class Texture1D
          Images,
          ImageOf,      \* [Textures -> Images \cup {None}], as first set
          Sizes         \* what an image can be resized to

ASSUME TextureAssumption ==
  /\ OneDimensional \subseteq Textures
  /\ ImageOf \in [Textures -> Images \cup {None}]

Screen == "screen"      \* what glCopyTexImage2D copies from the frame buffer
Undefined == "undefined" \* what storage without data holds

(* Image::dirty() after new data, which may be of another size.           *)
DirtyImage(c, im, size) ==
  [c EXCEPT !.images[im] = [count |-> @.count + 1, size |-> size]]

\* Faulty: the count of the image before is kept.
SetImageCounted(c, t, im) ==
  IF c.image[t] = im THEN c ELSE [c EXCEPT !.image[t] = im]

(* Texture2D::setImage, which Texture1D repeats: another image is loaded    *)
(* whatever its count.  Texture1D also discards its own texture object and   *)
(* count, which the port never uses.                                       *)
SetImage(c, t, im) ==
  IF c.image[t] = im THEN c
  ELSE [c EXCEPT !.image[t] = im, !.seen[t] = IF t \in OneDimensional THEN @ ELSE 0]

Stored(c, im) == [size |-> c.images[im].size, of |-> im, count |-> c.images[im].count]

OutOfDate(c, t) == c.image[t] # None /\ c.seen[t] # c.images[c.image[t]].count

(* Texture2D::textureObjectValid: the object matches the image as it is.   *)
TextureObjectValid(c, t) == c.object[t].size = c.images[c.image[t]].size

(* The load of Texture2D::apply into an object that is bound: subload for   *)
(* the one that matches, a new object otherwise.  The image may be let go.  *)
Load(c, t) ==
  [c EXCEPT !.object[t] = Stored(c, c.image[t]),
            !.seen[t]   = c.images[c.image[t]].count,
            !.dims[t]   = c.images[c.image[t]].size,
            !.bound     = t]

LoadNew(c, t) ==
  LET d == Load(c, t) IN IF t \in c.unref THEN [d EXCEPT !.image[t] = None] ELSE d

(* Texture2D::apply: an object that no longer matches a changed image is    *)
(* released first; an object that does is bound and brought up to date; a   *)
(* texture of neither object nor image gets storage without data when it    *)
(* knows its size, else object 0 is bound.                                 *)
ApplyTexture2D(c, t) ==
  IF c.object[t] # None /\ ~(OutOfDate(c, t) /\ ~TextureObjectValid(c, t))
  THEN IF OutOfDate(c, t) THEN Load(c, t) ELSE [c EXCEPT !.bound = t]
  ELSE IF c.image[t] # None THEN LoadNew(c, t)
  ELSE IF c.dims[t] # None
       THEN [c EXCEPT !.object[t] = [size |-> c.dims[t], of |-> Undefined, count |-> 0],
                      !.bound     = t]
  ELSE [c EXCEPT !.bound = None]

(* Texture1D::apply under ES: look up or make the Texture2D of the side     *)
(* table, hand it the image, and apply it.  The model gives the Texture2D    *)
(* the name of its Texture1D; side[t] is the image it was handed.          *)
ApplyTexture1D(c, t) ==
  LET d == IF c.side[t] = c.image[t] THEN c
           ELSE [c EXCEPT !.side[t] = c.image[t], !.seen[t] = 0]
  IN ApplyTexture2D(d, t)

ApplyTexture(c, t) ==
  IF t \in OneDimensional THEN ApplyTexture1D(c, t) ELSE ApplyTexture2D(c, t)

(* Texture2D::copyTexImage2D on an object of another size, or on none; and  *)
(* copyTexSubImage2D on one that has the size.  The image is dropped only   *)
(* with the object.                                                        *)
CopyTexImage2D(c, t, size) ==
  IF c.object[t] # None /\ c.dims[t] = size
  THEN [c EXCEPT !.object[t].of = Screen, !.bound = t]
  ELSE [c EXCEPT !.image[t]  = None,
                 !.object[t] = [size |-> size, of |-> Screen, count |-> 0],
                 !.dims[t]   = size,
                 !.bound     = t]

(* Texture::releaseGLObjects: the object goes and comes back when applied.  *)
(* That of the side table is not reached from its Texture1D.               *)
ReleaseTexture(c, t) ==
  IF t \in OneDimensional THEN c ELSE [c EXCEPT !.object[t] = None]
=============================================================================
