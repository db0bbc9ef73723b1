------------------------------ MODULE MCGLState ------------------------------
(* A small scene for GLState: the state sets overlap in what they ask for,     *)
(* so that every pair of them on the stack exercises OVERRIDE, PROTECTED or    *)
(* a default.                                                              *)
EXTENDS GLState

Plain(v)     == [value |-> v, override |-> FALSE, protected |-> FALSE]
Override(v)  == [value |-> v, override |-> TRUE,  protected |-> FALSE]
Protected(v) == [value |-> v, override |-> FALSE, protected |-> TRUE]

Only(k, v) == [i \in {k} |-> v]

MCPrograms == {"terrain", "fallback_plain", "fallback_textured"}
MCShaders  == {"vs", "fs", "lib", "fv", "fp", "ft"}
MCShadersOf == [p \in MCPrograms |->
  CASE p = "terrain" -> {"vs", "fs"}
    [] p = "fallback_plain" -> {"fv", "fp"}
    [] p = "fallback_textured" -> {"fv", "ft"}]
MCStageOf == [sh \in MCShaders |-> IF sh \in {"vs", "fv"} THEN "vertex" ELSE "fragment"]
MCImports == [sh \in MCShaders |-> [v \in 0..1 |-> IF sh = "lib" THEN {"FOG"} ELSE {}]]
MCRequires == [sh \in MCShaders |-> IF sh = "fs" THEN {"FOG"} ELSE {}]
MCBroken == {<<"vs", 1>>}
MCActiveIn == [p \in MCPrograms |->
  IF p = "terrain" THEN {"osg_ModelViewMatrix", "osg_FrontLightModelProduct_sceneColor", "osg_Fog_color", "u"}
  ELSE {"osg_ModelViewMatrix", "osg_TextureMatrix0"}]
MCImageOf == [t \in {"tex2D", "tex1D"} |-> IF t = "tex2D" THEN "one" ELSE "two"]

MCStateSets ==
  {[modes      |-> Only("GL_DEPTH_TEST", Override("off")) @@ Only("GL_BLEND", Plain("on")),
    attributes |-> Only("PROGRAM", Plain("terrain")) @@ Only("MATERIAL", Plain("red")),
    uniforms   |-> Only("u", Plain("u1")),
    defines    |-> Only("FOG", Plain("on"))],
   [modes      |-> Only("GL_DEPTH_TEST", Protected("on")),
    attributes |-> Only("TEXTURE", Plain("tex2D")) @@ Only("TEXMAT", Plain("scaled"))
                  @@ Only("FOG", Plain("haze")),
    uniforms   |-> Only("u", Plain("u2")),
    defines    |-> <<>>],
   [modes      |-> <<>>,
    attributes |-> Only("TEXTURE", Override("tex1D")) @@ Only("PROGRAM", Plain("terrain"))
                  @@ Only("LIGHTMODEL", Plain("dim")),
    uniforms   |-> <<>>,
    defines    |-> <<>>]}
=============================================================================
