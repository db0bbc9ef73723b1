------------------------------- MODULE GLState -------------------------------
(***************************************************************************)
(* osg::State of the OpenGL ES port: the stacks of what the scene asks for, *)
(* the cache of what was last applied, and beside them what OpenGL really   *)
(* has.  State passes a call on only where the cache says it would change   *)
(* something, so a cache that is wrong is a wrong picture with no error.    *)
(*                                                                         *)
(* The caller is a render loop: it pushes and pops state sets, renders      *)
(* leaves (apply a leaf's matrices and state set, draw), and ends a frame   *)
(* with popAllStateSets() and apply(), as the comment at osg/State:189 asks. *)
(* Shaders, images and uniforms change between frames.  Modes and attribute *)
(* types are all kept on the same kind of stack; an entry is a value with   *)
(* its OVERRIDE and PROTECTED flags.                                       *)
(***************************************************************************)
EXTENDS GLProgram, GLTexture, SequencesExt

CONSTANTS Modes,                \* OpenGL switches
          DepthTest,            \* GL_DEPTH_TEST, the one that reset() makes default to on
          Uniforms,             \* the osg::Uniform objects of the state sets
          StateSets,            \* those the scene holds; NoStateSet is not one
          Optional,             \* a shader that is added to and removed from Host
          Host,
          BuiltIn,              \* the fallback programs, which nobody else reaches
          MaxDepth, MaxEvents

VARIABLES ctx,     \* the State object, its GL objects, and OpenGL
          drawn,   \* the leaf that was drawn last, None once State moved on
          drawing, \* TRUE from the first leaf of a frame to its end
          events   \* leaves drawn and other events, the bound of the model

vars == <<ctx, drawn, drawing, events>>

TextureTypes   == {"TEXTURE", "TEXMAT"}
AttributeTypes == {"MATERIAL", "LIGHTMODEL", "FOG", "PROGRAM"}
Types == TextureTypes \cup AttributeTypes
Default == "default"                    \* a global default attribute, cloneType()
FFPNames == {"osg_FrontLightModelProduct_sceneColor", "osg_TextureMatrix0", "osg_Fog_color"}
UniformNames == {"u"}                   \* what Uniforms are called in the shaders

NoStateSet == [modes |-> <<>>, attributes |-> <<>>, uniforms |-> <<>>, defines |-> <<>>]
Identity == None                        \* State's own matrix, no leaf's pointer equals it

(* The fallback programs are the two that State makes itself: a shader for   *)
(* each stage, without pragmas, which the driver takes.                     *)
ASSUME BuiltInAssumption ==
  /\ {"fallback_plain", "fallback_textured"} \subseteq BuiltIn /\ BuiltIn \subseteq Programs
  /\ \A p \in BuiltIn, stage \in Stages : \E sh \in ShadersOf[p] : StageOf[sh] = stage
  /\ \A p \in BuiltIn : \A sh \in ShadersOf[p] :
       Imports[sh][0] = {} /\ Requires[sh] = {} /\ <<sh, 0>> \notin Broken
  /\ Host \in Programs \ BuiltIn /\ Optional \in Shaders

ASSUME StateAssumption ==
  /\ DepthTest \in Modes
  /\ None \notin Textures \cup Images /\ Default \notin Textures /\ None # Default
  /\ \A ss \in StateSets :
       /\ "TEXTURE" \in DOMAIN ss.attributes => ss.attributes["TEXTURE"].value \in Textures
       /\ "PROGRAM" \in DOMAIN ss.attributes => ss.attributes["PROGRAM"].value \in Programs \ BuiltIn
       /\ \A type \in DOMAIN ss.attributes : ss.attributes[type].value # None
       /\ "u" \in DOMAIN ss.uniforms => ss.uniforms["u"].value \in Uniforms
  /\ None \notin Programs \cup (Programs \X SUBSET Defines) /\ Default \notin Programs
  /\ None \notin Nat

-----------------------------------------------------------------------------
(* Stacks                                                                  *)

(* pushModeList, pushAttributeList, pushUniformList, pushDefineList: an     *)
(* OVERRIDE below repeats itself unless the newcomer is PROTECTED.         *)
PushEntry(vec, e) ==
  Append(vec, IF vec # <<>> /\ Last(vec).override /\ ~e.protected THEN Last(vec) ELSE e)

PopEntry(vec) == IF vec = <<>> THEN vec ELSE Front(vec)

PushList(map, list) ==
  [k \in DOMAIN map |-> IF k \in DOMAIN list
                        THEN [map[k] EXCEPT !.vec = PushEntry(@, list[k]), !.changed = TRUE]
                        ELSE map[k]]

(* operator[] makes the entry of a mode that was never asked for.           *)
PushModes(map, list) ==
  [m \in DOMAIN map |-> IF m \in DOMAIN list
                        THEN [map[m] EXCEPT !.vec = PushEntry(@, list[m]), !.changed = TRUE, !.known = TRUE]
                        ELSE map[m]]

PopList(map, list) ==
  [k \in DOMAIN map |-> IF k \in DOMAIN list
                        THEN [map[k] EXCEPT !.vec = PopEntry(@), !.changed = TRUE]
                        ELSE map[k]]

(* Defines only count as changed where the top of their stack differs.     *)
PushDefines(c, list) ==
  LET vec == c.defMap.vec
      new == [d \in DOMAIN vec |-> IF d \in DOMAIN list THEN PushEntry(vec[d], list[d]) ELSE vec[d]]
  IN [c EXCEPT !.defMap.vec = new,
               !.defMap.changed = @ \/ \E d \in DOMAIN list :
                                          vec[d] = <<>> \/ Last(new[d]) # Last(vec[d])]

PopDefines(c, list) ==
  LET vec == c.defMap.vec
  IN [c EXCEPT !.defMap.vec = [d \in DOMAIN vec |-> IF d \in DOMAIN list THEN PopEntry(vec[d]) ELSE vec[d]],
               !.defMap.changed = @ \/ \E d \in DOMAIN list :
                  /\ vec[d] # <<>>
                  /\ Len(vec[d]) < 2 \/ vec[d][Len(vec[d]) - 1] # Last(vec[d])]

PushStateSet(c, ss) ==
  PushDefines([c EXCEPT !.sets    = Append(@, ss),
                        !.modeMap = PushModes(@, ss.modes),
                        !.attrMap = PushList(@, ss.attributes),
                        !.uniMap  = PushList(@, ss.uniforms)], ss.defines)

PopTopStateSet(c, ss) ==
  PopDefines([c EXCEPT !.sets    = Front(@),
                       !.modeMap = PopList(@, ss.modes),
                       !.attrMap = PopList(@, ss.attributes),
                       !.uniMap  = PopList(@, ss.uniforms)], ss.defines)

PopStateSet(c) == IF c.sets = <<>> THEN c ELSE PopTopStateSet(c, Last(c.sets))

PopDownTo(c, n) ==
  LET popped[i \in 0 .. Len(c.sets)] == IF i = 0 THEN c ELSE PopStateSet(popped[i - 1])
  IN popped[Len(c.sets) - n]

PushAll(c, list) ==
  LET pushed[i \in 0 .. Len(list)] == IF i = 0 THEN c ELSE PushStateSet(pushed[i - 1], list[i])
  IN pushed[Len(list)]

InsertStateSet(c, pos, ss) ==
  PushAll(PushStateSet(PopDownTo(c, pos), ss), SubSeq(c.sets, pos + 1, Len(c.sets)))

RemoveStateSet(c, pos) ==
  IF pos >= Len(c.sets) THEN c
  ELSE PushAll(PopDownTo(c, pos), SubSeq(c.sets, pos + 2, Len(c.sets)))

-----------------------------------------------------------------------------
(* The fixed-function values that ES keeps in uniforms                      *)

(* ffpSet: a value that did change is a modification, and asks for an       *)
(* upload of all of them.                                                  *)
SetFFP(c, name, value) ==
  IF c.ffp[name] = value THEN c
  ELSE UniformModified([c EXCEPT !.ffp[name] = value, !.ffpDirty = TRUE], name)

(* updateFFPSceneColor: emission + material ambient * light model ambient.  *)
UpdateSceneColor(c) ==
  SetFFP(c, "osg_FrontLightModelProduct_sceneColor", <<c.material, c.lightModel>>)

(* The attributes' apply(): Material, LightModel, Fog and TexMat set what State *)
(* keeps of the fixed-function pipeline.                                   *)
ApplyMaterial(c, a)   == UpdateSceneColor([c EXCEPT !.material = a])
ApplyLightModel(c, a) == UpdateSceneColor([c EXCEPT !.lightModel = a])
ApplyTexMat(c, a)     == SetFFP(c, "osg_TextureMatrix0", a)
ApplyFog(c, a)        == SetFFP(c, "osg_Fog_color", a)

(* StateAttribute::apply; the default program has no shaders, the default   *)
(* texture neither image nor size.                                         *)
ApplyOne(c, type, a) ==
  CASE type = "TEXTURE" /\ a = Default    -> [c EXCEPT !.bound = None]
    [] type = "TEXTURE" /\ a # Default    -> ApplyTexture(c, a)
    [] type = "PROGRAM" /\ a = Default    -> [c EXCEPT !.used = None, !.last = None]
    [] type = "PROGRAM" /\ a # Default    -> ApplyProgram(c, a)
    [] type = "MATERIAL"                  -> ApplyMaterial(c, a)
    [] type = "LIGHTMODEL"                -> ApplyLightModel(c, a)
    [] type = "TEXMAT"                    -> ApplyTexMat(c, a)
    [] type = "FOG"                       -> ApplyFog(c, a)

-----------------------------------------------------------------------------
(* Applying                                                                *)

(* The entry of a mode in _modeMap: its stack, the value last applied, the   *)
(* default, and known, TRUE once there is such an entry.  misled is no part  *)
(* of State: it names what made State believe a value that OpenGL (gl) does *)
(* not have, "no" where it is right.                                       *)
Believe(e, last, gl, why) == [e EXCEPT !.last = last, !.misled = IF last = gl THEN "no" ELSE why]

Touched(e) == [e EXCEPT !.changed = TRUE, !.known = TRUE]

ApplyMode(c, m, on) ==
  IF c.modeMap[m].last = on THEN c
  ELSE [c EXCEPT !.modeMap[m] = Believe(@, on, on, "no"), !.modes[m] = on]

ApplyAttribute(c, type, a) ==
  IF c.attrMap[type].last = a THEN c
  ELSE ApplyOne([c EXCEPT !.attrMap[type].last = a, !.attrMap[type].cloned = TRUE], type, a)

Overridden(vec, e) == vec # <<>> /\ Last(vec).override /\ ~e.protected

OwnEntry(list, k, vec) == k \in DOMAIN list /\ ~Overridden(vec, list[k])

(* One mode of applyModeList, or of applyModeMap where the leaf has none:   *)
(* the leaf's own value is to be undone by the next one.                   *)
MarkMode(c, m, on) ==
  IF c.modeMap[m].known /\ c.modeMap[m].last = on THEN c ELSE [c EXCEPT !.modeMap[m] = Touched(@)]

TopMode(e) == IF e.vec # <<>> THEN Last(e.vec).value = "on" ELSE e.default

ApplyModeSlot(c, m, leaf) ==
  IF OwnEntry(leaf.modes, m, c.modeMap[m].vec)
  THEN ApplyMode(MarkMode(c, m, leaf.modes[m].value = "on"), m, leaf.modes[m].value = "on")
  ELSE IF c.modeMap[m].changed
  THEN ApplyMode([c EXCEPT !.modeMap[m].changed = FALSE], m, TopMode(c.modeMap[m]))
  ELSE c

MarkAttribute(c, type, a) ==
  IF c.attrMap[type].last = a THEN c ELSE [c EXCEPT !.attrMap[type].changed = TRUE]

(* What the stack of a type asks for, or applyGlobalDefaultAttribute where  *)
(* it is empty: there is a default once the type was used.                 *)
ApplyTopAttribute(c, type) ==
  IF c.attrMap[type].vec # <<>> \/ c.attrMap[type].cloned
  THEN ApplyAttribute(c, type, IF c.attrMap[type].vec = <<>> THEN Default
                               ELSE Last(c.attrMap[type].vec).value)
  ELSE [c EXCEPT !.attrMap[type].last = None]

ApplyAttributeSlot(c, type, leaf) ==
  IF OwnEntry(leaf.attributes, type, c.attrMap[type].vec)
  THEN ApplyAttribute(MarkAttribute(c, type, leaf.attributes[type].value), type,
                      leaf.attributes[type].value)
  ELSE IF c.attrMap[type].changed
  THEN ApplyTopAttribute([c EXCEPT !.attrMap[type].changed = FALSE], type)
  ELSE c

(* applyUniformMap and applyUniformList.                                   *)
ApplyObject(c, n, obj) == ApplyUniform(c, n, obj, <<obj, c.value[obj]>>)

ApplyUniformSlot(c, n, leaf) ==
  IF OwnEntry(leaf.uniforms, n, c.uniMap[n].vec) THEN ApplyObject(c, n, leaf.uniforms[n].value)
  ELSE IF c.uniMap[n].vec # <<>> THEN ApplyObject(c, n, Last(c.uniMap[n].vec).value)
  ELSE c

ApplyUniforms(c, leaf) == ApplyUniformSlot(c, "u", leaf)       \* the one of UniformNames

(* applyFallbackProgramIfNeeded: geometry without a program gets one of two *)
(* built-in ones, by whether a texture was last applied on unit 0.         *)
ApplyFallbackProgramIfNeeded(c) ==
  IF c.last # None THEN c
  ELSE [ApplyProgram(c, IF c.attrMap["TEXTURE"].last # None THEN "fallback_textured"
                                                            ELSE "fallback_plain")
          EXCEPT !.ffpDirty = TRUE]

(* State::apply(StateSet), and apply() for NoStateSet: texture attributes,   *)
(* modes, attributes; the program once more if the defines changed under     *)
(* it; a program of last resort; the uniforms.                             *)
ApplyTextureAttributes(c, leaf) ==
  ApplyAttributeSlot(ApplyAttributeSlot(c, "TEXTURE", leaf), "TEXMAT", leaf)

ApplyLighting(c, leaf) ==
  ApplyAttributeSlot(ApplyAttributeSlot(ApplyAttributeSlot(c, "MATERIAL", leaf), "LIGHTMODEL", leaf), "FOG", leaf)

ApplyAttributes(c, leaf) == ApplyAttributeSlot(ApplyLighting(c, leaf), "PROGRAM", leaf)

(* One mode has nothing to do with another.                                *)
ApplyModes(c, leaf) ==
  [c EXCEPT !.modeMap = [m \in Modes |-> ApplyModeSlot(c, m, leaf).modeMap[m]],
            !.modes   = [m \in Modes |-> ApplyModeSlot(c, m, leaf).modes[m]]]

ApplyIfDefinesChanged(c, previous) ==
  IF c.last # None /\ c.last = previous /\ c.defMap.changed THEN ApplyProgram(c, c.last[1]) ELSE c

ApplyWithDefines(c, leaf) ==
  ApplyIfDefinesChanged(ApplyAttributes(PushDefines(c, leaf.defines), leaf), c.last)

ApplyState(c, leaf) ==
  ApplyWithDefines(ApplyModes(ApplyTextureAttributes(c, leaf), leaf), leaf)

Apply(c, leaf) ==
  PopDefines(ApplyUniforms(ApplyFallbackProgramIfNeeded(ApplyState(c, leaf)), leaf), leaf.defines)

(* applyModelViewMatrix with a matrix that is not the one State has, and     *)
(* the uniforms that follow from it.                                       *)
ApplyModelViewMatrix(c, m) ==
  IF c.modelView = m THEN c
  ELSE UniformModified([c EXCEPT !.modelView = m, !.matrix = m], "osg_ModelViewMatrix")

UploadValue(c, name) == ApplyUniform(c, name, name, c.ffp[name])

UploadFFP(c) ==
  UploadValue(UploadValue(UploadValue([c EXCEPT !.ffpLast = c.last, !.ffpDirty = FALSE],
    "osg_FrontLightModelProduct_sceneColor"), "osg_TextureMatrix0"), "osg_Fog_color")

(* applyModelViewAndProjectionUniformsIfRequired, which every drawable calls: *)
(* the matrices, and the fixed-function values when one has changed or the    *)
(* program has.                                                             *)
UploadFFPIfNeeded(c) == IF c.ffpDirty \/ c.ffpLast # c.last THEN UploadFFP(c) ELSE c

ApplyBuiltInUniforms(c) ==
  IF c.last = None THEN c
  ELSE UploadFFPIfNeeded(ApplyUniform(c, "osg_ModelViewMatrix", "osg_ModelViewMatrix", c.matrix))

PopAllStateSets(c) == [ApplyModelViewMatrix(PopDownTo(c, 0), Identity) EXCEPT !.last = None]

(* State::reset(): the stacks are emptied, each mode State knows of is        *)
(* believed to be the opposite of its default and the attributes nothing, so  *)
(* that the next apply() passes the defaults on.  Only now does the depth     *)
(* test default to on, after what is believed of it was set by the old       *)
(* default.  The defines keep their stacks, and OpenGL keeps what it has.    *)
ResetMode(e, gl) ==
  IF e.known THEN Touched(Believe([e EXCEPT !.vec = <<>>], ~e.default, gl, "reset")) ELSE e

ResetModes(c) == [m \in Modes |-> ResetMode(c.modeMap[m], c.modes[m])]

ResetState(c) ==
  [c EXCEPT !.sets = <<>>,
            !.modeMap = [ResetModes(c) EXCEPT ![DepthTest] = [Touched(@) EXCEPT !.default = TRUE]],
            !.attrMap = [t \in Types |-> [@[t] EXCEPT !.vec = <<>>, !.last = None, !.changed = TRUE]],
            !.uniMap  = [n \in UniformNames |-> [vec |-> <<>>, changed |-> TRUE]],
            !.modelView = Identity,
            !.last = None]

-----------------------------------------------------------------------------
Init ==
  /\ ctx = [sets    |-> <<>>,
            modeMap |-> [m \in Modes |-> [vec |-> <<>>, last |-> FALSE, changed |-> FALSE, default |-> FALSE,
                                          known |-> FALSE, misled |-> "no"]],
            attrMap |-> [t \in Types |-> [vec |-> <<>>, last |-> None, changed |-> FALSE,
                                          cloned |-> FALSE]],
            uniMap  |-> [n \in UniformNames |-> [vec |-> <<>>, changed |-> TRUE]],
            defMap  |-> [vec |-> [d \in Defines |-> <<>>], changed |-> FALSE, current |-> {}],
            modes   |-> [m \in Modes |-> FALSE],
            text    |-> [sh \in Shaders |-> 0],
            list    |-> ShadersOf,
            defines |-> [p \in Programs |->
                           UNION {Imports[sh][0] \cup Requires[sh] : sh \in ShadersOf[p]}],
            pcs     |-> <<>>, pcp |-> <<>>, last |-> None, used |-> None,
            images  |-> [im \in Images |-> [count |-> 1, size |-> CHOOSE s \in Sizes : TRUE]],
            image   |-> ImageOf,
            seen    |-> [t \in Textures |-> 0],
            object  |-> [t \in Textures |-> None],
            dims    |-> [t \in Textures |-> None],
            side    |-> [t \in OneDimensional |-> None],
            unref   |-> {},
            bound   |-> None,
            value   |-> [u \in Uniforms |-> 0],
            ffp     |-> [n \in FFPNames |-> IF n = "osg_FrontLightModelProduct_sceneColor"
                                            THEN <<Default, Default>> ELSE Default],
            ffpDirty |-> TRUE, ffpLast |-> None,
            material |-> Default, lightModel |-> Default,
            modelView |-> Identity, matrix |-> Identity]
  /\ drawn = None
  /\ drawing = FALSE
  /\ events = 0

(* Past the bound nothing is drawn any more, so nothing is pushed either.    *)
Sets(c)  == events < MaxEvents /\ ctx' = c /\ drawn' = None /\ UNCHANGED <<drawing, events>>
Other(c) == /\ events < MaxEvents /\ events' = events + 1
            /\ ctx' = c /\ drawn' = None /\ UNCHANGED drawing

PushSet(ss) ==
  Len(ctx.sets) < MaxDepth /\ Sets(PushStateSet(ctx, ss))

PopSet ==
  ctx.sets # <<>> /\ Sets(PopStateSet(ctx))

InsertSet(pos, ss) ==
  pos < Len(ctx.sets) /\ Len(ctx.sets) < MaxDepth /\ Sets(InsertStateSet(ctx, pos, ss))

RemoveSet(pos) ==
  pos < Len(ctx.sets) - 1 /\ Sets(RemoveStateSet(ctx, pos))

(* A leaf of the render tree: its matrix, its state set, its drawable.  The  *)
(* n-th leaf has the matrix n or shares the one of the leaf before it.       *)
RenderLeaf(leaf) ==
  /\ events < MaxEvents /\ events' = events + 1
  /\ \E m \in {events + 1, ctx.modelView} \ {Identity} :
       ctx' = ApplyBuiltInUniforms(Apply(ApplyModelViewMatrix(ctx, m), leaf))
  /\ drawn' = leaf /\ drawing' = TRUE

(* popAllStateSets() and apply() at the end of a frame.                     *)
EndFrame ==
  /\ drawing /\ events < MaxEvents
  /\ ctx' = Apply(PopAllStateSets(ctx), NoStateSet)
  /\ drawn' = None /\ drawing' = FALSE /\ UNCHANGED events

(* A drawable that leaves a mode on or off past State, whatever it was, and   *)
(* tells it: applyMode(), or haveAppliedMode() with the value or without,      *)
(* which takes the mode to have been toggled.                              *)
HaveAppliedMode(c, m, on, last) ==
  [c EXCEPT !.modes[m] = on, !.modeMap[m] = Touched(Believe(@, last, on, "toggled"))]

SwitchMode(m, on, told) ==
  /\ drawn # None
  /\ \/ told = "applyMode" /\ Other(ApplyMode([ctx EXCEPT !.modeMap[m] = Touched(@)], m, on))
     \/ told = "value"     /\ Other(HaveAppliedMode(ctx, m, on, on))
     \/ told = "unknown"   /\ Other(HaveAppliedMode(ctx, m, on, ~ctx.modeMap[m].last))

(* copyTexImage2D within a frame, which binds the texture and says so by     *)
(* haveAppliedTextureAttribute().                                          *)
CopyTexture(t, size) ==
  /\ drawing
  /\ Other([CopyTexImage2D(ctx, t, size) EXCEPT
              !.attrMap["TEXTURE"].last = t, !.attrMap["TEXTURE"].changed = TRUE])

(* dirtyAllModes() and dirtyAllAttributes() after code that went past State:  *)
(* it unbound the texture and left the modes on, each on or off.  Every mode  *)
(* State knows of is taken to have been toggled.                           *)
DirtyMode(e, gl) == IF e.known THEN Touched(Believe(e, ~e.last, gl, "dirtied"))
                               ELSE Believe(e, e.last, gl, "dirtied")

DirtyState(c, on) ==
  [c EXCEPT !.modeMap = [m \in Modes |-> DirtyMode(@[m], on[m])],
            !.modes   = on,
            !.attrMap = [t \in Types |-> [@[t] EXCEPT !.last = None, !.changed = TRUE]],
            !.bound   = None]

DirtyAll == drawn # None /\ \E on \in [Modes -> BOOLEAN] : Other(DirtyState(ctx, on))

Changing(c) == ctx.sets = <<>> /\ ~drawing /\ Other(c)

EditShader(sh)     == ctx.text[sh] < MaxEdits /\ Changing(SetShaderSource(ctx, sh))
AddOptional        == Changing(AddShader(ctx, Host, Optional))
RemoveOptional     == Changing(RemoveShader(ctx, Host, Optional))
CompileObjects(p)  == Changing(CompileProgram(ctx, p))
ReleaseObjects(p)  == Changing(ReleaseProgram(ctx, p))
EditImage(im, s)   == Changing(DirtyImage(ctx, im, s))
ChangeImage(t, im) == ctx.image[t] # im /\ Changing(SetImage(ctx, t, im))
ReleaseObject(t)   == Changing(ReleaseTexture(ctx, t))
SetUniform(u)      == Changing(UniformModified([ctx EXCEPT !.value[u] = 1 - @], u))
UnRefImage(t)      == t \notin ctx.unref /\ Changing([ctx EXCEPT !.unref = @ \cup {t}])
Reset              == Changing(ResetState(ctx))

Change ==
  \/ \E sh \in Shaders \ UNION {ctx.list[p] : p \in BuiltIn} : EditShader(sh)
  \/ AddOptional
  \/ RemoveOptional
  \/ \E p \in Programs \ BuiltIn : CompileObjects(p)
  \/ \E im \in Images, s \in Sizes : EditImage(im, s)
  \/ \E t \in Textures, im \in Images : ChangeImage(t, im)
  \/ \E t \in Textures : ReleaseObject(t)
  \/ \E t \in Textures \ OneDimensional : UnRefImage(t)  \* the side table's are not told
  \/ \E u \in Uniforms : SetUniform(u)
  \/ \E p \in Programs \ BuiltIn : ReleaseObjects(p)
  \/ Reset

Next ==
  \/ \E ss \in StateSets : PushSet(ss)
  \/ PopSet
  \/ \E pos \in 0..MaxDepth, ss \in StateSets : InsertSet(pos, ss)
  \/ \E pos \in 0..MaxDepth : RemoveSet(pos)
  \/ \E leaf \in StateSets \cup {NoStateSet} : RenderLeaf(leaf)
  \/ EndFrame
  \/ \E m \in Modes, on \in BOOLEAN, told \in {"applyMode", "value", "unknown"} : SwitchMode(m, on, told)
  \/ \E t \in Textures \ OneDimensional, s \in Sizes : CopyTexture(t, s)
  \/ DirtyAll
  \/ Change

Spec == Init /\ [][Next]_vars

-----------------------------------------------------------------------------
(* What the scene asks for, from the state sets alone: an entry holds its    *)
(* ground against every later one that is not PROTECTED if it says OVERRIDE. *)
(* The place of the state set whose entry is in force, 0 for none.          *)
Holder(lists, k) ==
  LET holder[i \in 0 .. Len(lists)] ==
        IF i = 0 THEN 0
        ELSE IF /\ k \in DOMAIN lists[i]
                /\ holder[i - 1] # 0 =>
                     ~lists[holder[i - 1]][k].override \/ lists[i][k].protected
             THEN i ELSE holder[i - 1]
  IN holder[Len(lists)]

ListsOf(sets, field) == [i \in 1 .. Len(sets) |-> sets[i][field]]

AskedOr(field, k, other) ==
  LET lists == ListsOf(Append(ctx.sets, drawn), field)
      place == Holder(lists, k)
  IN IF place = 0 THEN other ELSE lists[place][k].value

AskedDefines == {d \in Defines : AskedOr("defines", d, "off") = "on"}

AskedProgram ==
  LET p == AskedOr("attributes", "PROGRAM", None)
  IN IF /\ p # None
        /\ \A stage \in Stages : Group(ctx, p, stage) # {}
        /\ \A sh \in ctx.list[p] : /\ Requires[sh] \subseteq AskedDefines
                                    /\ <<sh, ctx.text[sh]>> \notin Broken
     THEN p ELSE None

(* TRUE when the texture shows its image as it is now, or what was copied    *)
(* into it since.                                                          *)
Shows(c, t) ==
  \/ c.image[t] = None /\ c.object[t] = None
  \/ /\ c.bound = t
     /\ \/ c.image[t] = None
        \/ c.object[t].of = Screen
        \/ c.object[t] = Stored(c, c.image[t])

AskedMode(m) == AskedOr("modes", m, IF ctx.modeMap[m].default THEN "on" ELSE "off") = "on"

(* Whatever was pushed, popped, inserted, removed, applied past State, reset   *)
(* or copied before: when a leaf is drawn, State believes of every mode what   *)
(* the state sets above it ask for, and OpenGL has it, except where State was  *)
(* misled since the mode was last passed on: code that went past it left the   *)
(* mode other than State's guess, or reset() kept what OpenGL had; so it is not  *)
(* true that a mode is "applied on next call" (osg/State:496).  The texture     *)
(* of unit 0 is the one asked for and shows its image as it is (State::apply,  *)
(* Texture2D::apply, Texture1D::apply).  A texture that was only ever copied    *)
(* into stays bound where none is asked for: the default to put back is made   *)
(* when an attribute of its type is applied.                               *)
DrawnAsAsked ==
  drawn # None =>
    /\ \A m \in Modes : /\ ctx.modeMap[m].last = AskedMode(m)
                        /\ ctx.modeMap[m].misled = "no" => ctx.modes[m] = AskedMode(m)
    /\ LET t == AskedOr("attributes", "TEXTURE", None)
       IN IF t = None THEN ctx.bound = None \/ ~ctx.attrMap["TEXTURE"].cloned ELSE Shows(ctx, t)

(* When a leaf is drawn, OpenGL and State agree on the program, and it is the  *)
(* one asked for, linked from the sources its shaders have now under the       *)
(* defines in force.  It is a built-in one when none is asked for, when it      *)
(* cannot be linked, or when it could not be under other defines: that one      *)
(* remains until another Program was applied, for the attribute is cached       *)
(* though it is not bound (Program::apply, State::apply).                     *)
Failed(p) == \E k \in DOMAIN ctx.pcp : k[1] = p /\ ~ctx.pcp[k].needsLink /\ ~ctx.pcp[k].isLinked

Linked(p) ==
  LET asked(stage) == UNION {Imports[sh][ctx.text[sh]] : sh \in Group(ctx, p, stage)}
  IN {[shader |-> sh, version |-> ctx.text[sh],
       defs |-> AskedDefines \cap asked(StageOf[sh])] : sh \in ctx.list[p]}

ProgramIsRight ==
  drawn # None =>
    /\ ctx.last = ctx.used
    /\ ctx.used # None
    /\ LET p == AskedProgram
       IN IF p # None /\ ctx.used[1] = p THEN ctx.pcp[ctx.used].image = Linked(p)
          ELSE /\ ctx.used[1] \in BuiltIn
               /\ p # None => Failed(p)

(* When a leaf is drawn, every uniform the program reads has the value that    *)
(* State, the attributes and the state sets give it, however programs were     *)
(* changed, linked again or left out since it was set                        *)
(* (applyModelViewAndProjectionUniformsIfRequired, PerContextProgram::apply). *)
UniformsAreCurrent ==
  drawn # None =>
    LET p == ctx.used[1]
        value(n) == ctx.pcp[ctx.used].uniforms[n].value
        object == AskedOr("uniforms", "u", None)
    IN \A n \in ActiveIn[p] :
         value(n) =
           CASE n = "osg_ModelViewMatrix" -> ctx.modelView
             [] n = "osg_TextureMatrix0" -> AskedOr("attributes", "TEXMAT", Default)
             [] n = "osg_Fog_color" -> AskedOr("attributes", "FOG", Default)
             [] n = "osg_FrontLightModelProduct_sceneColor" ->
                  <<AskedOr("attributes", "MATERIAL", Default), AskedOr("attributes", "LIGHTMODEL", Default)>>
             [] n = "u" /\ object # None -> <<object, ctx.value[object]>>
             [] OTHER -> value(n)

(* "Bind a built-in one when the state set left none bound - vertex colour,    *)
(* times the texture on unit 0 if there is one." (osg/State.cpp:1937.)        *)
FallbackShowsTexture ==
  drawn # None /\ AskedOr("attributes", "PROGRAM", None) = None =>
    ctx.used[1] = IF AskedOr("attributes", "TEXTURE", None) = None
                  THEN "fallback_plain" ELSE "fallback_textured"
=============================================================================
