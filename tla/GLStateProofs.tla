---------------------------- MODULE GLStateProofs ----------------------------
(***************************************************************************)
(* For any scene, and any number of state sets, modes, textures, programs,  *)
(* defines and calls: when a leaf is drawn, OpenGL's switches and the       *)
(* texture of unit 0 are those that the state sets above it ask for, the    *)
(* program in use is the one they ask for, or the fallback where that one   *)
(* cannot be linked, built from the texts as they are now, and the uniforms *)
(* it reads hold the values that they ask for and State keeps.              *)
(***************************************************************************)
EXTENDS GLState, NumberInduction, SequenceTheorems, FiniteSetTheorems, TLAPS

-----------------------------------------------------------------------------
(* What an operator leaves alone                                            *)

\* The record d differs from c in nothing but the fields of G.
OnlyIn(c, d, G) == DOMAIN d = DOMAIN c /\ \A f \in DOMAIN c \ G : d[f] = c[f]

\* One change after another.
LEMMA OnlyInBoth ==
  ASSUME NEW c, NEW d, NEW e, NEW G, OnlyIn(c, d, G), OnlyIn(d, e, G)
  PROVE  OnlyIn(c, e, G)
BY DEF OnlyIn

\* What changes little changes no more than that.
LEMMA OnlyInMore ==
  ASSUME NEW c, NEW d, NEW G, NEW H, OnlyIn(c, d, G), G \subseteq H
  PROVE  OnlyIn(c, d, H)
BY DEF OnlyIn

\* The fields a program's apply() reaches, and those a uniform's does.
ProgramFields == {"defMap", "pcs", "pcp", "used", "last"}
UniformFields == {"pcp", "ffp", "ffpDirty", "ffpLast", "material", "lightModel",
                  "modelView", "matrix"}

\* Compiling a shader touches what is compiled of the shaders.
LEMMA CompileShaderOnly ==
  ASSUME NEW c, NEW sh
  PROVE  OnlyIn(c, CompileShader(c, sh), ProgramFields)
BY DEF CompileShader, CompilePCS, OnlyIn, ProgramFields

\* Nor do merging, compiling and linking touch more than the programs.
LEMMA CompileProgramOnly ==
  ASSUME NEW c, NEW p
  PROVE  OnlyIn(c, CompileProgram(c, p), ProgramFields)
<1> DEFINE d == GetPCP(c, p)
           m == MergeStage(d, Group(d, p, "vertex"))
           n == MergeStage(m, Group(d, p, "fragment"))
<1>1. \A b, group : OnlyIn(b, MergeStage(b, group), ProgramFields)
  <2> TAKE b, group
  <2>1. OnlyIn(b, b, ProgramFields)
    BY DEF OnlyIn
  <2> QED
    BY <2>1, CompileShaderOnly DEF MergeStage
<1>2. OnlyIn(c, d, ProgramFields)
  BY DEF GetPCP, MakePCP, NewPCP, UpdateCurrentDefines, OnlyIn, ProgramFields
<1>3. OnlyIn(c, n, ProgramFields)
  <2> HIDE DEF d, m, n
  <2>1. OnlyIn(d, m, ProgramFields) /\ OnlyIn(m, n, ProgramFields)
    BY <1>1 DEF m, n
  <2> QED
    BY <1>2, <2>1, OnlyInBoth
<1>4. \A b, key : OnlyIn(b, LinkProgram(b, key), ProgramFields)
  BY DEF LinkProgram, LinkImage, OnlyIn, ProgramFields
<1>5. CompilePCP(d, p) = LinkProgram(n, PCPKey(d, p))
  BY DEF CompilePCP, MergeShadersForGLES
<1>6. OnlyIn(c, CompilePCP(d, p), ProgramFields)
  <2> HIDE DEF n, d
  <2> QED
    BY <1>3, <1>4, <1>5, OnlyInBoth
<1>7. OnlyIn(c, c, ProgramFields)
  BY DEF OnlyIn
<1> QED
  BY <1>6, <1>7 DEF CompileProgram

\* Program::apply touches the programs only.
LEMMA ApplyProgramOnly ==
  ASSUME NEW c, NEW p
  PROVE  OnlyIn(c, ApplyProgram(c, p), ProgramFields)
<1> DEFINE d == GetPCP(c, p)
<1>1. OnlyIn(c, d, ProgramFields)
  BY DEF GetPCP, MakePCP, NewPCP, UpdateCurrentDefines, OnlyIn, ProgramFields
<1>2. \A b, key : OnlyIn(b, UseProgram(b, key), ProgramFields)
  BY DEF UseProgram, OnlyIn, ProgramFields
<1>3. OnlyIn(d, d, ProgramFields)
  BY DEF OnlyIn
<1>4. OnlyIn(d, UseCompiled(d, p), ProgramFields)
  <2> HIDE DEF d
  <2> QED
    BY <1>2, <1>3, CompileProgramOnly, OnlyInBoth DEF UseCompiled, UseIfLinked
<1> QED
  <2> HIDE DEF d
  <2>1. ApplyProgram(c, p) = IF c.list[p] = {} THEN UseProgram(c, None) ELSE UseCompiled(d, p)
    BY DEF ApplyProgram, d
  <2> QED
    BY <1>1, <1>2, <1>4, <2>1, OnlyInBoth

\* A uniform, and a value of the fixed-function pipeline.
LEMMA UniformsOnly ==
  ASSUME NEW c
  PROVE  /\ \A n, o, v : OnlyIn(c, ApplyUniform(c, n, o, v), UniformFields)
         /\ \A o : OnlyIn(c, UniformModified(c, o), UniformFields)
         /\ \A n, v : OnlyIn(c, SetFFP(c, n, v), UniformFields)
         /\ \A m : OnlyIn(c, ApplyModelViewMatrix(c, m), UniformFields)
<1>1. \A n, o, v : OnlyIn(c, ApplyUniform(c, n, o, v), UniformFields)
  BY DEF ApplyUniform, OnlyIn, UniformFields
<1>2. \A b, o : OnlyIn(b, UniformModified(b, o), UniformFields)
  BY DEF UniformModified, OnlyIn, UniformFields
<1>3. ASSUME NEW n, NEW v PROVE OnlyIn(c, SetFFP(c, n, v), UniformFields)
  <2> DEFINE d == [c EXCEPT !.ffp[n] = v, !.ffpDirty = TRUE]
  <2>1. OnlyIn(c, d, UniformFields)
    BY DEF OnlyIn, UniformFields
  <2>2. OnlyIn(c, UniformModified(d, n), UniformFields)
    <3> HIDE DEF d
    <3> QED
      BY <1>2, <2>1, OnlyInBoth
  <2>3. OnlyIn(c, c, UniformFields)
    BY DEF OnlyIn
  <2> QED
    BY <2>2, <2>3 DEF SetFFP
<1>4. ASSUME NEW m PROVE OnlyIn(c, ApplyModelViewMatrix(c, m), UniformFields)
  <2> DEFINE d == [c EXCEPT !.modelView = m, !.matrix = m]
  <2>1. OnlyIn(c, d, UniformFields)
    BY DEF OnlyIn, UniformFields
  <2>2. OnlyIn(c, UniformModified(d, "osg_ModelViewMatrix"), UniformFields)
    <3> HIDE DEF d
    <3> QED
      BY <1>2, <2>1, OnlyInBoth
  <2>3. OnlyIn(c, c, UniformFields)
    BY DEF OnlyIn
  <2> QED
    BY <2>2, <2>3 DEF ApplyModelViewMatrix
<1> QED
  BY <1>1, <1>2, <1>3, <1>4

\* The uniforms that go with a drawable.
LEMMA BuiltInUniformsOnly ==
  ASSUME NEW c
  PROVE  OnlyIn(c, ApplyBuiltInUniforms(c), UniformFields)
<1> DEFINE u == ApplyUniform(c, "osg_ModelViewMatrix", "osg_ModelViewMatrix", c.matrix)
           a == [u EXCEPT !.ffpLast = u.last, !.ffpDirty = FALSE]
           b == UploadValue(a, "osg_FrontLightModelProduct_sceneColor")
           d == UploadValue(b, "osg_TextureMatrix0")
           e == UploadValue(d, "osg_Fog_color")
<1>1. \A r, n : OnlyIn(r, UploadValue(r, n), UniformFields)
  BY UniformsOnly DEF UploadValue
<1>2. OnlyIn(c, c, UniformFields) /\ OnlyIn(u, a, UniformFields)
  BY DEF OnlyIn, UniformFields
<1>3. OnlyIn(c, u, UniformFields)
  BY UniformsOnly
<1>4. UploadFFP(u) = e
  BY DEF UploadFFP
<1>5. OnlyIn(u, e, UniformFields)
  <2> HIDE DEF u, a
  <2>1. OnlyIn(u, b, UniformFields)
    BY <1>1, <1>2, OnlyInBoth
  <2> HIDE DEF b
  <2>2. OnlyIn(u, d, UniformFields)
    BY <1>1, <2>1, OnlyInBoth
  <2> HIDE DEF d
  <2> QED
    BY <1>1, <2>2, OnlyInBoth
<1>6. ApplyBuiltInUniforms(c) \in {c, u, e}
  BY <1>4 DEF ApplyBuiltInUniforms, UploadFFPIfNeeded
<1> QED
  <2> HIDE DEF u, e
  <2> QED
    BY <1>2, <1>3, <1>5, <1>6, OnlyInBoth

\* The uniforms of the state sets.
LEMMA ApplyUniformsOnly ==
  ASSUME NEW c, NEW leaf
  PROVE  OnlyIn(c, ApplyUniforms(c, leaf), UniformFields)
<1>1. \A o : OnlyIn(c, ApplyObject(c, "u", o), UniformFields)
  BY UniformsOnly DEF ApplyObject
<1>2. OnlyIn(c, c, UniformFields)
  BY DEF OnlyIn
<1> QED
  BY <1>1, <1>2 DEF ApplyUniforms, ApplyUniformSlot

\* The defines.
LEMMA DefinesOnly ==
  ASSUME NEW c, NEW list
  PROVE  /\ OnlyIn(c, PushDefines(c, list), {"defMap"})
         /\ OnlyIn(c, PopDefines(c, list), {"defMap"})
BY DEF PushDefines, PopDefines, OnlyIn

\* An attribute of another type than TEXTURE does nothing to the textures,
\* to what is remembered of them or to what is asked of them.
OtherFields == ProgramFields \cup UniformFields

\* Applying any attribute that is not a texture.
LEMMA ApplyOneOnly ==
  ASSUME NEW c, NEW type \in Types \ {"TEXTURE"}, NEW a
  PROVE  OnlyIn(c, ApplyOne(c, type, a), OtherFields)
<1>1. \A b, n, v : OnlyIn(b, SetFFP(b, n, v), OtherFields)
  BY UniformsOnly, OnlyInMore DEF OtherFields
<1>2. OnlyIn(c, [c EXCEPT !.material = a], OtherFields) /\ OnlyIn(c, [c EXCEPT !.lightModel = a], OtherFields)
  BY DEF OnlyIn, OtherFields, UniformFields
<1>3. OnlyIn(c, ApplyMaterial(c, a), OtherFields) /\ OnlyIn(c, ApplyLightModel(c, a), OtherFields)
  BY <1>1, <1>2, OnlyInBoth DEF ApplyMaterial, ApplyLightModel, UpdateSceneColor
<1>4. OnlyIn(c, ApplyProgram(c, a), OtherFields)
  BY ApplyProgramOnly, OnlyInMore DEF OtherFields
<1>5. OnlyIn(c, [c EXCEPT !.used = None, !.last = None], OtherFields)
  BY DEF OnlyIn, OtherFields, ProgramFields
<1>6. type \in {"MATERIAL", "LIGHTMODEL", "FOG", "TEXMAT", "PROGRAM"}
  BY DEF Types, TextureTypes, AttributeTypes
<1>7. CASE type = "PROGRAM"
  BY <1>4, <1>5, <1>7 DEF ApplyOne
<1>8. CASE type = "MATERIAL"
  BY <1>3, <1>8 DEF ApplyOne
<1>9. CASE type = "LIGHTMODEL"
  BY <1>3, <1>9 DEF ApplyOne
<1>10. CASE type = "TEXMAT"
  BY <1>1, <1>10 DEF ApplyOne, ApplyTexMat
<1>11. CASE type = "FOG"
  BY <1>1, <1>11 DEF ApplyOne, ApplyFog
<1> QED
  BY <1>6, <1>7, <1>8, <1>9, <1>10, <1>11

\* What a step may do to what State keeps of the attributes of other types.
OnlyType(c, d, type) ==
    /\ OnlyIn(c, d, OtherFields \cup {"attrMap"})
    /\ DOMAIN d.attrMap = DOMAIN c.attrMap
    /\ \A t \in DOMAIN c.attrMap \ {type} : d.attrMap[t] = c.attrMap[t]

\* A slot other than TEXTURE, whatever the leaf says.
LEMMA OtherSlotOnly ==
  ASSUME NEW c, NEW type \in Types \ {"TEXTURE"}, NEW leaf,
         "attrMap" \in DOMAIN c
  PROVE  OnlyType(c, ApplyAttributeSlot(c, type, leaf), type)
<1> DEFINE M(b, a) == [b EXCEPT !.attrMap[type].last = a, !.attrMap[type].cloned = TRUE]
<1>0. "attrMap" \notin OtherFields
  BY DEF OtherFields, ProgramFields, UniformFields
<1>1. \A b, a : "attrMap" \in DOMAIN b => OnlyType(b, M(b, a), type)
  <2> TAKE b, a
  <2> HAVE "attrMap" \in DOMAIN b
  <2> DEFINE d == M(b, a)
  <2>1. OnlyIn(b, d, {"attrMap"})
    BY DEF OnlyIn
  <2>2. DOMAIN d.attrMap = DOMAIN b.attrMap
    OBVIOUS
  <2>3. \A t \in DOMAIN b.attrMap \ {type} : d.attrMap[t] = b.attrMap[t]
    OBVIOUS
  <2> HIDE DEF d
  <2>4. OnlyType(b, d, type)
    BY <2>1, <2>2, <2>3, OnlyInMore DEF OnlyType
  <2> QED
    BY <2>4 DEF d
<1>2. \A b, d, e : OnlyType(b, d, type) /\ OnlyType(d, e, type) => OnlyType(b, e, type)
  BY OnlyInBoth DEF OnlyType
<1>3. \A b, a : "attrMap" \in DOMAIN b => OnlyType(b, ApplyOne(b, type, a), type)
  <2> TAKE b, a
  <2> HAVE "attrMap" \in DOMAIN b
  <2> DEFINE d == ApplyOne(b, type, a)
  <2>1. OnlyIn(b, d, OtherFields)
    BY ApplyOneOnly
  <2>2. d.attrMap = b.attrMap
    <3> HIDE DEF d
    <3> QED
      BY <1>0, <2>1 DEF OnlyIn
  <2>3. OnlyType(b, d, type)
    <3> HIDE DEF d
    <3> QED
      BY <2>1, <2>2, OnlyInMore DEF OnlyType
  <2> QED
    BY <2>3
<1>4. \A b : "attrMap" \in DOMAIN b => OnlyType(b, b, type)
  BY DEF OnlyType, OnlyIn
<1>5. \A b, a : "attrMap" \in DOMAIN b => "attrMap" \in DOMAIN M(b, a)
  OBVIOUS
<1>6. \A b, a : "attrMap" \in DOMAIN b => OnlyType(b, ApplyAttribute(b, type, a), type)
  <2> TAKE b, a
  <2> HAVE "attrMap" \in DOMAIN b
  <2>1. ApplyAttribute(b, type, a) \in {b, ApplyOne(M(b, a), type, a)}
    BY DEF ApplyAttribute
  <2> HIDE DEF M
  <2> QED
    BY <1>1, <1>2, <1>3, <1>4, <1>5, <2>1
<1>7. \A a, v : LET d == [c EXCEPT !.attrMap[type].changed = v]
                    e == [c EXCEPT !.attrMap[type].last = a]
                IN OnlyType(c, d, type) /\ "attrMap" \in DOMAIN d /\ OnlyType(c, e, type)
  BY DEF OnlyType, OnlyIn
<1>8. \A a : LET d == MarkAttribute(c, type, a) IN OnlyType(c, d, type) /\ "attrMap" \in DOMAIN d
  BY <1>4, <1>7 DEF MarkAttribute
<1>9. \A b : "attrMap" \in DOMAIN b => OnlyType(b, ApplyTopAttribute(b, type), type)
  <2> TAKE b
  <2> HAVE "attrMap" \in DOMAIN b
  <2>1. OnlyType(b, [b EXCEPT !.attrMap[type].last = None], type)
    BY DEF OnlyType, OnlyIn
  <2> QED
    BY <1>6, <2>1 DEF ApplyTopAttribute
<1> QED
  <2>1. \A a : OnlyType(c, ApplyAttribute(MarkAttribute(c, type, a), type, a), type)
    BY <1>2, <1>6, <1>8
  <2> DEFINE n == [c EXCEPT !.attrMap[type].changed = FALSE]
  <2>2. OnlyType(c, ApplyTopAttribute(n, type), type)
    <3>1. OnlyType(c, n, type) /\ "attrMap" \in DOMAIN n
      BY <1>7
    <3> HIDE DEF n
    <3> QED
      BY <1>2, <1>9, <3>1
  <2> QED
    BY <1>4, <2>1, <2>2 DEF ApplyAttributeSlot

-----------------------------------------------------------------------------
(* Stacks                                                                   *)

\* The entries that the scene's state sets have for k.
EntriesOf(field, k) == {ss[field][k] : ss \in {s \in StateSets : k \in DOMAIN s[field]}}

\* What pushing a state set makes of a stack.
Pushed(vec, ss, field, k) ==
    IF k \in DOMAIN ss[field] THEN PushEntry(vec, ss[field][k]) ELSE vec

\* stk[i] is the stack after the first i state sets, and vec is the one
\* after all of them.
Grows(stk, sets, field, k) ==
    /\ stk \in [0 .. Len(sets) -> Seq(EntriesOf(field, k))]
    /\ stk[0] = << >>
    /\ \A i \in 1 .. Len(sets) : stk[i] = Pushed(stk[i - 1], sets[i], field, k)

StackOf(vec, sets, field, k) ==
    \E stk : Grows(stk, sets, field, k) /\ vec = stk[Len(sets)]

\* What is on top is what was pushed or what overrides it; below is what was there.
LEMMA PushedIs ==
  ASSUME NEW E, NEW vec \in Seq(E), NEW e \in E
  PROVE  /\ PushEntry(vec, e) \in Seq(E)
         /\ PushEntry(vec, e) # << >>
         /\ PopEntry(PushEntry(vec, e)) = vec
         /\ Last(PushEntry(vec, e)) = IF Overridden(vec, e) THEN Last(vec) ELSE e
<1> DEFINE x == IF vec # << >> /\ Last(vec).override /\ ~e.protected THEN Last(vec) ELSE e
<1>1. x \in E
  <2>1. vec # << >> => Last(vec) \in E
    BY DEF Last
  <2> QED
    BY <2>1
<1>2. PushEntry(vec, e) = Append(vec, x) /\ x = IF Overridden(vec, e) THEN Last(vec) ELSE e
  BY DEF PushEntry, Overridden
<1> HIDE DEF x
<1>3. Append(vec, x) \in Seq(E) /\ Append(vec, x) # << >>
  BY <1>1, AppendProperties
<1>4. Last(Append(vec, x)) = x
  BY <1>1 DEF Last
<1>5. Front(Append(vec, x)) = vec
  BY <1>1 DEF Front
<1> QED
  BY <1>2, <1>3, <1>4, <1>5 DEF PopEntry

\* Without state sets the stack is empty.
LEMMA StackOfNone ==
  ASSUME NEW vec, NEW field, NEW k
  PROVE  StackOf(vec, << >>, field, k) <=> vec = << >>
<1>1. ASSUME StackOf(vec, << >>, field, k) PROVE vec = << >>
  BY <1>1 DEF StackOf, Grows
<1>2. ASSUME vec = << >> PROVE StackOf(vec, << >>, field, k)
  <2> DEFINE stk == [i \in 0 .. 0 |-> << >>]
  <2>1. Len(<< >>) = 0 /\ << >> \in Seq(EntriesOf(field, k))
    OBVIOUS
  <2>2. stk \in [0 .. 0 -> Seq(EntriesOf(field, k))] /\ stk[0] = << >> /\ 1 .. 0 = {}
    BY <2>1
  <2> HIDE DEF stk
  <2>3. Grows(stk, << >>, field, k)
    BY <2>1, <2>2 DEF Grows
  <2> QED
    BY <1>2, <2>1, <2>2, <2>3 DEF StackOf
<1> QED
  BY <1>1, <1>2

\* A stack holds entries of the scene.
LEMMA StackHas ==
  ASSUME NEW vec, NEW sets \in Seq(StateSets), NEW field, NEW k, StackOf(vec, sets, field, k)
  PROVE  vec \in Seq(EntriesOf(field, k)) /\ (vec # << >> => Last(vec) \in EntriesOf(field, k))
<1>1. Len(sets) \in 0 .. Len(sets)
  OBVIOUS
<1>2. vec \in Seq(EntriesOf(field, k))
  BY <1>1 DEF StackOf, Grows
<1> QED
  BY <1>2 DEF Last

\* Pushing a state set pushes its entry on the stack.
LEMMA StackPush ==
  ASSUME NEW vec, NEW sets \in Seq(StateSets), NEW ss \in StateSets, NEW field, NEW k,
         StackOf(vec, sets, field, k)
  PROVE  StackOf(Pushed(vec, ss, field, k), Append(sets, ss), field, k)
<1> DEFINE n == Len(sets)
           E == EntriesOf(field, k)
           top == Pushed(vec, ss, field, k)
           more == Append(sets, ss)
<1>1. PICK stk : Grows(stk, sets, field, k) /\ vec = stk[n]
  BY DEF StackOf
<1> DEFINE new == [i \in 0 .. n + 1 |-> IF i = n + 1 THEN top ELSE stk[i]]
<1>2. n \in Nat /\ Len(more) = n + 1 /\ more[n + 1] = ss /\ \A i \in 1 .. n : more[i] = sets[i]
  OBVIOUS
<1>3. vec \in Seq(E)
  BY StackHas
<1>4. top \in Seq(E)
  <2>1. k \in DOMAIN ss[field] => ss[field][k] \in E
    BY DEF EntriesOf
  <2> QED
    BY <1>3, <2>1, PushedIs DEF Pushed
<1> HIDE DEF top, more, E
<1>5. \A i \in 0 .. n + 1 : i # n + 1 => i \in 0 .. n
  BY <1>2
<1>6. new \in [0 .. n + 1 -> Seq(E)]
  BY <1>1, <1>4, <1>5 DEF Grows, E
<1>7. new[0] = << >>
  BY <1>1, <1>2 DEF Grows
<1>8. ASSUME NEW i \in 1 .. n + 1 PROVE new[i] = Pushed(new[i - 1], more[i], field, k)
  <2>1. i \in 0 .. n + 1 /\ i - 1 \in 0 .. n + 1 /\ i - 1 # n + 1
    BY <1>2
  <2>2. CASE i = n + 1
    BY <1>1, <1>2, <2>1, <2>2 DEF top
  <2>3. CASE i # n + 1
    <3>1. i \in 1 .. n
      BY <1>2, <2>3
    <3> QED
      BY <1>1, <1>2, <2>1, <2>3, <3>1 DEF Grows
  <2> QED
    BY <2>2, <2>3
<1>9. new[n + 1] = top
  BY <1>2
<1> HIDE DEF new, n
<1>10. Grows(new, more, field, k)
  BY <1>2, <1>6, <1>7, <1>8 DEF Grows, E
<1> QED
  BY <1>2, <1>9, <1>10 DEF StackOf, top, more

\* All but the last of a sequence.
LEMMA FrontIs ==
  ASSUME NEW S, NEW s \in Seq(S), s # << >>
  PROVE  /\ Front(s) \in Seq(S) /\ Last(s) \in S
         /\ Len(s) \in Nat /\ Len(s) >= 1 /\ Len(Front(s)) = Len(s) - 1
         /\ \A i \in 1 .. Len(s) - 1 : Front(s)[i] = s[i]
<1>1. Len(s) \in Nat /\ Len(s) >= 1
  OBVIOUS
<1>2. PICK n \in Int : n = Len(s) - 1
  BY <1>1
<1>3. \A i \in 1 .. n : s[i] \in S
  BY <1>1, <1>2
<1>4. /\ SubSeq(s, 1, n) \in Seq(S)
      /\ Len(SubSeq(s, 1, n)) = IF 1 <= n THEN n - 1 + 1 ELSE 0
      /\ \A i \in 1 .. n - 1 + 1 : SubSeq(s, 1, n)[i] = s[1 + i - 1]
  BY <1>3, SubSeqProperties
<1>5. n - 1 + 1 = n /\ (1 <= n \/ n = 0) /\ \A i \in 1 .. n : 1 + i - 1 = i
  BY <1>1, <1>2
<1>6. Last(s) \in S
  BY <1>1 DEF Last
<1> QED
  BY <1>1, <1>2, <1>4, <1>5, <1>6 DEF Front

\* Popping it takes that entry off again, and leaves the stack as it was.
LEMMA StackPop ==
  ASSUME NEW vec, NEW sets \in Seq(StateSets), sets # << >>, NEW field, NEW k,
         StackOf(vec, sets, field, k)
  PROVE  StackOf(IF k \in DOMAIN Last(sets)[field] THEN PopEntry(vec) ELSE vec,
                 Front(sets), field, k)
<1> DEFINE n == Len(sets)
           E == EntriesOf(field, k)
<1>1. PICK stk : Grows(stk, sets, field, k) /\ vec = stk[n]
  BY DEF StackOf
<1> DEFINE old == [i \in 0 .. n - 1 |-> stk[i]]
<1>2. n \in Nat /\ n >= 1 /\ Len(Front(sets)) = n - 1 /\ \A i \in 1 .. n - 1 : Front(sets)[i] = sets[i]
  BY FrontIs
<1>3. stk[n - 1] \in Seq(E) /\ stk[n] = Pushed(stk[n - 1], Last(sets), field, k)
  BY <1>1, <1>2 DEF Grows, Last
<1>4. Last(sets) \in StateSets
  BY <1>2 DEF Last
<1>5. stk[n - 1] = IF k \in DOMAIN Last(sets)[field] THEN PopEntry(vec) ELSE vec
  <2>1. k \in DOMAIN Last(sets)[field] => Last(sets)[field][k] \in E
    BY <1>4 DEF EntriesOf
  <2> HIDE DEF E
  <2>2. ASSUME k \in DOMAIN Last(sets)[field]
        PROVE  PopEntry(PushEntry(stk[n - 1], Last(sets)[field][k])) = stk[n - 1]
    <3>1. PICK v \in Seq(E) : v = stk[n - 1]
      BY <1>3
    <3>2. PICK e \in E : e = Last(sets)[field][k]
      BY <2>1, <2>2
    <3>3. PopEntry(PushEntry(v, e)) = v
      BY PushedIs
    <3> QED
      BY <3>1, <3>2, <3>3
  <2> QED
    BY <1>1, <1>3, <2>2 DEF Pushed
<1>6. \A i \in 0 .. n - 1 : i \in 0 .. n
  BY <1>2
<1>7. old \in [0 .. n - 1 -> Seq(E)] /\ old[0] = << >> /\ old[n - 1] = stk[n - 1]
  BY <1>1, <1>2, <1>6 DEF Grows
<1>8. ASSUME NEW i \in 1 .. n - 1 PROVE old[i] = Pushed(old[i - 1], Front(sets)[i], field, k)
  <2>1. i \in 0 .. n - 1 /\ i - 1 \in 0 .. n - 1 /\ i \in 1 .. n
    BY <1>2
  <2> QED
    BY <1>1, <1>2, <2>1 DEF Grows
<1> HIDE DEF old, n
<1>9. Grows(old, Front(sets), field, k)
  BY <1>2, <1>7, <1>8 DEF Grows
<1> QED
  BY <1>2, <1>5, <1>7, <1>9 DEF StackOf

\* Whose entry is in force, and what the stack with the leaf's own entry on
\* it would have on top, agree.
HeldAt(before, lists, k, i) ==
    IF /\ k \in DOMAIN lists[i]
       /\ before # 0 => ~lists[before][k].override \/ lists[i][k].protected
    THEN i ELSE before

\* Holder is the last value of the function it is defined with.
LEMMA HolderIs ==
  ASSUME NEW lists, Len(lists) \in Nat, NEW k
  PROVE  \E h \in [0 .. Len(lists) -> Nat] :
            /\ h[0] = 0 /\ \A i \in 1 .. Len(lists) : h[i] = HeldAt(h[i - 1], lists, k, i)
            /\ Holder(lists, k) = h[Len(lists)]
<1> DEFINE n == Len(lists)
           G == [a \in Nat \X (1 .. n) |->
                   IF /\ k \in DOMAIN lists[a[2]]
                      /\ a[1] # 0 => ~lists[a[1]][k].override \/ lists[a[2]][k].protected
                   THEN a[2] ELSE a[1]]
           Body(f) == [i \in 0 .. n |->
                         IF i = 0 THEN 0
                         ELSE IF /\ k \in DOMAIN lists[i]
                                 /\ f[i - 1] # 0 =>
                                      ~lists[f[i - 1]][k].override \/ lists[i][k].protected
                              THEN i ELSE f[i - 1]]
           holder == CHOOSE f : f = Body(f)
<1>1. G \in [Nat \X (1 .. n) -> Nat]
  OBVIOUS
<1>2. PICK f \in [0 .. n -> Nat] : StepsBy(f, n, 0, G)
  <2> HIDE DEF G
  <2> QED
    BY <1>1, RecursionExists
<1>3. \A i \in 1 .. n : f[i] = HeldAt(f[i - 1], lists, k, i)
  <2> TAKE i \in 1 .. n
  <2>1. <<f[i - 1], i>> \in Nat \X (1 .. n)
    OBVIOUS
  <2>2. f[i] = G[<<f[i - 1], i>>]
    BY <1>2 DEF StepsBy
  <2> QED
    BY <2>1, <2>2 DEF HeldAt
<1>4. f = Body(f)
  <2>1. \A i \in 0 .. n : i # 0 => i \in 1 .. n
    OBVIOUS
  <2>2. f[0] = 0
    BY <1>2 DEF StepsBy
  <2>3. \A i \in 0 .. n : f[i] = Body(f)[i]
    BY <1>3, <2>1, <2>2 DEF HeldAt
  <2> QED
    BY <2>3
<1>5. holder = Body(holder)
  <2> HIDE DEF Body
  <2> QED
    BY <1>4
<1>6. Holder(lists, k) = holder[n]
  BY DEF Holder
<1> HIDE DEF holder
<1>7. holder[0] = 0 /\ \A i \in 1 .. n : i \in 0 .. n /\ i # 0 /\ holder[i] = HeldAt(holder[i - 1], lists, k, i)
  <2>1. 0 \in 0 .. n /\ \A i \in 1 .. n : i \in 0 .. n /\ i # 0
    OBVIOUS
  <2>2. \A i \in 0 .. n : holder[i] = IF i = 0 THEN 0 ELSE HeldAt(holder[i - 1], lists, k, i)
    BY <1>5 DEF HeldAt
  <2> QED
    BY <2>1, <2>2
<1>8. \A i \in 0 .. n : holder[i] \in Nat
  <2> DEFINE T == {i \in Nat : i \in 0 .. n => holder[i] \in Nat}
  <2>1. 0 \in T
    BY <1>7
  <2>2. \A i \in 1 .. n : i - 1 \in T => i \in T
    BY <1>7 DEF HeldAt
  <2>3. 0 .. n \subseteq T
    <3> HIDE DEF T
    <3> QED
      BY <2>1, <2>2, UpTo
  <2> QED
    BY <2>3
<1>9. holder \in [0 .. n -> Nat]
  BY <1>5, <1>8
<1> QED
  BY <1>6, <1>7, <1>9

\* The place of the entry in force over a leaf, and that entry.
Place(sets, leaf, field, k) == Holder(ListsOf(Append(sets, leaf), field), k)
InForce(sets, leaf, field, k) == ListsOf(Append(sets, leaf), field)[Place(sets, leaf, field, k)][k]

\* It is the leaf's own one, or the one on top of the stack.
AskedOf(vec, sets, leaf, field, k) ==
    IF OwnEntry(leaf[field], k, vec)
    THEN Place(sets, leaf, field, k) # 0 /\ InForce(sets, leaf, field, k) = leaf[field][k]
    ELSE IF vec = << >> THEN Place(sets, leaf, field, k) = 0
    ELSE Place(sets, leaf, field, k) # 0 /\ InForce(sets, leaf, field, k) = Last(vec)

\* The entry in force over a leaf is its own one, or the top of the stack.
LEMMA AskedOfStack ==
  ASSUME NEW vec, NEW sets \in Seq(StateSets), NEW leaf, NEW field, NEW k,
         StackOf(vec, sets, field, k)
  PROVE  AskedOf(vec, sets, leaf, field, k)
<1> DEFINE n == Len(sets)
           all == Append(sets, leaf)
           lists == ListsOf(all, field)
           E == EntriesOf(field, k)
<1>1. PICK stk : Grows(stk, sets, field, k) /\ vec = stk[n]
  BY DEF StackOf
<1>2. n \in Nat /\ Len(all) = n + 1 /\ all[n + 1] = leaf /\ \A i \in 1 .. n : all[i] = sets[i]
  OBVIOUS
<1> HIDE DEF n, all
<1>3. Len(lists) = n + 1 /\ lists[n + 1] = leaf[field] /\ \A i \in 1 .. n : lists[i] = sets[i][field]
  BY <1>2 DEF ListsOf
<1> HIDE DEF lists
<1>4. PICK h \in [0 .. n + 1 -> Nat] :
        /\ h[0] = 0 /\ \A i \in 1 .. n + 1 : h[i] = HeldAt(h[i - 1], lists, k, i)
        /\ Holder(lists, k) = h[n + 1]
  <2>1. Len(lists) \in Nat
    BY <1>2, <1>3
  <2>2. PICK m \in Nat : m = Len(lists)
    BY <2>1
  <2>3. \E h \in [0 .. m -> Nat] :
          /\ h[0] = 0 /\ \A i \in 1 .. m : h[i] = HeldAt(h[i - 1], lists, k, i)
          /\ Holder(lists, k) = h[m]
    BY <2>1, <2>2, HolderIs
  <2>4. m = n + 1
    BY <1>3, <2>2
  <2> QED
    BY <2>3, <2>4
<1> DEFINE Agree(i) == IF stk[i] = << >> THEN h[i] = 0
                       ELSE h[i] # 0 /\ lists[h[i]][k] = Last(stk[i])
           T == {i \in Nat : i \in 0 .. n => Agree(i)}
<1>5. 0 \in T
  BY <1>1, <1>2, <1>4 DEF Grows
<1>6. ASSUME NEW i \in 1 .. n, i - 1 \in T PROVE i \in T
  <2>1. i \in Nat /\ i - 1 \in 0 .. n /\ i \in 1 .. n + 1 /\ i # 0
    BY <1>2
  <2>2. Agree(i - 1)
    BY <1>6, <2>1
  <2>3. h[i] = HeldAt(h[i - 1], lists, k, i)
    BY <1>4, <2>1
  <2>4. lists[i] = sets[i][field] /\ sets[i] \in StateSets
    BY <1>3 DEF n
  <2>5. stk[i] = Pushed(stk[i - 1], sets[i], field, k) /\ stk[i - 1] \in Seq(E)
    BY <1>1, <2>1 DEF Grows, n
  <2>6. CASE k \in DOMAIN lists[i]
    <3>1. lists[i][k] \in E
      BY <2>4, <2>6 DEF EntriesOf
    <3>2. /\ stk[i] # << >>
          /\ Last(stk[i]) = IF Overridden(stk[i - 1], lists[i][k]) THEN Last(stk[i - 1]) ELSE lists[i][k]
      <4> HIDE DEF E
      <4>1. stk[i] = PushEntry(stk[i - 1], lists[i][k])
        BY <2>4, <2>5, <2>6 DEF Pushed
      <4> QED
        <5>1. PICK v \in Seq(E) : v = stk[i - 1]
          BY <2>5
        <5>2. PICK e \in E : e = lists[i][k]
          BY <3>1
        <5>3. PushEntry(v, e) # << >> /\ Last(PushEntry(v, e)) = IF Overridden(v, e) THEN Last(v) ELSE e
          BY PushedIs
        <5> QED
          BY <4>1, <5>1, <5>2, <5>3
    <3>3. h[i] = IF Overridden(stk[i - 1], lists[i][k]) THEN h[i - 1] ELSE i
      BY <2>2, <2>3, <2>6 DEF HeldAt, Overridden
    <3>4. Overridden(stk[i - 1], lists[i][k]) => stk[i - 1] # << >>
      BY DEF Overridden
    <3>5. Agree(i)
      BY <2>1, <2>2, <3>2, <3>3, <3>4
    <3> QED
      BY <2>1, <3>5
  <2>7. CASE k \notin DOMAIN lists[i]
    <3>1. stk[i] = stk[i - 1] /\ h[i] = h[i - 1]
      BY <2>3, <2>4, <2>5, <2>7 DEF HeldAt, Pushed
    <3> QED
      BY <2>1, <2>2, <3>1
  <2> QED
    BY <2>6, <2>7
<1>7. 0 .. n \subseteq T
  <2> HIDE DEF T
  <2> QED
    BY <1>2, <1>5, <1>6, UpTo
<1>8. IF vec = << >> THEN h[n] = 0 ELSE h[n] # 0 /\ lists[h[n]][k] = Last(vec)
  BY <1>1, <1>2, <1>7
<1>9. h[n + 1] = HeldAt(h[n], lists, k, n + 1) /\ n + 1 - 1 = n /\ n + 1 # 0
  BY <1>2, <1>4
<1>10. h[n + 1] = IF OwnEntry(leaf[field], k, vec) THEN n + 1 ELSE h[n]
  <2>2. OwnEntry(leaf[field], k, vec) <=>
          k \in DOMAIN leaf[field] /\ (vec # << >> => ~Last(vec).override \/ leaf[field][k].protected)
    BY DEF OwnEntry, Overridden
  <2>3. (h[n] # 0 => ~lists[h[n]][k].override \/ leaf[field][k].protected)
          <=> (vec # << >> => ~Last(vec).override \/ leaf[field][k].protected)
    BY <1>8
  <2> QED
    BY <1>3, <1>9, <2>2, <2>3 DEF HeldAt
<1>11. IF OwnEntry(leaf[field], k, vec)
       THEN Holder(lists, k) # 0 /\ lists[Holder(lists, k)][k] = leaf[field][k]
       ELSE IF vec = << >> THEN Holder(lists, k) = 0
       ELSE Holder(lists, k) # 0 /\ lists[Holder(lists, k)][k] = Last(vec)
  BY <1>3, <1>4, <1>8, <1>9, <1>10
<1> QED
  BY <1>11 DEF lists, all, Place, InForce, AskedOf

-----------------------------------------------------------------------------
(* Modes                                                                    *)

ModeFields == {"vec", "last", "changed", "default", "known", "misled"}

\* Of each mode: its stack follows from the state sets, OpenGL has what
\* State believes unless it was misled, and unless the mode is marked that
\* belief is what the stack asks for.  A mode without an entry has no stack.
ModeStacks(c) ==
    /\ c.sets \in Seq(StateSets)
    /\ DOMAIN c.modeMap = Modes /\ DOMAIN c.modes = Modes
    /\ \A m \in Modes : /\ DOMAIN c.modeMap[m] = ModeFields
                        /\ c.modeMap[m].default \in BOOLEAN
                        /\ ~c.modeMap[m].known => c.modeMap[m].vec = << >>
                        /\ StackOf(c.modeMap[m].vec, c.sets, "modes", m)

ModeCached(c, m) ==
    /\ c.modeMap[m].misled = "no" => c.modes[m] = c.modeMap[m].last
    /\ ~c.modeMap[m].changed => c.modeMap[m].last = TopMode(c.modeMap[m])

\* A leaf's own mode, or what the stack has.
ModeAsked(c, m, leaf) ==
    IF OwnEntry(leaf.modes, m, c.modeMap[m].vec) THEN leaf.modes[m].value = "on"
    ELSE TopMode(c.modeMap[m])

\* What one entry comes to when it is given a value to believe, or marked.
LEMMA BelieveIs ==
  ASSUME NEW e, DOMAIN e = ModeFields, NEW last, NEW gl, NEW why, why # "no"
  PROVE  LET b == Believe(e, last, gl, why)
         IN /\ DOMAIN b = ModeFields
            /\ b.last = last /\ (b.misled = "no" <=> last = gl)
            /\ b.vec = e.vec /\ b.default = e.default /\ b.changed = e.changed /\ b.known = e.known
BY DEF Believe, ModeFields

LEMMA TouchedIs ==
  ASSUME NEW e, DOMAIN e = ModeFields
  PROVE  LET b == Touched(e)
         IN /\ DOMAIN b = ModeFields
            /\ b.changed = TRUE /\ b.known = TRUE
            /\ b.last = e.last /\ b.misled = e.misled /\ b.vec = e.vec /\ b.default = e.default
BY DEF Touched, ModeFields

\* Mode m, which had the entry e in c, is believed on or off in d, and is so unless e was wrong.
ModeApplied(c, d, m, e, on) ==
  /\ DOMAIN d.modeMap = DOMAIN c.modeMap /\ DOMAIN d.modes = DOMAIN c.modes
  /\ OnlyIn(c, d, {"modeMap", "modes"})
  /\ \A k \in DOMAIN c.modeMap \ {m} : d.modeMap[k] = c.modeMap[k]
  /\ \A k \in DOMAIN c.modes \ {m} : d.modes[k] = c.modes[k]
  /\ LET b == d.modeMap[m]
     IN /\ DOMAIN b = ModeFields /\ b.last = on
        /\ b.vec = e.vec /\ b.default = e.default /\ b.changed = e.changed /\ b.known = e.known
        /\ (e.misled = "no" => c.modes[m] = e.last) => (b.misled = "no" => d.modes[m] = on)

\* applyMode(): the value is believed, and OpenGL has it if it was not believed before.
LEMMA ApplyModeIs ==
  ASSUME NEW c, {"modeMap", "modes"} \subseteq DOMAIN c, NEW m, m \in DOMAIN c.modeMap, m \in DOMAIN c.modes,
         DOMAIN c.modeMap[m] = ModeFields, NEW on
  PROVE  ModeApplied(c, ApplyMode(c, m, on), m, c.modeMap[m], on)
<1> DEFINE d == ApplyMode(c, m, on)
           e == c.modeMap[m]
           f == [e EXCEPT !.last = on, !.misled = "no"]
<1>1. CASE e.last = on
  <2>1. d = c
    BY <1>1 DEF ApplyMode
  <2> QED
    BY <1>1, <2>1 DEF OnlyIn, ModeApplied
<1>2. CASE e.last # on
  <2>1. Believe(e, on, on, "no") = f
    BY DEF Believe
  <2>2. d = [c EXCEPT !.modeMap[m] = f, !.modes[m] = on]
    BY <1>2, <2>1 DEF ApplyMode
  <2>3. DOMAIN f = ModeFields /\ f.last = on /\ f.vec = e.vec /\ f.default = e.default
        /\ f.changed = e.changed /\ f.known = e.known
    BY DEF ModeFields
  <2> HIDE DEF d, f
  <2>4. /\ d.modeMap = [c.modeMap EXCEPT ![m] = f] /\ d.modes = [c.modes EXCEPT ![m] = on]
        /\ OnlyIn(c, d, {"modeMap", "modes"})
    BY <2>2 DEF OnlyIn
  <2> QED
    BY <2>3, <2>4 DEF d, ModeApplied
<1> QED
  BY <1>1, <1>2

\* One mode of applyModeList: from what is remembered, whatever that was.
LEMMA ModeSlot ==
  ASSUME NEW c, {"modeMap", "modes"} \subseteq DOMAIN c, ModeStacks(c), NEW m \in Modes, NEW leaf,
         ModeCached(c, m)
  PROVE  LET d == ApplyModeSlot(c, m, leaf)
         IN /\ ModeCached(d, m)
            /\ d.modeMap[m].last = ModeAsked(c, m, leaf)
            /\ DOMAIN d.modeMap[m] = ModeFields
            /\ d.modeMap[m].vec = c.modeMap[m].vec
            /\ d.modeMap[m].default = c.modeMap[m].default
            /\ c.modeMap[m].known => d.modeMap[m].known
<1> DEFINE vec == c.modeMap[m].vec
           own == leaf.modes[m].value = "on"
           d == ApplyModeSlot(c, m, leaf)
           e == MarkMode(c, m, own)
           f == [c.modeMap[m] EXCEPT !.changed = FALSE]
           g == [c EXCEPT !.modeMap[m].changed = FALSE]
           on == TopMode(c.modeMap[m])
<1>0. m \in DOMAIN c.modeMap /\ m \in DOMAIN c.modes /\ DOMAIN c.modeMap[m] = ModeFields
  BY DEF ModeStacks
<1>1. CASE OwnEntry(leaf.modes, m, vec)
  <2>1. d = ApplyMode(e, m, own)
    BY <1>1 DEF ApplyModeSlot
  <2>2. ModeAsked(c, m, leaf) = own
    BY <1>1 DEF ModeAsked
  <2>3. CASE c.modeMap[m].known /\ c.modeMap[m].last = own
    <3>1. d = c
      BY <2>1, <2>3 DEF ApplyMode, MarkMode
    <3> QED
      BY <1>0, <2>2, <2>3, <3>1
  <2>4. CASE ~(c.modeMap[m].known /\ c.modeMap[m].last = own)
    <3> DEFINE t == Touched(c.modeMap[m])
    <3>1. e = [c EXCEPT !.modeMap[m] = t]
      BY <2>4 DEF MarkMode
    <3>2. /\ DOMAIN t = ModeFields /\ t.changed = TRUE /\ t.known = TRUE /\ t.last = c.modeMap[m].last
          /\ t.misled = c.modeMap[m].misled /\ t.vec = vec /\ t.default = c.modeMap[m].default
      BY <1>0, TouchedIs
    <3> HIDE DEF t, own
    <3>3. /\ e.modeMap[m] = t /\ m \in DOMAIN e.modeMap /\ m \in DOMAIN e.modes
          /\ {"modeMap", "modes"} \subseteq DOMAIN e /\ e.modes = c.modes
      BY <1>0, <3>1
    <3> HIDE DEF d, e
    <3>4. /\ DOMAIN d.modeMap[m] = ModeFields /\ d.modeMap[m].last = own /\ d.modeMap[m].vec = vec
          /\ d.modeMap[m].default = c.modeMap[m].default /\ d.modeMap[m].changed = TRUE
          /\ d.modeMap[m].known = TRUE
          /\ d.modeMap[m].misled = "no" => d.modes[m] = own
      BY <2>1, <3>2, <3>3, ApplyModeIs DEF ModeCached, ModeApplied
    <3>5. ModeCached(d, m)
      BY <3>4 DEF ModeCached
    <3> QED
      BY <2>2, <3>4, <3>5 DEF d
  <2> QED
    BY <2>3, <2>4
<1>2. CASE ~OwnEntry(leaf.modes, m, vec) /\ ~c.modeMap[m].changed
  <2>1. d = c
    BY <1>2 DEF ApplyModeSlot
  <2> QED
    BY <1>0, <1>2, <2>1 DEF ModeCached, ModeAsked
<1>3. CASE ~OwnEntry(leaf.modes, m, vec) /\ c.modeMap[m].changed
  <2>1. d = ApplyMode(g, m, on)
    BY <1>3 DEF ApplyModeSlot
  <2>2. DOMAIN f = ModeFields /\ f.vec = vec /\ f.default = c.modeMap[m].default
        /\ f.last = c.modeMap[m].last /\ f.misled = c.modeMap[m].misled /\ f.known = c.modeMap[m].known
    BY <1>0 DEF ModeFields
  <2>3. /\ g.modeMap[m] = f /\ m \in DOMAIN g.modeMap /\ m \in DOMAIN g.modes
        /\ {"modeMap", "modes"} \subseteq DOMAIN g /\ g.modes = c.modes
    BY <1>0
  <2>4. ModeAsked(c, m, leaf) = on
    BY <1>3 DEF ModeAsked
  <2> HIDE DEF d, g, f, on
  <2>5. /\ DOMAIN d.modeMap[m] = ModeFields /\ d.modeMap[m].last = on /\ d.modeMap[m].vec = vec
        /\ d.modeMap[m].default = c.modeMap[m].default /\ d.modeMap[m].known = c.modeMap[m].known
        /\ d.modeMap[m].misled = "no" => d.modes[m] = on
    BY <2>1, <2>2, <2>3, ApplyModeIs DEF ModeCached, ModeApplied
  <2>6. TopMode(d.modeMap[m]) = on
    BY <2>5 DEF TopMode, on
  <2>7. ModeCached(d, m)
    BY <2>5, <2>6 DEF ModeCached
  <2> QED
    BY <2>4, <2>5, <2>7 DEF d
<1> QED
  BY <1>1, <1>2, <1>3

\* The fields of a State.
Fields == {"sets", "modeMap", "attrMap", "uniMap", "defMap", "modes", "text", "list", "defines",
           "pcs", "pcp", "last", "used", "images", "image", "seen", "object", "dims", "side",
           "unref", "bound", "value", "ffp", "ffpDirty", "ffpLast", "material", "lightModel",
           "modelView", "matrix"}

\* The fields that push and pop reach.
StackFields == {"sets", "modeMap", "attrMap", "uniMap", "defMap"}

\* Pushing a state set.
LEMMA PushIs ==
  ASSUME NEW c, DOMAIN c = Fields, NEW ss
  PROVE  LET d == PushStateSet(c, ss)
         IN /\ OnlyIn(c, d, StackFields)
            /\ d.sets = Append(c.sets, ss)
            /\ d.modeMap = PushModes(c.modeMap, ss.modes)
            /\ d.attrMap = PushList(c.attrMap, ss.attributes)
            /\ d.uniMap = PushList(c.uniMap, ss.uniforms)
<1> DEFINE b == [c EXCEPT !.sets    = Append(@, ss),
                          !.modeMap = PushModes(@, ss.modes),
                          !.attrMap = PushList(@, ss.attributes),
                          !.uniMap  = PushList(@, ss.uniforms)]
           d == PushDefines(b, ss.defines)
<1>1. OnlyIn(c, b, StackFields)
  BY DEF OnlyIn, StackFields
<1>2. /\ b.sets = Append(c.sets, ss) /\ b.modeMap = PushModes(c.modeMap, ss.modes)
      /\ b.attrMap = PushList(c.attrMap, ss.attributes)
      /\ b.uniMap = PushList(c.uniMap, ss.uniforms)
  BY DEF Fields
<1> HIDE DEF b
<1>3. OnlyIn(b, d, {"defMap"})
  BY DefinesOnly
<1>4. PushStateSet(c, ss) = d
  BY DEF PushStateSet, b
<1> HIDE DEF d
<1>5. DOMAIN b = Fields
  BY <1>1 DEF OnlyIn
<1>6. OnlyIn(c, d, StackFields)
  <2>1. OnlyIn(b, d, StackFields)
    BY <1>3, OnlyInMore DEF StackFields
  <2> QED
    BY <1>1, <2>1, OnlyInBoth
<1>7. d.sets = b.sets /\ d.modeMap = b.modeMap /\ d.attrMap = b.attrMap /\ d.uniMap = b.uniMap
  BY <1>3, <1>5 DEF OnlyIn, Fields
<1> QED
  BY <1>2, <1>4, <1>6, <1>7

\* Popping one.
LEMMA PopIs ==
  ASSUME NEW c, DOMAIN c = Fields, c.sets # << >>
  PROVE  LET d == PopStateSet(c)
             ss == Last(c.sets)
         IN /\ OnlyIn(c, d, StackFields)
            /\ d.sets = Front(c.sets)
            /\ d.modeMap = PopList(c.modeMap, ss.modes)
            /\ d.attrMap = PopList(c.attrMap, ss.attributes)
            /\ d.uniMap = PopList(c.uniMap, ss.uniforms)
<1> DEFINE ss == Last(c.sets)
           b == [c EXCEPT !.sets    = Front(@),
                          !.modeMap = PopList(@, ss.modes),
                          !.attrMap = PopList(@, ss.attributes),
                          !.uniMap  = PopList(@, ss.uniforms)]
           d == PopDefines(b, ss.defines)
<1>1. OnlyIn(c, b, StackFields)
  BY DEF OnlyIn, StackFields
<1>2. /\ b.sets = Front(c.sets) /\ b.modeMap = PopList(c.modeMap, ss.modes)
      /\ b.attrMap = PopList(c.attrMap, ss.attributes)
      /\ b.uniMap = PopList(c.uniMap, ss.uniforms)
  BY DEF Fields
<1>4. PopStateSet(c) = d
  BY DEF PopStateSet, PopTopStateSet
<1> HIDE DEF b
<1>3. OnlyIn(b, d, {"defMap"})
  BY DefinesOnly
<1> HIDE DEF d
<1>5. DOMAIN b = Fields
  BY <1>1 DEF OnlyIn
<1>6. OnlyIn(c, d, StackFields)
  <2>1. OnlyIn(b, d, StackFields)
    BY <1>3, OnlyInMore DEF StackFields
  <2> QED
    BY <1>1, <2>1, OnlyInBoth
<1>7. d.sets = b.sets /\ d.modeMap = b.modeMap /\ d.attrMap = b.attrMap /\ d.uniMap = b.uniMap
  BY <1>3, <1>5 DEF OnlyIn, Fields
<1> QED
  BY <1>2, <1>4, <1>6, <1>7

\* One entry of a map of stacks, pushed or popped: marked, and otherwise as it was.
LEMMA ListIs ==
  ASSUME NEW map, NEW list, NEW k \in DOMAIN map, {"vec", "changed"} \subseteq DOMAIN map[k]
  PROVE  LET p == PushList(map, list)[k]
             q == PopList(map, list)[k]
         IN /\ DOMAIN p = DOMAIN map[k] /\ DOMAIN q = DOMAIN map[k]
            /\ \A f \in DOMAIN map[k] \ {"vec", "changed"} : p[f] = map[k][f] /\ q[f] = map[k][f]
            /\ IF k \in DOMAIN list
               THEN /\ p.changed /\ p.vec = PushEntry(map[k].vec, list[k])
                    /\ q.changed /\ q.vec = PopEntry(map[k].vec)
               ELSE p = map[k] /\ q = map[k]
<1> DEFINE p == [map[k] EXCEPT !.vec = PushEntry(@, list[k]), !.changed = TRUE]
           q == [map[k] EXCEPT !.vec = PopEntry(@), !.changed = TRUE]
<1>1. DOMAIN PushList(map, list) = DOMAIN map /\ DOMAIN PopList(map, list) = DOMAIN map
  BY DEF PushList, PopList
<1>2. PushList(map, list)[k] = IF k \in DOMAIN list THEN p ELSE map[k]
  BY DEF PushList
<1>3. PopList(map, list)[k] = IF k \in DOMAIN list THEN q ELSE map[k]
  BY DEF PopList
<1>4. /\ DOMAIN p = DOMAIN map[k] /\ p.changed /\ p.vec = PushEntry(map[k].vec, list[k])
      /\ \A f \in DOMAIN map[k] \ {"vec", "changed"} : p[f] = map[k][f]
  OBVIOUS
<1>5. /\ DOMAIN q = DOMAIN map[k] /\ q.changed /\ q.vec = PopEntry(map[k].vec)
      /\ \A f \in DOMAIN map[k] \ {"vec", "changed"} : q[f] = map[k][f]
  OBVIOUS
<1> HIDE DEF p, q
<1> QED
  BY <1>2, <1>3, <1>4, <1>5

\* The same of the modes' own list, which also makes the entry.
LEMMA ModeListIs ==
  ASSUME NEW map, NEW list, NEW m \in DOMAIN map, DOMAIN map[m] = ModeFields
  PROVE  LET p == PushModes(map, list)[m]
         IN /\ DOMAIN p = ModeFields /\ p.last = map[m].last
            /\ p.default = map[m].default /\ p.misled = map[m].misled
            /\ IF m \in DOMAIN list THEN p.changed /\ p.known /\ p.vec = PushEntry(map[m].vec, list[m])
                                    ELSE p = map[m]
<1> DEFINE p == [map[m] EXCEPT !.vec = PushEntry(@, list[m]), !.changed = TRUE, !.known = TRUE]
<1>1. PushModes(map, list)[m] = IF m \in DOMAIN list THEN p ELSE map[m]
  BY DEF PushModes
<1>2. /\ DOMAIN p = ModeFields /\ p.changed /\ p.known /\ p.vec = PushEntry(map[m].vec, list[m])
      /\ p.last = map[m].last /\ p.default = map[m].default /\ p.misled = map[m].misled
  BY DEF ModeFields
<1> HIDE DEF p
<1> QED
  BY <1>1, <1>2

ModesRight(c) == ModeStacks(c) /\ \A m \in Modes : ModeCached(c, m)

\* The three fields that this is about.
LEMMA ModesFrame ==
  ASSUME NEW c, NEW d, DOMAIN c = Fields, ModesRight(c),
         d.sets = c.sets, d.modeMap = c.modeMap, d.modes = c.modes
  PROVE  ModesRight(d)
BY DEF ModesRight, ModeStacks, ModeCached

\* Pushing a state set keeps it so.
LEMMA ModesPush ==
  ASSUME NEW c, DOMAIN c = Fields, ModesRight(c), NEW ss \in StateSets
  PROVE  ModesRight(PushStateSet(c, ss))
<1> DEFINE d == PushStateSet(c, ss)
<1>0. /\ d.sets = Append(c.sets, ss) /\ d.modeMap = PushModes(c.modeMap, ss.modes)
      /\ OnlyIn(c, d, StackFields)
  BY PushIs
<1> HIDE DEF d
<1>1. /\ d.sets = Append(c.sets, ss) /\ d.modeMap = PushModes(c.modeMap, ss.modes)
      /\ d.modes = c.modes
  BY <1>0 DEF OnlyIn, Fields, StackFields
<1>2. d.sets \in Seq(StateSets) /\ DOMAIN d.modeMap = Modes /\ DOMAIN d.modes = Modes
  <2>1. Append(c.sets, ss) \in Seq(StateSets)
    BY AppendProperties DEF ModesRight, ModeStacks
  <2>2. DOMAIN PushModes(c.modeMap, ss.modes) = DOMAIN c.modeMap
    BY DEF PushModes
  <2> QED
    BY <1>1, <2>1, <2>2 DEF ModesRight, ModeStacks
<1>3. ASSUME NEW m \in Modes
      PROVE  /\ DOMAIN d.modeMap[m] = ModeFields
             /\ d.modeMap[m].default \in BOOLEAN
             /\ ~d.modeMap[m].known => d.modeMap[m].vec = << >>
             /\ StackOf(d.modeMap[m].vec, d.sets, "modes", m)
             /\ ModeCached(d, m)
  <2>1. /\ m \in DOMAIN c.modeMap /\ DOMAIN c.modeMap[m] = ModeFields
        /\ c.modeMap[m].default \in BOOLEAN
        /\ ~c.modeMap[m].known => c.modeMap[m].vec = << >>
        /\ StackOf(c.modeMap[m].vec, c.sets, "modes", m) /\ c.sets \in Seq(StateSets)
        /\ ModeCached(c, m)
    BY DEF ModesRight, ModeStacks
  <2>2. /\ DOMAIN d.modeMap[m] = ModeFields /\ d.modeMap[m].last = c.modeMap[m].last
        /\ d.modeMap[m].default = c.modeMap[m].default /\ d.modeMap[m].misled = c.modeMap[m].misled
        /\ IF m \in DOMAIN ss.modes
           THEN d.modeMap[m].changed /\ d.modeMap[m].known /\ d.modeMap[m].vec = PushEntry(c.modeMap[m].vec, ss.modes[m])
           ELSE d.modeMap[m] = c.modeMap[m]
    BY <1>1, <2>1, ModeListIs
  <2>3. d.modeMap[m].vec = Pushed(c.modeMap[m].vec, ss, "modes", m)
    BY <2>2 DEF Pushed
  <2>4. StackOf(d.modeMap[m].vec, d.sets, "modes", m)
    BY <1>1, <2>1, <2>3, StackPush
  <2>5. ModeCached(d, m)
    BY <1>1, <2>1, <2>2 DEF ModeCached, TopMode
  <2> QED
    BY <2>1, <2>2, <2>4, <2>5
<1>4. ModesRight(d)
  BY <1>2, <1>3 DEF ModesRight, ModeStacks
<1> QED
  BY <1>4 DEF d

\* Popping one does.
LEMMA ModesPop ==
  ASSUME NEW c, DOMAIN c = Fields, ModesRight(c)
  PROVE  ModesRight(PopStateSet(c))
<1> SUFFICES ASSUME c.sets # << >> PROVE ModesRight(PopStateSet(c))
  BY DEF PopStateSet
<1> DEFINE d == PopStateSet(c)
           ss == Last(c.sets)
<1>0. c.sets \in Seq(StateSets) /\ DOMAIN c.modeMap = Modes
  BY DEF ModesRight, ModeStacks
<1>a. /\ d.sets = Front(c.sets) /\ d.modeMap = PopList(c.modeMap, ss.modes)
      /\ OnlyIn(c, d, StackFields)
  BY PopIs
<1> HIDE DEF d, ss
<1>1. /\ d.sets = Front(c.sets) /\ d.modeMap = PopList(c.modeMap, ss.modes)
      /\ d.modes = c.modes
  BY <1>a DEF OnlyIn, Fields, StackFields
<1>2. d.sets \in Seq(StateSets) /\ DOMAIN d.modeMap = Modes /\ DOMAIN d.modes = Modes
  <2>1. Front(c.sets) \in Seq(StateSets)
    BY <1>0, FrontIs
  <2>2. DOMAIN PopList(c.modeMap, ss.modes) = DOMAIN c.modeMap
    BY DEF PopList
  <2> QED
    BY <1>0, <1>1, <2>1, <2>2 DEF ModesRight, ModeStacks
<1>3. ASSUME NEW m \in Modes
      PROVE  /\ DOMAIN d.modeMap[m] = ModeFields
             /\ d.modeMap[m].default \in BOOLEAN
             /\ ~d.modeMap[m].known => d.modeMap[m].vec = << >>
             /\ StackOf(d.modeMap[m].vec, d.sets, "modes", m)
             /\ ModeCached(d, m)
  <2>1. /\ m \in DOMAIN c.modeMap /\ DOMAIN c.modeMap[m] = ModeFields
        /\ c.modeMap[m].default \in BOOLEAN
        /\ ~c.modeMap[m].known => c.modeMap[m].vec = << >>
        /\ StackOf(c.modeMap[m].vec, c.sets, "modes", m)
        /\ ModeCached(c, m)
    BY DEF ModesRight, ModeStacks
  <2>2. /\ DOMAIN d.modeMap[m] = ModeFields /\ d.modeMap[m].last = c.modeMap[m].last
        /\ d.modeMap[m].default = c.modeMap[m].default /\ d.modeMap[m].misled = c.modeMap[m].misled
        /\ d.modeMap[m].known = c.modeMap[m].known
        /\ IF m \in DOMAIN ss.modes
           THEN d.modeMap[m].changed /\ d.modeMap[m].vec = PopEntry(c.modeMap[m].vec)
           ELSE d.modeMap[m] = c.modeMap[m]
    <3>1. {"vec", "changed"} \subseteq ModeFields /\ {"last", "default", "misled", "known"} \subseteq ModeFields \ {"vec", "changed"}
      BY DEF ModeFields
    <3> QED
      BY <1>1, <2>1, <3>1, ListIs
  <2>3. d.modeMap[m].vec = IF m \in DOMAIN Last(c.sets)["modes"] THEN PopEntry(c.modeMap[m].vec)
                                                                ELSE c.modeMap[m].vec
    BY <2>2 DEF ss
  <2>4. StackOf(d.modeMap[m].vec, d.sets, "modes", m)
    BY <1>0, <1>1, <2>1, <2>3, StackPop
  <2>5. ModeCached(d, m)
    BY <1>1, <2>1, <2>2 DEF ModeCached, TopMode
  <2>6. ~d.modeMap[m].known => d.modeMap[m].vec = << >>
    BY <2>1, <2>2 DEF PopEntry
  <2> QED
    BY <2>1, <2>2, <2>4, <2>5, <2>6
<1>4. ModesRight(d)
  BY <1>2, <1>3 DEF ModesRight, ModeStacks
<1> QED
  BY <1>4 DEF d

\* applyModeList or applyModeMap: State believes what the leaf or else the stacks ask for.
LEMMA ModesApply ==
  ASSUME NEW c, DOMAIN c = Fields, ModeStacks(c), NEW leaf,
         \A m \in Modes : ModeCached(c, m)
  PROVE  LET d == ApplyModes(c, leaf)
         IN /\ OnlyIn(c, d, {"modeMap", "modes"})
            /\ ModesRight(d)
            /\ \A m \in Modes : d.modeMap[m].last = ModeAsked(d, m, leaf)
<1> DEFINE d == ApplyModes(c, leaf)
           slot(m) == ApplyModeSlot(c, m, leaf)
<1>1. /\ OnlyIn(c, d, {"modeMap", "modes"})
      /\ d.modeMap = [m \in Modes |-> slot(m).modeMap[m]]
      /\ d.modes = [m \in Modes |-> slot(m).modes[m]]
      /\ d.sets = c.sets
  <2> HIDE DEF slot
  <2>1. d = [c EXCEPT !.modeMap = [m \in Modes |-> slot(m).modeMap[m]],
                      !.modes   = [m \in Modes |-> slot(m).modes[m]]]
    BY DEF ApplyModes, slot
  <2> HIDE DEF d
  <2> QED
    BY <2>1 DEF OnlyIn, Fields
<1> HIDE DEF d, slot
<1>2. ASSUME NEW m \in Modes
      PROVE  /\ ModeCached(d, m) /\ d.modeMap[m].last = ModeAsked(d, m, leaf)
             /\ DOMAIN d.modeMap[m] = ModeFields /\ d.modeMap[m].default \in BOOLEAN
             /\ ~d.modeMap[m].known => d.modeMap[m].vec = << >>
             /\ StackOf(d.modeMap[m].vec, d.sets, "modes", m)
  <2>0. d.modeMap[m] = slot(m).modeMap[m] /\ d.modes[m] = slot(m).modes[m]
    BY <1>1
  <2>1. /\ ModeCached(slot(m), m)
        /\ slot(m).modeMap[m].last = ModeAsked(c, m, leaf)
        /\ DOMAIN slot(m).modeMap[m] = ModeFields
        /\ slot(m).modeMap[m].vec = c.modeMap[m].vec
        /\ slot(m).modeMap[m].default = c.modeMap[m].default
        /\ c.modeMap[m].known => slot(m).modeMap[m].known
    BY ModeSlot DEF Fields, slot
  <2>2. ModeCached(d, m)
    BY <2>0, <2>1 DEF ModeCached
  <2>3. ModeAsked(d, m, leaf) = ModeAsked(c, m, leaf)
    BY <2>0, <2>1 DEF ModeAsked, TopMode
  <2>4. /\ StackOf(d.modeMap[m].vec, d.sets, "modes", m) /\ d.modeMap[m].default \in BOOLEAN
        /\ ~d.modeMap[m].known => d.modeMap[m].vec = << >>
    BY <1>1, <2>0, <2>1 DEF ModeStacks
  <2> QED
    BY <2>0, <2>1, <2>2, <2>3, <2>4
<1>3. ModesRight(d)
  BY <1>1, <1>2 DEF ModesRight, ModeStacks
<1> QED
  BY <1>1, <1>2, <1>3 DEF d

-----------------------------------------------------------------------------
(* Textures                                                                 *)

\* The image that the count in seen[t] is about.
Source(c, t) == IF t \in OneDimensional THEN c.side[t] ELSE c.image[t]

\* The count of a texture is never ahead of its image's, and where it is
\* the same the object has that image, unless the frame buffer was copied
\* into it.
SeenRight(c, t) ==
    Source(c, t) # None =>
      /\ c.seen[t] <= c.images[Source(c, t)].count
      /\ c.seen[t] = c.images[Source(c, t)].count /\ c.object[t] # None =>
           \/ c.object[t].of = Screen
           \/ c.object[t] = Stored(c, Source(c, t))

\* The same, whatever the size: what there is of images and objects.
ImagesRight(c) ==
    /\ DOMAIN c.images = Images
    /\ \A im \in Images : /\ DOMAIN c.images[im] = {"count", "size"}
                          /\ c.images[im].count \in Nat \ {0}

ObjectRight(c, t) ==
    /\ c.image[t] \in Images \cup {None}
    /\ t \in OneDimensional => c.side[t] \in Images \cup {None}
    /\ c.seen[t] \in Nat
    /\ c.object[t] # None => DOMAIN c.object[t] = {"size", "of", "count"}
    /\ SeenRight(c, t)

ObjectsRight(c) ==
    /\ ImagesRight(c)
    /\ DOMAIN c.image = Textures /\ DOMAIN c.seen = Textures /\ DOMAIN c.side = OneDimensional
    /\ DOMAIN c.object = Textures /\ DOMAIN c.dims = Textures
    /\ \A t \in Textures : ObjectRight(c, t)

\* The fields that a texture's apply() reaches.
TextureFields == {"object", "seen", "dims", "bound", "image", "side"}

\* One texture does nothing to another.
LEMMA ObjectFrame ==
  ASSUME NEW c, NEW d, NEW t, ObjectRight(c, t), d.images = c.images, d.image[t] = c.image[t],
         t \in OneDimensional => d.side[t] = c.side[t],
         d.seen[t] = c.seen[t], d.object[t] = c.object[t]
  PROVE  ObjectRight(d, t)
BY DEF ObjectRight, SeenRight, Source, Stored

\* A change to the fields of one texture.
Touches(c, d, t) ==
    /\ OnlyIn(c, d, TextureFields)
    /\ DOMAIN d.image = DOMAIN c.image /\ DOMAIN d.seen = DOMAIN c.seen
    /\ DOMAIN d.side = DOMAIN c.side
    /\ DOMAIN d.object = DOMAIN c.object /\ DOMAIN d.dims = DOMAIN c.dims
    /\ \A u \in Textures \ {t} :
         /\ d.image[u] = c.image[u] /\ d.seen[u] = c.seen[u] /\ d.object[u] = c.object[u]
         /\ u \in OneDimensional => d.side[u] = c.side[u]

\* Where that texture is right, all are.
LEMMA TouchesRight ==
  ASSUME NEW c, NEW d, DOMAIN c = Fields, ObjectsRight(c), NEW t \in Textures, Touches(c, d, t),
         ObjectRight(d, t)
  PROVE  ObjectsRight(d)
<1>1. d.images = c.images
  BY DEF Touches, OnlyIn, TextureFields, Fields
<1>2. ASSUME NEW u \in Textures \ {t} PROVE ObjectRight(d, u)
  <2>1. ObjectRight(c, u)
    BY DEF ObjectsRight
  <2> QED
    BY <1>1, <2>1, ObjectFrame DEF Touches
<1>3. ImagesRight(d)
  BY <1>1 DEF ObjectsRight, ImagesRight
<1> QED
  BY <1>2, <1>3 DEF ObjectsRight, Touches

\* Loading the image that a texture has, or that was handed to it.
LEMMA LoadRight ==
  ASSUME NEW c, DOMAIN c = Fields, ObjectsRight(c), NEW t \in Textures, c.image[t] # None,
         t \in OneDimensional => c.side[t] = c.image[t]
  PROVE  /\ Touches(c, Load(c, t), t) /\ ObjectRight(Load(c, t), t) /\ Shows(Load(c, t), t)
         /\ Touches(c, LoadNew(c, t), t) /\ ObjectRight(LoadNew(c, t), t) /\ Shows(LoadNew(c, t), t)
<1> DEFINE d == Load(c, t)
           e == [d EXCEPT !.image[t] = None]
           im == c.image[t]
<1>1. /\ im \in Images /\ Source(c, t) = im /\ ObjectRight(c, t)
      /\ t \in DOMAIN c.image /\ t \in DOMAIN c.seen /\ t \in DOMAIN c.object /\ t \in DOMAIN c.dims
  BY DEF ObjectsRight, ObjectRight, Source
<1>2. c.images[im].count \in Nat
  BY <1>1 DEF ObjectsRight, ImagesRight
<1>3. Touches(c, d, t)
  <2>1. OnlyIn(c, d, TextureFields)
    BY DEF Load, OnlyIn, TextureFields
  <2>2. /\ d.image = c.image /\ d.side = c.side
        /\ d.object = [c.object EXCEPT ![t] = Stored(c, im)]
        /\ d.seen = [c.seen EXCEPT ![t] = c.images[im].count]
        /\ d.dims = [c.dims EXCEPT ![t] = c.images[im].size]
    BY DEF Load, Fields
  <2> HIDE DEF d, im
  <2> QED
    BY <2>1, <2>2 DEF Touches
<1>4. /\ d.images = c.images /\ d.image = c.image /\ d.side = c.side /\ d.bound = t
      /\ d.object[t] = Stored(c, im) /\ d.seen[t] = c.images[im].count
  BY <1>1 DEF Load, Fields
<1>5. DOMAIN d = Fields
  BY <1>3 DEF Touches, OnlyIn
<1>6. Stored(d, im) = Stored(c, im) /\ DOMAIN Stored(c, im) = {"size", "of", "count"}
  BY <1>4 DEF Stored
<1>7. Touches(c, e, t)
  <2> HIDE DEF d
  <2>1. Touches(d, e, t)
    BY <1>5 DEF Touches, OnlyIn, TextureFields, Fields
  <2>2. OnlyIn(c, e, TextureFields)
    BY <1>3, <2>1, OnlyInBoth DEF Touches
  <2> HIDE DEF e
  <2> QED
    BY <1>3, <2>1, <2>2 DEF Touches
<1> HIDE DEF d
<1>8. ObjectRight(d, t) /\ Shows(d, t)
  <2>1. SeenRight(d, t)
    BY <1>1, <1>2, <1>4, <1>6 DEF SeenRight, Source
  <2> QED
    BY <1>1, <1>2, <1>4, <1>6, <2>1 DEF ObjectRight, Shows
<1>9. /\ e.images = d.images /\ e.image[t] = None /\ e.side = d.side /\ e.bound = t
      /\ e.object = d.object /\ e.seen = d.seen
  BY <1>1, <1>4, <1>5 DEF Fields
<1> HIDE DEF e
<1>10. ObjectRight(e, t) /\ Shows(e, t)
  <2>1. SeenRight(e, t)
    BY <1>8, <1>9 DEF SeenRight, Source, Stored, ObjectRight
  <2> QED
    BY <1>8, <1>9, <2>1 DEF ObjectRight, Shows
<1>11. LoadNew(c, t) \in {d, e}
  BY DEF LoadNew, d, e
<1> QED
  BY <1>3, <1>7, <1>8, <1>10, <1>11 DEF d

\* Binding a texture's object, or storage without data, or nothing.
LEMMA BindRight ==
  ASSUME NEW c, DOMAIN c = Fields, ObjectsRight(c), NEW t \in Textures,
         t \in OneDimensional => c.side[t] = c.image[t],
         ~(OutOfDate(c, t) /\ (c.object[t] = None \/ ~TextureObjectValid(c, t))),
         NEW d,
         \/ c.object[t] # None /\ ~OutOfDate(c, t) /\ d = [c EXCEPT !.bound = t]
         \/ /\ c.object[t] = None /\ c.image[t] = None
            /\ \/ d = [c EXCEPT !.object[t] = [size |-> c.dims[t], of |-> Undefined, count |-> 0],
                                !.bound     = t]
               \/ d = [c EXCEPT !.bound = None]
  PROVE  Touches(c, d, t) /\ ObjectRight(d, t) /\ Shows(d, t)
<1>1. /\ ObjectRight(c, t) /\ Source(c, t) = c.image[t]
      /\ t \in DOMAIN c.image /\ t \in DOMAIN c.seen /\ t \in DOMAIN c.object /\ t \in DOMAIN c.dims
  BY DEF ObjectsRight, ObjectRight, Source
<1>2. CASE c.object[t] # None /\ ~OutOfDate(c, t) /\ d = [c EXCEPT !.bound = t]
  <2>1. OnlyIn(c, d, {"bound"}) /\ d.bound = t
    BY <1>2 DEF OnlyIn, Fields
  <2>2. /\ d.image = c.image /\ d.images = c.images /\ d.object = c.object /\ d.seen = c.seen
        /\ d.side = c.side /\ d.dims = c.dims
    BY <2>1 DEF OnlyIn, Fields
  <2>3. Touches(c, d, t)
    BY <2>1, <2>2 DEF Touches, OnlyIn, TextureFields
  <2>4. ObjectRight(d, t)
    BY <1>1, <2>2, ObjectFrame
  <2>5. c.image[t] # None => c.object[t].of = Screen \/ c.object[t] = Stored(c, c.image[t])
    BY <1>1, <1>2 DEF ObjectRight, SeenRight, OutOfDate
  <2>6. Shows(d, t)
    BY <2>1, <2>2, <2>5 DEF Shows, Stored
  <2> QED
    BY <2>3, <2>4, <2>6
<1>3. CASE /\ c.object[t] = None /\ c.image[t] = None
           /\ d = [c EXCEPT !.object[t] = [size |-> c.dims[t], of |-> Undefined, count |-> 0],
                            !.bound     = t]
  <2> DEFINE new == [size |-> c.dims[t], of |-> Undefined, count |-> 0]
  <2>0. DOMAIN new = {"size", "of", "count"}
    OBVIOUS
  <2> HIDE DEF new
  <2>1. d = [c EXCEPT !.object[t] = new, !.bound = t]
    BY <1>3 DEF new
  <2>2. OnlyIn(c, d, {"object", "bound"}) /\ d.bound = t /\ d.object = [c.object EXCEPT ![t] = new]
    BY <2>1 DEF OnlyIn, Fields
  <2>3. /\ d.image = c.image /\ d.images = c.images /\ d.seen = c.seen
        /\ d.side = c.side /\ d.dims = c.dims
    BY <2>2 DEF OnlyIn, Fields
  <2>4. Touches(c, d, t) /\ d.object[t] = new
    BY <1>1, <2>2, <2>3 DEF Touches, OnlyIn, TextureFields
  <2>5. ObjectRight(d, t)
    BY <1>1, <1>3, <2>0, <2>3, <2>4 DEF ObjectRight, SeenRight, Source
  <2>6. Shows(d, t)
    BY <1>3, <2>2, <2>3 DEF Shows
  <2> QED
    BY <2>4, <2>5, <2>6
<1>4. CASE /\ c.object[t] = None /\ c.image[t] = None
           /\ d = [c EXCEPT !.bound = None]
  <2>1. OnlyIn(c, d, {"bound"}) /\ d.bound = None
    BY <1>4 DEF OnlyIn, Fields
  <2>2. /\ d.image = c.image /\ d.images = c.images /\ d.object = c.object /\ d.seen = c.seen
        /\ d.side = c.side /\ d.dims = c.dims
    BY <2>1 DEF OnlyIn, Fields
  <2>3. Touches(c, d, t)
    BY <2>1, <2>2 DEF Touches, OnlyIn, TextureFields
  <2>4. ObjectRight(d, t)
    BY <1>1, <2>2, ObjectFrame
  <2>5. Shows(d, t)
    BY <1>4, <2>2 DEF Shows
  <2> QED
    BY <2>3, <2>4, <2>5
<1> QED
  BY <1>2, <1>3, <1>4

\* Texture2D::apply: the texture shows its image, whatever was before.
LEMMA Apply2DRight ==
  ASSUME NEW c, DOMAIN c = Fields, ObjectsRight(c), NEW t \in Textures,
         t \in OneDimensional => c.side[t] = c.image[t]
  PROVE  LET d == ApplyTexture2D(c, t)
         IN Touches(c, d, t) /\ ObjectRight(d, t) /\ Shows(d, t)
<1> DEFINE d == ApplyTexture2D(c, t)
<1>1. CASE c.object[t] # None /\ ~(OutOfDate(c, t) /\ ~TextureObjectValid(c, t))
  <2>1. CASE OutOfDate(c, t)
    <3>1. d = Load(c, t) /\ c.image[t] # None
      BY <1>1, <2>1 DEF ApplyTexture2D, OutOfDate
    <3> QED
      BY <3>1, LoadRight
  <2>2. CASE ~OutOfDate(c, t)
    <3>1. d = [c EXCEPT !.bound = t]
      BY <1>1, <2>2 DEF ApplyTexture2D
    <3> HIDE DEF d
    <3>2. Touches(c, d, t) /\ ObjectRight(d, t) /\ Shows(d, t)
      BY <1>1, <2>2, <3>1, BindRight
    <3> QED
      BY <3>2 DEF d
  <2> QED
    BY <2>1, <2>2
<1>2. CASE ~(c.object[t] # None /\ ~(OutOfDate(c, t) /\ ~TextureObjectValid(c, t)))
  <2>1. CASE c.image[t] # None
    <3>1. d = LoadNew(c, t)
      BY <1>2, <2>1 DEF ApplyTexture2D
    <3> QED
      BY <2>1, <3>1, LoadRight
  <2>2. CASE c.image[t] = None
    <3>1. c.object[t] = None /\ ~OutOfDate(c, t)
      BY <1>2, <2>2 DEF OutOfDate
    <3>2. \/ d = [c EXCEPT !.object[t] = [size |-> c.dims[t], of |-> Undefined, count |-> 0],
                           !.bound     = t]
          \/ d = [c EXCEPT !.bound = None]
      BY <1>2, <2>2 DEF ApplyTexture2D
    <3> HIDE DEF d
    <3>3. Touches(c, d, t) /\ ObjectRight(d, t) /\ Shows(d, t)
      BY <2>2, <3>1, <3>2, BindRight
    <3> QED
      BY <3>3 DEF d
  <2> QED
    BY <2>1, <2>2
<1> QED
  BY <1>1, <1>2

\* One change to a texture after another.
LEMMA TouchesBoth ==
  ASSUME NEW c, NEW d, NEW e, NEW t, Touches(c, d, t), Touches(d, e, t)
  PROVE  Touches(c, e, t)
<1>1. OnlyIn(c, e, TextureFields)
  BY OnlyInBoth DEF Touches
<1> QED
  BY <1>1 DEF Touches

\* Texture::apply of either class.
LEMMA ApplyTextureRight ==
  ASSUME NEW c, DOMAIN c = Fields, ObjectsRight(c), NEW t \in Textures
  PROVE  LET d == ApplyTexture(c, t)
         IN OnlyIn(c, d, TextureFields) /\ ObjectsRight(d) /\ Shows(d, t)
<1>1. CASE t \notin OneDimensional
  <2> DEFINE d == ApplyTexture2D(c, t)
  <2>1. Touches(c, d, t) /\ ObjectRight(d, t) /\ Shows(d, t)
    BY <1>1, Apply2DRight
  <2>2. ApplyTexture(c, t) = d
    BY <1>1 DEF ApplyTexture
  <2> HIDE DEF d
  <2> QED
    BY <2>1, <2>2, TouchesRight DEF Touches
<1>2. CASE t \in OneDimensional
  <2> DEFINE h == [c EXCEPT !.side[t] = c.image[t], !.seen[t] = 0]
             b == IF c.side[t] = c.image[t] THEN c ELSE h
             d == ApplyTexture2D(b, t)
  <2>1. ApplyTexture(c, t) = d
    BY <1>2 DEF ApplyTexture, ApplyTexture1D
  <2>2. ObjectRight(c, t) /\ t \in DOMAIN c.side /\ t \in DOMAIN c.seen
    BY <1>2 DEF ObjectsRight
  <2>3. Touches(c, h, t) /\ h.side[t] = c.image[t] /\ h.image = c.image /\ h.images = c.images
        /\ h.object = c.object /\ h.seen[t] = 0
    <3>1. /\ OnlyIn(c, h, {"side", "seen"})
          /\ h.side = [c.side EXCEPT ![t] = c.image[t]] /\ h.seen = [c.seen EXCEPT ![t] = 0]
      BY DEF OnlyIn, Fields
    <3> HIDE DEF h
    <3>2. /\ h.image = c.image /\ h.images = c.images /\ h.object = c.object /\ h.dims = c.dims
      BY <3>1 DEF OnlyIn, Fields
    <3>3. Touches(c, h, t)
      BY <3>1, <3>2 DEF Touches, OnlyIn, TextureFields
    <3> QED
      BY <2>2, <3>1, <3>2, <3>3
  <2> HIDE DEF h
  <2>4. ObjectRight(h, t)
    <3>1. c.image[t] # None => c.images[c.image[t]].count \in Nat \ {0}
      BY <2>2 DEF ObjectsRight, ObjectRight, ImagesRight
    <3> QED
      BY <1>2, <2>2, <2>3, <3>1 DEF ObjectRight, SeenRight, Source
  <2>5. DOMAIN h = Fields
    BY <2>3 DEF Touches, OnlyIn
  <2>6. ObjectsRight(h)
    BY <2>3, <2>4, TouchesRight
  <2>7. Touches(c, c, t)
    BY DEF Touches, OnlyIn
  <2>8. Touches(c, b, t) /\ DOMAIN b = Fields /\ ObjectsRight(b) /\ b.side[t] = b.image[t]
    BY <2>3, <2>5, <2>6, <2>7
  <2> HIDE DEF b
  <2>9. Touches(b, d, t) /\ ObjectRight(d, t) /\ Shows(d, t)
    BY <2>8, Apply2DRight
  <2> HIDE DEF d
  <2>10. ObjectsRight(d)
    BY <2>8, <2>9, TouchesRight
  <2>11. Touches(c, d, t)
    BY <2>8, <2>9, TouchesBoth
  <2> QED
    BY <2>1, <2>9, <2>10, <2>11 DEF Touches
<1> QED
  BY <1>1, <1>2

\* copyTexImage2D leaves the texture bound, and with what was copied.
LEMMA CopyRight ==
  ASSUME NEW c, DOMAIN c = Fields, ObjectsRight(c), NEW t \in Textures \ OneDimensional, NEW size
  PROVE  LET d == CopyTexImage2D(c, t, size)
         IN OnlyIn(c, d, TextureFields) /\ ObjectsRight(d) /\ Shows(d, t)
<1> DEFINE d == CopyTexImage2D(c, t, size)
           new == [size |-> size, of |-> Screen, count |-> 0]
<1>1. /\ ObjectRight(c, t) /\ Source(c, t) = c.image[t]
      /\ t \in DOMAIN c.image /\ t \in DOMAIN c.object /\ t \in DOMAIN c.dims
  BY DEF ObjectsRight, Source
<1>2. CASE c.object[t] # None /\ c.dims[t] = size
  <2>0. d = [c EXCEPT !.object[t].of = Screen, !.bound = t]
    BY <1>2 DEF CopyTexImage2D
  <2> HIDE DEF d
  <2>1. /\ OnlyIn(c, d, {"object", "bound"}) /\ d.bound = t
        /\ d.object = [c.object EXCEPT ![t] = [c.object[t] EXCEPT !.of = Screen]]
    BY <2>0 DEF OnlyIn, Fields
  <2>2. /\ d.image = c.image /\ d.images = c.images /\ d.seen = c.seen
        /\ d.side = c.side /\ d.dims = c.dims
    BY <2>1 DEF OnlyIn, Fields
  <2>3. d.object[t].of = Screen /\ DOMAIN d.object[t] = {"size", "of", "count"}
    BY <1>1, <1>2, <2>1 DEF ObjectRight
  <2>4. Touches(c, d, t)
    BY <2>1, <2>2 DEF Touches, OnlyIn, TextureFields
  <2>5. ObjectRight(d, t)
    BY <1>1, <2>2, <2>3 DEF ObjectRight, SeenRight, Source
  <2>6. Shows(d, t)
    BY <2>1, <2>3 DEF Shows
  <2>7. ObjectsRight(d)
    BY <2>4, <2>5, TouchesRight
  <2> QED
    BY <2>4, <2>6, <2>7 DEF Touches, d
<1>3. CASE ~(c.object[t] # None /\ c.dims[t] = size)
  <2>a. DOMAIN new = {"size", "of", "count"} /\ new.of = Screen
    OBVIOUS
  <2>0. d = [c EXCEPT !.image[t]  = None,
                      !.object[t] = new,
                      !.dims[t]   = size,
                      !.bound     = t]
    BY <1>3 DEF CopyTexImage2D
  <2> HIDE DEF d, new
  <2>1. /\ OnlyIn(c, d, {"image", "object", "dims", "bound"}) /\ d.bound = t
        /\ d.object = [c.object EXCEPT ![t] = new] /\ d.image = [c.image EXCEPT ![t] = None]
        /\ d.dims = [c.dims EXCEPT ![t] = size]
    BY <2>0 DEF OnlyIn, Fields
  <2>2. /\ d.images = c.images /\ d.seen = c.seen /\ d.side = c.side
    BY <2>1 DEF OnlyIn, Fields
  <2>3. d.object[t] = new /\ d.image[t] = None
    BY <1>1, <2>1
  <2>4. Touches(c, d, t)
    BY <2>1, <2>2 DEF Touches, OnlyIn, TextureFields
  <2>5. ObjectRight(d, t)
    BY <1>1, <2>a, <2>2, <2>3 DEF ObjectRight, SeenRight, Source
  <2>6. Shows(d, t)
    BY <2>1, <2>3 DEF Shows
  <2>7. ObjectsRight(d)
    BY <2>4, <2>5, TouchesRight
  <2> QED
    BY <2>4, <2>6, <2>7 DEF Touches, d
<1> QED
  BY <1>2, <1>3

\* An image that changes is ahead of every texture that has it.
LEMMA DirtyImageRight ==
  ASSUME NEW c, DOMAIN c = Fields, ObjectsRight(c), NEW im \in Images, NEW size
  PROVE  LET d == DirtyImage(c, im, size)
         IN OnlyIn(c, d, {"images"}) /\ ObjectsRight(d)
<1> DEFINE d == DirtyImage(c, im, size)
           new == [count |-> c.images[im].count + 1, size |-> size]
<1>1. DOMAIN new = {"count", "size"} /\ new.count = c.images[im].count + 1
  OBVIOUS
<1>2. OnlyIn(c, d, {"images"}) /\ d.images = [c.images EXCEPT ![im] = new]
  BY DEF DirtyImage, OnlyIn, Fields
<1> HIDE DEF new, d
<1>3. /\ d.image = c.image /\ d.object = c.object /\ d.seen = c.seen
      /\ d.side = c.side /\ d.dims = c.dims
  BY <1>2 DEF OnlyIn, Fields
<1>4. /\ im \in DOMAIN c.images /\ d.images[im] = new
      /\ \A k \in Images \ {im} : d.images[k] = c.images[k]
      /\ \A k \in Images : c.images[k].count \in Nat \ {0}
  BY <1>2 DEF ObjectsRight, ImagesRight
<1>5. ImagesRight(d)
  BY <1>1, <1>2, <1>4 DEF ObjectsRight, ImagesRight
<1>6. ASSUME NEW t \in Textures PROVE ObjectRight(d, t)
  <2>1. ObjectRight(c, t)
    BY DEF ObjectsRight
  <2>2. Source(d, t) = Source(c, t) /\ Source(c, t) \in Images \cup {None}
    BY <1>3, <2>1 DEF Source, ObjectRight
  <2>3. SeenRight(d, t)
    <3>1. CASE Source(c, t) = im
      <4>1. d.images[im].count = c.images[im].count + 1 /\ c.images[im].count \in Nat
        BY <1>1, <1>4
      <4>2. Source(c, t) # None => d.seen[t] <= c.images[im].count /\ d.seen[t] \in Nat
        BY <1>3, <2>1, <3>1 DEF ObjectRight, SeenRight
      <4> QED
        BY <2>2, <3>1, <4>1, <4>2 DEF SeenRight
    <3>2. CASE Source(c, t) # im
      <4>1. Source(c, t) # None => d.images[Source(c, t)] = c.images[Source(c, t)]
        BY <1>4, <2>2, <3>2
      <4> QED
        BY <1>3, <2>1, <2>2, <4>1 DEF SeenRight, Stored, ObjectRight
    <3> QED
      BY <3>1, <3>2
  <2> QED
    BY <1>3, <2>1, <2>3 DEF ObjectRight
<1>7. ObjectsRight(d)
  BY <1>3, <1>5, <1>6 DEF ObjectsRight
<1> QED
  BY <1>2, <1>7 DEF d

\* Another image is loaded whatever its count.
LEMMA SetImageRight ==
  ASSUME NEW c, DOMAIN c = Fields, ObjectsRight(c), NEW t \in Textures, NEW im \in Images
  PROVE  OnlyIn(c, SetImage(c, t, im), {"image", "seen"}) /\ ObjectsRight(SetImage(c, t, im))
<1>0. /\ ObjectRight(c, t) /\ t \in DOMAIN c.image /\ t \in DOMAIN c.seen
      /\ c.images[im].count \in Nat \ {0}
  BY DEF ObjectsRight, ImagesRight
<1> DEFINE n == IF t \in OneDimensional THEN c.seen[t] ELSE 0
           d == [c EXCEPT !.image[t] = im, !.seen[t] = n]
<1>1. SetImage(c, t, im) \in {c, d}
  BY DEF SetImage
<1>2. /\ OnlyIn(c, d, {"image", "seen"}) /\ d.image = [c.image EXCEPT ![t] = im]
      /\ d.seen = [c.seen EXCEPT ![t] = n]
  BY DEF OnlyIn, Fields
<1>3. n \in Nat /\ (t \in OneDimensional => n = c.seen[t]) /\ (t \notin OneDimensional => n = 0)
  BY <1>0 DEF ObjectRight
<1> HIDE DEF d, n
<1>4. /\ d.images = c.images /\ d.side = c.side /\ d.object = c.object /\ d.dims = c.dims
  BY <1>2 DEF OnlyIn, Fields
<1>5. Touches(c, d, t)
  BY <1>2, <1>4 DEF Touches, OnlyIn, TextureFields
<1>6. ObjectRight(d, t)
  BY <1>0, <1>2, <1>3, <1>4 DEF ObjectRight, SeenRight, Source, Stored
<1>7. ObjectsRight(d)
  BY <1>5, <1>6, TouchesRight
<1>8. OnlyIn(c, c, {"image", "seen"})
  BY DEF OnlyIn
<1> QED
  BY <1>1, <1>2, <1>7, <1>8

\* An object that is gone is made again.
LEMMA ReleaseRight ==
  ASSUME NEW c, DOMAIN c = Fields, ObjectsRight(c), NEW t \in Textures
  PROVE  OnlyIn(c, ReleaseTexture(c, t), {"object"}) /\ ObjectsRight(ReleaseTexture(c, t))
<1>0. ObjectRight(c, t) /\ t \in DOMAIN c.object
  BY DEF ObjectsRight
<1> DEFINE d == [c EXCEPT !.object[t] = None]
<1>1. ReleaseTexture(c, t) \in {c, d}
  BY DEF ReleaseTexture
<1>2. OnlyIn(c, d, {"object"}) /\ d.object = [c.object EXCEPT ![t] = None]
  BY DEF OnlyIn, Fields
<1> HIDE DEF d
<1>4. /\ d.images = c.images /\ d.side = c.side /\ d.image = c.image /\ d.dims = c.dims
      /\ d.seen = c.seen
  BY <1>2 DEF OnlyIn, Fields
<1>5. Touches(c, d, t)
  BY <1>2, <1>4 DEF Touches, OnlyIn, TextureFields
<1>6. ObjectRight(d, t)
  BY <1>0, <1>2, <1>4 DEF ObjectRight, SeenRight, Source, Stored
<1>7. ObjectsRight(d)
  BY <1>5, <1>6, TouchesRight
<1>8. OnlyIn(c, c, {"object"})
  BY DEF OnlyIn
<1> QED
  BY <1>1, <1>2, <1>7, <1>8

\* What State remembers of unit 0: the stack of texture attributes follows
\* from the state sets; a texture that it believes applied is bound and
\* shows its image, and with the default none is bound; and unless it is
\* marked the one believed applied is the one the stack asks for.
TextureStack(c) ==
    LET a == c.attrMap["TEXTURE"]
    IN /\ c.sets \in Seq(StateSets)
       /\ DOMAIN c.attrMap = Types
       /\ DOMAIN a = {"vec", "last", "changed", "cloned"}
       /\ StackOf(a.vec, c.sets, "attributes", "TEXTURE")

TextureBound(c) ==
    LET last == c.attrMap["TEXTURE"].last
    IN /\ last = Default => c.bound = None
       /\ last \in Textures => Shows(c, last)

TextureSettled(c) ==
    LET a == c.attrMap["TEXTURE"]
    IN IF a.vec # << >> THEN a.last = Last(a.vec).value
       ELSE IF a.cloned THEN a.last = Default
       ELSE a.last \notin Textures

TexturesRight(c) ==
    /\ TextureStack(c)
    /\ ObjectsRight(c)
    /\ TextureBound(c)
    /\ ~c.attrMap["TEXTURE"].changed => TextureSettled(c)

\* What a leaf finds: its own texture or the stack's is believed applied, or none is.
TextureDrawn(c, leaf) ==
    LET a == c.attrMap["TEXTURE"]
    IN IF OwnEntry(leaf.attributes, "TEXTURE", a.vec) THEN a.last = leaf.attributes["TEXTURE"].value
       ELSE IF a.vec # << >> THEN a.last = Last(a.vec).value
       ELSE a.last \notin Textures /\ (c.bound = None \/ ~a.cloned)

\* The fields that this is about.
LEMMA TexturesFrame ==
  ASSUME NEW c, NEW d, DOMAIN c = Fields,
         d.sets = c.sets, DOMAIN d.attrMap = DOMAIN c.attrMap,
         d.attrMap["TEXTURE"] = c.attrMap["TEXTURE"], d.images = c.images,
         \A f \in TextureFields : d[f] = c[f]
  PROVE  /\ TexturesRight(c) => TexturesRight(d)
         /\ \A leaf : TextureDrawn(c, leaf) => TextureDrawn(d, leaf)
<1>1. /\ d.object = c.object /\ d.seen = c.seen /\ d.dims = c.dims /\ d.bound = c.bound
      /\ d.image = c.image /\ d.side = c.side
  BY DEF TextureFields
<1>2. ASSUME TexturesRight(c) PROVE TexturesRight(d)
  <2>1. TextureStack(d)
    BY <1>2 DEF TexturesRight, TextureStack
  <2>2. ObjectsRight(d)
    BY <1>1, <1>2, ObjectFrame DEF TexturesRight, ObjectsRight, ImagesRight
  <2>3. TextureBound(d)
    BY <1>1, <1>2 DEF TexturesRight, TextureBound, Shows, Stored
  <2>4. TextureSettled(d) <=> TextureSettled(c)
    BY DEF TextureSettled
  <2> QED
    BY <1>2, <2>1, <2>2, <2>3, <2>4 DEF TexturesRight
<1>3. \A leaf : TextureDrawn(c, leaf) => TextureDrawn(d, leaf)
  BY <1>1 DEF TextureDrawn
<1> QED
  BY <1>2, <1>3

\* The texture t applied to unit 0, or the default.
UnitApplied(c, d, t) ==
    LET a == c.attrMap["TEXTURE"]
        b == d.attrMap["TEXTURE"]
    IN /\ OnlyIn(c, d, TextureFields \cup {"attrMap"})
       /\ TextureStack(d) /\ ObjectsRight(d) /\ TextureBound(d)
       /\ \A u \in Types \ {"TEXTURE"} : d.attrMap[u] = c.attrMap[u]
       /\ b.last = t /\ b.vec = a.vec /\ b.changed = a.changed
       /\ a.cloned => b.cloned

\* applyAttribute of a texture or of the default: it is bound, whatever was believed.
LEMMA ApplyUnit ==
  ASSUME NEW c, DOMAIN c = Fields, TextureStack(c), ObjectsRight(c), TextureBound(c),
         NEW t \in Textures \cup {Default}
  PROVE  UnitApplied(c, ApplyAttribute(c, "TEXTURE", t), t)
<1> DEFINE e == [c EXCEPT !.attrMap["TEXTURE"].last = t, !.attrMap["TEXTURE"].cloned = TRUE]
           d == ApplyAttribute(c, "TEXTURE", t)
<1>0. "TEXTURE" \in Types
  BY DEF Types, TextureTypes
<1>1. CASE c.attrMap["TEXTURE"].last = t
  <2>1. d = c
    BY <1>1 DEF ApplyAttribute
  <2> QED
    BY <1>1, <2>1 DEF OnlyIn, UnitApplied
<1>2. CASE c.attrMap["TEXTURE"].last # t
  <2>1. d = ApplyOne(e, "TEXTURE", t)
    BY <1>2 DEF ApplyAttribute
  <2>2. /\ OnlyIn(c, e, {"attrMap"}) /\ DOMAIN e = Fields
        /\ DOMAIN e.attrMap = Types /\ DOMAIN e.attrMap["TEXTURE"] = {"vec", "last", "changed", "cloned"}
        /\ \A u \in Types \ {"TEXTURE"} : e.attrMap[u] = c.attrMap[u]
        /\ e.attrMap["TEXTURE"].last = t /\ e.attrMap["TEXTURE"].cloned = TRUE
        /\ e.attrMap["TEXTURE"].vec = c.attrMap["TEXTURE"].vec
        /\ e.attrMap["TEXTURE"].changed = c.attrMap["TEXTURE"].changed
    <3>1. OnlyIn(c, e, {"attrMap"}) /\ DOMAIN e = Fields
      BY DEF OnlyIn
    <3>2. DOMAIN c.attrMap = Types /\ DOMAIN c.attrMap["TEXTURE"] = {"vec", "last", "changed", "cloned"}
      BY DEF TextureStack
    <3> QED
      BY <1>0, <3>1, <3>2 DEF Fields
  <2> HIDE DEF e
  <2>3. /\ e.sets = c.sets /\ e.images = c.images /\ e.image = c.image /\ e.seen = c.seen
        /\ e.side = c.side /\ e.object = c.object /\ e.dims = c.dims
    BY <2>2 DEF OnlyIn, Fields
  <2>4. TextureStack(e)
    BY <2>2, <2>3 DEF TextureStack
  <2>5. ObjectsRight(e)
    BY <2>3, ObjectFrame DEF ObjectsRight, ImagesRight
  <2>6. /\ OnlyIn(e, d, TextureFields) /\ ObjectsRight(d)
        /\ t = Default => d.bound = None
        /\ t \in Textures => Shows(d, t)
    <3>1. CASE t = Default
      <4>1. d = [e EXCEPT !.bound = None]
        BY <2>1, <3>1 DEF ApplyOne
      <4> HIDE DEF d
      <4>2. OnlyIn(e, d, {"bound"}) /\ d.bound = None
        BY <2>2, <4>1 DEF OnlyIn, Fields
      <4>3. /\ d.images = e.images /\ d.image = e.image /\ d.seen = e.seen
            /\ d.side = e.side /\ d.object = e.object /\ d.dims = e.dims
        BY <2>2, <4>2 DEF OnlyIn, Fields
      <4>4. ObjectsRight(d)
        BY <2>5, <4>3, ObjectFrame DEF ObjectsRight, ImagesRight
      <4> QED
        BY <3>1, <4>2, <4>4, StateAssumption, OnlyInMore DEF TextureFields
    <3>2. CASE t \in Textures
      <4>1. t # Default
        BY <3>2, StateAssumption
      <4>2. d = ApplyTexture(e, t)
        BY <2>1, <4>1 DEF ApplyOne
      <4> QED
        BY <2>2, <2>5, <3>2, <4>1, <4>2, ApplyTextureRight
    <3> QED
      BY <3>1, <3>2
  <2> HIDE DEF d
  <2>7. d.attrMap = e.attrMap /\ d.sets = e.sets
    BY <2>2, <2>6 DEF OnlyIn, Fields, TextureFields
  <2>8. TextureStack(d) /\ TextureBound(d)
    BY <2>2, <2>4, <2>6, <2>7 DEF TextureStack, TextureBound
  <2>9. OnlyIn(c, d, TextureFields \cup {"attrMap"})
    BY <2>2, <2>6, OnlyInMore, OnlyInBoth
  <2>10. \A u \in Types \ {"TEXTURE"} : d.attrMap[u] = c.attrMap[u]
    BY <2>2, <2>7
  <2>11. UnitApplied(c, d, t)
    BY <2>2, <2>6, <2>7, <2>8, <2>9, <2>10 DEF UnitApplied
  <2> QED
    BY <2>11 DEF d
<1> QED
  BY <1>1, <1>2

\* The texture slot of an apply.
LEMMA TextureSlot ==
  ASSUME NEW c, DOMAIN c = Fields, TexturesRight(c), NEW leaf \in StateSets \cup {NoStateSet}
  PROVE  LET d == ApplyAttributeSlot(c, "TEXTURE", leaf)
         IN /\ OnlyIn(c, d, TextureFields \cup {"attrMap"})
            /\ \A u \in Types \ {"TEXTURE"} : d.attrMap[u] = c.attrMap[u]
            /\ TexturesRight(d) /\ TextureDrawn(d, leaf)
<1> DEFINE a == c.attrMap["TEXTURE"]
           d == ApplyAttributeSlot(c, "TEXTURE", leaf)
           set(v) == [c EXCEPT !.attrMap["TEXTURE"].changed = v]
<1>0. "TEXTURE" \in Types
  BY DEF Types, TextureTypes
<1>1. ASSUME NEW v \in BOOLEAN
      PROVE  /\ OnlyIn(c, set(v), {"attrMap"}) /\ DOMAIN set(v) = Fields
             /\ TextureStack(set(v)) /\ ObjectsRight(set(v)) /\ TextureBound(set(v))
             /\ \A u \in Types \ {"TEXTURE"} : set(v).attrMap[u] = c.attrMap[u]
             /\ set(v).attrMap["TEXTURE"].last = a.last /\ set(v).attrMap["TEXTURE"].vec = a.vec
             /\ set(v).attrMap["TEXTURE"].changed = v /\ set(v).attrMap["TEXTURE"].cloned = a.cloned
  <2> DEFINE e == set(v)
  <2>1. OnlyIn(c, e, {"attrMap"}) /\ DOMAIN e = Fields
    BY DEF OnlyIn
  <2>2. /\ DOMAIN e.attrMap = Types /\ DOMAIN e.attrMap["TEXTURE"] = {"vec", "last", "changed", "cloned"}
        /\ \A u \in Types \ {"TEXTURE"} : e.attrMap[u] = c.attrMap[u]
        /\ e.attrMap["TEXTURE"].last = a.last /\ e.attrMap["TEXTURE"].cloned = a.cloned
        /\ e.attrMap["TEXTURE"].vec = a.vec /\ e.attrMap["TEXTURE"].changed = v
    <3>1. DOMAIN c.attrMap = Types /\ DOMAIN c.attrMap["TEXTURE"] = {"vec", "last", "changed", "cloned"}
      BY DEF TexturesRight, TextureStack
    <3> QED
      BY <1>0, <3>1 DEF Fields
  <2> HIDE DEF e, set
  <2>3. /\ e.sets = c.sets /\ e.images = c.images /\ e.image = c.image /\ e.seen = c.seen
        /\ e.side = c.side /\ e.object = c.object /\ e.dims = c.dims /\ e.bound = c.bound
    BY <2>1 DEF OnlyIn, Fields
  <2>4. TextureStack(e)
    BY <2>2, <2>3 DEF TexturesRight, TextureStack
  <2>5. ObjectsRight(e)
    BY <2>3, ObjectFrame DEF TexturesRight, ObjectsRight, ImagesRight
  <2>6. TextureBound(e)
    BY <2>2, <2>3 DEF TexturesRight, TextureBound, Shows, Stored
  <2> QED
    BY <2>1, <2>2, <2>4, <2>5, <2>6 DEF e
<1>2. a.vec # << >> => Last(a.vec).value \in Textures
  <2>1. a.vec # << >> => Last(a.vec) \in EntriesOf("attributes", "TEXTURE")
    BY StackHas DEF TexturesRight, TextureStack
  <2> QED
    BY <2>1, StateAssumption DEF EntriesOf
<1> HIDE DEF set
<1>3. CASE OwnEntry(leaf.attributes, "TEXTURE", a.vec)
  <2> DEFINE t == leaf.attributes["TEXTURE"].value
             e == MarkAttribute(c, "TEXTURE", t)
  <2>1. t \in Textures
    <3>1. leaf \in StateSets
      BY <1>3 DEF OwnEntry, NoStateSet
    <3> QED
      BY <1>3, <3>1, StateAssumption DEF OwnEntry
  <2>2. d = ApplyAttribute(e, "TEXTURE", t)
    BY <1>3 DEF ApplyAttributeSlot
  <2> HIDE DEF t
  <2>3. CASE a.last = t
    <3>1. e = c /\ d = c
      BY <2>2, <2>3 DEF ApplyAttribute, MarkAttribute
    <3>2. TextureDrawn(c, leaf)
      BY <1>3, <2>3 DEF TextureDrawn, t
    <3> QED
      BY <3>1, <3>2 DEF OnlyIn
  <2>4. CASE a.last # t
    <3>1. e = set(TRUE)
      BY <2>4 DEF MarkAttribute, set
    <3> HIDE DEF e, d
    <3>a. /\ DOMAIN e = Fields /\ OnlyIn(c, e, {"attrMap"})
          /\ TextureStack(e) /\ ObjectsRight(e) /\ TextureBound(e)
          /\ \A u \in Types \ {"TEXTURE"} : e.attrMap[u] = c.attrMap[u]
          /\ e.attrMap["TEXTURE"].vec = a.vec /\ e.attrMap["TEXTURE"].changed = TRUE
      BY <1>1, <3>1
    <3>b. UnitApplied(e, d, t)
      BY <2>1, <2>2, <3>a, ApplyUnit
    <3>2. /\ OnlyIn(e, d, TextureFields \cup {"attrMap"})
          /\ TextureStack(d) /\ ObjectsRight(d) /\ TextureBound(d)
          /\ \A u \in Types \ {"TEXTURE"} : d.attrMap[u] = e.attrMap[u]
          /\ d.attrMap["TEXTURE"].last = t
          /\ d.attrMap["TEXTURE"].vec = a.vec
          /\ d.attrMap["TEXTURE"].changed = TRUE
      BY <3>a, <3>b DEF UnitApplied
    <3>3. TexturesRight(d) /\ TextureDrawn(d, leaf)
      BY <1>3, <3>2 DEF TexturesRight, TextureDrawn, t
    <3>4. OnlyIn(c, d, TextureFields \cup {"attrMap"})
      BY <3>a, <3>2, OnlyInMore, OnlyInBoth
    <3>5. \A u \in Types \ {"TEXTURE"} : d.attrMap[u] = c.attrMap[u]
      BY <3>a, <3>2
    <3> QED
      BY <3>3, <3>4, <3>5 DEF d
  <2> QED
    BY <2>3, <2>4
<1>4. CASE ~OwnEntry(leaf.attributes, "TEXTURE", a.vec) /\ ~a.changed
  <2>1. d = c
    BY <1>4 DEF ApplyAttributeSlot
  <2>2. TextureDrawn(c, leaf)
    BY <1>4, StateAssumption DEF TexturesRight, TextureSettled, TextureBound, TextureDrawn
  <2> QED
    BY <2>1, <2>2 DEF OnlyIn
<1>5. CASE ~OwnEntry(leaf.attributes, "TEXTURE", a.vec) /\ a.changed
  <2> DEFINE e == set(FALSE)
             t == IF a.vec = << >> THEN Default ELSE Last(a.vec).value
  <2>1. d = ApplyTopAttribute(e, "TEXTURE")
    BY <1>5 DEF ApplyAttributeSlot, set
  <2>2. /\ OnlyIn(c, e, {"attrMap"}) /\ DOMAIN e = Fields
        /\ TextureStack(e) /\ ObjectsRight(e) /\ TextureBound(e)
        /\ \A u \in Types \ {"TEXTURE"} : e.attrMap[u] = c.attrMap[u]
        /\ e.attrMap["TEXTURE"].last = a.last /\ e.attrMap["TEXTURE"].vec = a.vec
        /\ e.attrMap["TEXTURE"].changed = FALSE /\ e.attrMap["TEXTURE"].cloned = a.cloned
    BY <1>1
  <2> HIDE DEF e
  <2>3. CASE a.vec # << >> \/ a.cloned
    <3>1. d = ApplyAttribute(e, "TEXTURE", t)
      BY <2>1, <2>2, <2>3 DEF ApplyTopAttribute
    <3>2. t \in Textures \cup {Default}
      BY <1>2
    <3>a. t = IF a.vec = << >> THEN Default ELSE Last(a.vec).value
      OBVIOUS
    <3> HIDE DEF t, d
    <3>b. UnitApplied(e, d, t)
      BY <2>2, <3>1, <3>2, ApplyUnit
    <3>3. /\ OnlyIn(e, d, TextureFields \cup {"attrMap"})
          /\ TextureStack(d) /\ ObjectsRight(d) /\ TextureBound(d)
          /\ \A u \in Types \ {"TEXTURE"} : d.attrMap[u] = e.attrMap[u]
          /\ d.attrMap["TEXTURE"].last = t
          /\ d.attrMap["TEXTURE"].vec = a.vec
          /\ a.cloned => d.attrMap["TEXTURE"].cloned
      BY <2>2, <3>b DEF UnitApplied
    <3>4. TextureSettled(d)
      BY <2>3, <3>a, <3>3 DEF TextureSettled
    <3>5. TextureDrawn(d, leaf)
      BY <1>5, <2>3, <3>a, <3>3, StateAssumption DEF TextureDrawn, TextureBound
    <3>6. OnlyIn(c, d, TextureFields \cup {"attrMap"})
      BY <2>2, <3>3, OnlyInMore, OnlyInBoth
    <3>7. \A u \in Types \ {"TEXTURE"} : d.attrMap[u] = c.attrMap[u]
      BY <2>2, <3>3
    <3> QED
      BY <3>3, <3>4, <3>5, <3>6, <3>7 DEF TexturesRight, d
  <2>4. CASE ~(a.vec # << >> \/ a.cloned)
    <3>1. d = [e EXCEPT !.attrMap["TEXTURE"].last = None]
      BY <2>1, <2>2, <2>4 DEF ApplyTopAttribute
    <3> HIDE DEF d
    <3>2. /\ OnlyIn(e, d, {"attrMap"})
          /\ DOMAIN d.attrMap = Types /\ DOMAIN d.attrMap["TEXTURE"] = {"vec", "last", "changed", "cloned"}
          /\ \A u \in Types \ {"TEXTURE"} : d.attrMap[u] = e.attrMap[u]
          /\ d.attrMap["TEXTURE"].last = None /\ d.attrMap["TEXTURE"].cloned = a.cloned
          /\ d.attrMap["TEXTURE"].vec = a.vec
      BY <1>0, <2>2, <3>1 DEF OnlyIn, Fields, TextureStack
    <3>3. /\ d.sets = e.sets /\ d.images = e.images /\ d.image = e.image /\ d.seen = e.seen
          /\ d.side = e.side /\ d.object = e.object /\ d.dims = e.dims /\ d.bound = e.bound
      BY <2>2, <3>2 DEF OnlyIn, Fields
    <3>4. TextureStack(d)
      BY <2>2, <3>2, <3>3 DEF TextureStack
    <3>5. ObjectsRight(d)
      BY <2>2, <3>3, ObjectFrame DEF ObjectsRight, ImagesRight
    <3>6. TextureBound(d) /\ TextureSettled(d)
      BY <2>4, <3>2, StateAssumption DEF TextureBound, TextureSettled
    <3>7. TextureDrawn(d, leaf)
      BY <1>5, <2>4, <3>2, StateAssumption DEF TextureDrawn
    <3>8. OnlyIn(c, d, TextureFields \cup {"attrMap"})
      BY <2>2, <3>2, OnlyInMore, OnlyInBoth
    <3>9. \A u \in Types \ {"TEXTURE"} : d.attrMap[u] = c.attrMap[u]
      BY <2>2, <3>2
    <3> QED
      BY <3>4, <3>5, <3>6, <3>7, <3>8, <3>9 DEF TexturesRight, d
  <2> QED
    BY <2>3, <2>4
<1> QED
  BY <1>3, <1>4, <1>5

\* The textures, where push and pop do not reach, and what is believed applied.
LEMMA TexturesStacked ==
  ASSUME NEW c, NEW d, DOMAIN c = Fields, TexturesRight(c), OnlyIn(c, d, StackFields), TextureStack(d),
         LET a == c.attrMap["TEXTURE"]
             b == d.attrMap["TEXTURE"]
         IN b.last = a.last /\ (b = a \/ b.changed)
  PROVE  TexturesRight(d)
<1>1. /\ d.images = c.images /\ d.image = c.image /\ d.seen = c.seen
      /\ d.side = c.side /\ d.object = c.object /\ d.dims = c.dims /\ d.bound = c.bound
  BY DEF OnlyIn, Fields, StackFields
<1>2. ObjectsRight(d)
  BY <1>1, ObjectFrame DEF TexturesRight, ObjectsRight, ImagesRight
<1>3. TextureBound(d)
  BY <1>1 DEF TexturesRight, TextureBound, Shows, Stored
<1>4. ~d.attrMap["TEXTURE"].changed => TextureSettled(d)
  BY DEF TexturesRight, TextureSettled
<1> QED
  BY <1>2, <1>3, <1>4 DEF TexturesRight

\* Pushing a state set keeps what is remembered of unit 0 right.
LEMMA TexturesPush ==
  ASSUME NEW c, DOMAIN c = Fields, TexturesRight(c), NEW ss \in StateSets
  PROVE  /\ TexturesRight(PushStateSet(c, ss))
         /\ PushStateSet(c, ss).attrMap["TEXTURE"].last = c.attrMap["TEXTURE"].last
<1> DEFINE d == PushStateSet(c, ss)
           a == c.attrMap["TEXTURE"]
           b == d.attrMap["TEXTURE"]
<1>1. /\ d.sets = Append(c.sets, ss) /\ d.attrMap = PushList(c.attrMap, ss.attributes)
      /\ OnlyIn(c, d, StackFields)
  BY PushIs
<1> HIDE DEF d
<1>2. /\ "TEXTURE" \in DOMAIN c.attrMap /\ DOMAIN c.attrMap = Types
      /\ DOMAIN a = {"vec", "last", "changed", "cloned"}
      /\ StackOf(a.vec, c.sets, "attributes", "TEXTURE") /\ c.sets \in Seq(StateSets)
  BY DEF TexturesRight, TextureStack, Types, TextureTypes
<1>3. /\ DOMAIN b = DOMAIN a /\ b.last = a.last
      /\ IF "TEXTURE" \in DOMAIN ss.attributes
         THEN b.changed /\ b.vec = PushEntry(a.vec, ss.attributes["TEXTURE"])
         ELSE b = a
  BY <1>1, <1>2, ListIs
<1>4. DOMAIN d.attrMap = Types
  BY <1>1, <1>2 DEF PushList
<1>5. b.vec = Pushed(a.vec, ss, "attributes", "TEXTURE")
  BY <1>3 DEF Pushed
<1>6. StackOf(b.vec, d.sets, "attributes", "TEXTURE")
  BY <1>1, <1>2, <1>5, StackPush
<1>7. d.sets \in Seq(StateSets)
  BY <1>1, <1>2, AppendProperties
<1>8. TextureStack(d)
  BY <1>2, <1>3, <1>4, <1>6, <1>7 DEF TextureStack
<1>9. TexturesRight(d)
  BY <1>1, <1>3, <1>8, TexturesStacked
<1> QED
  BY <1>3, <1>9 DEF d

\* Popping one does.
LEMMA TexturesPop ==
  ASSUME NEW c, DOMAIN c = Fields, TexturesRight(c)
  PROVE  /\ TexturesRight(PopStateSet(c))
         /\ PopStateSet(c).attrMap["TEXTURE"].last = c.attrMap["TEXTURE"].last
<1> SUFFICES ASSUME c.sets # << >>
             PROVE  /\ TexturesRight(PopStateSet(c))
                    /\ PopStateSet(c).attrMap["TEXTURE"].last = c.attrMap["TEXTURE"].last
  BY DEF PopStateSet
<1> DEFINE d == PopStateSet(c)
           ss == Last(c.sets)
           a == c.attrMap["TEXTURE"]
           b == d.attrMap["TEXTURE"]
<1>1. /\ d.sets = Front(c.sets) /\ d.attrMap = PopList(c.attrMap, ss.attributes)
      /\ OnlyIn(c, d, StackFields)
  BY PopIs
<1> HIDE DEF d, ss
<1>2. /\ "TEXTURE" \in DOMAIN c.attrMap /\ DOMAIN c.attrMap = Types
      /\ DOMAIN a = {"vec", "last", "changed", "cloned"}
      /\ StackOf(a.vec, c.sets, "attributes", "TEXTURE") /\ c.sets \in Seq(StateSets)
  BY DEF TexturesRight, TextureStack, Types, TextureTypes
<1>3. /\ DOMAIN b = DOMAIN a /\ b.last = a.last
      /\ IF "TEXTURE" \in DOMAIN ss.attributes
         THEN b.changed /\ b.vec = PopEntry(a.vec)
         ELSE b = a
  BY <1>1, <1>2, ListIs
<1>4. DOMAIN d.attrMap = Types
  BY <1>1, <1>2 DEF PopList
<1>5. b.vec = IF "TEXTURE" \in DOMAIN Last(c.sets)["attributes"] THEN PopEntry(a.vec) ELSE a.vec
  BY <1>3 DEF ss
<1>6. StackOf(b.vec, d.sets, "attributes", "TEXTURE")
  <2>1. StackOf(IF "TEXTURE" \in DOMAIN Last(c.sets)["attributes"] THEN PopEntry(a.vec) ELSE a.vec,
                Front(c.sets), "attributes", "TEXTURE")
    BY <1>2, StackPop
  <2> HIDE DEF a, b
  <2> QED
    BY <1>1, <1>5, <2>1
<1>7. d.sets \in Seq(StateSets)
  BY <1>1, <1>2, FrontIs
<1>8. TextureStack(d)
  BY <1>2, <1>3, <1>4, <1>6, <1>7 DEF TextureStack
<1>9. TexturesRight(d)
  BY <1>1, <1>3, <1>8, TexturesStacked
<1> QED
  BY <1>3, <1>9 DEF d

-----------------------------------------------------------------------------
(* The stacks and the state sets they are made of                           *)

\* What State remembers of modes and of unit 0 is right.
Good(c) == DOMAIN c = Fields /\ ModesRight(c) /\ TexturesRight(c)

\* It is, and the texture believed applied is still the one that was.
Restacked(c, d) == Good(d) /\ d.attrMap["TEXTURE"].last = c.attrMap["TEXTURE"].last

\* Whether it pushes or pops.
LEMMA GoodStack ==
  ASSUME NEW c, Good(c)
  PROVE  /\ Restacked(c, PopStateSet(c))
         /\ \A ss \in StateSets : Restacked(c, PushStateSet(c, ss))
<1>1. DOMAIN PopStateSet(c) = Fields
  <2>1. CASE c.sets = << >>
    BY <2>1 DEF PopStateSet, Good
  <2>2. CASE c.sets # << >>
    BY <2>2, PopIs DEF Good, OnlyIn
  <2> QED
    BY <2>1, <2>2
<1>2. Restacked(c, PopStateSet(c))
  BY <1>1, ModesPop, TexturesPop DEF Good, Restacked
<1>3. ASSUME NEW ss \in StateSets PROVE Restacked(c, PushStateSet(c, ss))
  <2>1. DOMAIN PushStateSet(c, ss) = Fields
    BY PushIs DEF Good, OnlyIn
  <2> QED
    BY <2>1, ModesPush, TexturesPush DEF Good, Restacked
<1> QED
  BY <1>2, <1>3

\* Popping state sets one by one is one pop after the other.
LEMMA PopChain ==
  ASSUME NEW c, c.sets \in Seq(StateSets), NEW n \in 0 .. Len(c.sets)
  PROVE  \E p : /\ p[0] = c /\ \A k \in 1 .. Len(c.sets) : p[k] = PopStateSet(p[k - 1])
                /\ PopDownTo(c, n) = p[Len(c.sets) - n]
<1> DEFINE N == Len(c.sets)
           Body(f, k) == [i \in 0 .. k |-> IF i = 0 THEN c ELSE PopStateSet(f[i - 1])]
           p == CHOOSE f : f = Body(f, N)
           T == {k \in Nat : \E f : f = Body(f, k)}
<1>0. N \in Nat
  OBVIOUS
<1>1. 0 \in T
  <2> DEFINE f == [i \in 0 .. 0 |-> c]
  <2>1. f = Body(f, 0)
    OBVIOUS
  <2> HIDE DEF f, Body
  <2> QED
    BY <2>1
<1>2. ASSUME NEW k \in 1 .. N, k - 1 \in T PROVE k \in T
  <2>1. PICK f : f = Body(f, k - 1)
    BY <1>2
  <2> DEFINE g == [i \in 0 .. k |-> IF i = k THEN PopStateSet(f[k - 1]) ELSE f[i]]
  <2>2. ASSUME NEW i \in 0 .. k PROVE g[i] = IF i = 0 THEN c ELSE PopStateSet(g[i - 1])
    <3>1. i # 0 => i - 1 \in 0 .. k /\ i - 1 # k /\ g[i - 1] = f[i - 1]
      OBVIOUS
    <3>2. CASE i = k
      BY <3>1, <3>2
    <3>3. CASE i # k
      <4>1. i \in 0 .. k - 1 /\ g[i] = f[i]
        BY <3>3
      <4>2. f[i] = IF i = 0 THEN c ELSE PopStateSet(f[i - 1])
        BY <2>1, <4>1
      <4> QED
        BY <3>1, <4>1, <4>2
    <3> QED
      BY <3>2, <3>3
  <2>a. g = [i \in 0 .. k |-> g[i]]
    OBVIOUS
  <2> HIDE DEF g
  <2>3. g = Body(g, k)
    BY <2>2, <2>a
  <2> QED
    BY <2>3
<1>3. N \in T
  <2> HIDE DEF T, N
  <2>1. 0 .. N \subseteq T
    BY <1>0, <1>1, <1>2, UpTo
  <2> QED
    BY <1>0, <2>1
<1>4. p = Body(p, N)
  BY <1>3
<1>5. PopDownTo(c, n) = p[N - n]
  BY DEF PopDownTo
<1> HIDE DEF p
<1>6. p[0] = c
  BY <1>0, <1>4
<1>7. \A k \in 1 .. N : p[k] = PopStateSet(p[k - 1])
  <2> TAKE k \in 1 .. N
  <2>1. k \in 0 .. N /\ k # 0
    BY <1>0
  <2> QED
    BY <1>4, <2>1
<1> QED
  BY <1>5, <1>6, <1>7

\* How many are left, and that everything stays right.
LEMMA PoppedRight ==
  ASSUME NEW c, Good(c), NEW n \in 0 .. Len(c.sets)
  PROVE  Restacked(c, PopDownTo(c, n)) /\ Len(PopDownTo(c, n).sets) = n
<1> DEFINE N == Len(c.sets)
<1>0. c.sets \in Seq(StateSets) /\ N \in Nat
  BY DEF Good, ModesRight, ModeStacks
<1>4. PICK p : /\ p[0] = c /\ \A k \in 1 .. N : p[k] = PopStateSet(p[k - 1])
               /\ PopDownTo(c, n) = p[N - n]
  BY <1>0, PopChain
<1> DEFINE U == {k \in Nat : k \in 0 .. N => Restacked(c, p[k]) /\ Len(p[k].sets) = N - k}
<1>1. 0 \in U
  BY <1>0, <1>4 DEF Restacked
<1>7. ASSUME NEW k \in 1 .. N, k - 1 \in U PROVE k \in U
  <2>1. k \in 0 .. N /\ k - 1 \in 0 .. N /\ k # 0 /\ N - (k - 1) >= 1
    BY <1>0
  <2>2. p[k] = PopStateSet(p[k - 1])
    BY <1>4
  <2>3. Good(p[k - 1]) /\ Restacked(c, p[k - 1]) /\ Len(p[k - 1].sets) = N - (k - 1)
    BY <1>7, <2>1 DEF Restacked
  <2> DEFINE b == p[k - 1]
  <2>4. b.sets \in Seq(StateSets) /\ DOMAIN b = Fields
    BY <2>3 DEF Good, ModesRight, ModeStacks
  <2> HIDE DEF b
  <2>5. b.sets # << >> /\ Len(b.sets) = N - (k - 1)
    BY <1>0, <2>1, <2>3, <2>4 DEF b
  <2>6. PopStateSet(b).sets = Front(b.sets)
    BY <2>4, <2>5, PopIs
  <2>7. Len(PopStateSet(b).sets) = N - k
    <3>1. Len(Front(b.sets)) = Len(b.sets) - 1
      BY <2>4, <2>5, FrontIs
    <3> QED
      BY <1>0, <2>5, <2>6, <3>1
  <2>8. Restacked(c, PopStateSet(b))
    BY <2>3, GoodStack DEF b, Restacked
  <2> QED
    BY <2>1, <2>2, <2>7, <2>8 DEF b
<1>8. 0 .. N \subseteq U
  <2> HIDE DEF U, N
  <2> QED
    BY <1>0, <1>1, <1>7, UpTo
<1>9. N - n \in 0 .. N /\ N - (N - n) = n
  BY <1>0
<1>10. Restacked(c, p[N - n]) /\ Len(p[N - n].sets) = N - (N - n)
  BY <1>8, <1>9
<1> QED
  BY <1>4, <1>9, <1>10

\* Pushing several is one push after the other.
LEMMA PushChain ==
  ASSUME NEW c, NEW S, NEW list \in Seq(S)
  PROVE  \E p : /\ p[0] = c /\ \A k \in 1 .. Len(list) : p[k] = PushStateSet(p[k - 1], list[k])
                /\ PushAll(c, list) = p[Len(list)]
<1> DEFINE N == Len(list)
           Body(f, k) == [i \in 0 .. k |-> IF i = 0 THEN c ELSE PushStateSet(f[i - 1], list[i])]
           p == CHOOSE f : f = Body(f, N)
           T == {k \in Nat : \E f : f = Body(f, k)}
<1>0. N \in Nat
  OBVIOUS
<1>1. 0 \in T
  <2> DEFINE f == [i \in 0 .. 0 |-> c]
  <2>1. f = Body(f, 0)
    OBVIOUS
  <2> HIDE DEF f, Body
  <2> QED
    BY <2>1
<1>2. ASSUME NEW k \in 1 .. N, k - 1 \in T PROVE k \in T
  <2>1. PICK f : f = Body(f, k - 1)
    BY <1>2
  <2> DEFINE g == [i \in 0 .. k |-> IF i = k THEN PushStateSet(f[k - 1], list[k]) ELSE f[i]]
  <2>2. ASSUME NEW i \in 0 .. k PROVE g[i] = IF i = 0 THEN c ELSE PushStateSet(g[i - 1], list[i])
    <3>1. i # 0 => i - 1 \in 0 .. k /\ i - 1 # k /\ g[i - 1] = f[i - 1]
      OBVIOUS
    <3>2. CASE i = k
      BY <3>1, <3>2
    <3>3. CASE i # k
      <4>1. i \in 0 .. k - 1 /\ g[i] = f[i]
        BY <3>3
      <4>2. f[i] = IF i = 0 THEN c ELSE PushStateSet(f[i - 1], list[i])
        BY <2>1, <4>1
      <4> QED
        BY <3>1, <4>1, <4>2
    <3> QED
      BY <3>2, <3>3
  <2>a. g = [i \in 0 .. k |-> g[i]]
    OBVIOUS
  <2> HIDE DEF g
  <2>3. g = Body(g, k)
    BY <2>2, <2>a
  <2> QED
    BY <2>3
<1>3. N \in T
  <2> HIDE DEF T, N
  <2>1. 0 .. N \subseteq T
    BY <1>0, <1>1, <1>2, UpTo
  <2> QED
    BY <1>0, <2>1
<1>4. p = Body(p, N)
  BY <1>3
<1>5. PushAll(c, list) = p[N]
  BY DEF PushAll
<1> HIDE DEF p
<1>6. p[0] = c
  BY <1>0, <1>4
<1>7. \A k \in 1 .. N : p[k] = PushStateSet(p[k - 1], list[k])
  <2> TAKE k \in 1 .. N
  <2>1. k \in 0 .. N /\ k # 0
    BY <1>0
  <2> QED
    BY <1>4, <2>1
<1> QED
  BY <1>5, <1>6, <1>7

\* It keeps everything right.
LEMMA PushedRight ==
  ASSUME NEW c, Good(c), NEW list \in Seq(StateSets)
  PROVE  Restacked(c, PushAll(c, list))
<1> DEFINE N == Len(list)
<1>0. N \in Nat
  OBVIOUS
<1>4. PICK p : /\ p[0] = c /\ \A k \in 1 .. N : p[k] = PushStateSet(p[k - 1], list[k])
               /\ PushAll(c, list) = p[N]
  BY PushChain
<1> DEFINE U == {k \in Nat : k \in 0 .. N => Restacked(c, p[k])}
<1>1. 0 \in U
  BY <1>0, <1>4 DEF Restacked
<1>7. ASSUME NEW k \in 1 .. N, k - 1 \in U PROVE k \in U
  <2>1. k \in 0 .. N /\ k - 1 \in 0 .. N /\ k # 0
    BY <1>0
  <2>2. p[k] = PushStateSet(p[k - 1], list[k])
    BY <1>4
  <2>3. Good(p[k - 1]) /\ Restacked(c, p[k - 1]) /\ list[k] \in StateSets
    BY <1>7, <2>1 DEF Restacked
  <2>4. Restacked(c, p[k])
    BY <2>2, <2>3, GoodStack DEF Restacked
  <2> QED
    BY <2>4
<1>8. 0 .. N \subseteq U
  <2> HIDE DEF U, N
  <2> QED
    BY <1>0, <1>1, <1>7, UpTo
<1> QED
  BY <1>0, <1>4, <1>8

\* The state sets above a place.
LEMMA TailIs ==
  ASSUME NEW sets \in Seq(StateSets)
  PROVE  \A m \in Nat : SubSeq(sets, m + 1, Len(sets)) \in Seq(StateSets)
<1> TAKE m \in Nat
<1>1. \A i \in m + 1 .. Len(sets) : sets[i] \in StateSets
  OBVIOUS
<1>2. PICK k \in Int : k = m + 1
  OBVIOUS
<1>3. PICK l \in Int : l = Len(sets)
  OBVIOUS
<1>4. SubSeq(sets, k, l) \in Seq(StateSets)
  BY <1>1, <1>2, <1>3, SubSeqProperties
<1> QED
  BY <1>2, <1>3, <1>4

\* A state set put between others, or taken from between them.
LEMMA InsertRight ==
  ASSUME NEW c, Good(c), NEW pos \in Nat
  PROVE  /\ \A ss \in StateSets : pos < Len(c.sets) => Restacked(c, InsertStateSet(c, pos, ss))
         /\ Restacked(c, RemoveStateSet(c, pos))
<1>0. c.sets \in Seq(StateSets) /\ Len(c.sets) \in Nat
  BY DEF Good, ModesRight, ModeStacks
<1>1. \A m \in Nat : SubSeq(c.sets, m + 1, Len(c.sets)) \in Seq(StateSets)
  BY <1>0, TailIs
<1>2. ASSUME pos < Len(c.sets) PROVE Good(PopDownTo(c, pos)) /\ Restacked(c, PopDownTo(c, pos))
  <2>1. pos \in 0 .. Len(c.sets)
    BY <1>0, <1>2
  <2> QED
    BY <2>1, PoppedRight DEF Restacked
<1>3. ASSUME NEW ss \in StateSets, pos < Len(c.sets) PROVE Restacked(c, InsertStateSet(c, pos, ss))
  <2> DEFINE b == PushStateSet(PopDownTo(c, pos), ss)
  <2>1. Good(b) /\ Restacked(c, b)
    BY <1>2, <1>3, GoodStack DEF Restacked
  <2>2. SubSeq(c.sets, pos + 1, Len(c.sets)) \in Seq(StateSets)
    BY <1>1
  <2>3. InsertStateSet(c, pos, ss) = PushAll(b, SubSeq(c.sets, pos + 1, Len(c.sets)))
    BY DEF InsertStateSet
  <2> HIDE DEF b
  <2> QED
    BY <2>1, <2>2, <2>3, PushedRight DEF Restacked
<1>4. Restacked(c, RemoveStateSet(c, pos))
  <2>1. CASE pos >= Len(c.sets)
    BY <2>1 DEF RemoveStateSet, Restacked
  <2>2. CASE pos < Len(c.sets)
    <3>1. SubSeq(c.sets, pos + 2, Len(c.sets)) \in Seq(StateSets)
      <4>1. pos + 1 \in Nat /\ pos + 1 + 1 = pos + 2
        OBVIOUS
      <4> QED
        BY <1>1, <4>1
    <3>2. ~(pos >= Len(c.sets))
      BY <1>0, <2>2
    <3> QED
      BY <1>2, <2>2, <3>1, <3>2, PushedRight DEF RemoveStateSet, Restacked
  <2> QED
    BY <1>0, <2>1, <2>2
<1> QED
  BY <1>3, <1>4

-----------------------------------------------------------------------------
(* Applying                                                                 *)

\* What a part of apply() that is about neither modes nor textures leaves alone.
Aside(c, d) ==
    /\ DOMAIN d = DOMAIN c /\ d.sets = c.sets /\ d.modeMap = c.modeMap /\ d.modes = c.modes
    /\ d.images = c.images /\ \A f \in TextureFields : d[f] = c[f]
    /\ DOMAIN d.attrMap = DOMAIN c.attrMap /\ d.attrMap["TEXTURE"] = c.attrMap["TEXTURE"]

\* One after the other.
LEMMA AsideBoth ==
  ASSUME NEW c, NEW d, NEW e, Aside(c, d), Aside(d, e)
  PROVE  Aside(c, e)
BY DEF Aside

\* Uniforms, programs and defines are aside, and so is an attribute of another type.
LEMMA AsideOther ==
  ASSUME NEW c, NEW d, DOMAIN c = Fields,
         OnlyIn(c, d, OtherFields) \/ \E type \in Types \ {"TEXTURE"} : OnlyType(c, d, type),
         "TEXTURE" \in DOMAIN c.attrMap
  PROVE  Aside(c, d)
<1>1. {"sets", "modeMap", "modes", "images"} \cup TextureFields \subseteq Fields \ (OtherFields \cup {"attrMap"})
  BY DEF Fields, OtherFields, ProgramFields, UniformFields, TextureFields
<1>2. CASE OnlyIn(c, d, OtherFields)
  <2>1. "attrMap" \in Fields \ OtherFields
    BY DEF Fields, OtherFields, ProgramFields, UniformFields
  <2> QED
    BY <1>1, <1>2, <2>1 DEF OnlyIn, Aside
<1>3. ASSUME NEW type \in Types \ {"TEXTURE"}, OnlyType(c, d, type) PROVE Aside(c, d)
  BY <1>1, <1>3 DEF OnlyType, OnlyIn, Aside
<1> QED
  BY <1>2, <1>3

\* What is right stays so.
LEMMA AsideGood ==
  ASSUME NEW c, NEW d, DOMAIN c = Fields, Aside(c, d)
  PROVE  /\ Good(c) => Good(d)
         /\ TexturesRight(c) => TexturesRight(d)
         /\ \A leaf : TextureDrawn(c, leaf) => TextureDrawn(d, leaf)
         /\ \A leaf, m : ModeAsked(d, m, leaf) = ModeAsked(c, m, leaf)
<1>1. TexturesRight(c) => TexturesRight(d)
  BY TexturesFrame DEF Aside
<1>2. \A leaf : TextureDrawn(c, leaf) => TextureDrawn(d, leaf)
  BY TexturesFrame DEF Aside
<1>3. ModesRight(c) => ModesRight(d)
  BY ModesFrame DEF Aside
<1>4. \A leaf, m : ModeAsked(d, m, leaf) = ModeAsked(c, m, leaf)
  BY DEF Aside, ModeAsked
<1> QED
  BY <1>1, <1>2, <1>3, <1>4 DEF Good, Aside

Ready(c) == DOMAIN c = Fields /\ "TEXTURE" \in DOMAIN c.attrMap

\* Each of those parts.
LEMMA AsideParts ==
  ASSUME NEW c, Ready(c)
  PROVE  /\ Aside(c, c)
         /\ \A leaf : \A type \in Types \ {"TEXTURE"} : Aside(c, ApplyAttributeSlot(c, type, leaf))
         /\ \A list : Aside(c, PushDefines(c, list)) /\ Aside(c, PopDefines(c, list))
         /\ \A p : Aside(c, ApplyProgram(c, p)) /\ Aside(c, ApplyIfDefinesChanged(c, p))
         /\ \A leaf : Aside(c, ApplyUniforms(c, leaf))
         /\ Aside(c, ApplyBuiltInUniforms(c))
         /\ \A m : Aside(c, ApplyModelViewMatrix(c, m))
         /\ Aside(c, [c EXCEPT !.last = None])
         /\ Aside(c, ApplyFallbackProgramIfNeeded(c))
<1>1. \A d : OnlyIn(c, d, OtherFields) => Aside(c, d)
  BY AsideOther DEF Ready
<1>2. \A leaf : \A type \in Types \ {"TEXTURE"} : Aside(c, ApplyAttributeSlot(c, type, leaf))
  <2> TAKE leaf
  <2> TAKE type \in Types \ {"TEXTURE"}
  <2>1. OnlyType(c, ApplyAttributeSlot(c, type, leaf), type)
    BY OtherSlotOnly DEF Ready, Fields
  <2> QED
    BY <2>1, AsideOther DEF Ready
<1>3. {"defMap"} \subseteq OtherFields /\ ProgramFields \subseteq OtherFields /\ UniformFields \subseteq OtherFields
  BY DEF OtherFields, ProgramFields
<1>4. \A list : Aside(c, PushDefines(c, list)) /\ Aside(c, PopDefines(c, list))
  BY <1>1, <1>3, DefinesOnly, OnlyInMore
<1>5. \A p : OnlyIn(c, ApplyProgram(c, p), OtherFields)
  BY <1>3, ApplyProgramOnly, OnlyInMore
<1>6. \A leaf : Aside(c, ApplyUniforms(c, leaf))
  BY <1>1, <1>3, ApplyUniformsOnly, OnlyInMore
<1>7. Aside(c, ApplyBuiltInUniforms(c))
  BY <1>1, <1>3, BuiltInUniformsOnly, OnlyInMore
<1>8. \A m : Aside(c, ApplyModelViewMatrix(c, m))
  BY <1>1, <1>3, UniformsOnly, OnlyInMore
<1>9. Aside(c, [c EXCEPT !.last = None])
  <2>1. OnlyIn(c, [c EXCEPT !.last = None], OtherFields)
    BY DEF OnlyIn, OtherFields, ProgramFields
  <2> QED
    BY <1>1, <2>1
<1>10. Aside(c, c)
  BY DEF Aside
<1>11. \A p : Aside(c, ApplyIfDefinesChanged(c, p))
  BY <1>1, <1>5, <1>10 DEF ApplyIfDefinesChanged
<1>12. \A p : Aside(c, [ApplyProgram(c, p) EXCEPT !.ffpDirty = TRUE])
  <2> TAKE p
  <2> DEFINE d == ApplyProgram(c, p)
             e == [d EXCEPT !.ffpDirty = TRUE]
  <2> HIDE DEF d
  <2>1. OnlyIn(d, e, OtherFields)
    BY DEF OnlyIn, OtherFields, UniformFields
  <2>2. OnlyIn(c, d, OtherFields)
    BY <1>5 DEF d
  <2> HIDE DEF e
  <2>3. Aside(c, e)
    BY <1>1, <2>1, <2>2, OnlyInBoth
  <2> QED
    BY <2>3 DEF d, e
<1>13. Aside(c, ApplyFallbackProgramIfNeeded(c))
  BY <1>10, <1>12 DEF ApplyFallbackProgramIfNeeded
<1> QED
  BY <1>1, <1>2, <1>4, <1>5, <1>6, <1>7, <1>8, <1>9, <1>10, <1>11, <1>13

\* Ready for the next part.
LEMMA AsideReady ==
  ASSUME NEW c, NEW d, Ready(c), Aside(c, d)
  PROVE  Ready(d)
BY DEF Ready, Aside

\* All of apply() after the texture attributes and the modes.
LEMMA ApplyRest ==
  ASSUME NEW c, NEW leaf, Ready(ApplyModes(ApplyTextureAttributes(c, leaf), leaf))
  PROVE  Aside(ApplyModes(ApplyTextureAttributes(c, leaf), leaf), Apply(c, leaf))
<1> DEFINE n  == ApplyModes(ApplyTextureAttributes(c, leaf), leaf)
           d1 == PushDefines(n, leaf.defines)
           d2 == ApplyAttributeSlot(d1, "MATERIAL", leaf)
           d3 == ApplyAttributeSlot(d2, "LIGHTMODEL", leaf)
           d4 == ApplyAttributeSlot(d3, "FOG", leaf)
           d5 == ApplyAttributeSlot(d4, "PROGRAM", leaf)
           d6 == ApplyIfDefinesChanged(d5, n.last)
           d7 == ApplyFallbackProgramIfNeeded(d6)
           d8 == ApplyUniforms(d7, leaf)
           d9 == PopDefines(d8, leaf.defines)
<1> HIDE DEF n
<1>0. {"MATERIAL", "LIGHTMODEL", "FOG", "PROGRAM"} \subseteq Types \ {"TEXTURE"}
  BY DEF Types, AttributeTypes
<1>1. Ready(n)
  BY DEF n
<1>2. Aside(n, d1) /\ Ready(d1)
  BY <1>1, AsideParts, AsideReady
<1> HIDE DEF d1
<1>3. Aside(n, d2) /\ Ready(d2)
  BY <1>0, <1>2, AsideParts, AsideReady, AsideBoth
<1> HIDE DEF d2
<1>4. Aside(n, d3) /\ Ready(d3)
  BY <1>0, <1>3, AsideParts, AsideReady, AsideBoth
<1> HIDE DEF d3
<1>5. Aside(n, d4) /\ Ready(d4)
  BY <1>0, <1>4, AsideParts, AsideReady, AsideBoth
<1> HIDE DEF d4
<1>6. Aside(n, d5) /\ Ready(d5)
  BY <1>0, <1>5, AsideParts, AsideReady, AsideBoth
<1> HIDE DEF d5
<1>7. Aside(n, d6) /\ Ready(d6)
  BY <1>6, AsideParts, AsideReady, AsideBoth
<1> HIDE DEF d6
<1>8. Aside(n, d7) /\ Ready(d7)
  BY <1>7, AsideParts, AsideReady, AsideBoth
<1> HIDE DEF d7
<1>9. Aside(n, d8) /\ Ready(d8)
  BY <1>8, AsideParts, AsideReady, AsideBoth
<1> HIDE DEF d8
<1>10. Aside(n, d9)
  BY <1>9, AsideParts, AsideBoth
<1>11. Apply(c, leaf) = d9
  BY DEF Apply, ApplyState, ApplyWithDefines, ApplyAttributes, ApplyLighting,
         n, d1, d2, d3, d4, d5, d6, d7, d8
<1> HIDE DEF d9
<1> QED
  BY <1>10, <1>11 DEF n

\* apply(): from what is right, everything is right and what the leaf asks
\* for.
LEMMA ApplyRight ==
  ASSUME NEW c, Good(c), NEW leaf \in StateSets \cup {NoStateSet}
  PROVE  LET d == Apply(c, leaf)
         IN /\ Good(d) /\ d.sets = c.sets
            /\ TextureDrawn(d, leaf)
            /\ \A m \in Modes : d.modeMap[m].last = ModeAsked(d, m, leaf)
<1> DEFINE a == ApplyAttributeSlot(c, "TEXTURE", leaf)
           b == ApplyAttributeSlot(a, "TEXMAT", leaf)
           n == ApplyModes(b, leaf)
           d == Apply(c, leaf)
<1>1. /\ OnlyIn(c, a, TextureFields \cup {"attrMap"})
      /\ TexturesRight(a) /\ TextureDrawn(a, leaf)
  BY TextureSlot DEF Good
<1> HIDE DEF a
<1>2. DOMAIN a = Fields /\ a.sets = c.sets /\ a.modeMap = c.modeMap /\ a.modes = c.modes
  BY <1>1 DEF Good, OnlyIn, Fields, TextureFields
<1>3. Ready(a)
  BY <1>1, <1>2 DEF Ready, TexturesRight, TextureStack, Types, TextureTypes
<1>4. Aside(a, b)
  <2>1. "TEXMAT" \in Types \ {"TEXTURE"}
    BY DEF Types, TextureTypes
  <2> QED
    BY <1>3, <2>1, AsideParts
<1> HIDE DEF b
<1>5. TexturesRight(b) /\ TextureDrawn(b, leaf) /\ DOMAIN b = Fields
  BY <1>1, <1>2, <1>4, AsideGood DEF Aside
<1>6. b.sets = c.sets /\ b.modeMap = c.modeMap /\ b.modes = c.modes
  BY <1>2, <1>4 DEF Aside
<1>7. ModesRight(b)
  BY <1>6, ModesFrame DEF Good
<1>8. /\ OnlyIn(b, n, {"modeMap", "modes"}) /\ ModesRight(n)
      /\ \A m \in Modes : n.modeMap[m].last = ModeAsked(n, m, leaf)
  BY <1>5, <1>7, ModesApply DEF ModesRight
<1> HIDE DEF n
<1>9. /\ DOMAIN n = Fields /\ n.sets = b.sets /\ n.attrMap = b.attrMap /\ n.images = b.images
      /\ \A f \in TextureFields : n[f] = b[f]
  BY <1>5, <1>8 DEF OnlyIn, Fields, TextureFields
<1>10. TexturesRight(n) /\ TextureDrawn(n, leaf)
  BY <1>5, <1>9, TexturesFrame
<1>11. Good(n) /\ Ready(n)
  BY <1>8, <1>9, <1>10 DEF Good, Ready, TexturesRight, TextureStack, Types, TextureTypes
<1>12. n = ApplyModes(ApplyTextureAttributes(c, leaf), leaf)
  BY DEF n, b, a, ApplyTextureAttributes
<1>13. Aside(n, d)
  BY <1>11, <1>12, ApplyRest
<1> HIDE DEF d
<1>14. Good(d) /\ TextureDrawn(d, leaf)
  BY <1>9, <1>10, <1>11, <1>13, AsideGood
<1>15. d.sets = c.sets /\ d.modeMap = n.modeMap
  BY <1>6, <1>9, <1>13 DEF Aside
<1>16. \A m \in Modes : d.modeMap[m].last = ModeAsked(d, m, leaf)
  BY <1>8, <1>9, <1>13, <1>15, AsideGood
<1> QED
  BY <1>14, <1>15, <1>16 DEF d

-----------------------------------------------------------------------------
(* The steps                                                                *)

\* What is believed applied on unit 0 is no texture of the scene's.
Unbound(c) == c.attrMap["TEXTURE"].last \notin Textures

\* The end of a frame: no texture is believed applied.
LEMMA EndRight ==
  ASSUME NEW c, Good(c), c.sets = << >>
  PROVE  Good(Apply(c, NoStateSet)) /\ Unbound(Apply(c, NoStateSet))
<1> DEFINE d == Apply(c, NoStateSet)
<1>1. Good(d) /\ d.sets = << >> /\ TextureDrawn(d, NoStateSet)
  BY ApplyRight
<1> HIDE DEF d
<1>2. d.attrMap["TEXTURE"].vec = << >>
  BY <1>1, StackOfNone DEF Good, TexturesRight, TextureStack
<1>3. ~OwnEntry(NoStateSet.attributes, "TEXTURE", d.attrMap["TEXTURE"].vec)
  BY DEF OwnEntry, NoStateSet
<1>4. Unbound(d)
  BY <1>1, <1>2, <1>3 DEF TextureDrawn, Unbound
<1> QED
  BY <1>1, <1>4 DEF d

\* popAllStateSets() leaves no state set.
LEMMA PopAllRight ==
  ASSUME NEW c, Good(c)
  PROVE  Good(PopAllStateSets(c)) /\ PopAllStateSets(c).sets = << >>
<1> DEFINE b == PopDownTo(c, 0)
           d == ApplyModelViewMatrix(b, Identity)
           e == [d EXCEPT !.last = None]
<1>0. Len(c.sets) \in Nat /\ 0 \in 0 .. Len(c.sets)
  <2>1. c.sets \in Seq(StateSets)
    BY DEF Good, ModesRight, ModeStacks
  <2> QED
    BY <2>1
<1>1. Good(b) /\ Len(b.sets) = 0
  BY <1>0, PoppedRight DEF Restacked
<1> HIDE DEF b
<1>2. b.sets = << >>
  <2>1. b.sets \in Seq(StateSets)
    BY <1>1 DEF Good, ModesRight, ModeStacks
  <2> QED
    BY <1>1, <2>1
<1>3. \A x : Good(x) => Ready(x)
  BY DEF Good, Ready, TexturesRight, TextureStack, Types, TextureTypes
<1>4. Aside(b, d)
  BY <1>1, <1>3, AsideParts
<1> HIDE DEF d
<1>5. Good(d) /\ d.sets = << >>
  BY <1>1, <1>2, <1>4, AsideGood DEF Aside, Good
<1>6. Aside(d, e)
  BY <1>3, <1>5, AsideParts
<1>7. PopAllStateSets(c) = e
  BY DEF PopAllStateSets, e, d, b
<1> HIDE DEF e
<1>8. Good(e) /\ e.sets = << >>
  BY <1>5, <1>6, AsideGood DEF Aside, Good
<1> QED
  BY <1>7, <1>8

\* What one entry comes to when it is reset or dirtied.
LEMMA ResetModeIs ==
  ASSUME NEW e, DOMAIN e = ModeFields, e.default \in BOOLEAN, ~e.known => e.vec = << >>, NEW gl
  PROVE  LET b == ResetMode(e, gl)
         IN /\ DOMAIN b = ModeFields /\ b.default \in BOOLEAN /\ b.vec = << >>
            /\ b = e \/ (b.changed /\ (b.misled = "no" => b.last = gl))
<1> DEFINE f == [e EXCEPT !.vec = << >>]
           g == Believe(f, ~e.default, gl, "reset")
<1>1. DOMAIN f = ModeFields /\ f.default = e.default /\ f.vec = << >>
  BY DEF ModeFields
<1>2. e.known => ResetMode(e, gl) = Touched(g)
  BY DEF ResetMode
<1>3. ~e.known => ResetMode(e, gl) = e
  BY DEF ResetMode
<1> HIDE DEF f
<1>4. DOMAIN g = ModeFields /\ g.default = e.default /\ g.vec = << >> /\ (g.misled = "no" => g.last = gl)
  BY <1>1, BelieveIs
<1> HIDE DEF g
<1>5. /\ DOMAIN Touched(g) = ModeFields /\ Touched(g).default = e.default /\ Touched(g).vec = << >>
      /\ Touched(g).changed /\ (Touched(g).misled = "no" => Touched(g).last = gl)
  BY <1>4, TouchedIs
<1> QED
  BY <1>2, <1>3, <1>5

LEMMA DirtyModeIs ==
  ASSUME NEW e, DOMAIN e = ModeFields, NEW gl
  PROVE  LET b == DirtyMode(e, gl)
         IN /\ DOMAIN b = ModeFields /\ b.default = e.default /\ b.vec = e.vec
            /\ e.known => b.known
            /\ b.misled = "no" => b.last = gl
            /\ b.changed \/ (b.changed = e.changed /\ b.last = e.last)
<1> DEFINE g == Believe(e, ~e.last, gl, "dirtied")
           h == Believe(e, e.last, gl, "dirtied")
<1>1. /\ DOMAIN g = ModeFields /\ g.default = e.default /\ g.vec = e.vec /\ (g.misled = "no" => g.last = gl)
      /\ g.known = e.known
  BY BelieveIs
<1>2. /\ DOMAIN h = ModeFields /\ h.default = e.default /\ h.vec = e.vec /\ (h.misled = "no" => h.last = gl)
      /\ h.known = e.known /\ h.changed = e.changed /\ h.last = e.last
  BY BelieveIs
<1>3. DirtyMode(e, gl) = IF e.known THEN Touched(g) ELSE h
  BY DEF DirtyMode
<1> HIDE DEF g, h
<1>4. /\ DOMAIN Touched(g) = ModeFields /\ Touched(g).default = e.default /\ Touched(g).vec = e.vec
      /\ Touched(g).changed /\ Touched(g).known /\ (Touched(g).misled = "no" => Touched(g).last = gl)
  BY <1>1, TouchedIs
<1> QED
  BY <1>2, <1>3, <1>4

\* reset(): nothing is asked for, and what is believed of a mode is as it was or marked.
LEMMA ResetRight ==
  ASSUME NEW c, Good(c)
  PROVE  Good(ResetState(c)) /\ Unbound(ResetState(c))
<1> DEFINE d == ResetState(c)
           G == {"sets", "modeMap", "attrMap", "uniMap", "modelView", "last"}
           y(m) == ResetMode(c.modeMap[m], c.modes[m])
<1>0. DOMAIN c = Fields
  BY DEF Good
<1>1. /\ OnlyIn(c, d, G)
      /\ d.sets = << >>
      /\ d.modeMap = [ResetModes(c) EXCEPT ![DepthTest] = [Touched(@) EXCEPT !.default = TRUE]]
      /\ d.attrMap = [t \in Types |-> [c.attrMap[t] EXCEPT !.vec = << >>, !.last = None, !.changed = TRUE]]
  BY <1>0 DEF ResetState, OnlyIn, Fields
<1> HIDE DEF d
<1>2. DOMAIN d = Fields
  BY <1>0, <1>1 DEF OnlyIn
<1>3. /\ d.images = c.images /\ d.image = c.image /\ d.seen = c.seen /\ d.modes = c.modes
      /\ d.side = c.side /\ d.object = c.object /\ d.dims = c.dims /\ d.bound = c.bound
  BY <1>0, <1>1 DEF OnlyIn, Fields
<1>4. ASSUME NEW m \in Modes
      PROVE  /\ DOMAIN d.modeMap[m] = ModeFields /\ d.modeMap[m].default \in BOOLEAN
             /\ d.modeMap[m].vec = << >> /\ ModeCached(d, m)
  <2>1. /\ DOMAIN c.modeMap[m] = ModeFields /\ c.modeMap[m].default \in BOOLEAN
        /\ ~c.modeMap[m].known => c.modeMap[m].vec = << >>
        /\ ModeCached(c, m)
    BY DEF Good, ModesRight, ModeStacks
  <2>2. /\ DOMAIN y(m) = ModeFields /\ y(m).default \in BOOLEAN /\ y(m).vec = << >>
        /\ y(m) = c.modeMap[m] \/ (y(m).changed /\ (y(m).misled = "no" => y(m).last = c.modes[m]))
    BY <2>1, ResetModeIs
  <2>3. ResetModes(c) = [k \in Modes |-> y(k)]
    BY DEF ResetModes
  <2> HIDE DEF y
  <2>4. ResetModes(c)[m] = y(m)
    BY <2>3
  <2>5. CASE m = DepthTest
    <3> DEFINE t == Touched(y(m))
               z == [t EXCEPT !.default = TRUE]
    <3>1. d.modeMap[m] = z
      BY <1>1, <2>3, <2>4, <2>5
    <3>2. /\ DOMAIN t = ModeFields /\ t.changed /\ t.vec = << >>
          /\ t.misled = y(m).misled /\ t.last = y(m).last
      BY <2>2, TouchedIs
    <3> HIDE DEF t
    <3>3. /\ DOMAIN z = ModeFields /\ z.default = TRUE /\ z.changed /\ z.vec = << >>
          /\ z.misled = y(m).misled /\ z.last = y(m).last
      BY <3>2 DEF ModeFields
    <3> HIDE DEF z
    <3>4. y(m).misled = "no" => c.modes[m] = y(m).last
      BY <2>1, <2>2 DEF ModeCached
    <3> QED
      BY <1>3, <3>1, <3>3, <3>4 DEF ModeCached
  <2>6. CASE m # DepthTest
    <3>1. d.modeMap[m] = y(m)
      BY <1>1, <2>3, <2>4, <2>6
    <3>2. ModeCached(d, m)
      BY <1>3, <2>1, <2>2, <3>1 DEF ModeCached
    <3> QED
      BY <2>2, <3>1, <3>2
  <2> QED
    BY <2>5, <2>6
<1>6. << >> \in Seq(StateSets)
  OBVIOUS
<1>7. ModesRight(d)
  <2>1. DOMAIN d.modeMap = Modes /\ DOMAIN d.modes = Modes
    BY <1>1, <1>3 DEF Good, ModesRight, ModeStacks, ResetModes
  <2>2. \A m \in Modes : StackOf(d.modeMap[m].vec, d.sets, "modes", m)
    <3> TAKE m \in Modes
    <3>1. StackOf(<< >>, << >>, "modes", m)
      BY StackOfNone
    <3> QED
      BY <1>1, <1>4, <3>1
  <2>3. d.sets \in Seq(StateSets)
    BY <1>1, <1>6
  <2> QED
    BY <1>4, <2>1, <2>2, <2>3 DEF ModesRight, ModeStacks
<1>8. /\ DOMAIN d.attrMap = Types
      /\ DOMAIN d.attrMap["TEXTURE"] = {"vec", "last", "changed", "cloned"}
      /\ d.attrMap["TEXTURE"].vec = << >> /\ d.attrMap["TEXTURE"].last = None
      /\ d.attrMap["TEXTURE"].changed
  <2>1. "TEXTURE" \in Types /\ DOMAIN c.attrMap["TEXTURE"] = {"vec", "last", "changed", "cloned"}
    BY DEF Good, TexturesRight, TextureStack, Types, TextureTypes
  <2> DEFINE a == c.attrMap["TEXTURE"]
  <2>2. d.attrMap["TEXTURE"] = [a EXCEPT !.vec = << >>, !.last = None, !.changed = TRUE]
    BY <1>1, <2>1
  <2>3. DOMAIN d.attrMap = Types
    BY <1>1
  <2> HIDE DEF a
  <2>4. DOMAIN a = {"vec", "last", "changed", "cloned"}
    BY <2>1 DEF a
  <2> QED
    BY <2>2, <2>3, <2>4
<1>9. TextureStack(d)
  <2>1. StackOf(<< >>, << >>, "attributes", "TEXTURE")
    BY StackOfNone
  <2> QED
    BY <1>1, <1>6, <1>8, <2>1 DEF TextureStack
<1>10. ObjectsRight(d)
  BY <1>3, ObjectFrame DEF Good, TexturesRight, ObjectsRight, ImagesRight
<1>11. TextureBound(d) /\ Unbound(d)
  BY <1>8, StateAssumption DEF TextureBound, Unbound
<1>12. TexturesRight(d)
  BY <1>8, <1>9, <1>10, <1>11 DEF TexturesRight
<1> QED
  BY <1>2, <1>7, <1>11, <1>12 DEF d, Good

\* What a drawable did to a mode is to be undone, and what State believes of it is so
\* unless it was misled.
LEMMA SwitchRight ==
  ASSUME NEW c, Good(c), NEW m \in Modes, NEW on
  PROVE  /\ Restacked(c, ApplyMode([c EXCEPT !.modeMap[m] = Touched(@)], m, on))
         /\ \A last : Restacked(c, HaveAppliedMode(c, m, on, last))
<1> DEFINE e == c.modeMap[m]
<1>0. /\ DOMAIN c = Fields /\ m \in DOMAIN c.modeMap /\ m \in DOMAIN c.modes
      /\ DOMAIN c.modeMap = Modes /\ DOMAIN c.modes = Modes
      /\ DOMAIN e = ModeFields /\ (e.misled = "no" => c.modes[m] = e.last)
  BY DEF Good, ModesRight, ModeStacks, ModeCached
<1>1. ASSUME NEW d, OnlyIn(c, d, {"modeMap", "modes"}),
             DOMAIN d.modeMap = Modes, DOMAIN d.modes = Modes,
             DOMAIN d.modeMap[m] = ModeFields, d.modeMap[m].vec = e.vec, d.modeMap[m].default = e.default,
             d.modeMap[m].misled = "no" => d.modes[m] = d.modeMap[m].last,
             d.modeMap[m].changed, d.modeMap[m].known,
             \A k \in Modes \ {m} : d.modeMap[k] = c.modeMap[k] /\ d.modes[k] = c.modes[k]
      PROVE  Restacked(c, d)
  <2>1. /\ DOMAIN d = Fields /\ d.sets = c.sets /\ d.attrMap = c.attrMap /\ d.images = c.images
        /\ \A f \in TextureFields : d[f] = c[f]
    BY <1>0, <1>1 DEF OnlyIn, Fields, TextureFields
  <2>2. TexturesRight(d)
    BY <1>0, <2>1, TexturesFrame DEF Good
  <2>3. ASSUME NEW k \in Modes
        PROVE  /\ DOMAIN d.modeMap[k] = ModeFields /\ d.modeMap[k].default \in BOOLEAN
               /\ ~d.modeMap[k].known => d.modeMap[k].vec = << >>
               /\ StackOf(d.modeMap[k].vec, d.sets, "modes", k) /\ ModeCached(d, k)
    <3>1. /\ DOMAIN c.modeMap[k] = ModeFields /\ c.modeMap[k].default \in BOOLEAN
          /\ ~c.modeMap[k].known => c.modeMap[k].vec = << >>
          /\ StackOf(c.modeMap[k].vec, c.sets, "modes", k) /\ ModeCached(c, k)
      BY DEF Good, ModesRight, ModeStacks
    <3>2. CASE k = m
      BY <1>1, <2>1, <3>1, <3>2 DEF ModeCached
    <3>3. CASE k # m
      BY <1>1, <2>1, <3>1, <3>3 DEF ModeCached
    <3> QED
      BY <3>2, <3>3
  <2>4. ModesRight(d)
    BY <1>1, <2>1, <2>3 DEF Good, ModesRight, ModeStacks
  <2> QED
    BY <2>1, <2>2, <2>4 DEF Good, Restacked
<1>2. ASSUME NEW last PROVE Restacked(c, HaveAppliedMode(c, m, on, last))
  <2> DEFINE b == Believe(e, last, on, "toggled")
             t == Touched(b)
             d == HaveAppliedMode(c, m, on, last)
  <2>1. /\ DOMAIN b = ModeFields /\ b.vec = e.vec /\ b.default = e.default
        /\ b.last = last /\ (b.misled = "no" => last = on)
    BY <1>0, BelieveIs
  <2>2. d = [c EXCEPT !.modes[m] = on, !.modeMap[m] = t]
    BY DEF HaveAppliedMode
  <2> HIDE DEF b
  <2>3. /\ DOMAIN t = ModeFields /\ t.vec = e.vec /\ t.default = e.default /\ t.changed /\ t.known
        /\ t.misled = "no" => t.last = on
    BY <2>1, TouchedIs
  <2> HIDE DEF t, d, e
  <2>4. /\ OnlyIn(c, d, {"modeMap", "modes"})
        /\ d.modeMap = [c.modeMap EXCEPT ![m] = t] /\ d.modes = [c.modes EXCEPT ![m] = on]
    BY <1>0, <2>2 DEF OnlyIn, Fields
  <2>5. Restacked(c, d)
    BY <1>0, <1>1, <2>3, <2>4
  <2> QED
    BY <2>5 DEF d
<1>3. Restacked(c, ApplyMode([c EXCEPT !.modeMap[m] = Touched(@)], m, on))
  <2> DEFINE t == Touched(e)
             b == [c EXCEPT !.modeMap[m] = t]
             d == ApplyMode(b, m, on)
  <2>1. /\ DOMAIN t = ModeFields /\ t.vec = e.vec /\ t.default = e.default /\ t.changed /\ t.known
        /\ t.misled = e.misled /\ t.last = e.last
    BY <1>0, TouchedIs
  <2>a. ApplyMode([c EXCEPT !.modeMap[m] = Touched(@)], m, on) = d
    OBVIOUS
  <2> HIDE DEF t
  <2>2. /\ OnlyIn(c, b, {"modeMap", "modes"}) /\ DOMAIN b = Fields
        /\ b.modeMap = [c.modeMap EXCEPT ![m] = t] /\ b.modes = c.modes
    BY <1>0 DEF OnlyIn, Fields
  <2> HIDE DEF b, e
  <2>3. {"modeMap", "modes"} \subseteq DOMAIN b /\ m \in DOMAIN b.modeMap /\ m \in DOMAIN b.modes /\ b.modeMap[m] = t
        /\ \A k \in Modes \ {m} : b.modeMap[k] = c.modeMap[k]
    BY <1>0, <2>2 DEF Fields
  <2>4. ModeApplied(b, d, m, t, on)
    BY <2>1, <2>3, ApplyModeIs DEF d
  <2> HIDE DEF d
  <2>5. OnlyIn(c, d, {"modeMap", "modes"})
    BY <2>2, <2>4, OnlyInBoth DEF ModeApplied
  <2>6. Restacked(c, d)
    <3>1. DOMAIN d.modeMap = Modes /\ DOMAIN d.modes = Modes
      BY <1>0, <2>2, <2>4 DEF ModeApplied
    <3>2. d.modeMap[m].misled = "no" => d.modes[m] = d.modeMap[m].last
      BY <1>0, <2>1, <2>2, <2>4 DEF ModeApplied
    <3>3. \A k \in Modes \ {m} : d.modeMap[k] = c.modeMap[k] /\ d.modes[k] = c.modes[k]
      BY <1>0, <2>2, <2>3, <2>4 DEF ModeApplied
    <3>4. d.modeMap[m].vec = e.vec /\ d.modeMap[m].default = e.default
      BY <2>1, <2>4 DEF ModeApplied
    <3>5. d.modeMap[m].changed /\ d.modeMap[m].known
      BY <2>1, <2>4 DEF ModeApplied
    <3>6. DOMAIN d.modeMap[m] = ModeFields
      BY <2>4 DEF ModeApplied
    <3> HIDE DEF e
    <3> QED
      BY <1>1, <2>5, <3>1, <3>2, <3>3, <3>4, <3>5, <3>6
  <2> QED
    BY <2>a, <2>6
<1> QED
  BY <1>2, <1>3

\* copyTexImage2D and haveAppliedTextureAttribute(): the texture is believed applied, and is.
LEMMA CopyingRight ==
  ASSUME NEW c, Good(c), NEW t \in Textures \ OneDimensional, NEW size
  PROVE  Good([CopyTexImage2D(c, t, size) EXCEPT
                  !.attrMap["TEXTURE"].last = t, !.attrMap["TEXTURE"].changed = TRUE])
<1> DEFINE e == CopyTexImage2D(c, t, size)
           d == [e EXCEPT !.attrMap["TEXTURE"].last = t, !.attrMap["TEXTURE"].changed = TRUE]
<1>1. OnlyIn(c, e, TextureFields) /\ ObjectsRight(e) /\ Shows(e, t)
  BY CopyRight DEF Good, TexturesRight
<1> HIDE DEF e
<1>2. /\ DOMAIN e = Fields /\ e.attrMap = c.attrMap /\ e.sets = c.sets
      /\ e.modeMap = c.modeMap /\ e.modes = c.modes
  BY <1>1 DEF Good, OnlyIn, Fields, TextureFields
<1>3. /\ "TEXTURE" \in Types /\ DOMAIN e.attrMap = Types
      /\ DOMAIN e.attrMap["TEXTURE"] = {"vec", "last", "changed", "cloned"}
      /\ StackOf(e.attrMap["TEXTURE"].vec, e.sets, "attributes", "TEXTURE") /\ e.sets \in Seq(StateSets)
  BY <1>2 DEF Good, TexturesRight, TextureStack, Types, TextureTypes
<1>4. /\ OnlyIn(e, d, {"attrMap"}) /\ DOMAIN d.attrMap = Types
      /\ DOMAIN d.attrMap["TEXTURE"] = {"vec", "last", "changed", "cloned"}
      /\ d.attrMap["TEXTURE"].vec = e.attrMap["TEXTURE"].vec
      /\ d.attrMap["TEXTURE"].last = t /\ d.attrMap["TEXTURE"].changed
  BY <1>2, <1>3 DEF OnlyIn, Fields
<1> HIDE DEF d
<1>5. /\ DOMAIN d = Fields /\ d.sets = c.sets /\ d.modeMap = c.modeMap /\ d.modes = c.modes
      /\ d.images = e.images /\ d.image = e.image /\ d.seen = e.seen
      /\ d.side = e.side /\ d.object = e.object /\ d.dims = e.dims /\ d.bound = e.bound
  BY <1>2, <1>4 DEF OnlyIn, Fields
<1>6. ModesRight(d)
  BY <1>5, ModesFrame DEF Good
<1>7. TextureStack(d)
  BY <1>2, <1>3, <1>4, <1>5 DEF TextureStack
<1>8. ObjectsRight(d)
  BY <1>1, <1>5, ObjectFrame DEF ObjectsRight, ImagesRight
<1>9. Shows(d, t) /\ t # Default
  BY <1>1, <1>5, StateAssumption DEF Shows, Stored
<1>10. TextureBound(d)
  BY <1>4, <1>9 DEF TextureBound
<1>11. Good(d)
  BY <1>4, <1>5, <1>6, <1>7, <1>8, <1>10 DEF Good, TexturesRight
<1> QED
  BY <1>11 DEF d, e

\* Code past State, and dirtyAllModes() and dirtyAllAttributes() after it.
LEMMA DirtyRight ==
  ASSUME NEW c, Good(c), NEW on \in [Modes -> BOOLEAN], NEW d, d = DirtyState(c, on)
  PROVE  Good(d) /\ Unbound(d)
<1> DEFINE x(m) == DirtyMode(c.modeMap[m], on[m])
<1>0. DOMAIN c = Fields
  BY DEF Good
<1>1. /\ OnlyIn(c, d, {"modeMap", "modes", "attrMap", "bound"})
      /\ d.modeMap = [m \in Modes |-> x(m)]
      /\ d.modes = on
      /\ d.attrMap = [t \in Types |-> [c.attrMap[t] EXCEPT !.last = None, !.changed = TRUE]]
  BY <1>0 DEF DirtyState, OnlyIn, Fields
<1>2. /\ DOMAIN d = Fields /\ d.sets = c.sets
      /\ d.images = c.images /\ d.image = c.image /\ d.seen = c.seen
      /\ d.side = c.side /\ d.object = c.object /\ d.dims = c.dims
  BY <1>0, <1>1 DEF OnlyIn, Fields
<1>3. ASSUME NEW m \in Modes
      PROVE  /\ DOMAIN d.modeMap[m] = ModeFields /\ d.modeMap[m].default \in BOOLEAN
             /\ ~d.modeMap[m].known => d.modeMap[m].vec = << >>
             /\ StackOf(d.modeMap[m].vec, d.sets, "modes", m) /\ ModeCached(d, m)
  <2> DEFINE e == c.modeMap[m]
  <2>1. /\ DOMAIN e = ModeFields /\ e.default \in BOOLEAN /\ StackOf(e.vec, c.sets, "modes", m)
        /\ ~e.known => e.vec = << >>
        /\ ~e.changed => e.last = TopMode(e)
    BY DEF Good, ModesRight, ModeStacks, ModeCached
  <2>2. /\ DOMAIN x(m) = ModeFields /\ x(m).default = e.default /\ x(m).vec = e.vec
        /\ e.known => x(m).known
        /\ x(m).misled = "no" => x(m).last = on[m]
        /\ x(m).changed \/ (x(m).changed = e.changed /\ x(m).last = e.last)
    BY <2>1, DirtyModeIs
  <2> HIDE DEF x, e
  <2>3. d.modeMap[m] = x(m) /\ d.modes[m] = on[m]
    BY <1>1
  <2>4. TopMode(x(m)) = TopMode(e)
    BY <2>2 DEF TopMode
  <2>5. ModeCached(d, m)
    BY <2>1, <2>2, <2>3, <2>4 DEF ModeCached
  <2> QED
    BY <1>2, <2>1, <2>2, <2>3, <2>5
<1> HIDE DEF x
<1>4. ModesRight(d)
  <2>1. DOMAIN d.modeMap = Modes /\ DOMAIN d.modes = Modes /\ d.sets \in Seq(StateSets)
    BY <1>1, <1>2 DEF Good, ModesRight, ModeStacks
  <2> QED
    BY <1>3, <2>1 DEF ModesRight, ModeStacks
<1>5. /\ TextureStack(d) /\ d.attrMap["TEXTURE"].last = None /\ d.attrMap["TEXTURE"].changed
  <2> DEFINE a == c.attrMap["TEXTURE"]
  <2>1. /\ "TEXTURE" \in Types /\ DOMAIN a = {"vec", "last", "changed", "cloned"}
        /\ StackOf(a.vec, c.sets, "attributes", "TEXTURE") /\ c.sets \in Seq(StateSets)
    BY DEF Good, TexturesRight, TextureStack, Types, TextureTypes
  <2>2. d.attrMap["TEXTURE"] = [a EXCEPT !.last = None, !.changed = TRUE] /\ DOMAIN d.attrMap = Types
    BY <1>1, <2>1
  <2> HIDE DEF a
  <2>3. /\ DOMAIN d.attrMap["TEXTURE"] = {"vec", "last", "changed", "cloned"}
        /\ d.attrMap["TEXTURE"].vec = a.vec
        /\ d.attrMap["TEXTURE"].last = None /\ d.attrMap["TEXTURE"].changed
    BY <2>1, <2>2
  <2> QED
    BY <1>2, <2>1, <2>2, <2>3 DEF TextureStack
<1>6. ObjectsRight(d)
  BY <1>2, ObjectFrame DEF Good, TexturesRight, ObjectsRight, ImagesRight
<1>7. TextureBound(d) /\ Unbound(d)
  BY <1>5, StateAssumption DEF TextureBound, Unbound
<1> QED
  BY <1>2, <1>4, <1>5, <1>6, <1>7 DEF Good, TexturesRight

\* Images and textures that change where none is believed applied.
LEMMA ImagesChanged ==
  ASSUME NEW c, NEW d, Good(c), Unbound(c), ObjectsRight(d),
         OnlyIn(c, d, {"images", "image", "seen", "object"})
  PROVE  Good(d) /\ Unbound(d)
<1>1. /\ DOMAIN d = Fields /\ d.sets = c.sets /\ d.modeMap = c.modeMap /\ d.modes = c.modes
      /\ d.attrMap = c.attrMap /\ d.bound = c.bound
  BY DEF Good, OnlyIn, Fields
<1>2. ModesRight(d)
  BY <1>1, ModesFrame DEF Good
<1>3. TextureStack(d)
  BY <1>1 DEF Good, TexturesRight, TextureStack
<1>4. TextureBound(d) /\ Unbound(d)
  BY <1>1 DEF Good, TexturesRight, TextureBound, Unbound
<1>5. ~d.attrMap["TEXTURE"].changed => TextureSettled(d)
  BY <1>1 DEF Good, TexturesRight, TextureSettled
<1> QED
  BY <1>1, <1>2, <1>3, <1>4, <1>5 DEF Good, TexturesRight

\* The fields that changes to programs, to uniforms and to what is let go reach.
ChangeFields == ProgramFields \cup {"text", "list", "defines", "value", "unref"}

\* Those are aside.
LEMMA ChangeAside ==
  ASSUME NEW c, NEW d, Good(c), OnlyIn(c, d, ChangeFields)
  PROVE  Good(d) /\ d.attrMap = c.attrMap
<1>1. {"sets", "modeMap", "modes", "images", "attrMap"} \cup TextureFields \subseteq Fields \ ChangeFields
  BY DEF Fields, ChangeFields, ProgramFields, TextureFields
<1>2. Aside(c, d) /\ d.attrMap = c.attrMap /\ DOMAIN c = Fields
  BY <1>1 DEF OnlyIn, Aside, Good
<1> QED
  BY <1>2, AsideGood

\* Each of those changes.
LEMMA ChangesOnly ==
  ASSUME NEW c
  PROVE  /\ \A sh : OnlyIn(c, SetShaderSource(c, sh), ChangeFields)
         /\ \A p, sh : OnlyIn(c, AddShader(c, p, sh), ChangeFields)
         /\ \A p, sh : OnlyIn(c, RemoveShader(c, p, sh), ChangeFields)
         /\ \A p : OnlyIn(c, CompileProgram(c, p), ChangeFields)
         /\ \A p : OnlyIn(c, ReleaseProgram(c, p), ChangeFields)
         /\ \A u : OnlyIn(c, UniformModified([c EXCEPT !.value[u] = 1 - @], u), ChangeFields)
         /\ \A t : OnlyIn(c, [c EXCEPT !.unref = @ \cup {t}], ChangeFields)
<1>1. \A b, ps : OnlyIn(b, DirtyProgram(b, ps), ChangeFields)
  BY DEF DirtyProgram, OnlyIn, ChangeFields, ProgramFields
<1>2. OnlyIn(c, c, ChangeFields)
  BY DEF OnlyIn
<1>3. \A sh : OnlyIn(c, SetShaderSource(c, sh), ChangeFields)
  <2> TAKE sh
  <2> DEFINE b == [c EXCEPT !.text[sh] = @ + 1,
                            !.pcs = [k \in DOMAIN @ |-> IF k[1] = sh THEN Stale ELSE @[k]]]
             ps == {p \in Programs : sh \in c.list[p]}
  <2>1. OnlyIn(c, b, ChangeFields)
    BY DEF OnlyIn, ChangeFields, ProgramFields
  <2>2. SetShaderSource(c, sh) = DirtyProgram(b, ps)
    BY DEF SetShaderSource
  <2> HIDE DEF b, ps
  <2> QED
    BY <1>1, <2>1, <2>2, OnlyInBoth
<1>5. \A p, x, ps : OnlyIn(c, DirtyProgram([c EXCEPT !.list[p] = x], ps), ChangeFields)
  <2> TAKE p, x, ps
  <2> DEFINE b == [c EXCEPT !.list[p] = x]
  <2>1. OnlyIn(c, b, ChangeFields)
    BY DEF OnlyIn, ChangeFields
  <2> HIDE DEF b
  <2>2. OnlyIn(c, DirtyProgram(b, ps), ChangeFields)
    BY <1>1, <2>1, OnlyInBoth
  <2> QED
    BY <2>2 DEF b
<1>6. \A p, sh : OnlyIn(c, AddShader(c, p, sh), ChangeFields)
  BY <1>2, <1>5 DEF AddShader
<1>7. \A p, sh : OnlyIn(c, RemoveShader(c, p, sh), ChangeFields)
  BY <1>2, <1>5 DEF RemoveShader
<1>8. \A p : OnlyIn(c, CompileProgram(c, p), ChangeFields)
  BY CompileProgramOnly, OnlyInMore DEF ChangeFields
<1>9. \A p : OnlyIn(c, ReleaseProgram(c, p), ChangeFields)
  BY DEF ReleaseProgram, OnlyIn, ChangeFields, ProgramFields
<1>10. \A b, u : OnlyIn(b, UniformModified(b, u), ChangeFields)
  BY DEF UniformModified, OnlyIn, ChangeFields, ProgramFields
<1>11. \A u : OnlyIn(c, UniformModified([c EXCEPT !.value[u] = 1 - @], u), ChangeFields)
  <2> TAKE u
  <2> DEFINE b == [c EXCEPT !.value[u] = 1 - @]
  <2>1. OnlyIn(c, b, ChangeFields)
    BY DEF OnlyIn, ChangeFields
  <2> HIDE DEF b
  <2>2. OnlyIn(c, UniformModified(b, u), ChangeFields)
    BY <1>10, <2>1, OnlyInBoth
  <2> QED
    BY <2>2 DEF b
<1>12. \A t : OnlyIn(c, [c EXCEPT !.unref = @ \cup {t}], ChangeFields)
  BY DEF OnlyIn, ChangeFields
<1> QED
  BY <1>3, <1>6, <1>7, <1>8, <1>9, <1>11, <1>12

-----------------------------------------------------------------------------
(* The invariant                                                            *)

\* State believes applied the modes and the texture of a leaf.
LeafDrawn(c, leaf) ==
    /\ leaf \in StateSets \cup {NoStateSet}
    /\ TextureDrawn(c, leaf)
    /\ \A m \in Modes : c.modeMap[m].last = ModeAsked(c, m, leaf)

\* The inductive invariant: what State remembers is right at all times, and
\* between frames no texture is believed applied, so that images may change
\* then.
StateRight ==
    /\ Good(ctx)
    /\ ~drawing => Unbound(ctx)
    /\ drawn # None => LeafDrawn(ctx, drawn)

\* The value asked for is the leaf's own, or the one on top of the stack.
LEMMA AskedIs ==
  ASSUME NEW vec, NEW field, NEW k, NEW other, ctx.sets \in Seq(StateSets),
         StackOf(vec, ctx.sets, field, k)
  PROVE  AskedOr(field, k, other) =
           IF OwnEntry(drawn[field], k, vec) THEN drawn[field][k].value
           ELSE IF vec = << >> THEN other ELSE Last(vec).value
<1> DEFINE place == Place(ctx.sets, drawn, field, k)
           entry == InForce(ctx.sets, drawn, field, k)
<1>1. AskedOf(vec, ctx.sets, drawn, field, k)
  BY AskedOfStack
<1>2. AskedOr(field, k, other) = IF place = 0 THEN other ELSE entry.value
  BY DEF AskedOr, Place, InForce
<1>3. IF OwnEntry(drawn[field], k, vec) THEN place # 0 /\ entry = drawn[field][k]
      ELSE IF vec = << >> THEN place = 0
      ELSE place # 0 /\ entry = Last(vec)
  BY <1>1 DEF AskedOf
<1> HIDE DEF place, entry
<1> QED
  BY <1>2, <1>3

\* What is remembered is what the state sets ask for: the stacks say what Holder does.
LEMMA RightIsAsked ==
  ASSUME StateRight
  PROVE  DrawnAsAsked
<1> SUFFICES ASSUME drawn # None PROVE DrawnAsAsked
  BY DEF DrawnAsAsked
<1>0. /\ Good(ctx) /\ drawn \in StateSets \cup {NoStateSet} /\ TextureDrawn(ctx, drawn)
      /\ ctx.sets \in Seq(StateSets)
      /\ \A m \in Modes : ctx.modeMap[m].last = ModeAsked(ctx, m, drawn)
  BY DEF StateRight, LeafDrawn, Good, ModesRight, ModeStacks
<1>1. ASSUME NEW m \in Modes
      PROVE  /\ ctx.modeMap[m].last = AskedMode(m)
             /\ ctx.modeMap[m].misled = "no" => ctx.modes[m] = AskedMode(m)
  <2> DEFINE vec == ctx.modeMap[m].vec
             default == ctx.modeMap[m].default
             other == IF default THEN "on" ELSE "off"
             ask == AskedOr("modes", m, other)
  <2>1. StackOf(vec, ctx.sets, "modes", m)
    BY <1>0 DEF Good, ModesRight, ModeStacks
  <2>2. AskedMode(m) = (ask = "on")
    BY DEF AskedMode
  <2>3. ask = IF OwnEntry(drawn["modes"], m, vec) THEN drawn["modes"][m].value
              ELSE IF vec = << >> THEN other ELSE Last(vec).value
    BY <1>0, <2>1, AskedIs
  <2>4. default \in BOOLEAN
    BY <1>0 DEF Good, ModesRight, ModeStacks
  <2>5. default <=> other = "on"
    OBVIOUS
  <2>6. /\ ctx.modeMap[m].last = ModeAsked(ctx, m, drawn)
        /\ ctx.modeMap[m].misled = "no" => ctx.modes[m] = ctx.modeMap[m].last
    BY <1>0 DEF Good, ModesRight, ModeCached
  <2>7. ModeAsked(ctx, m, drawn) = IF OwnEntry(drawn["modes"], m, vec) THEN drawn["modes"][m].value = "on"
                                   ELSE IF vec # << >> THEN Last(vec).value = "on" ELSE default
    BY DEF ModeAsked, TopMode
  <2> HIDE DEF ask, other, default, vec
  <2>8. ModeAsked(ctx, m, drawn) = (ask = "on")
    <3>1. CASE OwnEntry(drawn["modes"], m, vec)
      BY <2>3, <2>7, <3>1
    <3>2. CASE ~OwnEntry(drawn["modes"], m, vec) /\ vec = << >>
      <4>1. ask = other /\ ModeAsked(ctx, m, drawn) = default
        BY <2>3, <2>7, <3>2
      <4> QED
        BY <2>4, <2>5, <4>1
    <3>3. CASE ~OwnEntry(drawn["modes"], m, vec) /\ vec # << >>
      BY <2>3, <2>7, <3>3
    <3> QED
      BY <3>1, <3>2, <3>3
  <2> QED
    BY <2>2, <2>6, <2>8
<1>2. LET t == AskedOr("attributes", "TEXTURE", None)
      IN IF t = None THEN ctx.bound = None \/ ~ctx.attrMap["TEXTURE"].cloned ELSE Shows(ctx, t)
  <2> DEFINE a == ctx.attrMap["TEXTURE"]
             ask == AskedOr("attributes", "TEXTURE", None)
  <2>1. StackOf(a.vec, ctx.sets, "attributes", "TEXTURE")
    BY <1>0 DEF Good, TexturesRight, TextureStack
  <2>3. ask = IF OwnEntry(drawn["attributes"], "TEXTURE", a.vec) THEN drawn["attributes"]["TEXTURE"].value
              ELSE IF a.vec = << >> THEN None ELSE Last(a.vec).value
    BY <1>0, <2>1, AskedIs
  <2>4. a.last \in Textures => Shows(ctx, a.last)
    BY <1>0 DEF Good, TexturesRight, TextureBound
  <2>5. a.vec # << >> => Last(a.vec).value \in Textures
    <3>1. a.vec # << >> => Last(a.vec) \in EntriesOf("attributes", "TEXTURE")
      BY <1>0, <2>1, StackHas
    <3> QED
      BY <3>1, StateAssumption DEF EntriesOf
  <2> HIDE DEF ask
  <2>6. CASE OwnEntry(drawn["attributes"], "TEXTURE", a.vec)
    <3>1. ask = drawn["attributes"]["TEXTURE"].value
      BY <2>3, <2>6
    <3>2. a.last = drawn["attributes"]["TEXTURE"].value
      BY <1>0, <2>6 DEF TextureDrawn
    <3>3. drawn["attributes"]["TEXTURE"].value \in Textures
      <4>1. drawn \in StateSets
        BY <1>0, <2>6 DEF OwnEntry, NoStateSet
      <4> QED
        BY <2>6, <4>1, StateAssumption DEF OwnEntry
    <3>4. ask # None /\ Shows(ctx, ask)
      BY <2>4, <3>1, <3>2, <3>3, StateAssumption
    <3> QED
      BY <3>4 DEF ask
  <2>7. CASE ~OwnEntry(drawn["attributes"], "TEXTURE", a.vec) /\ a.vec # << >>
    <3>1. ask = Last(a.vec).value /\ a.last = Last(a.vec).value
      BY <1>0, <2>3, <2>7 DEF TextureDrawn
    <3>2. ask # None /\ Shows(ctx, ask)
      BY <2>4, <2>5, <2>7, <3>1, StateAssumption
    <3> QED
      BY <3>2 DEF ask
  <2>8. CASE ~OwnEntry(drawn["attributes"], "TEXTURE", a.vec) /\ a.vec = << >>
    <3>1. ask = None /\ (ctx.bound = None \/ ~a.cloned)
      BY <1>0, <2>3, <2>8 DEF TextureDrawn
    <3> QED
      BY <3>1 DEF ask
  <2> QED
    BY <2>6, <2>7, <2>8
<1> QED
  BY <1>1, <1>2 DEF DrawnAsAsked

\* At the start nothing is asked for, and OpenGL has nothing.
LEMMA InitRight ==
  ASSUME Init
  PROVE  StateRight
<1>1. /\ DOMAIN ctx = Fields /\ ctx.sets = << >>
      /\ ctx.modeMap = [m \in Modes |-> [vec |-> << >>, last |-> FALSE, changed |-> FALSE, default |-> FALSE,
                                        known |-> FALSE, misled |-> "no"]]
      /\ ctx.attrMap = [t \in Types |-> [vec |-> << >>, last |-> None, changed |-> FALSE, cloned |-> FALSE]]
      /\ ctx.modes = [m \in Modes |-> FALSE]
      /\ ctx.images = [im \in Images |-> [count |-> 1, size |-> CHOOSE s \in Sizes : TRUE]]
      /\ ctx.image = ImageOf /\ ctx.seen = [t \in Textures |-> 0]
      /\ ctx.object = [t \in Textures |-> None] /\ ctx.dims = [t \in Textures |-> None]
      /\ ctx.side = [t \in OneDimensional |-> None] /\ ctx.bound = None
  BY DEF Init, Fields
<1>2. drawn = None
  BY DEF Init
<1>3. << >> \in Seq(StateSets)
  OBVIOUS
<1>4. ASSUME NEW m \in Modes
      PROVE  /\ DOMAIN ctx.modeMap[m] = ModeFields /\ ctx.modeMap[m].default \in BOOLEAN
             /\ ctx.modeMap[m].vec = << >>
             /\ StackOf(ctx.modeMap[m].vec, ctx.sets, "modes", m)
             /\ ModeCached(ctx, m)
  <2>1. /\ ctx.modeMap[m] = [vec |-> << >>, last |-> FALSE, changed |-> FALSE, default |-> FALSE,
                              known |-> FALSE, misled |-> "no"]
        /\ ctx.modes[m] = FALSE
    BY <1>1
  <2>2. /\ DOMAIN ctx.modeMap[m] = ModeFields /\ ctx.modeMap[m].vec = << >>
        /\ ctx.modeMap[m].last = FALSE /\ ctx.modeMap[m].default = FALSE
    BY <2>1 DEF ModeFields
  <2>3. StackOf(<< >>, << >>, "modes", m)
    BY StackOfNone
  <2>4. TopMode(ctx.modeMap[m]) = FALSE
    BY <2>2 DEF TopMode
  <2>5. ModeCached(ctx, m)
    BY <2>1, <2>2, <2>4 DEF ModeCached
  <2> QED
    BY <1>1, <2>2, <2>3, <2>5
<1>5. ModesRight(ctx)
  <2>1. DOMAIN ctx.modeMap = Modes /\ DOMAIN ctx.modes = Modes /\ ctx.sets \in Seq(StateSets)
    BY <1>1, <1>3
  <2> QED
    BY <1>4, <2>1 DEF ModesRight, ModeStacks
<1>6. /\ DOMAIN ctx.attrMap = Types
      /\ ctx.attrMap["TEXTURE"] = [vec |-> << >>, last |-> None, changed |-> FALSE, cloned |-> FALSE]
  BY <1>1 DEF Types, TextureTypes
<1>7. TextureStack(ctx)
  <2>1. StackOf(<< >>, << >>, "attributes", "TEXTURE")
    BY StackOfNone
  <2> QED
    BY <1>1, <1>3, <1>6, <2>1 DEF TextureStack
<1>8. TextureBound(ctx) /\ TextureSettled(ctx) /\ Unbound(ctx)
  BY <1>6, StateAssumption DEF TextureBound, TextureSettled, Unbound
<1>9. ObjectsRight(ctx)
  <2>1. ImagesRight(ctx)
    BY <1>1 DEF ImagesRight
  <2>2. ASSUME NEW t \in Textures PROVE ObjectRight(ctx, t)
    <3>1. /\ ctx.image[t] \in Images \cup {None} /\ ctx.seen[t] = 0 /\ ctx.object[t] = None
          /\ t \in OneDimensional => ctx.side[t] = None
      BY <1>1, TextureAssumption
    <3>2. Source(ctx, t) # None => ctx.images[Source(ctx, t)].count \in Nat
      BY <2>1, <3>1 DEF Source, ImagesRight
    <3> QED
      BY <3>1, <3>2 DEF ObjectRight, SeenRight
  <2>3. DOMAIN ctx.image = Textures
    BY <1>1, TextureAssumption
  <2> QED
    BY <1>1, <2>1, <2>2, <2>3 DEF ObjectsRight
<1>10. Good(ctx)
  BY <1>1, <1>5, <1>7, <1>8, <1>9 DEF Good, TexturesRight
<1> QED
  BY <1>2, <1>8, <1>10 DEF StateRight

\* Every step keeps it.
LEMMA NextRight ==
  ASSUME StateRight, [Next]_vars
  PROVE  StateRight'
<1>0. \A x : Good(x) => Ready(x) /\ DOMAIN x = Fields
  BY DEF Good, Ready, TexturesRight, TextureStack, Types, TextureTypes
<1>1. Good(ctx) /\ (~drawing => Unbound(ctx))
  BY DEF StateRight
<1>2. ASSUME Good(ctx'), drawn' = None, ~drawing' => Unbound(ctx')
      PROVE  StateRight'
  BY <1>2 DEF StateRight
<1>3. ASSUME NEW d, Restacked(ctx, d), ctx' = d, drawn' = None, drawing' = drawing
      PROVE  StateRight'
  BY <1>1, <1>2, <1>3 DEF Restacked, Unbound
<1>4. ASSUME NEW d, Good(d), Unbound(d), ctx' = d, drawn' = None
      PROVE  StateRight'
  BY <1>2, <1>4
<1>5. ASSUME NEW d, OnlyIn(ctx, d, ChangeFields) PROVE Restacked(ctx, d)
  BY <1>1, <1>5, ChangeAside DEF Restacked
<1>6. \A d : Changing(d) => Unbound(ctx) /\ ctx.sets = << >> /\ ctx' = d /\ drawn' = None /\ drawing' = drawing
  BY <1>1 DEF Changing, Other
<1>7. ASSUME NEW d, OnlyIn(ctx, d, ChangeFields), Changing(d) PROVE StateRight'
  BY <1>3, <1>5, <1>6, <1>7
<1>8. ASSUME NEW d, OnlyIn(ctx, d, {"images", "image", "seen", "object"}), ObjectsRight(d), Changing(d)
      PROVE  StateRight'
  <2>1. Good(d) /\ Unbound(d)
    BY <1>1, <1>6, <1>8, ImagesChanged
  <2> QED
    BY <1>4, <1>6, <1>8, <2>1
<1>9. ObjectsRight(ctx) /\ DOMAIN ctx = Fields
  BY <1>1 DEF Good, TexturesRight
<1>10. CASE UNCHANGED vars
  BY <1>10 DEF vars, StateRight
<1>11. ASSUME NEW ss \in StateSets, PushSet(ss) PROVE StateRight'
  <2>1. ctx' = PushStateSet(ctx, ss) /\ drawn' = None /\ drawing' = drawing
    BY <1>11 DEF PushSet, Sets
  <2> QED
    BY <1>1, <1>3, <2>1, GoodStack
<1>12. CASE PopSet
  <2>1. ctx' = PopStateSet(ctx) /\ drawn' = None /\ drawing' = drawing
    BY <1>12 DEF PopSet, Sets
  <2> QED
    BY <1>1, <1>3, <2>1, GoodStack
<1>13. ASSUME NEW pos \in 0 .. MaxDepth, NEW ss \in StateSets, InsertSet(pos, ss) PROVE StateRight'
  <2>1. ctx' = InsertStateSet(ctx, pos, ss) /\ drawn' = None /\ drawing' = drawing /\ pos < Len(ctx.sets)
    BY <1>13 DEF InsertSet, Sets
  <2>2. pos \in Nat
    OBVIOUS
  <2> QED
    BY <1>1, <1>3, <2>1, <2>2, InsertRight
<1>14. ASSUME NEW pos \in 0 .. MaxDepth, RemoveSet(pos) PROVE StateRight'
  <2>1. ctx' = RemoveStateSet(ctx, pos) /\ drawn' = None /\ drawing' = drawing
    BY <1>14 DEF RemoveSet, Sets
  <2>2. pos \in Nat
    OBVIOUS
  <2> QED
    BY <1>1, <1>3, <2>1, <2>2, InsertRight
<1>15. ASSUME NEW leaf \in StateSets \cup {NoStateSet}, RenderLeaf(leaf) PROVE StateRight'
  <2>0. PICK x : ctx' = ApplyBuiltInUniforms(Apply(ApplyModelViewMatrix(ctx, x), leaf))
    BY <1>15 DEF RenderLeaf
  <2> DEFINE b == ApplyModelViewMatrix(ctx, x)
             d == Apply(b, leaf)
             e == ApplyBuiltInUniforms(d)
  <2>1. ctx' = e /\ drawn' = leaf /\ drawing' = TRUE
    BY <1>15, <2>0 DEF RenderLeaf
  <2>2. Aside(ctx, b)
    BY <1>0, <1>1, AsideParts
  <2> HIDE DEF b
  <2>3. Good(b)
    BY <1>9, <1>1, <2>2, AsideGood
  <2>4. /\ Good(d) /\ TextureDrawn(d, leaf)
        /\ \A m \in Modes : d.modeMap[m].last = ModeAsked(d, m, leaf)
    BY <2>3, ApplyRight
  <2> HIDE DEF d
  <2>5. Aside(d, e)
    BY <1>0, <2>4, AsideParts
  <2> HIDE DEF e
  <2>6. Good(e) /\ TextureDrawn(e, leaf)
    BY <1>0, <2>4, <2>5, AsideGood
  <2>7. \A m \in Modes : e.modeMap[m].last = ModeAsked(e, m, leaf)
    BY <1>0, <2>4, <2>5, AsideGood DEF Aside
  <2>8. LeafDrawn(e, leaf)
    BY <2>6, <2>7 DEF LeafDrawn
  <2> QED
    BY <2>1, <2>6, <2>8 DEF StateRight
<1>16. CASE EndFrame
  <2> DEFINE b == PopAllStateSets(ctx)
             d == Apply(b, NoStateSet)
  <2>1. ctx' = d /\ drawn' = None
    BY <1>16 DEF EndFrame
  <2>2. Good(b) /\ b.sets = << >>
    BY <1>1, PopAllRight
  <2> HIDE DEF b
  <2>3. Good(d) /\ Unbound(d)
    BY <2>2, EndRight
  <2> HIDE DEF d
  <2> QED
    BY <1>4, <2>1, <2>3
<1>17. ASSUME NEW m \in Modes, NEW on \in BOOLEAN, NEW told \in {"applyMode", "value", "unknown"},
              SwitchMode(m, on, told)
       PROVE  StateRight'
  <2> DEFINE d == ApplyMode([ctx EXCEPT !.modeMap[m] = Touched(@)], m, on)
  <2>1. /\ ctx' = d \/ \E last : ctx' = HaveAppliedMode(ctx, m, on, last)
        /\ drawn' = None /\ drawing' = drawing
    BY <1>17 DEF SwitchMode, Other
  <2>2. Restacked(ctx, d) /\ \A last : Restacked(ctx, HaveAppliedMode(ctx, m, on, last))
    BY <1>1, SwitchRight
  <2> HIDE DEF d
  <2> QED
    BY <1>3, <2>1, <2>2
<1>18. ASSUME NEW t \in Textures \ OneDimensional, NEW s \in Sizes, CopyTexture(t, s) PROVE StateRight'
  <2> DEFINE d == [CopyTexImage2D(ctx, t, s) EXCEPT
                     !.attrMap["TEXTURE"].last = t, !.attrMap["TEXTURE"].changed = TRUE]
  <2>1. ctx' = d /\ drawn' = None /\ drawing' = drawing /\ drawing
    BY <1>18 DEF CopyTexture, Other
  <2>2. Good(d)
    BY <1>1, CopyingRight
  <2> HIDE DEF d
  <2> QED
    BY <1>2, <2>1, <2>2
<1>19. CASE DirtyAll
  <2>1. PICK on \in [Modes -> BOOLEAN] : ctx' = DirtyState(ctx, on) /\ drawn' = None
    BY <1>19 DEF DirtyAll, Other
  <2> DEFINE d == DirtyState(ctx, on)
  <2>2. Good(d) /\ Unbound(d)
    BY <1>1, DirtyRight
  <2> HIDE DEF d
  <2> QED
    BY <1>4, <2>1, <2>2 DEF d
<1>20. CASE Change
  <2>1. ASSUME NEW sh \in Shaders, EditShader(sh) PROVE StateRight'
    BY <1>7, <2>1, ChangesOnly DEF EditShader
  <2>2. CASE AddOptional
    BY <1>7, <2>2, ChangesOnly DEF AddOptional
  <2>3. CASE RemoveOptional
    BY <1>7, <2>3, ChangesOnly DEF RemoveOptional
  <2>4. ASSUME NEW p \in Programs, CompileObjects(p) PROVE StateRight'
    BY <1>7, <2>4, ChangesOnly DEF CompileObjects
  <2>5. ASSUME NEW p \in Programs, ReleaseObjects(p) PROVE StateRight'
    BY <1>7, <2>5, ChangesOnly DEF ReleaseObjects
  <2>6. ASSUME NEW u \in Uniforms, SetUniform(u) PROVE StateRight'
    BY <1>7, <2>6, ChangesOnly DEF SetUniform
  <2>7. ASSUME NEW t \in Textures, UnRefImage(t) PROVE StateRight'
    BY <1>7, <2>7, ChangesOnly DEF UnRefImage
  <2>8. ASSUME NEW im \in Images, NEW s \in Sizes, EditImage(im, s) PROVE StateRight'
    <3>1. OnlyIn(ctx, DirtyImage(ctx, im, s), {"images"}) /\ ObjectsRight(DirtyImage(ctx, im, s))
      BY <1>9, DirtyImageRight
    <3> QED
      BY <1>8, <2>8, <3>1, OnlyInMore DEF EditImage
  <2>9. ASSUME NEW t \in Textures, NEW im \in Images, ChangeImage(t, im) PROVE StateRight'
    <3>1. OnlyIn(ctx, SetImage(ctx, t, im), {"image", "seen"}) /\ ObjectsRight(SetImage(ctx, t, im))
      BY <1>9, SetImageRight
    <3> QED
      BY <1>8, <2>9, <3>1, OnlyInMore DEF ChangeImage
  <2>10. ASSUME NEW t \in Textures, ReleaseObject(t) PROVE StateRight'
    <3>1. OnlyIn(ctx, ReleaseTexture(ctx, t), {"object"}) /\ ObjectsRight(ReleaseTexture(ctx, t))
      BY <1>9, ReleaseRight
    <3> QED
      BY <1>8, <2>10, <3>1, OnlyInMore DEF ReleaseObject
  <2>11. CASE Reset
    BY <1>1, <1>4, <1>6, <2>11, ResetRight DEF Reset
  <2> QED
    BY <1>20, <2>1, <2>2, <2>3, <2>4, <2>5, <2>6, <2>7, <2>8, <2>9, <2>10, <2>11 DEF Change
<1> QED
  BY <1>10, <1>11, <1>12, <1>13, <1>14, <1>15, <1>16, <1>17, <1>18, <1>19, <1>20 DEF Next

\* Whatever is pushed, popped, inserted, removed, left on or off past State,
\* copied, reset or changed between frames, and however many state sets,
\* modes and textures there are: when a leaf is drawn State believes of
\* every mode what the state sets above it ask for, and OpenGL has it unless
\* State was misled about that mode since it last passed it on.  The texture
\* is the one they ask for, and shows its image as it is.
THEOREM LeavesDrawnAsAsked == Spec => []DrawnAsAsked
<1>1. Init => StateRight
  BY InitRight
<1>2. StateRight /\ [Next]_vars => StateRight'
  BY NextRight
<1>3. StateRight => DrawnAsAsked
  BY RightIsAsked
<1> QED
  BY <1>1, <1>2, <1>3, PTL DEF Spec

-----------------------------------------------------------------------------
(* Programs                                                                 *)

\* What a stage and a program are linked from under the defines ds: the
\* sources as they are now, of the stages whose requirements ds meets.
ObjectsFor(c, group, ds) ==
    IF \E sh \in group : ~(Requires[sh] \subseteq ds) THEN {}
    ELSE {[shader  |-> sh, defs |-> ds \cap UNION {Imports[x][c.text[x]] : x \in group},
           version |-> c.text[sh]] : sh \in group}

ImageFor(c, p, ds) == UNION {ObjectsFor(c, Group(c, p, stage), ds) : stage \in Stages}

\* The defines that the stacks have ON.
Tops(vec) == {d \in Defines : vec[d] # << >> /\ Last(vec[d]).value = "on"}

\* The texts, the shaders of the programs, and what those ask about.
TextsRight(c) ==
    /\ c.text \in [Shaders -> 0 .. MaxEdits]
    /\ c.list \in [Programs -> SUBSET Shaders]
    /\ c.defines = [p \in Programs |-> ShaderDefines(c, p)]
    /\ \A p \in BuiltIn : c.list[p] = ShadersOf[p] /\ \A sh \in ShadersOf[p] : c.text[sh] = 0

\* What is compiled of a shader is its text as it is, or marked.
CompiledRight(c) == \A k \in DOMAIN c.pcs : c.pcs[k] \in {Stale, c.text[k[1]]}

\* What is linked, and not marked, is linked from the texts as they are.
PCPFields == {"needsLink", "isLinked", "image", "uniforms"}

LinkRight(c, k) ==
    /\ DOMAIN c.pcp[k] = PCPFields
    /\ c.pcp[k].isLinked => ~c.pcp[k].needsLink
    /\ ~c.pcp[k].needsLink => /\ c.pcp[k].image = ImageFor(c, k[1], k[2])
                              /\ c.pcp[k].isLinked <=> Linkable(c.pcp[k].image)

LinkedRight(c) ==
    /\ DOMAIN c.pcp \subseteq Programs \X SUBSET Defines
    /\ \A k \in DOMAIN c.pcp : LinkRight(c, k)

\* What State remembers of its define stacks, once it looked.
DefinesCached(c) ==
    /\ DOMAIN c.defMap = {"vec", "changed", "current"}
    /\ DOMAIN c.defMap.vec = Defines
    /\ ~c.defMap.changed => c.defMap.current = Tops(c.defMap.vec)

Built(c) == DOMAIN c = Fields /\ TextsRight(c) /\ CompiledRight(c) /\ LinkedRight(c) /\ DefinesCached(c)

\* The image depends on the texts and the list of shaders only.
LEMMA ImageFrame ==
  ASSUME NEW c, NEW d, d.text = c.text, d.list = c.list
  PROVE  \A p, ds : ImageFor(d, p, ds) = ImageFor(c, p, ds)
<1>1. \A p, stage : Group(d, p, stage) = Group(c, p, stage)
  BY DEF Group
<1>2. \A group, ds : ObjectsFor(d, group, ds) = ObjectsFor(c, group, ds)
  BY DEF ObjectsFor
<1> QED
  BY <1>1, <1>2 DEF ImageFor

\* What is settled of the programs stays, and there may be more of them.
Later(c, d) ==
    /\ DOMAIN c.pcp \subseteq DOMAIN d.pcp
    /\ \A k \in DOMAIN c.pcp : ~c.pcp[k].needsLink => d.pcp[k] = c.pcp[k]

\* One change after another.
LEMMA LaterBoth ==
  ASSUME NEW c, NEW d, NEW e, Later(c, d), Later(d, e)
  PROVE  Later(c, e)
BY DEF Later

\* updateCurrentDefines and the entry that getPCP makes.
LEMMA GetPCPRight ==
  ASSUME NEW c, Built(c), NEW p \in Programs
  PROVE  LET d == GetPCP(c, p)
             key == PCPKey(d, p)
         IN /\ OnlyIn(c, d, {"defMap", "pcp"}) /\ Built(d) /\ Later(c, d)
            /\ d.defMap.vec = c.defMap.vec /\ ~d.defMap.changed
            /\ key = <<p, Tops(c.defMap.vec) \cap c.defines[p]>>
            /\ key \in DOMAIN d.pcp
<1> DEFINE b == UpdateCurrentDefines(c)
           key == PCPKey(b, p)
           d == NewPCP(b, key)
           vec == c.defMap.vec
<1>1. /\ OnlyIn(c, b, {"defMap"}) /\ ~b.defMap.changed /\ b.defMap.vec = vec
      /\ b.defMap.current = Tops(vec) /\ DOMAIN b.defMap = {"vec", "changed", "current"}
  <2>1. CASE ~c.defMap.changed
    BY <2>1 DEF UpdateCurrentDefines, OnlyIn, Built, DefinesCached
  <2>2. CASE c.defMap.changed
    <3> DEFINE cur == {x \in Defines : LET v == c.defMap.vec[x] IN v # << >> /\ v[Len(v)].value = "on"}
               e == [c EXCEPT !.defMap.changed = FALSE, !.defMap.current = cur]
    <3>1. b = e
      BY <2>2 DEF UpdateCurrentDefines
    <3>2. cur = Tops(vec)
      BY DEF Tops, Last
    <3> HIDE DEF cur
    <3>3. OnlyIn(c, e, {"defMap"})
      BY DEF OnlyIn
    <3>4. /\ ~e.defMap.changed /\ e.defMap.vec = vec /\ e.defMap.current = cur
          /\ DOMAIN e.defMap = {"vec", "changed", "current"}
      BY DEF Built, DefinesCached, Fields
    <3> QED
      BY <3>1, <3>2, <3>3, <3>4
  <2> QED
    BY <2>1, <2>2
<1> HIDE DEF b
<1>2. /\ DOMAIN b = Fields /\ b.text = c.text /\ b.list = c.list /\ b.defines = c.defines
      /\ b.pcs = c.pcs /\ b.pcp = c.pcp
  BY <1>1 DEF OnlyIn, Built, Fields
<1>3. key = <<p, Tops(vec) \cap c.defines[p]>>
  BY <1>1, <1>2 DEF PCPKey, GetDefineString
<1>4. key \in Programs \X SUBSET Defines
  BY <1>3 DEF Tops
<1> HIDE DEF key
<1>5. OnlyIn(b, d, {"pcp"}) /\ d.defMap = b.defMap
  BY <1>2 DEF NewPCP, OnlyIn, Fields
<1>6. /\ DOMAIN d.pcp = DOMAIN b.pcp \cup {key}
      /\ \A k \in DOMAIN b.pcp : d.pcp[k] = b.pcp[k]
      /\ key \notin DOMAIN b.pcp =>
           d.pcp[key] = [needsLink |-> TRUE, isLinked |-> FALSE, image |-> {}, uniforms |-> NoUniforms(key[1])]
  <2>1. CASE key \in DOMAIN b.pcp
    BY <2>1 DEF NewPCP
  <2>2. CASE key \notin DOMAIN b.pcp
    <3> DEFINE m == [k \in DOMAIN b.pcp \cup {key} |->
                            IF k # key THEN b.pcp[k]
                            ELSE [needsLink |-> TRUE, isLinked |-> FALSE,
                                  image |-> {}, uniforms |-> NoUniforms(key[1])]]
    <3>1. d = [b EXCEPT !.pcp = m]
      BY <2>2 DEF NewPCP
    <3>2. d.pcp = m
      BY <1>2, <3>1 DEF Fields
    <3> HIDE DEF d
    <3> QED
      BY <2>2, <3>2
  <2> QED
    BY <2>1, <2>2
<1>7. GetPCP(c, p) = d
  BY DEF GetPCP, MakePCP, b, key
<1> HIDE DEF d
<1>8. DOMAIN d = Fields /\ d.text = c.text /\ d.list = c.list /\ d.defines = c.defines /\ d.pcs = c.pcs
  BY <1>2, <1>5 DEF OnlyIn, Fields
<1>9. OnlyIn(c, d, {"defMap", "pcp"})
  BY <1>1, <1>5, OnlyInMore, OnlyInBoth
<1>10. Later(c, d)
  BY <1>2, <1>6 DEF Later
<1>11. ASSUME NEW k \in DOMAIN d.pcp PROVE LinkRight(d, k)
  <2>1. CASE k \in DOMAIN c.pcp
    <3>1. d.pcp[k] = c.pcp[k] /\ LinkRight(c, k)
      BY <1>2, <1>6, <2>1 DEF Built, LinkedRight
    <3>2. ImageFor(d, k[1], k[2]) = ImageFor(c, k[1], k[2])
      BY <1>8, ImageFrame
    <3> QED
      BY <3>1, <3>2 DEF LinkRight
  <2>2. CASE k = key /\ key \notin DOMAIN c.pcp
    <3>1. d.pcp[k] = [needsLink |-> TRUE, isLinked |-> FALSE, image |-> {}, uniforms |-> NoUniforms(key[1])]
      BY <1>2, <1>6, <2>2
    <3> DEFINE u == NoUniforms(key[1])
    <3> HIDE DEF u
    <3>2. d.pcp[k] = [needsLink |-> TRUE, isLinked |-> FALSE, image |-> {}, uniforms |-> u]
      BY <3>1 DEF u
    <3> QED
      BY <3>2 DEF LinkRight, PCPFields
  <2> QED
    BY <1>2, <1>6, <2>1, <2>2
<1>12. LinkedRight(d)
  BY <1>2, <1>4, <1>6, <1>11 DEF LinkedRight, Built
<1>13. TextsRight(d)
  <2>1. \A q : ShaderDefines(d, q) = ShaderDefines(c, q)
    BY <1>8 DEF ShaderDefines
  <2> QED
    BY <1>8, <2>1 DEF TextsRight, Built
<1>14. CompiledRight(d) /\ DefinesCached(d)
  BY <1>1, <1>5, <1>8 DEF CompiledRight, DefinesCached, Built
<1>15. PCPKey(d, p) = key
  BY <1>2, <1>5, <1>8 DEF PCPKey, GetDefineString, key
<1>16. Built(d)
  BY <1>8, <1>12, <1>13, <1>14 DEF Built
<1> QED
  BY <1>1, <1>3, <1>5, <1>6, <1>7, <1>9, <1>10, <1>15, <1>16


\* The compiled form that a stage of a single shader is linked from.
StageCompiled(c, group) ==
    \A sh \in group :
      group = {sh} /\ Requires[sh] \subseteq c.defMap.current =>
        LET key == <<sh, StageDefines(c, group)>>
        IN key \in DOMAIN c.pcs /\ c.pcs[key] = c.text[sh]

\* mergeShadersForGLES compiles it where it is not; what is compiled stays so.
LEMMA MergeStageRight ==
  ASSUME NEW c, DOMAIN c = Fields, CompiledRight(c), NEW group
  PROVE  LET d == MergeStage(c, group)
         IN /\ OnlyIn(c, d, {"pcs"}) /\ CompiledRight(d)
            /\ StageCompiled(d, group)
            /\ \A other : StageCompiled(c, other) => StageCompiled(d, other)
<1> DEFINE sh == CHOOSE x \in group : TRUE
           key == <<sh, GetDefineString(c, Imports[sh][c.text[sh]])>>
           m == [k \in DOMAIN c.pcs \cup {key} |-> IF k = key THEN c.text[key[1]] ELSE c.pcs[k]]
           d == MergeStage(c, group)
<1>0. key[1] = sh
  OBVIOUS
<1>1. /\ OnlyIn(c, d, {"pcs"})
      /\ \/ d.pcs = c.pcs
         \/ d.pcs = m
  <2>1. d = c \/ d = [c EXCEPT !.pcs = m]
    BY DEF MergeStage, CompileShader, CompilePCS
  <2> HIDE DEF d, m
  <2> QED
    BY <2>1 DEF OnlyIn, Fields
<1>2. ASSUME NEW x, group = {x}, Requires[x] \subseteq c.defMap.current
      PROVE  /\ key = <<x, StageDefines(c, group)>>
             /\ key \in DOMAIN d.pcs /\ d.pcs[key] = c.text[x]
  <2>1. Cardinality(group) = 1 /\ sh = x
    BY <1>2, FS_Singleton
  <2>2. key = <<x, StageDefines(c, group)>>
    BY <1>2, <2>1 DEF StageDefines
  <2>3. d = CompilePCS(c, key)
    BY <1>2, <2>1 DEF MergeStage, CompileShader, SupportsRequirements
  <2>4. CASE key \in DOMAIN c.pcs /\ c.pcs[key] # Stale
    <3>1. c.pcs[key] = c.text[x]
      BY <1>0, <2>1, <2>4 DEF CompiledRight
    <3> QED
      BY <2>2, <2>3, <2>4, <3>1 DEF CompilePCS
  <2>5. CASE ~(key \in DOMAIN c.pcs /\ c.pcs[key] # Stale)
    <3>1. d = [c EXCEPT !.pcs = m]
      BY <2>3, <2>5 DEF CompilePCS
    <3>2. d.pcs = m
      BY <3>1 DEF Fields
    <3>3. key \in DOMAIN m /\ m[key] = c.text[key[1]]
      OBVIOUS
    <3> HIDE DEF d, m
    <3> QED
      BY <1>0, <2>1, <2>2, <3>2, <3>3
  <2> QED
    BY <2>4, <2>5
<1>3. \A k \in DOMAIN c.pcs : k \in DOMAIN d.pcs /\ d.pcs[k] \in {c.pcs[k], c.text[k[1]]}
  <2>1. \A k \in DOMAIN c.pcs : k \in DOMAIN m /\ m[k] \in {c.pcs[k], c.text[k[1]]}
    OBVIOUS
  <2> HIDE DEF d, m
  <2> QED
    BY <1>1, <2>1
<1>4. \A k \in DOMAIN d.pcs : d.pcs[k] \in {Stale, c.text[k[1]]}
  <2>1. \A k \in DOMAIN m : m[k] \in {Stale, c.text[k[1]]}
    BY DEF CompiledRight
  <2> HIDE DEF d, m
  <2> QED
    BY <1>1, <2>1 DEF CompiledRight
<1> HIDE DEF key, d
<1>5. DOMAIN d = Fields /\ d.text = c.text /\ d.defMap = c.defMap
  BY <1>1 DEF OnlyIn, Fields
<1>6. CompiledRight(d)
  BY <1>4, <1>5 DEF CompiledRight
<1>7. \A other : StageDefines(d, other) = StageDefines(c, other)
  BY <1>5 DEF StageDefines, GetDefineString
<1>8. StageCompiled(d, group)
  BY <1>2, <1>5, <1>7 DEF StageCompiled
<1>9. ASSUME NEW other, StageCompiled(c, other) PROVE StageCompiled(d, other)
  <2> SUFFICES ASSUME NEW x \in other, other = {x}, Requires[x] \subseteq c.defMap.current
               PROVE  LET k == <<x, StageDefines(c, other)>>
                      IN k \in DOMAIN d.pcs /\ d.pcs[k] = c.text[x]
    BY <1>5, <1>7 DEF StageCompiled
  <2> DEFINE k == <<x, StageDefines(c, other)>>
  <2>1. k \in DOMAIN c.pcs /\ c.pcs[k] = c.text[x] /\ k[1] = x
    BY <1>9 DEF StageCompiled
  <2> HIDE DEF k
  <2>2. k \in DOMAIN d.pcs /\ d.pcs[k] = c.text[x]
    BY <1>3, <2>1
  <2> QED
    BY <2>2 DEF k
<1> QED
  BY <1>1, <1>6, <1>8, <1>9 DEF d

\* From there the link takes what a program is to be linked from.
LEMMA ProgramImageIs ==
  ASSUME NEW c, TextsRight(c), NEW p \in Programs,
         \A stage \in Stages : StageCompiled(c, Group(c, p, stage))
  PROVE  ProgramImage(c, p) = ImageFor(c, p, c.defMap.current \cap c.defines[p])
<1> DEFINE cur == c.defMap.current
           ds == cur \cap c.defines[p]
<1>1. \A sh \in c.list[p] : Requires[sh] \subseteq c.defines[p] /\ Imports[sh][c.text[sh]] \subseteq c.defines[p]
  BY DEF TextsRight, ShaderDefines
<1>2. ASSUME NEW stage \in Stages
      PROVE  StageObject(c, Group(c, p, stage)) = ObjectsFor(c, Group(c, p, stage), ds)
  <2> DEFINE group == Group(c, p, stage)
             defs == StageDefines(c, group)
  <2>1. group \subseteq c.list[p]
    BY DEF Group
  <2> HIDE DEF group
  <2>2. defs = ds \cap UNION {Imports[x][c.text[x]] : x \in group}
    <3>1. UNION {Imports[x][c.text[x]] : x \in group} \subseteq c.defines[p]
      BY <1>1, <2>1
    <3> QED
      BY <3>1 DEF StageDefines, GetDefineString
  <2>3. \A sh \in group : Requires[sh] \subseteq cur <=> Requires[sh] \subseteq ds
    BY <1>1, <2>1
  <2>4. CASE \E sh \in group : ~(Requires[sh] \subseteq cur)
    BY <2>3, <2>4 DEF StageObject, ObjectsFor, SupportsRequirements, group
  <2>5. CASE \A sh \in group : Requires[sh] \subseteq cur
    <3>1. \A sh \in group : group = {sh} => c.pcs[<<sh, defs>>] = c.text[sh]
      BY <2>5 DEF StageCompiled, group
    <3>2. StageObject(c, group) =
            {[shader |-> sh, defs |-> defs,
              version |-> IF group = {sh} THEN c.pcs[<<sh, defs>>] ELSE c.text[sh]] : sh \in group}
      BY <2>5 DEF StageObject, SupportsRequirements
    <3>3. ObjectsFor(c, group, ds) =
            {[shader |-> sh, defs |-> defs, version |-> c.text[sh]] : sh \in group}
      BY <2>2, <2>3, <2>5 DEF ObjectsFor
    <3> HIDE DEF defs
    <3> QED
      BY <3>1, <3>2, <3>3 DEF group
  <2> QED
    BY <2>4, <2>5
<1>3. ProgramImage(c, p) = ImageFor(c, p, ds)
  BY <1>2 DEF ProgramImage, ImageFor
<1> QED
  BY <1>3


\* What is built stays so where only what is compiled changes.
LEMMA BuiltCompiled ==
  ASSUME NEW c, NEW d, Built(c), OnlyIn(c, d, {"pcs"}), CompiledRight(d)
  PROVE  Built(d) /\ Later(c, d)
<1>1. /\ DOMAIN d = Fields /\ d.text = c.text /\ d.list = c.list /\ d.defines = c.defines
      /\ d.defMap = c.defMap /\ d.pcp = c.pcp
  BY DEF OnlyIn, Built, Fields
<1>2. TextsRight(d)
  <2>1. \A q : ShaderDefines(d, q) = ShaderDefines(c, q)
    BY <1>1 DEF ShaderDefines
  <2> QED
    BY <1>1, <2>1 DEF TextsRight, Built
<1>3. LinkedRight(d)
  BY <1>1, ImageFrame DEF Built, LinkedRight, LinkRight
<1>4. DefinesCached(d)
  BY <1>1 DEF Built, DefinesCached
<1> QED
  BY <1>1, <1>2, <1>3, <1>4 DEF Built, Later

\* linkProgram.
LEMMA LinkProgramRight ==
  ASSUME NEW c, Built(c), NEW p \in Programs, ~c.defMap.changed,
         \A stage \in Stages : StageCompiled(c, Group(c, p, stage)),
         PCPKey(c, p) \in DOMAIN c.pcp
  PROVE  LET d == LinkProgram(c, PCPKey(c, p))
         IN /\ OnlyIn(c, d, {"pcp"}) /\ Built(d) /\ Later(c, d)
            /\ PCPKey(c, p) \in DOMAIN d.pcp /\ ~d.pcp[PCPKey(c, p)].needsLink
<1> DEFINE key == PCPKey(c, p)
           d == LinkProgram(c, key)
           image == ProgramImage(c, p)
           linked == [needsLink |-> FALSE, isLinked |-> Linkable(image), image |-> image,
                      uniforms |-> NoUniforms(p)]
<1>0. key = <<p, c.defMap.current \cap c.defines[p]>> /\ key[1] = p
      /\ key[2] = c.defMap.current \cap c.defines[p]
  BY DEF PCPKey, GetDefineString
<1>1. CASE ~c.pcp[key].needsLink
  BY <1>1 DEF LinkProgram, OnlyIn, Later
<1>2. CASE c.pcp[key].needsLink
  <2>1. d = [c EXCEPT !.pcp[key] = linked]
    BY <1>0, <1>2 DEF LinkProgram, LinkImage
  <2> HIDE DEF linked, key
  <2>2. /\ OnlyIn(c, d, {"pcp"}) /\ DOMAIN d = Fields
        /\ d.pcp = [c.pcp EXCEPT ![key] = linked]
    BY <2>1 DEF OnlyIn, Built, Fields
  <2> HIDE DEF d
  <2>3. /\ DOMAIN d.pcp = DOMAIN c.pcp /\ d.pcp[key] = linked
        /\ \A k \in DOMAIN c.pcp : k # key => d.pcp[k] = c.pcp[k]
    BY <2>2 DEF key
  <2>4. /\ d.text = c.text /\ d.list = c.list /\ d.defines = c.defines
        /\ d.defMap = c.defMap /\ d.pcs = c.pcs
    BY <2>2 DEF OnlyIn, Built, Fields
  <2>5. image = ImageFor(c, p, key[2])
    BY <1>0, ProgramImageIs DEF Built
  <2>6. LinkRight(d, key)
    <3> HIDE DEF image
    <3>1. linked.image = image /\ ~linked.needsLink /\ (linked.isLinked <=> Linkable(image))
          /\ DOMAIN linked = PCPFields
      BY DEF linked, PCPFields
    <3>2. ImageFor(d, key[1], key[2]) = ImageFor(c, key[1], key[2])
      BY <2>4, ImageFrame
    <3> QED
      BY <1>0, <2>3, <2>5, <3>1, <3>2 DEF LinkRight
  <2>7. LinkedRight(d)
    <3>1. ASSUME NEW k \in DOMAIN c.pcp, k # key PROVE LinkRight(d, k)
      <4>1. ImageFor(d, k[1], k[2]) = ImageFor(c, k[1], k[2])
        BY <2>4, ImageFrame
      <4> QED
        BY <2>3, <3>1, <4>1 DEF LinkRight, LinkedRight, Built
    <3> QED
      BY <2>3, <2>6, <3>1 DEF LinkedRight, Built
  <2>8. TextsRight(d)
    <3>1. \A q : ShaderDefines(d, q) = ShaderDefines(c, q)
      BY <2>4 DEF ShaderDefines
    <3> QED
      BY <2>4, <3>1 DEF TextsRight, Built
  <2>9. CompiledRight(d) /\ DefinesCached(d)
    BY <2>4 DEF CompiledRight, DefinesCached, Built
  <2>10. Built(d)
    BY <2>2, <2>7, <2>8, <2>9 DEF Built
  <2>11. Later(c, d)
    BY <1>2, <2>3 DEF Later, key
  <2>12. ~d.pcp[key].needsLink
    BY <2>3 DEF linked
  <2> QED
    BY <2>2, <2>3, <2>10, <2>11, <2>12 DEF d, key
<1> QED
  BY <1>1, <1>2

\* compileGLObjects: afterwards the program of the defines in force is linked, or failed to.
LEMMA CompileRight ==
  ASSUME NEW c, Built(c), NEW p \in Programs, c.list[p] # {}
  PROVE  LET d == CompileProgram(c, p)
             key == <<p, Tops(c.defMap.vec) \cap c.defines[p]>>
         IN /\ OnlyIn(c, d, {"defMap", "pcs", "pcp"}) /\ Built(d) /\ Later(c, d)
            /\ d.defMap.vec = c.defMap.vec /\ ~d.defMap.changed
            /\ PCPKey(d, p) = key
            /\ key \in DOMAIN d.pcp /\ ~d.pcp[key].needsLink
<1> DEFINE a == GetPCP(c, p)
           m == MergeStage(a, Group(a, p, "vertex"))
           n == MergeStage(m, Group(a, p, "fragment"))
           d == LinkProgram(n, PCPKey(a, p))
           key == <<p, Tops(c.defMap.vec) \cap c.defines[p]>>
<1>1. /\ OnlyIn(c, a, {"defMap", "pcp"}) /\ Built(a) /\ Later(c, a)
      /\ a.defMap.vec = c.defMap.vec /\ ~a.defMap.changed
      /\ PCPKey(a, p) = key /\ key \in DOMAIN a.pcp
  BY GetPCPRight
<1>2. CompileProgram(c, p) = d
  BY DEF CompileProgram, CompilePCP, MergeShadersForGLES
<1> HIDE DEF a
<1>3. DOMAIN a = Fields /\ CompiledRight(a)
  BY <1>1 DEF Built
<1>4. OnlyIn(a, m, {"pcs"}) /\ CompiledRight(m) /\ StageCompiled(m, Group(a, p, "vertex"))
  BY <1>3, MergeStageRight
<1> HIDE DEF m
<1>5. DOMAIN m = Fields
  BY <1>3, <1>4 DEF OnlyIn
<1>6. /\ OnlyIn(m, n, {"pcs"}) /\ CompiledRight(n) /\ StageCompiled(n, Group(a, p, "fragment"))
      /\ StageCompiled(n, Group(a, p, "vertex"))
  BY <1>4, <1>5, MergeStageRight
<1> HIDE DEF n
<1>7. OnlyIn(a, n, {"pcs"})
  BY <1>4, <1>6, OnlyInBoth
<1>8. Built(n) /\ Later(a, n)
  BY <1>1, <1>6, <1>7, BuiltCompiled
<1>9. /\ n.list = a.list /\ n.defMap = a.defMap /\ n.defines = a.defines /\ n.pcp = a.pcp
      /\ DOMAIN n = Fields
  BY <1>3, <1>7 DEF OnlyIn, Fields
<1>10. \A stage \in Stages : StageCompiled(n, Group(n, p, stage))
  <2>1. \A stage : Group(n, p, stage) = Group(a, p, stage)
    BY <1>9 DEF Group
  <2> QED
    BY <1>6, <2>1 DEF Stages
<1>11. PCPKey(n, p) = PCPKey(a, p)
  BY <1>9 DEF PCPKey, GetDefineString
<1>12. OnlyIn(n, d, {"pcp"}) /\ Built(d) /\ Later(n, d) /\ key \in DOMAIN d.pcp /\ ~d.pcp[key].needsLink
  <2> HIDE DEF key
  <2> QED
    BY <1>1, <1>8, <1>9, <1>10, <1>11, LinkProgramRight
<1> HIDE DEF d
<1>13. d.defMap = n.defMap /\ d.defines = n.defines
  BY <1>9, <1>12 DEF OnlyIn, Fields
<1>14. OnlyIn(c, d, {"defMap", "pcs", "pcp"})
  <2> DEFINE G == {"defMap", "pcs", "pcp"}
  <2>1. OnlyIn(c, a, G) /\ OnlyIn(a, n, G) /\ OnlyIn(n, d, G)
    BY <1>1, <1>7, <1>12, OnlyInMore
  <2> HIDE DEF G
  <2>2. OnlyIn(c, d, G)
    BY <2>1, OnlyInBoth
  <2> QED
    BY <2>2 DEF G
<1>15. Later(c, d)
  BY <1>1, <1>8, <1>12, LaterBoth
<1>16. PCPKey(d, p) = key
  BY <1>1, <1>9, <1>13 DEF PCPKey, GetDefineString
<1> HIDE DEF key
<1> QED
  BY <1>1, <1>2, <1>9, <1>12, <1>13, <1>14, <1>15, <1>16 DEF key


\* A program that has no shaders, or that failed to link under some defines.
NotUsable(c, p) ==
    \/ c.list[p] = {}
    \/ \E k \in DOMAIN c.pcp : k[1] = p /\ ~c.pcp[k].needsLink /\ ~c.pcp[k].isLinked

\* The program that OpenGL uses, as State remembers it.
UsedNow(c) ==
    /\ c.last = c.used
    /\ c.last \in DOMAIN c.pcp /\ c.pcp[c.last].isLinked

\* Program::apply: it is used under the defines in force, or it cannot be.
ProgramApplied(c, d, p) ==
    /\ OnlyIn(c, d, ProgramFields) /\ Built(d) /\ Later(c, d)
    /\ d.defMap.vec = c.defMap.vec
    /\ IF d.last = None THEN d.used = None /\ NotUsable(d, p)
       ELSE /\ UsedNow(d) /\ ~d.defMap.changed
            /\ d.last = <<p, Tops(d.defMap.vec) \cap d.defines[p]>>

\* apply() of a program, whole: it is used as its sources and the defines want it,
\* or it cannot be and nothing is used.
LEMMA ApplyProgramRight ==
  ASSUME NEW c, Built(c), NEW p \in Programs
  PROVE  ProgramApplied(c, ApplyProgram(c, p), p)
<1>1. CASE c.list[p] = {}
  <2> DEFINE d == [c EXCEPT !.used = None, !.last = None]
  <2>1. ApplyProgram(c, p) = d
    BY <1>1 DEF ApplyProgram, UseProgram
  <2>2. /\ DOMAIN d = Fields /\ d.used = None /\ d.last = None
        /\ d.text = c.text /\ d.list = c.list /\ d.defines = c.defines
        /\ d.pcs = c.pcs /\ d.pcp = c.pcp /\ d.defMap = c.defMap
    BY DEF Built, Fields
  <2>3. OnlyIn(c, d, ProgramFields)
    BY DEF OnlyIn, ProgramFields
  <2> HIDE DEF d
  <2>4. Built(d)
    BY <2>2, ImageFrame
    DEF Built, TextsRight, ShaderDefines, CompiledRight, LinkedRight, LinkRight, DefinesCached
  <2> QED
    BY <1>1, <2>1, <2>2, <2>3, <2>4 DEF ProgramApplied, Later, NotUsable
<1>2. CASE c.list[p] # {}
  <2> DEFINE a == GetPCP(c, p)
             key == PCPKey(a, p)
             b == IF a.pcp[key].needsLink THEN CompileProgram(a, p) ELSE a
             to == IF b.pcp[key].isLinked THEN key ELSE None
             d == [b EXCEPT !.used = to, !.last = to]
  <2>1. ApplyProgram(c, p) = d
    BY <1>2 DEF ApplyProgram, UseCompiled, UseIfLinked, UseProgram
  <2>2. /\ OnlyIn(c, a, {"defMap", "pcp"}) /\ Built(a) /\ Later(c, a)
        /\ a.defMap.vec = c.defMap.vec /\ ~a.defMap.changed
        /\ key = <<p, Tops(c.defMap.vec) \cap c.defines[p]>> /\ key \in DOMAIN a.pcp
    BY GetPCPRight
  <2> HIDE DEF a, key
  <2>3. DOMAIN c = Fields /\ DOMAIN a = Fields /\ a.list = c.list /\ a.defines = c.defines
    BY <2>2 DEF OnlyIn, Built, Fields
  <2>4. OnlyIn(a, b, {"defMap", "pcs", "pcp"}) /\ Built(b) /\ Later(a, b)
        /\ b.defMap.vec = a.defMap.vec /\ ~b.defMap.changed
        /\ key \in DOMAIN b.pcp /\ ~b.pcp[key].needsLink
    <3>1. CASE ~a.pcp[key].needsLink
      BY <2>2, <3>1 DEF OnlyIn, Later
    <3>2. CASE a.pcp[key].needsLink
      <4>1. b = CompileProgram(a, p) /\ a.list[p] # {}
        BY <1>2, <2>3, <3>2
      <4> HIDE DEF b
      <4> QED
        BY <2>2, <2>3, <4>1, CompileRight
    <3> QED
      BY <3>1, <3>2
  <2> HIDE DEF b, to
  <2>5. DOMAIN b = Fields /\ b.list = c.list /\ b.defines = c.defines
    BY <2>3, <2>4 DEF OnlyIn, Fields
  <2>6. /\ DOMAIN d = Fields /\ d.used = to /\ d.last = to
        /\ d.text = b.text /\ d.list = b.list /\ d.defines = b.defines
        /\ d.pcs = b.pcs /\ d.pcp = b.pcp /\ d.defMap = b.defMap
    BY <2>5 DEF Fields
  <2>7. OnlyIn(b, d, {"used", "last"})
    BY DEF OnlyIn
  <2> HIDE DEF d
  <2>8. Built(d)
    BY <2>4, <2>6, ImageFrame
    DEF Built, TextsRight, ShaderDefines, CompiledRight, LinkedRight, LinkRight, DefinesCached
  <2>9. OnlyIn(c, d, ProgramFields)
    <3>1. OnlyIn(c, a, ProgramFields) /\ OnlyIn(a, b, ProgramFields) /\ OnlyIn(b, d, ProgramFields)
      BY <2>2, <2>4, <2>7, OnlyInMore DEF ProgramFields
    <3> QED
      BY <3>1, OnlyInBoth
  <2>10. Later(c, d)
    BY <2>2, <2>4, <2>6, LaterBoth DEF Later
  <2>11. key # None /\ key[1] = p
    <3>1. key \in Programs \X SUBSET Defines
      BY <2>2, <2>3 DEF Tops
    <3> QED
      BY <2>2, <3>1, StateAssumption
  <2>12. CASE b.pcp[key].isLinked
    <3>1. to = key
      BY <2>12 DEF to
    <3> QED
      BY <2>1, <2>2, <2>4, <2>5, <2>6, <2>8, <2>9, <2>10, <2>11, <2>12, <3>1 DEF ProgramApplied, UsedNow
  <2>13. CASE ~b.pcp[key].isLinked
    <3>1. to = None
      BY <2>13 DEF to
    <3>2. NotUsable(d, p)
      BY <2>4, <2>6, <2>11, <2>13 DEF NotUsable
    <3> QED
      BY <2>1, <2>2, <2>4, <2>6, <2>8, <2>9, <2>10, <3>1, <3>2 DEF ProgramApplied
  <2> QED
    BY <2>12, <2>13
<1> QED
  BY <1>1, <1>2

\* A built-in program can always be used.
LEMMA BuiltInUsable ==
  ASSUME NEW c, Built(c), NEW p \in BuiltIn
  PROVE  ~NotUsable(c, p)
<1>1. /\ c.list[p] = ShadersOf[p] /\ \A sh \in ShadersOf[p] : c.text[sh] = 0
      /\ p \in Programs
  BY BuiltInAssumption DEF Built, TextsRight
<1>2. c.list[p] # {}
  BY <1>1, BuiltInAssumption DEF Stages
<1>3. \A stage : Group(c, p, stage) \subseteq ShadersOf[p]
  BY <1>1 DEF Group
<1>4. \A stage, ds : ObjectsFor(c, Group(c, p, stage), ds) =
         {[shader |-> sh, defs |-> ds \cap UNION {Imports[x][c.text[x]] : x \in Group(c, p, stage)},
           version |-> c.text[sh]] : sh \in Group(c, p, stage)}
  BY <1>3, BuiltInAssumption DEF ObjectsFor
<1>5. ASSUME NEW ds PROVE Linkable(ImageFor(c, p, ds))
  <2>1. ASSUME NEW stage \in Stages PROVE \E o \in ImageFor(c, p, ds) : StageOf[o.shader] = stage
    <3>1. PICK sh \in ShadersOf[p] : StageOf[sh] = stage
      BY BuiltInAssumption
    <3>2. sh \in Group(c, p, stage)
      BY <1>1, <3>1 DEF Group
    <3> DEFINE o == [shader |-> sh, defs |-> ds \cap UNION {Imports[x][c.text[x]] : x \in Group(c, p, stage)},
                     version |-> c.text[sh]]
    <3>3. o \in ObjectsFor(c, Group(c, p, stage), ds)
      BY <1>4, <3>2
    <3>4. o.shader = sh
      OBVIOUS
    <3> HIDE DEF o
    <3> QED
      BY <3>1, <3>3, <3>4 DEF ImageFor
  <2>2. ASSUME NEW o \in ImageFor(c, p, ds) PROVE <<o.shader, o.version>> \notin Broken
    <3>1. PICK stage \in Stages : o \in ObjectsFor(c, Group(c, p, stage), ds)
      BY DEF ImageFor
    <3>2. PICK sh \in Group(c, p, stage) : o.shader = sh /\ o.version = c.text[sh]
      BY <1>4, <3>1
    <3> QED
      BY <1>1, <1>3, <3>2, BuiltInAssumption
  <2> QED
    BY <2>1, <2>2 DEF Linkable
<1>6. ASSUME NEW k \in DOMAIN c.pcp, k[1] = p, ~c.pcp[k].needsLink PROVE c.pcp[k].isLinked
  BY <1>5, <1>6 DEF Built, LinkedRight, LinkRight
<1> QED
  BY <1>2, <1>6 DEF NotUsable


-----------------------------------------------------------------------------
(* The stacks of programs, of the other attributes, of uniforms and defines  *)

OtherTypes == Types \ {"TEXTURE"}

\* Every stack holds what the state sets ask for.
AttributeStack(c, type) ==
    /\ DOMAIN c.attrMap[type] = {"vec", "last", "changed", "cloned"}
    /\ StackOf(c.attrMap[type].vec, c.sets, "attributes", type)

StacksRight(c) ==
    /\ c.sets \in Seq(StateSets)
    /\ DOMAIN c.attrMap = Types /\ DOMAIN c.uniMap = UniformNames
    /\ \A type \in OtherTypes : AttributeStack(c, type)
    /\ DOMAIN c.uniMap["u"] = {"vec", "changed"}
    /\ StackOf(c.uniMap["u"].vec, c.sets, "uniforms", "u")

DefineStacks(c) == \A x \in Defines : StackOf(c.defMap.vec[x], c.sets, "defines", x)

Stacked(c) == DOMAIN c = Fields /\ StacksRight(c) /\ DefineStacks(c) /\ DefinesCached(c)

\* A list of defines as the scene's state sets have them.
DefineList(list) == \A x \in Defines : x \in DOMAIN list => list[x] \in EntriesOf("defines", x)

\* The stacks of defines hold entries of the scene.
DefineEntries(c) == \A x \in Defines : c.defMap.vec[x] \in Seq(EntriesOf("defines", x))

PushedOver(vec, list) == [x \in Defines |-> IF x \in DOMAIN list THEN PushEntry(vec[x], list[x]) ELSE vec[x]]
PoppedOff(vec, list)  == [x \in Defines |-> IF x \in DOMAIN list THEN PopEntry(vec[x]) ELSE vec[x]]

\* What remembers the defines is still right, and notices a change.
DefinesKept(c, d) ==
    /\ OnlyIn(c, d, {"defMap"}) /\ DefinesCached(d)
    /\ d.defMap.current = c.defMap.current
    /\ c.defMap.changed => d.defMap.changed

\* pushDefineList says that the defines changed whenever they did.
LEMMA DefinesPush ==
  ASSUME NEW c, DOMAIN c = Fields, DefinesCached(c), DefineEntries(c), NEW list, DefineList(list)
  PROVE  /\ DefinesKept(c, PushDefines(c, list))
         /\ PushDefines(c, list).defMap.vec = PushedOver(c.defMap.vec, list)
<1> DEFINE vec == c.defMap.vec
           new == PushedOver(vec, list)
           raised == c.defMap.changed \/ \E x \in DOMAIN list : vec[x] = << >> \/ Last(new[x]) # Last(vec[x])
           d == PushDefines(c, list)
<1>1. d = [c EXCEPT !.defMap.vec = new, !.defMap.changed = raised]
  BY DEF PushDefines, PushedOver, DefinesCached
<1>2. DOMAIN new = Defines
  BY DEF PushedOver
<1> HIDE DEF new, d
<1>3. ~raised => Tops(new) = Tops(vec)
  <2> SUFFICES ASSUME ~raised, NEW x \in Defines
               PROVE  (new[x] # << >> /\ Last(new[x]).value = "on") <=> (vec[x] # << >> /\ Last(vec[x]).value = "on")
    BY DEF Tops
  <2>1. CASE x \notin DOMAIN list
    BY <2>1 DEF new, PushedOver
  <2>2. CASE x \in DOMAIN list
    <3>1. vec[x] # << >> /\ Last(new[x]) = Last(vec[x])
      BY <2>2
    <3>2. new[x] = PushEntry(vec[x], list[x])
      BY <2>2 DEF new, PushedOver
    <3>3. vec[x] \in Seq(EntriesOf("defines", x)) /\ list[x] \in EntriesOf("defines", x)
      BY <2>2 DEF DefineEntries, DefineList
    <3>4. new[x] # << >>
      BY <3>2, <3>3, PushedIs
    <3> QED
      BY <3>1, <3>4
  <2> QED
    BY <2>1, <2>2
<1> HIDE DEF raised
<1>4. /\ d.defMap.vec = new /\ d.defMap.changed = raised /\ d.defMap.current = c.defMap.current
      /\ DOMAIN d.defMap = {"vec", "changed", "current"} /\ OnlyIn(c, d, {"defMap"})
  BY <1>1 DEF OnlyIn, Fields, DefinesCached
<1>5. c.defMap.changed => raised
  BY DEF raised
<1> QED
  BY <1>2, <1>3, <1>4, <1>5 DEF DefinesKept, DefinesCached, d, new

\* popDefineList does too.
LEMMA DefinesPop ==
  ASSUME NEW c, DOMAIN c = Fields, DefinesCached(c), DefineEntries(c), NEW list
  PROVE  /\ DefinesKept(c, PopDefines(c, list))
         /\ PopDefines(c, list).defMap.vec = PoppedOff(c.defMap.vec, list)
<1> DEFINE vec == c.defMap.vec
           new == PoppedOff(vec, list)
           raised == c.defMap.changed \/ \E x \in DOMAIN list :
                        /\ vec[x] # << >>
                        /\ Len(vec[x]) < 2 \/ vec[x][Len(vec[x]) - 1] # Last(vec[x])
           d == PopDefines(c, list)
<1>1. d = [c EXCEPT !.defMap.vec = new, !.defMap.changed = raised]
  BY DEF PopDefines, PoppedOff, DefinesCached
<1>2. DOMAIN new = Defines
  BY DEF PoppedOff
<1> HIDE DEF new, d
<1>3. ~raised => Tops(new) = Tops(vec)
  <2> SUFFICES ASSUME ~raised, NEW x \in Defines
               PROVE  (new[x] # << >> /\ Last(new[x]).value = "on") <=> (vec[x] # << >> /\ Last(vec[x]).value = "on")
    BY DEF Tops
  <2>1. CASE x \notin DOMAIN list \/ vec[x] = << >>
    BY <2>1 DEF new, PoppedOff, PopEntry
  <2>2. CASE x \in DOMAIN list /\ vec[x] # << >>
    <3> DEFINE v == vec[x]
    <3>1. ~(Len(v) < 2) /\ v[Len(v) - 1] = Last(v)
      BY <2>2
    <3>2. new[x] = Front(v)
      BY <2>2 DEF new, PoppedOff, PopEntry
    <3>3. v \in Seq(EntriesOf("defines", x)) /\ v # << >>
      BY <2>2 DEF DefineEntries
    <3> HIDE DEF v
    <3>4. /\ Front(v) \in Seq(EntriesOf("defines", x)) /\ Len(Front(v)) = Len(v) - 1 /\ Len(v) \in Nat
          /\ \A i \in 1 .. Len(v) - 1 : Front(v)[i] = v[i]
      BY <3>3, FrontIs
    <3>5. Len(v) - 1 \in 1 .. Len(v) - 1 /\ Len(Front(v)) # 0
      BY <3>1, <3>4
    <3>6. Front(v) # << >> /\ Last(Front(v)) = Last(v)
      BY <3>1, <3>4, <3>5 DEF Last
    <3> QED
      BY <3>2, <3>3, <3>6 DEF v
  <2> QED
    BY <2>1, <2>2
<1> HIDE DEF raised
<1>4. /\ d.defMap.vec = new /\ d.defMap.changed = raised /\ d.defMap.current = c.defMap.current
      /\ DOMAIN d.defMap = {"vec", "changed", "current"} /\ OnlyIn(c, d, {"defMap"})
  BY <1>1 DEF OnlyIn, Fields, DefinesCached
<1>5. c.defMap.changed => raised
  BY DEF raised
<1> QED
  BY <1>2, <1>3, <1>4, <1>5 DEF DefinesKept, DefinesCached, d, new

\* A leaf's defines come off again as they went on.
LEMMA DefinesRestored ==
  ASSUME NEW vec, NEW list, DefineList(list), \A x \in Defines : vec[x] \in Seq(EntriesOf("defines", x))
  PROVE  \A x \in Defines : /\ PushedOver(vec, list)[x] \in Seq(EntriesOf("defines", x))
                           /\ PoppedOff(PushedOver(vec, list), list)[x] = vec[x]
<1> TAKE x \in Defines
<1>1. CASE x \in DOMAIN list
  <2>1. list[x] \in EntriesOf("defines", x)
    BY <1>1 DEF DefineList
  <2> QED
    BY <1>1, <2>1, PushedIs DEF PushedOver, PoppedOff
<1>2. CASE x \notin DOMAIN list
  BY <1>2 DEF PushedOver, PoppedOff
<1> QED
  BY <1>1, <1>2


\* Pushing or popping moves the stacks and marks what moved.
Carried(c, d) ==
    /\ Stacked(d) /\ OnlyIn(c, d, StackFields)
    /\ \A type \in OtherTypes :
         LET a == c.attrMap[type]
             b == d.attrMap[type]
         IN b.last = a.last /\ b.cloned = a.cloned /\ (b = a \/ b.changed)
    /\ d.defMap.current = c.defMap.current
    /\ c.defMap.changed => d.defMap.changed

\* One change of the stacks after another.
LEMMA CarriedBoth ==
  ASSUME NEW c, NEW d, NEW e, Carried(c, d), Carried(d, e)
  PROVE  Carried(c, e)
<1>1. OnlyIn(c, e, StackFields)
  BY OnlyInBoth DEF Carried
<1> QED
  BY <1>1 DEF Carried

\* The defines' stacks hold entries of the scene.
LEMMA EntriesAre ==
  ASSUME NEW c, c.sets \in Seq(StateSets), DefineStacks(c)
  PROVE  DefineEntries(c)
BY StackHas DEF DefineStacks, DefineEntries

\* The defines of a state set are a list that pushDefineList() can read.
LEMMA ListsAre ==
  ASSUME NEW ss \in StateSets
  PROVE  DefineList(ss.defines)
BY DEF DefineList, EntriesOf

\* What happens to the defines depends on them only.
LEMMA DefinesApart ==
  ASSUME NEW c, NEW b, DOMAIN c = Fields, DOMAIN b = Fields, b.defMap = c.defMap, NEW list
  PROVE  /\ PushDefines(b, list).defMap = PushDefines(c, list).defMap
         /\ PopDefines(b, list).defMap = PopDefines(c, list).defMap
BY DEF PushDefines, PopDefines, Fields

\* pushStateSet() puts every entry of the state set on its stack.
LEMMA PushCarries ==
  ASSUME NEW c, Stacked(c), NEW ss \in StateSets
  PROVE  Carried(c, PushStateSet(c, ss))
<1> DEFINE d == PushStateSet(c, ss)
           m == PushDefines(c, ss.defines)
<1>1. /\ OnlyIn(c, d, StackFields) /\ d.sets = Append(c.sets, ss)
      /\ d.attrMap = PushList(c.attrMap, ss.attributes)
      /\ d.uniMap = PushList(c.uniMap, ss.uniforms)
  BY PushIs DEF Stacked
<1>2. d.defMap = m.defMap
  <2> DEFINE b == [c EXCEPT !.sets    = Append(@, ss),
                            !.modeMap = PushModes(@, ss.modes),
                            !.attrMap = PushList(@, ss.attributes),
                            !.uniMap  = PushList(@, ss.uniforms)]
  <2>1. DOMAIN b = Fields /\ DOMAIN c = Fields /\ b.defMap = c.defMap
    BY DEF Stacked
  <2>2. d = PushDefines(b, ss.defines)
    BY DEF PushStateSet
  <2> HIDE DEF b
  <2> QED
    BY <2>1, <2>2, DefinesApart
<1> HIDE DEF d
<1>3. DefinesKept(c, m) /\ m.defMap.vec = PushedOver(c.defMap.vec, ss.defines)
  BY DefinesPush, EntriesAre, ListsAre DEF Stacked, StacksRight
<1> HIDE DEF m
<1>4. DefinesCached(d) /\ d.defMap.current = c.defMap.current /\ (c.defMap.changed => d.defMap.changed)
  BY <1>2, <1>3 DEF DefinesKept, DefinesCached
<1>5. c.sets \in Seq(StateSets) /\ d.sets \in Seq(StateSets)
  BY <1>1, AppendProperties DEF Stacked, StacksRight
<1>6. ASSUME NEW type \in OtherTypes
      PROVE  /\ AttributeStack(d, type)
             /\ LET a == c.attrMap[type]
                    b == d.attrMap[type]
                IN b.last = a.last /\ b.cloned = a.cloned /\ (b = a \/ b.changed)
  <2> DEFINE a == c.attrMap[type]
             b == d.attrMap[type]
  <2>1. /\ type \in DOMAIN c.attrMap /\ DOMAIN a = {"vec", "last", "changed", "cloned"}
        /\ StackOf(a.vec, c.sets, "attributes", type)
    BY DEF Stacked, StacksRight, AttributeStack, OtherTypes
  <2>2. /\ DOMAIN b = DOMAIN a /\ b.last = a.last /\ b.cloned = a.cloned
        /\ IF type \in DOMAIN ss.attributes
           THEN b.changed /\ b.vec = PushEntry(a.vec, ss.attributes[type])
           ELSE b = a
    BY <1>1, <2>1, ListIs
  <2>3. b.vec = Pushed(a.vec, ss, "attributes", type)
    BY <2>2 DEF Pushed
  <2>4. StackOf(b.vec, d.sets, "attributes", type)
    BY <1>1, <1>5, <2>1, <2>3, StackPush
  <2> QED
    BY <2>1, <2>2, <2>4 DEF AttributeStack
<1>7. DOMAIN d.attrMap = Types /\ DOMAIN d.uniMap = UniformNames
  BY <1>1, Zenon DEF PushList, Stacked, StacksRight
<1>8. DOMAIN d.uniMap["u"] = {"vec", "changed"} /\ StackOf(d.uniMap["u"].vec, d.sets, "uniforms", "u")
  <2> DEFINE a == c.uniMap["u"]
             b == d.uniMap["u"]
  <2>1. /\ "u" \in DOMAIN c.uniMap /\ DOMAIN a = {"vec", "changed"}
        /\ StackOf(a.vec, c.sets, "uniforms", "u")
    BY DEF Stacked, StacksRight, UniformNames
  <2>2. /\ DOMAIN b = DOMAIN a
        /\ IF "u" \in DOMAIN ss.uniforms
           THEN b.changed /\ b.vec = PushEntry(a.vec, ss.uniforms["u"])
           ELSE b = a
    BY <1>1, <2>1, ListIs
  <2>3. b.vec = Pushed(a.vec, ss, "uniforms", "u")
    BY <2>2 DEF Pushed
  <2>4. StackOf(b.vec, d.sets, "uniforms", "u")
    BY <1>1, <1>5, <2>1, <2>3, StackPush
  <2> QED
    BY <2>1, <2>2, <2>4
<1>9. ASSUME NEW x \in Defines PROVE StackOf(d.defMap.vec[x], d.sets, "defines", x)
  <2>1. StackOf(c.defMap.vec[x], c.sets, "defines", x)
    BY DEF Stacked, DefineStacks
  <2>2. d.defMap.vec[x] = Pushed(c.defMap.vec[x], ss, "defines", x)
    BY <1>2, <1>3 DEF Pushed, PushedOver
  <2> QED
    BY <1>1, <1>5, <2>1, <2>2, StackPush
<1>10. DOMAIN d = Fields
  BY <1>1 DEF OnlyIn, Stacked
<1>11. Stacked(d)
  BY <1>4, <1>5, <1>6, <1>7, <1>8, <1>9, <1>10 DEF Stacked, StacksRight, DefineStacks
<1> QED
  BY <1>1, <1>4, <1>6, <1>11 DEF Carried, d

\* popStateSet() takes off every stack what the state set had put there.
LEMMA PopCarries ==
  ASSUME NEW c, Stacked(c)
  PROVE  Carried(c, PopStateSet(c))
<1>a. CASE c.sets = << >>
  BY <1>a DEF PopStateSet, Carried, OnlyIn
<1>b. CASE c.sets # << >>
  <2> DEFINE d == PopStateSet(c)
             ss == Last(c.sets)
             m == PopDefines(c, ss.defines)
  <2>1. /\ OnlyIn(c, d, StackFields) /\ d.sets = Front(c.sets)
        /\ d.attrMap = PopList(c.attrMap, ss.attributes)
        /\ d.uniMap = PopList(c.uniMap, ss.uniforms)
    BY <1>b, PopIs DEF Stacked
  <2>2. d.defMap = m.defMap
    <3> DEFINE b == [c EXCEPT !.sets    = Front(@),
                              !.modeMap = PopList(@, ss.modes),
                              !.attrMap = PopList(@, ss.attributes),
                              !.uniMap  = PopList(@, ss.uniforms)]
    <3>1. DOMAIN b = Fields /\ DOMAIN c = Fields /\ b.defMap = c.defMap
      BY DEF Stacked
    <3>2. d = PopDefines(b, ss.defines)
      BY <1>b DEF PopStateSet, PopTopStateSet
    <3> HIDE DEF b, ss
    <3> QED
      BY <3>1, <3>2, DefinesApart
  <2> HIDE DEF d, ss
  <2>3. DefinesKept(c, m) /\ m.defMap.vec = PoppedOff(c.defMap.vec, ss.defines)
    BY DefinesPop, EntriesAre DEF Stacked, StacksRight
  <2> HIDE DEF m
  <2>4. DefinesCached(d) /\ d.defMap.current = c.defMap.current /\ (c.defMap.changed => d.defMap.changed)
    BY <2>2, <2>3 DEF DefinesKept, DefinesCached
  <2>5. c.sets \in Seq(StateSets) /\ d.sets \in Seq(StateSets)
    BY <1>b, <2>1, FrontIs DEF Stacked, StacksRight
  <2>6. ASSUME NEW type \in OtherTypes
        PROVE  /\ AttributeStack(d, type)
               /\ LET a == c.attrMap[type]
                      b == d.attrMap[type]
                  IN b.last = a.last /\ b.cloned = a.cloned /\ (b = a \/ b.changed)
    <3> DEFINE a == c.attrMap[type]
               b == d.attrMap[type]
    <3>1. /\ type \in DOMAIN c.attrMap /\ DOMAIN a = {"vec", "last", "changed", "cloned"}
          /\ StackOf(a.vec, c.sets, "attributes", type)
      BY DEF Stacked, StacksRight, AttributeStack, OtherTypes
    <3>2. /\ DOMAIN b = DOMAIN a /\ b.last = a.last /\ b.cloned = a.cloned
          /\ IF type \in DOMAIN ss.attributes THEN b.changed /\ b.vec = PopEntry(a.vec) ELSE b = a
      BY <2>1, <3>1, ListIs
    <3>3. b.vec = IF type \in DOMAIN Last(c.sets)["attributes"] THEN PopEntry(a.vec) ELSE a.vec
      BY <3>2 DEF ss
    <3>4. StackOf(b.vec, d.sets, "attributes", type)
      BY <1>b, <2>1, <2>5, <3>1, <3>3, StackPop
    <3> QED
      BY <3>1, <3>2, <3>4 DEF AttributeStack
  <2>7. DOMAIN d.attrMap = Types /\ DOMAIN d.uniMap = UniformNames
    BY <2>1, Zenon DEF PopList, Stacked, StacksRight
  <2>8. DOMAIN d.uniMap["u"] = {"vec", "changed"} /\ StackOf(d.uniMap["u"].vec, d.sets, "uniforms", "u")
    <3> DEFINE a == c.uniMap["u"]
               b == d.uniMap["u"]
    <3>1. /\ "u" \in DOMAIN c.uniMap /\ DOMAIN a = {"vec", "changed"}
          /\ StackOf(a.vec, c.sets, "uniforms", "u")
      BY DEF Stacked, StacksRight, UniformNames
    <3>2. /\ DOMAIN b = DOMAIN a
          /\ IF "u" \in DOMAIN ss.uniforms THEN b.changed /\ b.vec = PopEntry(a.vec) ELSE b = a
      BY <2>1, <3>1, ListIs
    <3>3. b.vec = IF "u" \in DOMAIN Last(c.sets)["uniforms"] THEN PopEntry(a.vec) ELSE a.vec
      BY <3>2 DEF ss
    <3>4. StackOf(b.vec, d.sets, "uniforms", "u")
      BY <1>b, <2>1, <2>5, <3>1, <3>3, StackPop
    <3> QED
      BY <3>1, <3>2, <3>4
  <2>9. ASSUME NEW x \in Defines PROVE StackOf(d.defMap.vec[x], d.sets, "defines", x)
    <3> DEFINE a == c.defMap.vec[x]
    <3>1. StackOf(a, c.sets, "defines", x)
      BY DEF Stacked, DefineStacks
    <3>2. d.defMap.vec[x] = IF x \in DOMAIN Last(c.sets)["defines"] THEN PopEntry(a) ELSE a
      BY <2>2, <2>3 DEF PoppedOff, ss
    <3> QED
      BY <1>b, <2>1, <2>5, <3>1, <3>2, StackPop
  <2>10. DOMAIN d = Fields
    BY <2>1 DEF OnlyIn, Stacked
  <2>11. Stacked(d)
    BY <2>4, <2>5, <2>6, <2>7, <2>8, <2>9, <2>10 DEF Stacked, StacksRight, DefineStacks
  <2> QED
    BY <2>1, <2>4, <2>6, <2>11 DEF Carried, d
<1> QED
  BY <1>a, <1>b


\* Where nothing happens the stacks carry what they did.
LEMMA CarriedSelf ==
  ASSUME NEW c, Stacked(c)
  PROVE  Carried(c, c)
BY DEF Carried, OnlyIn

\* Several pops, several pushes, and a state set put between others or taken from them.
LEMMA StacksCarry ==
  ASSUME NEW c, Stacked(c)
  PROVE  /\ \A n \in 0 .. Len(c.sets) : Carried(c, PopDownTo(c, n))
         /\ \A list \in Seq(StateSets) : Carried(c, PushAll(c, list))
<1>1. ASSUME NEW n \in 0 .. Len(c.sets) PROVE Carried(c, PopDownTo(c, n))
  <2> DEFINE N == Len(c.sets)
  <2>0. c.sets \in Seq(StateSets) /\ N \in Nat /\ N - n \in 0 .. N
    BY DEF Stacked, StacksRight
  <2>1. PICK p : /\ p[0] = c /\ \A k \in 1 .. N : p[k] = PopStateSet(p[k - 1])
                 /\ PopDownTo(c, n) = p[N - n]
    BY <2>0, PopChain
  <2> DEFINE U == {k \in Nat : k \in 0 .. N => Carried(c, p[k])}
  <2>2. 0 \in U
    BY <2>1, CarriedSelf
  <2>3. ASSUME NEW k \in 1 .. N, k - 1 \in U PROVE k \in U
    <3>1. k \in 0 .. N /\ k - 1 \in 0 .. N /\ p[k] = PopStateSet(p[k - 1])
      BY <2>0, <2>1
    <3>2. Carried(c, p[k - 1]) /\ Stacked(p[k - 1])
      BY <2>3, <3>1 DEF Carried
    <3>3. Carried(c, p[k])
      BY <3>1, <3>2, PopCarries, CarriedBoth
    <3> QED
      BY <3>1, <3>3
  <2>4. 0 .. N \subseteq U
    <3> HIDE DEF U, N
    <3> QED
      BY <2>0, <2>2, <2>3, UpTo
  <2> QED
    BY <2>0, <2>1, <2>4
<1>2. ASSUME NEW list \in Seq(StateSets) PROVE Carried(c, PushAll(c, list))
  <2> DEFINE N == Len(list)
  <2>0. N \in Nat
    OBVIOUS
  <2>1. PICK p : /\ p[0] = c /\ \A k \in 1 .. N : p[k] = PushStateSet(p[k - 1], list[k])
                 /\ PushAll(c, list) = p[N]
    BY PushChain
  <2> DEFINE U == {k \in Nat : k \in 0 .. N => Carried(c, p[k])}
  <2>2. 0 \in U
    BY <2>1, CarriedSelf
  <2>3. ASSUME NEW k \in 1 .. N, k - 1 \in U PROVE k \in U
    <3>1. k \in 0 .. N /\ k - 1 \in 0 .. N /\ p[k] = PushStateSet(p[k - 1], list[k]) /\ list[k] \in StateSets
      BY <2>0, <2>1
    <3>2. Carried(c, p[k - 1]) /\ Stacked(p[k - 1])
      BY <2>3, <3>1 DEF Carried
    <3>3. Carried(c, p[k])
      BY <3>1, <3>2, PushCarries, CarriedBoth
    <3> QED
      BY <3>1, <3>3
  <2>4. 0 .. N \subseteq U
    <3> HIDE DEF U, N
    <3> QED
      BY <2>0, <2>2, <2>3, UpTo
  <2> QED
    BY <2>0, <2>1, <2>4
<1> QED
  BY <1>1, <1>2

\* insertStateSet() and removeStateSet(), which pop and push again the sets above.
LEMMA InsertCarries ==
  ASSUME NEW c, Stacked(c), NEW pos \in Nat
  PROVE  /\ \A ss \in StateSets : pos < Len(c.sets) => Carried(c, InsertStateSet(c, pos, ss))
         /\ Carried(c, RemoveStateSet(c, pos))
<1>0. c.sets \in Seq(StateSets) /\ Len(c.sets) \in Nat
  BY DEF Stacked, StacksRight
<1>1. \A m \in Nat : SubSeq(c.sets, m + 1, Len(c.sets)) \in Seq(StateSets)
  BY <1>0, TailIs
<1>2. ASSUME pos < Len(c.sets) PROVE Carried(c, PopDownTo(c, pos)) /\ Stacked(PopDownTo(c, pos))
  <2>1. pos \in 0 .. Len(c.sets)
    BY <1>0, <1>2
  <2> QED
    BY <2>1, StacksCarry DEF Carried
<1>3. ASSUME NEW ss \in StateSets, pos < Len(c.sets) PROVE Carried(c, InsertStateSet(c, pos, ss))
  <2> DEFINE b == PushStateSet(PopDownTo(c, pos), ss)
             e == PushAll(b, SubSeq(c.sets, pos + 1, Len(c.sets)))
  <2>1. Carried(c, b) /\ Stacked(b)
    BY <1>2, <1>3, PushCarries, CarriedBoth DEF Carried
  <2>2. InsertStateSet(c, pos, ss) = e
    BY DEF InsertStateSet
  <2> HIDE DEF b
  <2>3. Carried(b, e)
    BY <1>1, <2>1, StacksCarry
  <2> QED
    BY <2>1, <2>2, <2>3, CarriedBoth
<1>4. Carried(c, RemoveStateSet(c, pos))
  <2>1. CASE pos >= Len(c.sets)
    BY <2>1, CarriedSelf DEF RemoveStateSet
  <2>2. CASE ~(pos >= Len(c.sets))
    <3>1. SubSeq(c.sets, pos + 2, Len(c.sets)) \in Seq(StateSets)
      <4>1. pos + 1 \in Nat /\ pos + 1 + 1 = pos + 2
        OBVIOUS
      <4> QED
        BY <1>1, <4>1
    <3> DEFINE b == PopDownTo(c, pos)
    <3>2. Carried(c, b) /\ Stacked(b)
      BY <1>0, <1>2, <2>2
    <3>3. RemoveStateSet(c, pos) = PushAll(b, SubSeq(c.sets, pos + 2, Len(c.sets)))
      BY <2>2 DEF RemoveStateSet
    <3> HIDE DEF b
    <3>4. Carried(b, RemoveStateSet(c, pos))
      BY <3>1, <3>2, <3>3, StacksCarry
    <3> QED
      BY <3>2, <3>4, CarriedBoth
  <2> QED
    BY <2>1, <2>2
<1> QED
  BY <1>3, <1>4


-----------------------------------------------------------------------------
(* The program that is applied                                              *)

\* An attribute as the stack asks for it, and one that was never applied.
Settled(a) ==
    IF a.vec # << >> THEN a.last = Last(a.vec).value
    ELSE a.last = IF a.cloned THEN Default ELSE None

Remembered(a) == (~a.changed => Settled(a)) /\ (~a.cloned => a.last = None)

\* The program in use is what State says, under the defines in force once it looked.
UsedRight(c) ==
    c.last # None =>
      /\ UsedNow(c)
      /\ c.last[2] \subseteq c.defines[c.last[1]]
      /\ ~c.defMap.changed => c.last[2] = c.defMap.current \cap c.defines[c.last[1]]

\* One that the scene asked for is in use.
IsOwn(c) == c.last # None /\ c.last[1] \notin BuiltIn

ProgramCache(c) ==
    LET a == c.attrMap["PROGRAM"]
    IN /\ a.last \in (Programs \ BuiltIn) \cup {Default, None}
       /\ a.last \in Programs /\ ~IsOwn(c) => NotUsable(c, a.last)
       /\ IsOwn(c) => a.cloned

\* The Program believed applied is the one in use, or could not be used.
Bound(c) == ProgramCache(c) /\ (IsOwn(c) => c.attrMap["PROGRAM"].last = c.last[1])

\* The same, or the cache was emptied since.
Believed(c) ==
    LET a == c.attrMap["PROGRAM"]
    IN ProgramCache(c) /\ (IsOwn(c) => a.last = c.last[1] \/ (a.last = None /\ a.changed))

\* What a program is built from and what was built of it, left alone, stays right.
LEMMA BuiltFrame ==
  ASSUME NEW c, NEW d, Built(c), DOMAIN d = Fields,
         \A f \in {"text", "list", "defines", "pcs", "pcp", "defMap"} : d[f] = c[f]
  PROVE  Built(d) /\ Later(c, d)
<1>1. /\ d.text = c.text /\ d.list = c.list /\ d.defines = c.defines
      /\ d.pcs = c.pcs /\ d.pcp = c.pcp /\ d.defMap = c.defMap
  OBVIOUS
<1> QED
  BY <1>1, ImageFrame
  DEF Built, TextsRight, ShaderDefines, CompiledRight, LinkedRight, LinkRight, DefinesCached, Later

\* Once a program failed to link, it stays so where nothing settled changes.
LEMMA NotUsableLater ==
  ASSUME NEW c, NEW d, Later(c, d), d.list = c.list
  PROVE  \A p : NotUsable(c, p) => NotUsable(d, p)
BY DEF Later, NotUsable

\* Applying the attribute v: the program itself, or the default.
Applied(c, d, v) ==
    LET a == c.attrMap["PROGRAM"]
        b == d.attrMap["PROGRAM"]
    IN /\ OnlyType(c, d, "PROGRAM") /\ OnlyIn(c, d, ProgramFields \cup {"attrMap"})
       /\ Built(d) /\ Later(c, d) /\ UsedRight(d) /\ Bound(d)
       /\ DOMAIN b = DOMAIN a /\ b.last = v /\ b.vec = a.vec /\ b.changed = a.changed
       /\ b.cloned <=> (a.cloned \/ a.last # v)
       /\ d.defMap.vec = c.defMap.vec
       /\ d.last = c.last \/ d.last = None \/ ~d.defMap.changed

\* applyAttribute() with the program: it is used, or it cannot be.
LEMMA ApplyTheProgram ==
  ASSUME NEW c, Built(c), UsedRight(c), DOMAIN c.attrMap = Types,
         DOMAIN c.attrMap["PROGRAM"] = {"vec", "last", "changed", "cloned"},
         NEW v \in (Programs \ BuiltIn) \cup {Default},
         c.attrMap["PROGRAM"].last = v => Bound(c)
  PROVE  Applied(c, ApplyAttribute(c, "PROGRAM", v), v)
<1> DEFINE a == c.attrMap["PROGRAM"]
           e == [c EXCEPT !.attrMap["PROGRAM"].last = v, !.attrMap["PROGRAM"].cloned = TRUE]
           d == ApplyAttribute(c, "PROGRAM", v)
<1>0. /\ v # None /\ None \notin Programs /\ Default \notin Programs /\ "PROGRAM" \in Types
      /\ DOMAIN c = Fields
  BY StateAssumption DEF Types, AttributeTypes, Built
<1>1. CASE a.last = v
  <2>1. d = c
    BY <1>1 DEF ApplyAttribute
  <2>2. Bound(c)
    BY <1>1
  <2>3. OnlyType(c, c, "PROGRAM") /\ OnlyIn(c, c, ProgramFields \cup {"attrMap"}) /\ Later(c, c)
    BY DEF OnlyType, OnlyIn, Later
  <2> QED
    BY <1>1, <2>1, <2>2, <2>3 DEF Applied
<1>2. CASE a.last # v
  <2>1. d = IF v = Default THEN [e EXCEPT !.used = None, !.last = None] ELSE ApplyProgram(e, v)
    BY <1>2 DEF ApplyAttribute, ApplyOne
  <2>2. /\ DOMAIN e = Fields /\ DOMAIN e.attrMap = Types
        /\ \A t \in Types \ {"PROGRAM"} : e.attrMap[t] = c.attrMap[t]
        /\ e.attrMap["PROGRAM"].last = v /\ e.attrMap["PROGRAM"].cloned = TRUE
        /\ e.attrMap["PROGRAM"].vec = a.vec /\ e.attrMap["PROGRAM"].changed = a.changed
        /\ DOMAIN e.attrMap["PROGRAM"] = DOMAIN a
        /\ \A f \in Fields \ {"attrMap"} : e[f] = c[f]
    BY <1>0 DEF Fields
  <2> HIDE DEF e
  <2>3. Built(e) /\ Later(c, e) /\ e.last = c.last /\ e.list = c.list /\ e.defMap = c.defMap
    BY <2>2, BuiltFrame DEF Fields
  <2>4. OnlyIn(c, e, {"attrMap"})
    BY <1>0, <2>2 DEF OnlyIn
  \* What either does to the rest of the state.
  <2>5. ASSUME OnlyIn(e, d, ProgramFields), Built(d), Later(e, d), UsedRight(d), d.defMap.vec = e.defMap.vec,
               d.last = None \/ ~d.defMap.changed,
               v \in Programs /\ ~IsOwn(d) => NotUsable(d, v),
               IsOwn(d) => v = d.last[1]
        PROVE  Applied(c, d, v)
    <3> HIDE DEF d
    <3>1. d.attrMap = e.attrMap /\ DOMAIN d = Fields
      BY <2>2, <2>5 DEF OnlyIn, Fields, ProgramFields
    <3>2. Bound(d)
      BY <2>2, <2>5, <3>1 DEF Bound, ProgramCache
    <3>3. OnlyIn(c, d, ProgramFields \cup {"attrMap"})
      <4>1. OnlyIn(c, e, ProgramFields \cup {"attrMap"}) /\ OnlyIn(e, d, ProgramFields \cup {"attrMap"})
        BY <2>4, <2>5, OnlyInMore
      <4> QED
        BY <4>1, OnlyInBoth
    <3>4. OnlyType(c, d, "PROGRAM")
      <4>1. OnlyIn(c, d, OtherFields \cup {"attrMap"})
        BY <3>3, OnlyInMore DEF OtherFields
      <4> QED
        BY <2>2, <3>1, <4>1 DEF OnlyType
    <3>5. Later(c, d)
      BY <2>3, <2>5, LaterBoth
    <3> QED
      BY <1>2, <2>2, <2>3, <2>5, <3>1, <3>2, <3>3, <3>4, <3>5 DEF Applied
  <2>6. CASE v = Default
    <3> DEFINE g == [e EXCEPT !.used = None, !.last = None]
    <3>1. d = g
      BY <2>1, <2>6
    <3>2. OnlyIn(e, g, ProgramFields) /\ g.last = None /\ DOMAIN g = Fields
      BY <2>2 DEF OnlyIn, ProgramFields, Fields
    <3>3. \A f \in {"text", "list", "defines", "pcs", "pcp", "defMap"} : g[f] = e[f]
      BY <2>2 DEF Fields
    <3> HIDE DEF g
    <3>4. Built(g) /\ Later(e, g) /\ UsedRight(g) /\ ~IsOwn(g) /\ g.defMap.vec = e.defMap.vec
      BY <2>3, <3>2, <3>3, BuiltFrame DEF UsedRight, IsOwn
    <3> QED
      BY <1>0, <2>5, <2>6, <3>1, <3>2, <3>4
  <2>7. CASE v # Default
    <3>1. d = ApplyProgram(e, v) /\ v \in Programs \ BuiltIn
      BY <2>1, <2>7
    <3> HIDE DEF d
    <3>2. ProgramApplied(e, d, v)
      BY <2>3, <3>1, ApplyProgramRight
    <3>3. UsedRight(d)
      <4>1. d.last # None => /\ d.defMap.current = Tops(d.defMap.vec)
                             /\ d.last[1] = v /\ d.last[2] = Tops(d.defMap.vec) \cap d.defines[v]
        BY <3>2 DEF ProgramApplied, Built, DefinesCached
      <4> QED
        BY <3>2, <4>1 DEF UsedRight, ProgramApplied
    <3>4. /\ IsOwn(d) => v = d.last[1]
          /\ ~IsOwn(d) => NotUsable(d, v)
      BY <3>1, <3>2 DEF ProgramApplied, IsOwn
    <3>5. /\ OnlyIn(e, d, ProgramFields) /\ Built(d) /\ Later(e, d) /\ d.defMap.vec = e.defMap.vec
          /\ d.last = None \/ ~d.defMap.changed
      BY <3>2 DEF ProgramApplied
    <3>6. Applied(c, d, v)
      BY <2>5, <3>3, <3>4, <3>5
    <3> QED
      BY <3>6 DEF d
  <2> QED
    BY <2>6, <2>7
<1> QED
  BY <1>1, <1>2

\* What a leaf finds: its own program or the stack's is believed applied, or none is.
ProgramDrawn(c, leaf) ==
    LET a == c.attrMap["PROGRAM"]
    IN IF OwnEntry(leaf.attributes, "PROGRAM", a.vec) THEN a.last = leaf.attributes["PROGRAM"].value
       ELSE IF a.vec # << >> THEN a.last = Last(a.vec).value
       ELSE a.last \in {Default, None}

\* What the slot does not disturb.
SlotKept(c, d) ==
    LET a == c.attrMap["PROGRAM"]
        b == d.attrMap["PROGRAM"]
    IN /\ OnlyType(c, d, "PROGRAM") /\ OnlyIn(c, d, ProgramFields \cup {"attrMap"})
       /\ Built(d) /\ Later(c, d) /\ UsedRight(d)
       /\ DOMAIN b = DOMAIN a /\ b.vec = a.vec
       /\ d.defMap.vec = c.defMap.vec
       /\ d.last = c.last \/ d.last = None \/ ~d.defMap.changed

ProgramReady(c) == Built(c) /\ StacksRight(c) /\ UsedRight(c) /\ Remembered(c.attrMap["PROGRAM"])

\* What may be asked for: a program of the scene.
LEMMA ProgramAsked ==
  ASSUME NEW c, StacksRight(c), NEW leaf \in StateSets \cup {NoStateSet}
  PROVE  LET vec == c.attrMap["PROGRAM"].vec
         IN /\ OwnEntry(leaf.attributes, "PROGRAM", vec) =>
                 leaf # NoStateSet /\ leaf.attributes["PROGRAM"].value \in Programs \ BuiltIn
            /\ vec # << >> => Last(vec).value \in Programs \ BuiltIn
<1> DEFINE vec == c.attrMap["PROGRAM"].vec
<1>1. StackOf(vec, c.sets, "attributes", "PROGRAM") /\ c.sets \in Seq(StateSets)
  BY DEF StacksRight, AttributeStack, OtherTypes, Types, AttributeTypes
<1>2. vec # << >> => Last(vec) \in EntriesOf("attributes", "PROGRAM")
  BY <1>1, StackHas
<1> HIDE DEF vec
<1>3. vec # << >> => Last(vec).value \in Programs \ BuiltIn
  BY <1>2, StateAssumption DEF EntriesOf
<1>4. OwnEntry(leaf.attributes, "PROGRAM", vec) =>
        leaf # NoStateSet /\ leaf.attributes["PROGRAM"].value \in Programs \ BuiltIn
  BY StateAssumption DEF OwnEntry, NoStateSet
<1> QED
  BY <1>3, <1>4 DEF vec

\* The attribute list of apply(), at the program: the leaf's own, the one of the
\* stack, or none where there was one.
LEMMA ProgramSlot ==
  ASSUME NEW c, ProgramReady(c), NEW leaf \in StateSets \cup {NoStateSet},
         \/ Believed(c)
         \/ c.last = None /\ leaf = NoStateSet /\ c.attrMap["PROGRAM"].vec = << >>
  PROVE  LET d == ApplyAttributeSlot(c, "PROGRAM", leaf)
         IN /\ SlotKept(c, d) /\ Bound(d) /\ ProgramDrawn(d, leaf)
            /\ Remembered(d.attrMap["PROGRAM"])
<1> DEFINE a == c.attrMap["PROGRAM"]
           d == ApplyAttributeSlot(c, "PROGRAM", leaf)
           set(v) == [c EXCEPT !.attrMap["PROGRAM"].changed = v]
<1>0. /\ DOMAIN c = Fields /\ DOMAIN c.attrMap = Types /\ "PROGRAM" \in Types
      /\ DOMAIN a = {"vec", "last", "changed", "cloned"} /\ Remembered(a)
      /\ None \notin Programs /\ Default \notin Programs /\ None # Default
  BY StateAssumption DEF ProgramReady, Built, StacksRight, AttributeStack, OtherTypes, Types, AttributeTypes
<1>1. /\ OwnEntry(leaf.attributes, "PROGRAM", a.vec) =>
            Believed(c) /\ leaf.attributes["PROGRAM"].value \in Programs \ BuiltIn
      /\ a.vec # << >> => Believed(c) /\ Last(a.vec).value \in Programs \ BuiltIn
  BY ProgramAsked DEF ProgramReady
\* Marking the entry does no harm.
<1>2. ASSUME NEW v \in BOOLEAN
      PROVE  LET g == set(v)
                 b == g.attrMap["PROGRAM"]
             IN /\ OnlyType(c, g, "PROGRAM") /\ OnlyIn(c, g, {"attrMap"})
                /\ Built(g) /\ UsedRight(g) /\ DOMAIN g.attrMap = Types
                /\ g.pcp = c.pcp /\ g.defMap = c.defMap /\ g.last = c.last /\ g.list = c.list
                /\ DOMAIN b = DOMAIN a /\ b.vec = a.vec /\ b.last = a.last
                /\ b.cloned = a.cloned /\ b.changed = v
  <2> DEFINE g == set(v)
             b == g.attrMap["PROGRAM"]
  <2>1. /\ DOMAIN g = Fields /\ DOMAIN g.attrMap = Types
        /\ DOMAIN b = DOMAIN a /\ b.vec = a.vec /\ b.last = a.last
        /\ b.cloned = a.cloned /\ b.changed = v
        /\ \A t \in Types \ {"PROGRAM"} : g.attrMap[t] = c.attrMap[t]
        /\ \A f \in Fields \ {"attrMap"} : g[f] = c[f]
    BY <1>0 DEF Fields
  <2> HIDE DEF set
  <2>2. g.pcp = c.pcp /\ g.defMap = c.defMap /\ g.last = c.last /\ g.used = c.used
        /\ g.defines = c.defines /\ g.list = c.list
    BY <2>1 DEF Fields
  <2>3. Built(g)
    BY <2>1, BuiltFrame DEF ProgramReady, Fields
  <2>4. UsedRight(g)
    BY <2>2 DEF ProgramReady, UsedRight, UsedNow
  <2>5. OnlyIn(c, g, {"attrMap"}) /\ OnlyType(c, g, "PROGRAM")
    BY <1>0, <2>1 DEF OnlyIn, OnlyType
  <2> QED
    BY <2>1, <2>2, <2>3, <2>4, <2>5
<1>3. Later(c, c) /\ OnlyType(c, c, "PROGRAM") /\ OnlyIn(c, c, ProgramFields \cup {"attrMap"})
  BY DEF Later, OnlyType, OnlyIn
\* Marked and applied.
<1>4. ASSUME NEW v \in BOOLEAN, NEW x \in (Programs \ BuiltIn) \cup {Default}, a.last = x => Bound(c)
      PROVE  LET e == ApplyAttribute(set(v), "PROGRAM", x)
                 b == e.attrMap["PROGRAM"]
             IN /\ SlotKept(c, e) /\ Bound(e)
                /\ b.last = x /\ b.changed = v /\ b.cloned
  <2> DEFINE g == set(v)
             e == ApplyAttribute(g, "PROGRAM", x)
  <2>1. /\ OnlyType(c, g, "PROGRAM") /\ OnlyIn(c, g, {"attrMap"})
        /\ Built(g) /\ UsedRight(g) /\ DOMAIN g.attrMap = Types
        /\ g.pcp = c.pcp /\ g.defMap = c.defMap /\ g.last = c.last /\ g.list = c.list
        /\ DOMAIN g.attrMap["PROGRAM"] = DOMAIN a /\ g.attrMap["PROGRAM"].vec = a.vec
        /\ g.attrMap["PROGRAM"].last = a.last
        /\ g.attrMap["PROGRAM"].cloned = a.cloned /\ g.attrMap["PROGRAM"].changed = v
    BY <1>2
  <2> HIDE DEF set
  <2>2. a.last = x => Bound(g)
    <3>1. Bound(c) => Bound(g)
      BY <2>1 DEF Bound, ProgramCache, IsOwn, NotUsable
    <3> QED
      BY <1>4, <3>1
  <2>3. Applied(g, e, x)
    BY <1>0, <2>1, <2>2, ApplyTheProgram
  <2> HIDE DEF e, g
  <2>4. OnlyType(c, e, "PROGRAM")
    BY <2>1, <2>3, OnlyInBoth DEF OnlyType, Applied
  <2>5. OnlyIn(c, e, ProgramFields \cup {"attrMap"})
    <3>1. OnlyIn(c, g, ProgramFields \cup {"attrMap"})
      BY <2>1, OnlyInMore
    <3> QED
      BY <2>3, <3>1, OnlyInBoth DEF Applied
  <2>6. Later(c, e)
    BY <2>1, <2>3 DEF Applied, Later
  <2>7. SlotKept(c, e)
    BY <2>1, <2>3, <2>4, <2>5, <2>6 DEF Applied, SlotKept
  <2>8. e.attrMap["PROGRAM"].cloned
    BY <1>0, <2>1, <2>3 DEF Applied, Remembered
  <2> QED
    BY <2>1, <2>3, <2>7, <2>8 DEF Applied, e, g
<1> HIDE DEF set
<1>5. CASE OwnEntry(leaf.attributes, "PROGRAM", a.vec)
  <2> DEFINE x == leaf.attributes["PROGRAM"].value
             e == ApplyAttribute(set(TRUE), "PROGRAM", x)
  <2>1. Believed(c) /\ x \in Programs \ BuiltIn /\ x # None
    BY <1>0, <1>1, <1>5
  <2>2. CASE a.last = x
    <3>1. d = c
      BY <1>5, <2>2 DEF ApplyAttributeSlot, MarkAttribute, ApplyAttribute
    <3>2. Bound(c)
      BY <2>1, <2>2 DEF Believed, Bound
    <3>3. SlotKept(c, c)
      BY <1>3 DEF SlotKept, ProgramReady
    <3> QED
      BY <1>0, <1>5, <2>2, <3>1, <3>2, <3>3 DEF ProgramDrawn
  <2>3. CASE a.last # x
    <3>1. d = e
      BY <1>5, <2>3 DEF ApplyAttributeSlot, MarkAttribute, set
    <3>2. SlotKept(c, e) /\ Bound(e) /\ e.attrMap["PROGRAM"].last = x
          /\ e.attrMap["PROGRAM"].changed = TRUE /\ e.attrMap["PROGRAM"].cloned
      BY <1>4, <2>1, <2>3
    <3> HIDE DEF e, d, x
    <3>3. e.attrMap["PROGRAM"].vec = a.vec
      BY <3>2 DEF SlotKept
    <3> QED
      BY <1>5, <3>1, <3>2, <3>3 DEF ProgramDrawn, Remembered, d, x
  <2> QED
    BY <2>2, <2>3
<1>6. CASE ~OwnEntry(leaf.attributes, "PROGRAM", a.vec) /\ ~a.changed
  <2>1. d = c
    BY <1>6 DEF ApplyAttributeSlot
  <2>2. Settled(a)
    BY <1>0, <1>6 DEF Remembered
  <2>3. Bound(c)
    <3>1. CASE a.vec # << >>
      <4>1. Believed(c) /\ a.last # None
        BY <1>0, <1>1, <2>2, <3>1 DEF Settled
      <4> QED
        BY <4>1 DEF Believed, Bound
    <3>2. CASE a.vec = << >>
      <4>1. a.last \in {Default, None}
        BY <2>2, <3>2 DEF Settled
      <4>2. CASE Believed(c)
        BY <1>6, <4>2 DEF Believed, Bound
      <4>3. CASE c.last = None
        BY <1>0, <4>1, <4>3 DEF Bound, ProgramCache, IsOwn
      <4> QED
        BY <4>2, <4>3
    <3> QED
      BY <3>1, <3>2
  <2>4. SlotKept(c, c)
    BY <1>3 DEF SlotKept, ProgramReady
  <2>5. ProgramDrawn(c, leaf)
    BY <1>6, <2>2 DEF ProgramDrawn, Settled
  <2> QED
    BY <1>0, <2>1, <2>3, <2>4, <2>5
<1>7. CASE ~OwnEntry(leaf.attributes, "PROGRAM", a.vec) /\ a.changed
  <2> DEFINE n == set(FALSE)
             x == IF a.vec = << >> THEN Default ELSE Last(a.vec).value
             e == ApplyAttribute(n, "PROGRAM", x)
             g == [n EXCEPT !.attrMap["PROGRAM"].last = None]
  <2>1. /\ OnlyType(c, n, "PROGRAM") /\ OnlyIn(c, n, {"attrMap"})
        /\ Built(n) /\ UsedRight(n) /\ DOMAIN n.attrMap = Types
        /\ n.pcp = c.pcp /\ n.defMap = c.defMap /\ n.last = c.last /\ n.list = c.list
        /\ DOMAIN n.attrMap["PROGRAM"] = DOMAIN a /\ n.attrMap["PROGRAM"].vec = a.vec
        /\ n.attrMap["PROGRAM"].last = a.last
        /\ n.attrMap["PROGRAM"].cloned = a.cloned /\ n.attrMap["PROGRAM"].changed = FALSE
    BY <1>2
  <2>2. d = IF a.vec # << >> \/ a.cloned THEN e ELSE g
    <3>1. d = ApplyTopAttribute(n, "PROGRAM")
      BY <1>7 DEF ApplyAttributeSlot, set
    <3> HIDE DEF n, d
    <3> QED
      BY <2>1, <3>1 DEF ApplyTopAttribute
  <2>3. CASE a.vec # << >> \/ a.cloned
    <3>1. x \in (Programs \ BuiltIn) \cup {Default} /\ x # None
      BY <1>0, <1>1
    <3>2. a.last = x => Bound(c)
      <4> SUFFICES ASSUME a.last = x PROVE Bound(c)
        OBVIOUS
      <4>1. CASE Believed(c)
        BY <3>1, <4>1 DEF Believed, Bound
      <4>2. CASE ~Believed(c)
        <5>1. c.last = None /\ a.last = Default
          BY <1>1, <4>2
        <5> QED
          BY <1>0, <5>1 DEF Bound, ProgramCache, IsOwn
      <4> QED
        BY <4>1, <4>2
    <3> HIDE DEF x
    <3>3. SlotKept(c, e) /\ Bound(e) /\ e.attrMap["PROGRAM"].last = x
          /\ e.attrMap["PROGRAM"].changed = FALSE /\ e.attrMap["PROGRAM"].cloned
      BY <1>4, <3>1, <3>2
    <3>4. d = e
      BY <2>2, <2>3
    <3> HIDE DEF e, d
    <3>5. e.attrMap["PROGRAM"].vec = a.vec
      BY <3>3 DEF SlotKept
    <3>6. ProgramDrawn(e, leaf)
      BY <1>7, <3>3, <3>5 DEF ProgramDrawn, x
    <3>7. Remembered(e.attrMap["PROGRAM"])
      BY <3>3, <3>5 DEF Remembered, Settled, x
    <3> QED
      BY <3>3, <3>4, <3>6, <3>7 DEF d
  <2>4. CASE a.vec = << >> /\ ~a.cloned
    <3>1. d = g
      BY <2>2, <2>4
    <3> HIDE DEF n
    <3>2. /\ DOMAIN n = Fields
          /\ \A f \in Fields \ {"attrMap"} : g[f] = n[f]
      BY <2>1 DEF Built
    <3>3. /\ DOMAIN g.attrMap = Types /\ \A t \in Types \ {"PROGRAM"} : g.attrMap[t] = n.attrMap[t]
          /\ DOMAIN g = Fields
          /\ g.attrMap["PROGRAM"].last = None /\ g.attrMap["PROGRAM"].vec = a.vec
          /\ g.attrMap["PROGRAM"].cloned = a.cloned /\ g.attrMap["PROGRAM"].changed = FALSE
          /\ DOMAIN g.attrMap["PROGRAM"] = DOMAIN a
      BY <1>0, <2>1, <3>2 DEF Fields
    <3> HIDE DEF g, d
    <3>4. /\ g.pcp = c.pcp /\ g.defMap = c.defMap /\ g.last = c.last /\ g.list = c.list
          /\ g.used = n.used /\ g.defines = n.defines
      BY <2>1, <3>2 DEF Fields
    <3>5. Built(g)
      BY <2>1, <3>2, <3>3, BuiltFrame DEF Fields
    <3>6. UsedRight(g)
      BY <2>1, <3>4 DEF UsedRight, UsedNow
    <3>7. OnlyIn(n, g, {"attrMap"}) /\ OnlyIn(c, n, {"attrMap"})
      BY <2>1, <3>2, <3>3 DEF OnlyIn
    <3>8. OnlyIn(c, g, {"attrMap"})
      BY <3>7, OnlyInBoth
    <3>9. OnlyIn(c, g, ProgramFields \cup {"attrMap"}) /\ OnlyIn(c, g, OtherFields \cup {"attrMap"})
      BY <3>8, OnlyInMore
    <3>10. OnlyType(c, g, "PROGRAM")
      BY <2>1, <3>3, <3>9 DEF OnlyType
    <3>11. SlotKept(c, g)
      BY <3>3, <3>4, <3>5, <3>6, <3>9, <3>10 DEF SlotKept, Later
    <3>12. ~IsOwn(c)
      BY <2>4 DEF Believed, ProgramCache, IsOwn
    <3>13. Bound(g)
      BY <1>0, <3>3, <3>4, <3>12 DEF Bound, ProgramCache, IsOwn
    <3>14. ProgramDrawn(g, leaf) /\ Remembered(g.attrMap["PROGRAM"])
      BY <1>7, <2>4, <3>3 DEF ProgramDrawn, Remembered, Settled
    <3> QED
      BY <3>1, <3>11, <3>13, <3>14 DEF d
  <2> QED
    BY <2>3, <2>4
<1> QED
  BY <1>5, <1>6, <1>7


-----------------------------------------------------------------------------
(* What uniforms and the other attributes leave of the programs             *)

\* Only what was uploaded to the programs differs.
SamePrograms(c, d) ==
    /\ DOMAIN d.pcp = DOMAIN c.pcp
    /\ \A k \in DOMAIN c.pcp :
         /\ DOMAIN c.pcp[k] = PCPFields /\ DOMAIN d.pcp[k] = PCPFields
         /\ \A f \in PCPFields \ {"uniforms"} : d.pcp[k][f] = c.pcp[k][f]

Shaped(c) == DOMAIN c = Fields /\ \A k \in DOMAIN c.pcp : DOMAIN c.pcp[k] = PCPFields

\* One change beside the programs after another.
LEMMA SameProgramsBoth ==
  ASSUME NEW c, NEW d, NEW e, SamePrograms(c, d), SamePrograms(d, e)
  PROVE  SamePrograms(c, e)
BY DEF SamePrograms

\* What touches the uniforms, and what is uploaded, only.
UniformsMoved(c, d) == Shaped(d) /\ OnlyIn(c, d, UniformFields) /\ SamePrograms(c, d)

\* One upload of uniforms after another.
LEMMA UniformsMovedBoth ==
  ASSUME NEW c, NEW d, NEW e, UniformsMoved(c, d), UniformsMoved(d, e)
  PROVE  UniformsMoved(c, e)
BY OnlyInBoth, SameProgramsBoth DEF UniformsMoved

\* Each of the operations on uniforms.
LEMMA UniformsMove ==
  ASSUME NEW c, Shaped(c)
  PROVE  /\ UniformsMoved(c, c)
         /\ \A n, o, v : UniformsMoved(c, ApplyUniform(c, n, o, v))
         /\ \A o : UniformsMoved(c, UniformModified(c, o))
         /\ \A n, v : UniformsMoved(c, SetFFP(c, n, v))
         /\ \A m : UniformsMoved(c, ApplyModelViewMatrix(c, m))
<1>0. ASSUME NEW d, OnlyIn(c, d, UniformFields), SamePrograms(c, d)
      PROVE  UniformsMoved(c, d)
  BY <1>0 DEF UniformsMoved, Shaped, SamePrograms, OnlyIn
<1>1. UniformsMoved(c, c)
  BY DEF UniformsMoved, Shaped, SamePrograms, OnlyIn
<1>2. ASSUME NEW n, NEW o, NEW v PROVE UniformsMoved(c, ApplyUniform(c, n, o, v))
  <2> DEFINE e == [object |-> o, fresh |-> TRUE, value |-> v]
             d == [c EXCEPT !.pcp[c.last].uniforms[n] = e]
  <2>1. ApplyUniform(c, n, o, v) \in {c, d}
    BY DEF ApplyUniform
  <2>2. SamePrograms(c, d)
    <3> HIDE DEF e
    <3>1. d.pcp = [c.pcp EXCEPT ![c.last].uniforms[n] = e]
      BY DEF Shaped, Fields
    <3> HIDE DEF d
    <3> QED
      BY <3>1 DEF SamePrograms, Shaped, PCPFields
  <2>3. OnlyIn(c, d, UniformFields)
    BY DEF OnlyIn, UniformFields
  <2> HIDE DEF d
  <2> QED
    BY <1>0, <1>1, <2>1, <2>2, <2>3
<1>3. ASSUME NEW b, Shaped(b), NEW o PROVE UniformsMoved(b, UniformModified(b, o))
  <2> DEFINE d == UniformModified(b, o)
  <2>1. d.pcp = [k \in DOMAIN b.pcp |-> [b.pcp[k] EXCEPT !.uniforms = Outdated(b.pcp[k].uniforms, o)]]
    BY <1>3 DEF UniformModified, Shaped, Fields
  <2>2. OnlyIn(b, d, UniformFields)
    BY UniformsOnly
  <2> HIDE DEF d
  <2>3. SamePrograms(b, d)
    BY <1>3, <2>1 DEF SamePrograms, Shaped, PCPFields
  <2> QED
    BY <1>3, <2>2, <2>3 DEF UniformsMoved, Shaped, SamePrograms, OnlyIn, d
<1>4. ASSUME NEW n, NEW v PROVE UniformsMoved(c, SetFFP(c, n, v))
  <2> DEFINE d == [c EXCEPT !.ffp[n] = v, !.ffpDirty = TRUE]
  <2>1. OnlyIn(c, d, UniformFields) /\ d.pcp = c.pcp
    BY DEF OnlyIn, UniformFields, Shaped, Fields
  <2>2. SetFFP(c, n, v) \in {c, UniformModified(d, n)}
    BY DEF SetFFP
  <2> HIDE DEF d
  <2>3. UniformsMoved(c, d)
    BY <1>0, <2>1 DEF SamePrograms, Shaped
  <2>4. UniformsMoved(d, UniformModified(d, n))
    BY <1>3, <2>3 DEF UniformsMoved
  <2> QED
    BY <1>1, <2>2, <2>3, <2>4, UniformsMovedBoth
<1>5. ASSUME NEW m PROVE UniformsMoved(c, ApplyModelViewMatrix(c, m))
  <2> DEFINE d == [c EXCEPT !.modelView = m, !.matrix = m]
             e == UniformModified(d, "osg_ModelViewMatrix")
  <2>1. OnlyIn(c, d, UniformFields) /\ d.pcp = c.pcp
    BY DEF OnlyIn, UniformFields, Shaped, Fields
  <2>2. ApplyModelViewMatrix(c, m) \in {c, e}
    BY DEF ApplyModelViewMatrix
  <2> HIDE DEF d
  <2>3. UniformsMoved(c, d)
    BY <1>0, <2>1 DEF SamePrograms, Shaped
  <2>4. UniformsMoved(d, e)
    BY <1>3, <2>3 DEF UniformsMoved
  <2> HIDE DEF e
  <2> QED
    BY <1>1, <2>2, <2>3, <2>4, UniformsMovedBoth
<1> QED
  <2>1. \A o : UniformsMoved(c, UniformModified(c, o))
    BY <1>3
  <2> QED
    BY <1>1, <1>2, <1>4, <1>5, <2>1

\* The uniforms of the state sets, and those that go with a drawable.
LEMMA DrawnUniformsMove ==
  ASSUME NEW c, Shaped(c)
  PROVE  /\ \A leaf : UniformsMoved(c, ApplyUniforms(c, leaf))
         /\ UniformsMoved(c, ApplyBuiltInUniforms(c))
<1>1. ASSUME NEW leaf PROVE UniformsMoved(c, ApplyUniforms(c, leaf))
  <2>1. \A o : UniformsMoved(c, ApplyObject(c, "u", o))
    BY UniformsMove DEF ApplyObject
  <2>2. UniformsMoved(c, c)
    BY UniformsMove
  <2> QED
    BY <2>1, <2>2 DEF ApplyUniforms, ApplyUniformSlot
<1>2. UniformsMoved(c, ApplyBuiltInUniforms(c))
  <2> DEFINE u == ApplyUniform(c, "osg_ModelViewMatrix", "osg_ModelViewMatrix", c.matrix)
             a == [u EXCEPT !.ffpLast = u.last, !.ffpDirty = FALSE]
             b == UploadValue(a, "osg_FrontLightModelProduct_sceneColor")
             d == UploadValue(b, "osg_TextureMatrix0")
             e == UploadValue(d, "osg_Fog_color")
  <2>1. \A r : Shaped(r) => \A n : UniformsMoved(r, UploadValue(r, n))
    BY UniformsMove DEF UploadValue
  <2>2. UniformsMoved(c, u) /\ Shaped(u)
    BY UniformsMove DEF UniformsMoved
  <2> HIDE DEF u
  <2>3. UniformsMoved(u, a) /\ Shaped(a)
    <3>1. OnlyIn(u, a, UniformFields) /\ a.pcp = u.pcp /\ DOMAIN a = Fields
      BY <2>2 DEF OnlyIn, UniformFields, Shaped, Fields
    <3> QED
      BY <2>2, <3>1 DEF UniformsMoved, Shaped, SamePrograms
  <2> HIDE DEF a
  <2>4. UniformsMoved(u, b) /\ Shaped(b)
    BY <2>1, <2>3, UniformsMovedBoth DEF UniformsMoved
  <2> HIDE DEF b
  <2>5. UniformsMoved(u, d) /\ Shaped(d)
    BY <2>1, <2>4, UniformsMovedBoth DEF UniformsMoved
  <2> HIDE DEF d
  <2>6. UniformsMoved(u, e)
    BY <2>1, <2>5, UniformsMovedBoth
  <2>7. UploadFFP(u) = e
    BY DEF UploadFFP, a, b, d
  <2>8. ApplyBuiltInUniforms(c) \in {c, u, e}
    BY <2>7 DEF ApplyBuiltInUniforms, UploadFFPIfNeeded, u
  <2> HIDE DEF e
  <2>9. UniformsMoved(c, c)
    BY UniformsMove
  <2> QED
    BY <2>2, <2>6, <2>8, <2>9, UniformsMovedBoth
<1> QED
  BY <1>1, <1>2


\* What the programs and the stacks do not notice.
Beside(c, d) ==
    /\ Shaped(d) /\ SamePrograms(c, d)
    /\ \A f \in {"sets", "uniMap", "defMap", "text", "list", "defines", "pcs", "last", "used"} : d[f] = c[f]
    /\ DOMAIN d.attrMap = DOMAIN c.attrMap /\ d.attrMap["PROGRAM"] = c.attrMap["PROGRAM"]
    /\ \A t \in OtherTypes : DOMAIN d.attrMap[t] = DOMAIN c.attrMap[t] /\ d.attrMap[t].vec = c.attrMap[t].vec

\* One change of another attribute after another.
LEMMA BesideBoth ==
  ASSUME NEW c, NEW d, NEW e, Beside(c, d), Beside(d, e)
  PROVE  Beside(c, e)
<1>1. SamePrograms(c, e)
  BY SameProgramsBoth DEF Beside
<1> QED
  BY <1>1 DEF Beside

\* Moving uniforms is a change beside the programs.
LEMMA BesideUniforms ==
  ASSUME NEW c, NEW d, Shaped(c), UniformsMoved(c, d)
  PROVE  Beside(c, d)
BY DEF Beside, UniformsMoved, OnlyIn, Shaped, Fields, UniformFields

\* What they do not notice leaves what is remembered of them right.
LEMMA BesideRight ==
  ASSUME NEW c, NEW d, Beside(c, d)
  PROVE  /\ Built(c) => Built(d)
         /\ StacksRight(c) => StacksRight(d)
         /\ DefineStacks(c) => DefineStacks(d)
         /\ DefineEntries(c) => DefineEntries(d)
         /\ UsedRight(c) => UsedRight(d)
         /\ Bound(c) => Bound(d)
         /\ Believed(c) => Believed(d)
         /\ \A leaf : ProgramDrawn(c, leaf) => ProgramDrawn(d, leaf)
<1>1. /\ d.sets = c.sets /\ d.uniMap = c.uniMap /\ d.defMap = c.defMap /\ d.text = c.text
      /\ d.list = c.list /\ d.defines = c.defines /\ d.pcs = c.pcs /\ d.last = c.last /\ d.used = c.used
      /\ DOMAIN d.attrMap = DOMAIN c.attrMap /\ d.attrMap["PROGRAM"] = c.attrMap["PROGRAM"]
      /\ \A t \in OtherTypes : DOMAIN d.attrMap[t] = DOMAIN c.attrMap[t] /\ d.attrMap[t].vec = c.attrMap[t].vec
      /\ DOMAIN d = Fields /\ DOMAIN d.pcp = DOMAIN c.pcp
  BY DEF Beside, Shaped, SamePrograms
<1>2. \A k \in DOMAIN c.pcp :
        /\ DOMAIN d.pcp[k] = PCPFields /\ DOMAIN c.pcp[k] = PCPFields
        /\ d.pcp[k].needsLink = c.pcp[k].needsLink /\ d.pcp[k].isLinked = c.pcp[k].isLinked
        /\ d.pcp[k].image = c.pcp[k].image
  BY DEF Beside, SamePrograms, PCPFields
<1>3. ASSUME Built(c) PROVE Built(d)
  <2>1. TextsRight(d)
    BY <1>1, <1>3 DEF Built, TextsRight, ShaderDefines
  <2>2. LinkedRight(d)
    <3>1. ASSUME NEW k \in DOMAIN c.pcp PROVE LinkRight(d, k)
      <4>1. ImageFor(d, k[1], k[2]) = ImageFor(c, k[1], k[2])
        BY <1>1, ImageFrame
      <4> QED
        BY <1>2, <1>3, <4>1 DEF Built, LinkedRight, LinkRight
    <3> QED
      BY <1>1, <1>3, <3>1 DEF Built, LinkedRight
  <2> QED
    BY <1>1, <1>3, <2>1, <2>2 DEF Built, CompiledRight, DefinesCached
<1>4. StacksRight(c) => StacksRight(d)
  BY <1>1 DEF StacksRight, AttributeStack
<1>5. /\ DefineStacks(c) => DefineStacks(d)
      /\ DefineEntries(c) => DefineEntries(d)
  BY <1>1 DEF DefineStacks, DefineEntries
<1>6. UsedRight(c) => UsedRight(d)
  BY <1>1, <1>2 DEF UsedRight, UsedNow
<1>7. \A p : NotUsable(c, p) => NotUsable(d, p)
  BY <1>1, <1>2 DEF NotUsable
<1>8. /\ Bound(c) => Bound(d)
      /\ Believed(c) => Believed(d)
  BY <1>1, <1>7 DEF Bound, Believed, ProgramCache, IsOwn
<1>9. \A leaf : ProgramDrawn(c, leaf) => ProgramDrawn(d, leaf)
  BY <1>1 DEF ProgramDrawn
<1> QED
  BY <1>3, <1>4, <1>5, <1>6, <1>8, <1>9

\* The attributes that State keeps in uniforms.
FFPTypes == {"TEXMAT", "MATERIAL", "LIGHTMODEL", "FOG"}

\* The attribute list of apply(), at a fixed-function attribute.
LEMMA FFPSlotBeside ==
  ASSUME NEW c, Shaped(c), StacksRight(c), NEW type \in FFPTypes, NEW leaf
  PROVE  Beside(c, ApplyAttributeSlot(c, type, leaf))
<1> DEFINE M(b, a) == [b EXCEPT !.attrMap[type].last = a, !.attrMap[type].cloned = TRUE]
           Ok(b) == Shaped(b) /\ DOMAIN b.attrMap = Types /\ "vec" \in DOMAIN b.attrMap[type]
<1>0. type \in Types /\ type # "PROGRAM" /\ type # "TEXTURE" /\ "PROGRAM" \in Types
  BY DEF FFPTypes, Types, TextureTypes, AttributeTypes
\* A change of the entry.
<1>1. ASSUME NEW b, Ok(b), NEW d, DOMAIN d = Fields, \A f \in Fields \ {"attrMap"} : d[f] = b[f],
             DOMAIN d.attrMap = Types, \A t \in Types \ {type} : d.attrMap[t] = b.attrMap[t],
             DOMAIN d.attrMap[type] = DOMAIN b.attrMap[type], d.attrMap[type].vec = b.attrMap[type].vec
      PROVE  Beside(b, d) /\ Ok(d)
  <2>1. d.pcp = b.pcp
    BY <1>1 DEF Fields
  <2> QED
    BY <1>0, <1>1, <2>1 DEF Beside, Shaped, SamePrograms, Fields, OtherTypes
<1>2. ASSUME NEW b, Ok(b), NEW a PROVE Beside(b, M(b, a)) /\ Ok(M(b, a))
  <2>1. /\ DOMAIN M(b, a) = Fields /\ \A f \in Fields \ {"attrMap"} : M(b, a)[f] = b[f]
        /\ DOMAIN M(b, a).attrMap = Types /\ \A t \in Types \ {type} : M(b, a).attrMap[t] = b.attrMap[t]
        /\ DOMAIN M(b, a).attrMap[type] = DOMAIN b.attrMap[type]
        /\ M(b, a).attrMap[type].vec = b.attrMap[type].vec
    BY <1>0, <1>2 DEF Shaped, Fields
  <2> HIDE DEF M
  <2> QED
    BY <1>1, <1>2, <2>1
<1>3. ASSUME NEW b, Ok(b), NEW v
      PROVE  /\ Beside(b, [b EXCEPT !.attrMap[type].changed = v]) /\ Ok([b EXCEPT !.attrMap[type].changed = v])
             /\ Beside(b, [b EXCEPT !.attrMap[type].last = v]) /\ Ok([b EXCEPT !.attrMap[type].last = v])
  <2> DEFINE d == [b EXCEPT !.attrMap[type].changed = v]
             e == [b EXCEPT !.attrMap[type].last = v]
  <2>1. /\ DOMAIN d = Fields /\ \A f \in Fields \ {"attrMap"} : d[f] = b[f]
        /\ DOMAIN d.attrMap = Types /\ \A t \in Types \ {type} : d.attrMap[t] = b.attrMap[t]
        /\ DOMAIN d.attrMap[type] = DOMAIN b.attrMap[type] /\ d.attrMap[type].vec = b.attrMap[type].vec
    BY <1>0, <1>3 DEF Shaped, Fields
  <2>2. /\ DOMAIN e = Fields /\ \A f \in Fields \ {"attrMap"} : e[f] = b[f]
        /\ DOMAIN e.attrMap = Types /\ \A t \in Types \ {type} : e.attrMap[t] = b.attrMap[t]
        /\ DOMAIN e.attrMap[type] = DOMAIN b.attrMap[type] /\ e.attrMap[type].vec = b.attrMap[type].vec
    BY <1>0, <1>3 DEF Shaped, Fields
  <2> HIDE DEF d, e
  <2>3. Beside(b, d) /\ Ok(d) /\ Beside(b, e) /\ Ok(e)
    BY <1>1, <1>3, <2>1, <2>2
  <2> QED
    BY <2>3 DEF d, e
\* The attribute's apply().
<1>4. ASSUME NEW b, Ok(b), NEW a PROVE UniformsMoved(b, ApplyOne(b, type, a))
  <2> DEFINE m == [b EXCEPT !.material = a]
             l == [b EXCEPT !.lightModel = a]
  <2>1. UniformsMoved(b, m) /\ UniformsMoved(b, l) /\ Shaped(m) /\ Shaped(l)
    BY <1>4 DEF UniformsMoved, OnlyIn, SamePrograms, Shaped, Fields, UniformFields
  <2> HIDE DEF m, l
  <2>2. UniformsMoved(b, UpdateSceneColor(m)) /\ UniformsMoved(b, UpdateSceneColor(l))
    <3>1. UniformsMoved(m, UpdateSceneColor(m)) /\ UniformsMoved(l, UpdateSceneColor(l))
      BY <2>1, UniformsMove DEF UpdateSceneColor
    <3> QED
      BY <2>1, <3>1, UniformsMovedBoth
  <2>3. \A n : UniformsMoved(b, SetFFP(b, n, a))
    BY <1>4, UniformsMove
  <2>4. CASE type = "MATERIAL"
    BY <2>2, <2>4 DEF ApplyOne, ApplyMaterial, m
  <2>5. CASE type = "LIGHTMODEL"
    BY <2>2, <2>5 DEF ApplyOne, ApplyLightModel, l
  <2>6. CASE type = "TEXMAT"
    BY <2>3, <2>6 DEF ApplyOne, ApplyTexMat
  <2>7. CASE type = "FOG"
    BY <2>3, <2>7 DEF ApplyOne, ApplyFog
  <2> QED
    BY <2>4, <2>5, <2>6, <2>7 DEF FFPTypes
<1> HIDE DEF M
<1>5. ASSUME NEW b, Ok(b), NEW a PROVE Beside(b, ApplyAttribute(b, type, a))
  <2> DEFINE d == ApplyOne(M(b, a), type, a)
  <2>1. ApplyAttribute(b, type, a) \in {b, d}
    BY DEF ApplyAttribute, M
  <2>2. Beside(M(b, a), d)
    BY <1>2, <1>4, <1>5, BesideUniforms
  <2>3. Beside(b, d)
    <3> HIDE DEF d
    <3> QED
      BY <1>2, <1>5, <2>2, BesideBoth
  <2>4. Beside(b, b)
    BY <1>5 DEF Beside, SamePrograms, Shaped
  <2> HIDE DEF d
  <2> QED
    BY <2>1, <2>3, <2>4
<1>6. Ok(c) /\ Beside(c, c)
  BY <1>0 DEF StacksRight, AttributeStack, OtherTypes, Beside, SamePrograms, Shaped
<1> HIDE DEF Ok
<1>7. ASSUME NEW a PROVE Beside(c, MarkAttribute(c, type, a)) /\ Ok(MarkAttribute(c, type, a))
  BY <1>3, <1>6 DEF MarkAttribute
<1>8. \A a : Beside(c, ApplyAttribute(MarkAttribute(c, type, a), type, a))
  BY <1>5, <1>7, BesideBoth
<1>9. Beside(c, ApplyTopAttribute([c EXCEPT !.attrMap[type].changed = FALSE], type))
  <2> DEFINE n == [c EXCEPT !.attrMap[type].changed = FALSE]
  <2>1. Beside(c, n) /\ Ok(n)
    BY <1>3, <1>6
  <2> HIDE DEF n
  <2>2. Beside(n, ApplyTopAttribute(n, type))
    BY <1>3, <1>5, <2>1 DEF ApplyTopAttribute
  <2>3. Beside(c, ApplyTopAttribute(n, type))
    BY <2>1, <2>2, BesideBoth
  <2> QED
    BY <2>3 DEF n
<1> QED
  BY <1>6, <1>8, <1>9 DEF ApplyAttributeSlot


-----------------------------------------------------------------------------
(* apply() and the program                                                  *)

\* The program in use is under the defines in force.
InForceNow(c) == c.last # None => c.last[2] = Tops(c.defMap.vec) \cap c.defines[c.last[1]]

\* The pushing and popping of a leaf's defines leaves the rest as it is.
LEMMA DefinesKeptRight ==
  ASSUME NEW c, NEW d, DefinesKept(c, d), DOMAIN c = Fields
  PROVE  /\ Built(c) => Built(d)
         /\ StacksRight(c) => StacksRight(d)
         /\ UsedRight(c) => UsedRight(d)
         /\ Bound(c) => Bound(d)
         /\ Believed(c) => Believed(d)
         /\ \A leaf : ProgramDrawn(c, leaf) => ProgramDrawn(d, leaf)
         /\ DOMAIN d = Fields /\ \A f \in Fields \ {"defMap"} : d[f] = c[f]
<1>1. DOMAIN d = Fields /\ \A f \in Fields \ {"defMap"} : d[f] = c[f]
  BY DEF DefinesKept, OnlyIn
<1>2. /\ d.sets = c.sets /\ d.uniMap = c.uniMap /\ d.attrMap = c.attrMap /\ d.text = c.text
      /\ d.list = c.list /\ d.defines = c.defines /\ d.pcs = c.pcs /\ d.pcp = c.pcp
      /\ d.last = c.last /\ d.used = c.used
  BY <1>1 DEF Fields
<1>3. Built(c) => Built(d)
  BY <1>1, <1>2, ImageFrame
  DEF Built, TextsRight, ShaderDefines, CompiledRight, LinkedRight, LinkRight, DefinesKept
<1>4. StacksRight(c) => StacksRight(d)
  BY <1>2 DEF StacksRight, AttributeStack
<1>5. UsedRight(c) => UsedRight(d)
  BY <1>2 DEF UsedRight, UsedNow, DefinesKept
<1>6. /\ Bound(c) => Bound(d)
      /\ Believed(c) => Believed(d)
  BY <1>2 DEF Bound, Believed, ProgramCache, IsOwn, NotUsable
<1>7. \A leaf : ProgramDrawn(c, leaf) => ProgramDrawn(d, leaf)
  BY <1>2 DEF ProgramDrawn
<1> QED
  BY <1>1, <1>3, <1>4, <1>5, <1>6, <1>7

\* The program once more, if the defines changed under it.
LEMMA IfDefinesChangedRight ==
  ASSUME NEW c, Built(c), UsedRight(c), Bound(c), NEW previous,
         c.last = previous \/ c.last = None \/ ~c.defMap.changed
  PROVE  LET d == ApplyIfDefinesChanged(c, previous)
         IN /\ OnlyIn(c, d, ProgramFields) /\ Built(d) /\ UsedRight(d) /\ Bound(d) /\ InForceNow(d)
            /\ d.defMap.vec = c.defMap.vec
<1> DEFINE d == ApplyIfDefinesChanged(c, previous)
<1>1. CASE ~(c.last # None /\ c.last = previous /\ c.defMap.changed)
  <2>1. d = c
    BY <1>1 DEF ApplyIfDefinesChanged
  <2>2. InForceNow(c)
    BY <1>1 DEF InForceNow, UsedRight, Built, DefinesCached
  <2> QED
    BY <2>1, <2>2 DEF OnlyIn
<1>2. CASE c.last # None /\ c.last = previous /\ c.defMap.changed
  <2> DEFINE p == c.last[1]
  <2>1. d = ApplyProgram(c, p) /\ p \in Programs
    BY <1>2 DEF ApplyIfDefinesChanged, UsedRight, UsedNow, Built, LinkedRight
  <2>2. ProgramApplied(c, d, p)
    BY <2>1, ApplyProgramRight
  <2> HIDE DEF d
  <2>3. DOMAIN c = Fields
    BY DEF Built
  <2>4. d.attrMap = c.attrMap /\ d.list = c.list
    BY <2>2, <2>3 DEF ProgramApplied, OnlyIn, ProgramFields, Fields
  <2>5. d.last # None => /\ d.last[1] = p /\ d.last[2] = Tops(d.defMap.vec) \cap d.defines[p]
                         /\ d.defMap.current = Tops(d.defMap.vec)
    BY <2>2 DEF ProgramApplied, Built, DefinesCached
  <2>6. UsedRight(d) /\ InForceNow(d)
    BY <2>2, <2>5 DEF UsedRight, ProgramApplied, InForceNow
  <2>7. \A q : NotUsable(c, q) => NotUsable(d, q)
    BY <2>2, <2>4, NotUsableLater DEF ProgramApplied
  <2>8. d.last = None => NotUsable(d, p)
    BY <2>2 DEF ProgramApplied
  <2>9. IsOwn(d) => IsOwn(c) /\ d.last[1] = p
    BY <1>2, <2>5 DEF IsOwn
  <2>10. IsOwn(c) /\ ~IsOwn(d) => d.last = None /\ c.attrMap["PROGRAM"].last = p
    BY <2>5 DEF IsOwn, Bound
  <2>11. Bound(d)
    BY <2>4, <2>7, <2>8, <2>9, <2>10 DEF Bound, ProgramCache
  <2>12. Built(d) /\ OnlyIn(c, d, ProgramFields) /\ d.defMap.vec = c.defMap.vec
    BY <2>2 DEF ProgramApplied
  <2> QED
    BY <2>6, <2>11, <2>12 DEF d
<1> QED
  BY <1>1, <1>2

\* A program of last resort.
LEMMA FallbackRight ==
  ASSUME NEW c, Built(c), UsedRight(c), Bound(c), InForceNow(c)
  PROVE  LET d == ApplyFallbackProgramIfNeeded(c)
         IN /\ OnlyIn(c, d, OtherFields) /\ Built(d) /\ UsedRight(d) /\ Bound(d) /\ InForceNow(d)
            /\ d.last # None /\ d.defMap.vec = c.defMap.vec
<1> DEFINE p == IF c.attrMap["TEXTURE"].last # None THEN "fallback_textured" ELSE "fallback_plain"
           e == ApplyProgram(c, p)
           d == ApplyFallbackProgramIfNeeded(c)
<1>1. CASE c.last # None
  BY <1>1 DEF ApplyFallbackProgramIfNeeded, OnlyIn
<1>2. CASE c.last = None
  <2>1. d = [e EXCEPT !.ffpDirty = TRUE]
    BY <1>2 DEF ApplyFallbackProgramIfNeeded
  <2>2. p \in BuiltIn /\ p \in Programs
    BY BuiltInAssumption
  <2> HIDE DEF p
  <2>3. ProgramApplied(c, e, p)
    BY <2>2, ApplyProgramRight
  <2> HIDE DEF e
  <2>4. DOMAIN c = Fields /\ DOMAIN e = Fields
    BY <2>3 DEF ProgramApplied, Built
  <2>5. /\ DOMAIN d = Fields /\ \A f \in Fields \ {"ffpDirty"} : d[f] = e[f]
    BY <2>1, <2>4
  <2> HIDE DEF d
  <2>6. Built(d)
    BY <2>3, <2>5, BuiltFrame DEF ProgramApplied, Fields
  <2>7. /\ d.last = e.last /\ d.used = e.used /\ d.defMap = e.defMap /\ d.pcp = e.pcp
        /\ d.defines = e.defines /\ d.list = e.list /\ d.attrMap = e.attrMap
    BY <2>5 DEF Fields
  <2>8. OnlyIn(c, d, OtherFields)
    <3>1. OnlyIn(c, e, OtherFields)
      BY <2>3, OnlyInMore DEF ProgramApplied, OtherFields
    <3>2. OnlyIn(e, d, OtherFields)
      BY <2>4, <2>5 DEF OnlyIn, OtherFields, UniformFields
    <3> QED
      BY <3>1, <3>2, OnlyInBoth
  <2>9. e.last # None /\ e.last[1] = p /\ e.last[2] = Tops(e.defMap.vec) \cap e.defines[p]
        /\ e.defMap.current = Tops(e.defMap.vec) /\ UsedNow(e)
    <3>1. ~NotUsable(e, p)
      BY <2>2, <2>3, BuiltInUsable DEF ProgramApplied
    <3> QED
      BY <2>3, <3>1 DEF ProgramApplied, Built, DefinesCached
  <2>10. UsedRight(d) /\ InForceNow(d)
    BY <2>7, <2>9 DEF UsedRight, UsedNow, InForceNow
  <2>11. e.attrMap = c.attrMap /\ e.list = c.list
    BY <2>3, <2>4 DEF ProgramApplied, OnlyIn, ProgramFields, Fields
  <2>12. \A q : NotUsable(c, q) => NotUsable(d, q)
    <3>1. \A q : NotUsable(c, q) => NotUsable(e, q)
      BY <2>3, <2>11, NotUsableLater DEF ProgramApplied
    <3> QED
      BY <2>7, <3>1 DEF NotUsable
  <2>13. Bound(d)
    BY <1>2, <2>2, <2>7, <2>9, <2>11, <2>12 DEF Bound, ProgramCache, IsOwn
  <2>14. d.last # None /\ d.defMap.vec = c.defMap.vec
    BY <2>3, <2>7, <2>9 DEF ProgramApplied
  <2> QED
    BY <2>6, <2>8, <2>10, <2>13, <2>14 DEF d
<1> QED
  BY <1>1, <1>2


\* What is remembered between two calls of apply().
ProgramState(c) ==
    Built(c) /\ StacksRight(c) /\ DefineStacks(c) /\ UsedRight(c) /\ Remembered(c.attrMap["PROGRAM"])

\* Either that, or no program is in use and none is asked for.
Believable(c, leaf) ==
    \/ Believed(c)
    \/ c.last = None /\ leaf = NoStateSet /\ c.attrMap["PROGRAM"].vec = << >>

\* The leaf's program is in use, under the stacks' defines and the leaf's own.
LeafProgram(c, leaf) ==
    /\ c.last # None /\ UsedNow(c)
    /\ c.last[2] = Tops(PushedOver(c.defMap.vec, leaf.defines)) \cap c.defines[c.last[1]]
    /\ Bound(c) /\ ProgramDrawn(c, leaf)

\* The fields of modes, textures and uniforms.
BesideFields == TextureFields \cup {"modeMap", "modes", "images", "value", "unref", "attrMap", "ffp",
                                    "ffpDirty", "ffpLast", "material", "lightModel", "modelView", "matrix"}

\* Those, and what is remembered of textures, are beside the programs.
LEMMA BesideFrame ==
  ASSUME NEW c, NEW d, Shaped(c), OnlyIn(c, d, BesideFields), DOMAIN d.attrMap = DOMAIN c.attrMap,
         \A t \in OtherTypes : d.attrMap[t] = c.attrMap[t]
  PROVE  Beside(c, d)
<1>1. /\ DOMAIN d = Fields /\ d.pcp = c.pcp
      /\ \A f \in {"sets", "uniMap", "defMap", "text", "list", "defines", "pcs", "last", "used"} : d[f] = c[f]
  BY DEF Shaped, OnlyIn, BesideFields, TextureFields, Fields
<1>2. "PROGRAM" \in OtherTypes
  BY DEF OtherTypes, Types, AttributeTypes
<1> QED
  BY <1>1, <1>2 DEF Beside, Shaped, SamePrograms

\* What is built has the shape.
LEMMA BuiltShaped ==
  ASSUME NEW c, Built(c)
  PROVE  Shaped(c)
BY DEF Built, LinkedRight, LinkRight, Shaped

\* All of that is unmoved by what is beside it.
LEMMA BesideState ==
  ASSUME NEW c, NEW d, Beside(c, d)
  PROVE  /\ ProgramState(c) => ProgramState(d)
         /\ \A leaf : Believable(c, leaf) => Believable(d, leaf)
         /\ \A leaf : LeafProgram(c, leaf) => LeafProgram(d, leaf)
         /\ Shaped(d)
<1>1. /\ d.last = c.last /\ d.used = c.used /\ d.defMap = c.defMap /\ d.defines = c.defines
      /\ d.attrMap["PROGRAM"] = c.attrMap["PROGRAM"] /\ Shaped(d)
  BY DEF Beside
<1>2. UsedNow(c) => UsedNow(d)
  BY <1>1 DEF UsedNow, Beside, SamePrograms, PCPFields
<1>3. ProgramState(c) => ProgramState(d)
  BY <1>1, BesideRight DEF ProgramState
<1>4. \A leaf : Believable(c, leaf) => Believable(d, leaf)
  BY <1>1, BesideRight DEF Believable
<1>5. \A leaf : LeafProgram(c, leaf) => LeafProgram(d, leaf)
  BY <1>1, <1>2, BesideRight DEF LeafProgram
<1> QED
  BY <1>1, <1>3, <1>4, <1>5


\* The attributes and modes that come before the defines.
LEMMA BeforeDefines ==
  ASSUME NEW c, ProgramState(c), TexturesRight(c), NEW leaf \in StateSets \cup {NoStateSet}
  PROVE  Beside(c, ApplyModes(ApplyTextureAttributes(c, leaf), leaf))
<1> DEFINE a == ApplyAttributeSlot(c, "TEXTURE", leaf)
           b == ApplyAttributeSlot(a, "TEXMAT", leaf)
           n == ApplyModes(b, leaf)
<1>0. Shaped(c) /\ DOMAIN c = Fields
  BY BuiltShaped DEF ProgramState, Built
<1>1. Beside(c, a)
  <2>1. /\ OnlyIn(c, a, TextureFields \cup {"attrMap"}) /\ TexturesRight(a)
        /\ \A u \in OtherTypes : a.attrMap[u] = c.attrMap[u]
    BY <1>0, TextureSlot DEF OtherTypes
  <2>2. DOMAIN a.attrMap = DOMAIN c.attrMap
    BY <2>1 DEF TexturesRight, TextureStack
  <2> HIDE DEF a
  <2>3. OnlyIn(c, a, BesideFields)
    BY <2>1, OnlyInMore DEF BesideFields
  <2> QED
    BY <1>0, <2>1, <2>2, <2>3, BesideFrame
<1> HIDE DEF a
<1>2. Beside(a, b)
  <2>1. ProgramState(a) /\ Shaped(a)
    BY <1>1, BesideState
  <2> QED
    BY <2>1, FFPSlotBeside DEF ProgramState, FFPTypes
<1> HIDE DEF b
<1>3. Beside(b, n)
  <2>1. Shaped(b)
    BY <1>2, BesideState
  <2>2. DOMAIN n = Fields /\ \A f \in Fields \ {"modeMap", "modes"} : n[f] = b[f]
    BY <2>1, Zenon DEF ApplyModes, Shaped
  <2> HIDE DEF n
  <2>3. OnlyIn(b, n, BesideFields) /\ n.attrMap = b.attrMap
    BY <2>1, <2>2 DEF OnlyIn, BesideFields, Shaped, Fields
  <2> QED
    BY <2>1, <2>3, BesideFrame
<1> HIDE DEF n
<1>4. Beside(c, n)
  BY <1>1, <1>2, <1>3, BesideBoth
<1> QED
  BY <1>4 DEF n, b, a, ApplyTextureAttributes

\* The attributes that State keeps in uniforms.
LEMMA LightingBeside ==
  ASSUME NEW c, Shaped(c), StacksRight(c), NEW leaf
  PROVE  Beside(c, ApplyLighting(c, leaf))
<1> DEFINE d1 == ApplyAttributeSlot(c, "MATERIAL", leaf)
           d2 == ApplyAttributeSlot(d1, "LIGHTMODEL", leaf)
           d3 == ApplyAttributeSlot(d2, "FOG", leaf)
<1>1. Beside(c, d1)
  BY FFPSlotBeside DEF FFPTypes
<1> HIDE DEF d1
<1>2. Beside(d1, d2)
  <2>1. StacksRight(d1) /\ Shaped(d1)
    BY <1>1, BesideRight DEF Beside
  <2> QED
    BY <2>1, FFPSlotBeside DEF FFPTypes
<1> HIDE DEF d2
<1>3. Beside(c, d2)
  BY <1>1, <1>2, BesideBoth
<1>4. Beside(d2, d3)
  <2>1. StacksRight(d2) /\ Shaped(d2)
    BY <1>3, BesideRight DEF Beside
  <2> QED
    BY <2>1, FFPSlotBeside DEF FFPTypes
<1> HIDE DEF d3
<1>5. Beside(c, d3)
  BY <1>3, <1>4, BesideBoth
<1> QED
  BY <1>5 DEF d3, d2, d1, ApplyLighting

\* From the defines of the leaf to the program it is drawn with.
ProgramChosen(n, d, leaf) ==
    /\ Built(d) /\ StacksRight(d) /\ UsedRight(d) /\ Bound(d) /\ InForceNow(d)
    /\ Remembered(d.attrMap["PROGRAM"]) /\ ProgramDrawn(d, leaf)
    /\ d.sets = n.sets /\ d.last # None
    /\ d.defMap.vec = PushedOver(n.defMap.vec, leaf.defines)

\* apply() up to the fallback: the program of the leaf or of the state sets is in
\* use, or the fallback of the texture where it cannot be.
LEMMA ProgramIsChosen ==
  ASSUME NEW n, ProgramState(n), NEW leaf \in StateSets \cup {NoStateSet}, Believable(n, leaf)
  PROVE  ProgramChosen(n, ApplyFallbackProgramIfNeeded(ApplyWithDefines(n, leaf)), leaf)
<1> DEFINE d1 == PushDefines(n, leaf.defines)
           d4 == ApplyLighting(d1, leaf)
           d5 == ApplyAttributeSlot(d4, "PROGRAM", leaf)
           d6 == ApplyIfDefinesChanged(d5, n.last)
           d7 == ApplyFallbackProgramIfNeeded(d6)
<1>0. /\ DOMAIN n = Fields /\ DefinesCached(n) /\ DefineEntries(n) /\ DefineList(leaf.defines)
  <2>1. n.sets \in Seq(StateSets) /\ DefineStacks(n) /\ DOMAIN n = Fields /\ DefinesCached(n)
    BY DEF ProgramState, StacksRight, Built
  <2>2. DefineEntries(n)
    BY <2>1, EntriesAre
  <2>3. DefineList(leaf.defines)
    <3>1. DefineList(NoStateSet.defines)
      BY DEF DefineList, NoStateSet
    <3> QED
      BY <3>1, ListsAre
  <2> QED
    BY <2>1, <2>2, <2>3
<1>1. /\ Built(d1) /\ StacksRight(d1) /\ UsedRight(d1) /\ Believable(d1, leaf)
      /\ d1.attrMap = n.attrMap /\ d1.last = n.last /\ d1.sets = n.sets
      /\ d1.defMap.vec = PushedOver(n.defMap.vec, leaf.defines)
  <2>1. DefinesKept(n, d1) /\ d1.defMap.vec = PushedOver(n.defMap.vec, leaf.defines)
    BY <1>0, DefinesPush
  <2> HIDE DEF d1
  <2>2. d1.attrMap = n.attrMap /\ d1.last = n.last /\ d1.sets = n.sets
    BY <1>0, <2>1, DefinesKeptRight DEF Fields
  <2> QED
    BY <1>0, <2>1, <2>2, DefinesKeptRight DEF ProgramState, Believable
<1> HIDE DEF d1
<1>2. Beside(d1, d4)
  BY <1>1, BuiltShaped, LightingBeside
<1> HIDE DEF d4
<1>3. /\ ProgramReady(d4) /\ Believable(d4, leaf)
      /\ d4.last = n.last /\ d4.sets = n.sets /\ d4.defMap.vec = PushedOver(n.defMap.vec, leaf.defines)
  <2>1. Built(d4) /\ StacksRight(d4) /\ UsedRight(d4) /\ Believable(d4, leaf)
    BY <1>1, <1>2, BesideRight, BesideState
  <2>2. /\ d4.attrMap["PROGRAM"] = n.attrMap["PROGRAM"]
        /\ d4.last = n.last /\ d4.sets = n.sets /\ d4.defMap.vec = PushedOver(n.defMap.vec, leaf.defines)
    BY <1>1, <1>2 DEF Beside
  <2> QED
    BY <2>1, <2>2 DEF ProgramReady, ProgramState
<1>4. /\ SlotKept(d4, d5) /\ Bound(d5) /\ ProgramDrawn(d5, leaf)
      /\ Remembered(d5.attrMap["PROGRAM"])
  BY <1>3, ProgramSlot DEF Believable
<1> HIDE DEF d5
<1>5. /\ Built(d5) /\ UsedRight(d5) /\ StacksRight(d5)
      /\ d5.sets = n.sets /\ d5.defMap.vec = PushedOver(n.defMap.vec, leaf.defines)
      /\ d5.last = n.last \/ d5.last = None \/ ~d5.defMap.changed
  <2>1. DOMAIN d4 = Fields /\ DOMAIN d5 = Fields
    BY <1>3, <1>4 DEF ProgramReady, Built, SlotKept
  <2>2. d5.sets = d4.sets /\ d5.uniMap = d4.uniMap
    BY <1>4, <2>1 DEF SlotKept, OnlyIn, ProgramFields, Fields
  <2>3. /\ DOMAIN d5.attrMap = DOMAIN d4.attrMap
        /\ \A t \in DOMAIN d4.attrMap \ {"PROGRAM"} : d5.attrMap[t] = d4.attrMap[t]
        /\ DOMAIN d5.attrMap["PROGRAM"] = DOMAIN d4.attrMap["PROGRAM"]
        /\ d5.attrMap["PROGRAM"].vec = d4.attrMap["PROGRAM"].vec
    BY <1>4 DEF SlotKept, OnlyType
  <2>4. StacksRight(d5)
    BY <1>3, <2>2, <2>3 DEF ProgramReady, StacksRight, AttributeStack, OtherTypes
  <2> QED
    BY <1>3, <1>4, <2>2, <2>4 DEF SlotKept
<1>6. /\ OnlyIn(d5, d6, ProgramFields) /\ Built(d6) /\ UsedRight(d6) /\ Bound(d6) /\ InForceNow(d6)
      /\ d6.defMap.vec = d5.defMap.vec
  BY <1>4, <1>5, IfDefinesChangedRight
<1> HIDE DEF d6
<1>7. /\ OnlyIn(d6, d7, OtherFields) /\ Built(d7) /\ UsedRight(d7) /\ Bound(d7) /\ InForceNow(d7)
      /\ d7.last # None /\ d7.defMap.vec = d6.defMap.vec
  BY <1>6, FallbackRight
<1> HIDE DEF d7
<1>8. d7.sets = d5.sets /\ d7.attrMap = d5.attrMap /\ d7.uniMap = d5.uniMap
  <2>1. DOMAIN d5 = Fields /\ DOMAIN d6 = Fields
    BY <1>5, <1>6 DEF Built
  <2> QED
    BY <1>6, <1>7, <2>1 DEF OnlyIn, OtherFields, ProgramFields, UniformFields, Fields
<1>9. StacksRight(d7)
  BY <1>5, <1>8 DEF StacksRight, AttributeStack
<1>10. ProgramDrawn(d7, leaf) /\ Remembered(d7.attrMap["PROGRAM"])
  BY <1>4, <1>8 DEF ProgramDrawn
<1>11. d7 = ApplyFallbackProgramIfNeeded(ApplyWithDefines(n, leaf))
  BY DEF d7, d6, d5, d4, d1, ApplyWithDefines, ApplyAttributes
<1>12. ProgramChosen(n, d7, leaf)
  BY <1>5, <1>6, <1>7, <1>8, <1>9, <1>10 DEF ProgramChosen
<1> QED
  BY <1>11, <1>12

\* apply(): the program the leaf asks for, and everything is remembered right.
LEMMA ApplyPrograms ==
  ASSUME NEW c, ProgramState(c), TexturesRight(c), NEW leaf \in StateSets \cup {NoStateSet},
         Believable(c, leaf)
  PROVE  ProgramState(Apply(c, leaf)) /\ LeafProgram(Apply(c, leaf), leaf)
<1> DEFINE n  == ApplyModes(ApplyTextureAttributes(c, leaf), leaf)
           d7 == ApplyFallbackProgramIfNeeded(ApplyWithDefines(n, leaf))
           d8 == ApplyUniforms(d7, leaf)
           d9 == PopDefines(d8, leaf.defines)
<1>1. ProgramState(n) /\ Believable(n, leaf)
  BY BeforeDefines, BesideState
<1>2. Apply(c, leaf) = d9
  BY DEF Apply, ApplyState
<1> HIDE DEF n
<1>3. ProgramChosen(n, d7, leaf)
  BY <1>1, ProgramIsChosen
<1> HIDE DEF d7
<1>4. Beside(d7, d8)
  BY <1>3, BuiltShaped, DrawnUniformsMove, BesideUniforms DEF ProgramChosen
<1> HIDE DEF d8
<1>5. /\ Built(d8) /\ StacksRight(d8) /\ UsedRight(d8) /\ Bound(d8) /\ ProgramDrawn(d8, leaf)
      /\ Remembered(d8.attrMap["PROGRAM"]) /\ d8.sets = n.sets /\ d8.last # None
      /\ d8.defMap.vec = PushedOver(n.defMap.vec, leaf.defines)
      /\ d8.last[2] = Tops(d8.defMap.vec) \cap d8.defines[d8.last[1]]
  <2>1. /\ d8.attrMap["PROGRAM"] = d7.attrMap["PROGRAM"] /\ d8.sets = d7.sets /\ d8.last = d7.last
        /\ d8.defMap = d7.defMap /\ d8.defines = d7.defines
    BY <1>4 DEF Beside
  <2>2. Built(d8) /\ StacksRight(d8) /\ UsedRight(d8) /\ Bound(d8) /\ ProgramDrawn(d8, leaf)
    BY <1>3, <1>4, BesideRight DEF ProgramChosen
  <2> QED
    BY <1>3, <2>1, <2>2 DEF ProgramChosen, InForceNow
<1>6. \A x \in Defines : n.defMap.vec[x] \in Seq(EntriesOf("defines", x))
  BY <1>1, EntriesAre DEF ProgramState, StacksRight, DefineEntries
<1>7. DefineList(leaf.defines)
  <2>1. DefineList(NoStateSet.defines)
    BY DEF DefineList, NoStateSet
  <2> QED
    BY <2>1, ListsAre
<1>8. DefineEntries(d8)
  BY <1>5, <1>6, <1>7, DefinesRestored DEF DefineEntries
<1>9. DOMAIN d8 = Fields /\ DefinesCached(d8)
  BY <1>5 DEF Built
<1>10. DefinesKept(d8, d9) /\ d9.defMap.vec = PoppedOff(d8.defMap.vec, leaf.defines)
  BY <1>8, <1>9, DefinesPop
<1> HIDE DEF d9
<1>11. \A x \in Defines : d9.defMap.vec[x] = n.defMap.vec[x]
  BY <1>5, <1>6, <1>7, <1>10, DefinesRestored
<1>12. /\ d9.sets = d8.sets /\ d9.attrMap = d8.attrMap /\ d9.last = d8.last /\ d9.used = d8.used
       /\ d9.pcp = d8.pcp /\ d9.defines = d8.defines
  BY <1>9, <1>10, DefinesKeptRight DEF Fields
<1>13. /\ Built(d9) /\ StacksRight(d9) /\ UsedRight(d9) /\ Bound(d9) /\ ProgramDrawn(d9, leaf)
  BY <1>5, <1>9, <1>10, DefinesKeptRight
<1>14. DefineStacks(d9)
  BY <1>1, <1>5, <1>11, <1>12 DEF ProgramState, DefineStacks
<1>15. ProgramState(d9)
  BY <1>5, <1>12, <1>13, <1>14 DEF ProgramState
<1>16. PushedOver(d9.defMap.vec, leaf.defines) = PushedOver(n.defMap.vec, leaf.defines)
  BY <1>11 DEF PushedOver
<1>17. LeafProgram(d9, leaf)
  BY <1>5, <1>12, <1>13, <1>16 DEF LeafProgram, UsedRight
<1> QED
  BY <1>2, <1>15, <1>17


-----------------------------------------------------------------------------
(* What is linked, and what is asked for                                    *)

\* An image that can be linked: one object for each shader, all of them usable.
ImageWhole(c, q, A) ==
    /\ \A stage \in Stages : Group(c, q, stage) # {}
    /\ \A sh \in c.list[q] : Requires[sh] \subseteq A /\ <<sh, c.text[sh]>> \notin Broken
    /\ \A stage \in Stages :
         ObjectsFor(c, Group(c, q, stage), A \cap c.defines[q]) =
           {[shader  |-> sh, version |-> c.text[sh],
             defs    |-> A \cap UNION {Imports[x][c.text[x]] : x \in Group(c, q, stage)}]
              : sh \in Group(c, q, stage)}

\* A program that links is made of one object for every shader of every stage.
LEMMA ObjectsAre ==
  ASSUME NEW c, Built(c), NEW q \in Programs, NEW A \in SUBSET Defines,
         Linkable(ImageFor(c, q, A \cap c.defines[q]))
  PROVE  ImageWhole(c, q, A)
<1> DEFINE ds == A \cap c.defines[q]
           G(stage) == Group(c, q, stage)
           O(stage) == ObjectsFor(c, G(stage), ds)
<1>1. /\ \A stage \in Stages : \E o \in ImageFor(c, q, ds) : StageOf[o.shader] = stage
      /\ \A o \in ImageFor(c, q, ds) : <<o.shader, o.version>> \notin Broken
  BY DEF Linkable
<1>2. ImageFor(c, q, ds) = UNION {O(stage) : stage \in Stages}
  BY DEF ImageFor
<1> HIDE DEF ds
<1>3. ASSUME NEW stage \in Stages
      PROVE  /\ G(stage) # {} /\ \A sh \in G(stage) : Requires[sh] \subseteq ds
             /\ O(stage) = {[shader  |-> sh, defs |-> ds \cap UNION {Imports[x][c.text[x]] : x \in G(stage)},
                             version |-> c.text[sh]] : sh \in G(stage)}
  <2>1. PICK o \in ImageFor(c, q, ds) : StageOf[o.shader] = stage
    BY <1>1
  <2>2. PICK s \in Stages : o \in O(s)
    BY <1>2
  <2>3. ~\E sh \in G(s) : ~(Requires[sh] \subseteq ds)
    BY <2>2 DEF ObjectsFor
  <2>4. PICK sh \in G(s) : o = [shader  |-> sh, version |-> c.text[sh],
                                defs |-> ds \cap UNION {Imports[x][c.text[x]] : x \in G(s)}]
    BY <2>2, <2>3 DEF ObjectsFor
  <2>5. StageOf[sh] = s /\ o.shader = sh
    BY <2>4 DEF Group
  <2>6. s = stage
    BY <2>1, <2>5
  <2> QED
    BY <2>3, <2>4, <2>6 DEF ObjectsFor
<1>4. ASSUME NEW sh \in c.list[q]
      PROVE  Requires[sh] \subseteq A /\ <<sh, c.text[sh]>> \notin Broken
  <2>1. StageOf[sh] \in Stages /\ sh \in G(StageOf[sh])
    BY ProgramAssumption DEF Built, TextsRight, Group
  <2> DEFINE s == StageOf[sh]
             o == [shader |-> sh, version |-> c.text[sh],
                   defs |-> ds \cap UNION {Imports[x][c.text[x]] : x \in G(s)}]
  <2>2. o \in O(s)
    BY <1>3, <2>1
  <2>3. o \in ImageFor(c, q, ds)
    <3> HIDE DEF O, o
    <3> QED
      BY <1>2, <2>1, <2>2
  <2>4. o.shader = sh /\ o.version = c.text[sh]
    OBVIOUS
  <2> HIDE DEF o
  <2>5. Requires[sh] \subseteq ds
    BY <1>3, <2>1
  <2> QED
    BY <1>1, <2>3, <2>4, <2>5 DEF ds
<1>5. ASSUME NEW stage \in Stages
      PROVE  ds \cap UNION {Imports[x][c.text[x]] : x \in G(stage)}
               = A \cap UNION {Imports[x][c.text[x]] : x \in G(stage)}
  <2>1. c.defines[q] = UNION {Imports[sh][c.text[sh]] \cup Requires[sh] : sh \in c.list[q]}
    BY DEF Built, TextsRight, ShaderDefines
  <2>2. UNION {Imports[x][c.text[x]] : x \in G(stage)} \subseteq c.defines[q]
    BY <2>1 DEF Group
  <2> QED
    BY <2>2 DEF ds
<1>6. ASSUME NEW stage \in Stages
      PROVE  O(stage) = {[shader  |-> sh, version |-> c.text[sh],
                          defs    |-> A \cap UNION {Imports[x][c.text[x]] : x \in G(stage)}]
                           : sh \in G(stage)}
  BY <1>3, <1>5
<1> QED
  BY <1>3, <1>4, <1>6 DEF ds, ImageWhole

\* The image is the one object for each shader, with the defines its stage asks about.
LEMMA LinkedIs ==
  ASSUME NEW q \in Programs, Built(ctx), AskedDefines \subseteq Defines,
         Linkable(ImageFor(ctx, q, AskedDefines \cap ctx.defines[q]))
  PROVE  ImageFor(ctx, q, AskedDefines \cap ctx.defines[q]) = Linked(q)
<1> DEFINE A == AskedDefines
           U(stage) == UNION {Imports[x][ctx.text[x]] : x \in Group(ctx, q, stage)}
           O(stage) == ObjectsFor(ctx, Group(ctx, q, stage), A \cap ctx.defines[q])
           R(sh, stage) == [shader |-> sh, version |-> ctx.text[sh], defs |-> A \cap U(stage)]
<1>0. A \in SUBSET Defines
  OBVIOUS
<1> HIDE DEF A
<1>1. \A stage \in Stages : O(stage) = {R(sh, stage) : sh \in Group(ctx, q, stage)}
  <2>1. ImageWhole(ctx, q, A)
    BY <1>0, ObjectsAre DEF A
  <2> QED
    BY <2>1 DEF ImageWhole
<1>2. ImageFor(ctx, q, A \cap ctx.defines[q]) = UNION {O(stage) : stage \in Stages}
  BY DEF ImageFor
<1>3. Linked(q) = {R(sh, StageOf[sh]) : sh \in ctx.list[q]}
  BY DEF Linked, A
<1>4. \A sh \in ctx.list[q] : StageOf[sh] \in Stages /\ sh \in Group(ctx, q, StageOf[sh])
  BY ProgramAssumption DEF Built, TextsRight, Group
<1>5. \A stage \in Stages : \A sh \in Group(ctx, q, stage) : sh \in ctx.list[q] /\ StageOf[sh] = stage
  BY DEF Group
<1> HIDE DEF O, R
<1>6. UNION {O(stage) : stage \in Stages} = {R(sh, StageOf[sh]) : sh \in ctx.list[q]}
  <2>1. ASSUME NEW stage \in Stages, NEW o \in O(stage)
        PROVE  o \in {R(sh, StageOf[sh]) : sh \in ctx.list[q]}
    BY <1>1, <1>5, <2>1
  <2>2. ASSUME NEW sh \in ctx.list[q]
        PROVE  R(sh, StageOf[sh]) \in O(StageOf[sh]) /\ StageOf[sh] \in Stages
    BY <1>1, <1>4, <2>2
  <2> QED
    BY <2>1, <2>2
<1> QED
  BY <1>2, <1>3, <1>6 DEF A

\* Between frames no program of the scene's is believed applied, and none is in use.
NoProgram(c) == c.attrMap["PROGRAM"].last \notin Programs /\ ~IsOwn(c)

\* The inductive invariant: besides StateRight, every program is built from
\* the texts as they are, the stacks hold what the state sets ask for, what
\* is remembered of programs and defines is right, and a leaf that was drawn
\* has its program.
ProgramsRight ==
    /\ StateRight
    /\ ProgramState(ctx) /\ Believed(ctx)
    /\ ~drawing => NoProgram(ctx)
    /\ drawn # None => LeafProgram(ctx, drawn)

\* The defines asked for are those on top once the leaf's are pushed.
LEMMA AskedDefinesAre ==
  ASSUME ProgramsRight, drawn # None
  PROVE  AskedDefines = Tops(PushedOver(ctx.defMap.vec, drawn.defines))
<1> DEFINE vec(x) == ctx.defMap.vec[x]
           new == PushedOver(ctx.defMap.vec, drawn.defines)
<1>0. /\ ctx.sets \in Seq(StateSets) /\ drawn \in StateSets \cup {NoStateSet}
      /\ DefineStacks(ctx) /\ DefineEntries(ctx)
  BY EntriesAre DEF ProgramsRight, StateRight, LeafDrawn, ProgramState, StacksRight
<1>1. DefineList(drawn.defines)
  <2>1. DefineList(NoStateSet.defines)
    BY DEF DefineList, NoStateSet
  <2> QED
    BY <1>0, <2>1, ListsAre
<1>2. ASSUME NEW x \in Defines
      PROVE  AskedOr("defines", x, "off") = "on" <=> new[x] # << >> /\ Last(new[x]).value = "on"
  <2> DEFINE v == vec(x)
             e == drawn.defines[x]
             ask == AskedOr("defines", x, "off")
  <2>1. StackOf(v, ctx.sets, "defines", x) /\ v \in Seq(EntriesOf("defines", x))
    BY <1>0 DEF DefineStacks, DefineEntries
  <2>2. ask = IF OwnEntry(drawn["defines"], x, v) THEN drawn["defines"][x].value
              ELSE IF v = << >> THEN "off" ELSE Last(v).value
    BY <1>0, <2>1, AskedIs
  <2>3. new[x] = IF x \in DOMAIN drawn.defines THEN PushEntry(v, e) ELSE v
    BY DEF PushedOver
  <2>4. x \in DOMAIN drawn.defines =>
          /\ PushEntry(v, e) # << >>
          /\ Last(PushEntry(v, e)) = IF Overridden(v, e) THEN Last(v) ELSE e
    BY <1>1, <2>1, PushedIs DEF DefineList
  <2>5. OwnEntry(drawn["defines"], x, v) <=> x \in DOMAIN drawn.defines /\ ~Overridden(v, e)
    BY DEF OwnEntry
  <2>6. Overridden(v, e) => v # << >>
    BY DEF Overridden
  <2>7. "off" # "on"
    OBVIOUS
  <2> HIDE DEF new, v, e, ask
  <2>8. CASE x \in DOMAIN drawn.defines /\ ~Overridden(v, e)
    BY <2>2, <2>3, <2>4, <2>5, <2>8 DEF ask, e
  <2>9. CASE x \in DOMAIN drawn.defines /\ Overridden(v, e)
    BY <2>2, <2>3, <2>4, <2>5, <2>6, <2>9 DEF ask
  <2>10. CASE x \notin DOMAIN drawn.defines
    BY <2>2, <2>3, <2>5, <2>7, <2>10 DEF ask
  <2> QED
    BY <2>8, <2>9, <2>10
<1> QED
  BY <1>2 DEF AskedDefines, Tops

\* The program asked for is the one believed applied, or none is.
LEMMA AskedProgramIs ==
  ASSUME ProgramsRight, drawn # None
  PROVE  LET q == AskedOr("attributes", "PROGRAM", None)
             last == ctx.attrMap["PROGRAM"].last
         IN IF q = None THEN last \in {Default, None} ELSE last = q /\ q \in Programs \ BuiltIn
<1> DEFINE q == AskedOr("attributes", "PROGRAM", None)
           vec == ctx.attrMap["PROGRAM"].vec
           last == ctx.attrMap["PROGRAM"].last
<1>0. /\ ctx.sets \in Seq(StateSets) /\ drawn \in StateSets \cup {NoStateSet} /\ StacksRight(ctx)
      /\ ProgramDrawn(ctx, drawn) /\ None \notin Programs
  BY StateAssumption DEF ProgramsRight, StateRight, LeafDrawn, ProgramState, StacksRight, LeafProgram
<1>1. StackOf(vec, ctx.sets, "attributes", "PROGRAM")
  BY <1>0 DEF StacksRight, AttributeStack, OtherTypes, Types, AttributeTypes
<1>2. q = IF OwnEntry(drawn["attributes"], "PROGRAM", vec) THEN drawn["attributes"]["PROGRAM"].value
          ELSE IF vec = << >> THEN None ELSE Last(vec).value
  BY <1>0, <1>1, AskedIs
<1>3. /\ OwnEntry(drawn.attributes, "PROGRAM", vec) =>
            drawn.attributes["PROGRAM"].value \in Programs \ BuiltIn
      /\ vec # << >> => Last(vec).value \in Programs \ BuiltIn
  BY <1>0, ProgramAsked
<1>4. IF OwnEntry(drawn.attributes, "PROGRAM", vec) THEN last = drawn.attributes["PROGRAM"].value
      ELSE IF vec # << >> THEN last = Last(vec).value
      ELSE last \in {Default, None}
  BY <1>0 DEF ProgramDrawn
<1> HIDE DEF q, vec, last
<1>5. IF q = None THEN last \in {Default, None} ELSE last = q /\ q \in Programs \ BuiltIn
  BY <1>0, <1>2, <1>3, <1>4
<1> QED
  BY <1>5 DEF q, last

\* What is remembered of the programs is what the state sets and the texts ask for.
LEMMA RightIsProgram ==
  ASSUME ProgramsRight
  PROVE  ProgramIsRight
<1> SUFFICES ASSUME drawn # None PROVE ProgramIsRight
  BY DEF ProgramIsRight
<1> DEFINE q == AskedOr("attributes", "PROGRAM", None)
           last == ctx.attrMap["PROGRAM"].last
           ds == AskedDefines \cap ctx.defines[ctx.last[1]]
           right(p) == /\ \A stage \in Stages : Group(ctx, p, stage) # {}
                       /\ \A sh \in ctx.list[p] : /\ Requires[sh] \subseteq AskedDefines
                                                   /\ <<sh, ctx.text[sh]>> \notin Broken
<1>1. /\ ctx.last # None /\ UsedNow(ctx) /\ Bound(ctx) /\ Built(ctx) /\ ctx.last[2] = ds
  BY AskedDefinesAre DEF ProgramsRight, LeafProgram, ProgramState
<1>2. ctx.last[1] \in Programs /\ ctx.last \in DOMAIN ctx.pcp /\ ctx.pcp[ctx.last].isLinked
      /\ ctx.used = ctx.last
  BY <1>1 DEF UsedNow, Built, LinkedRight
<1>3. /\ ctx.pcp[ctx.last].image = ImageFor(ctx, ctx.last[1], ds)
      /\ Linkable(ctx.pcp[ctx.last].image)
  BY <1>1, <1>2 DEF Built, LinkedRight, LinkRight
<1>4. IF q = None THEN last \in {Default, None} ELSE last = q /\ q \in Programs \ BuiltIn
  BY AskedProgramIs
<1>5. Default \notin Programs /\ None \notin Programs
  BY StateAssumption
<1>6. AskedProgram = IF q # None /\ right(q) THEN q ELSE None
  BY DEF AskedProgram
<1>7. AskedDefines \subseteq Defines
  BY DEF AskedDefines
<1> HIDE DEF q, last
<1>8. CASE IsOwn(ctx)
  <2>1. last = ctx.last[1] /\ ctx.last[1] \notin BuiltIn
    BY <1>1, <1>8 DEF Bound, IsOwn, last
  <2>2. q = ctx.last[1] /\ q # None
    BY <1>2, <1>4, <1>5, <2>1
  <2>3. Linkable(ImageFor(ctx, q, AskedDefines \cap ctx.defines[q]))
    BY <1>3, <2>2
  <2>4. right(q)
    <3>1. ImageWhole(ctx, q, AskedDefines)
      BY <1>1, <1>2, <1>7, <2>2, <2>3, ObjectsAre
    <3> QED
      BY <3>1 DEF ImageWhole
  <2>5. ctx.pcp[ctx.used].image = Linked(q)
    BY <1>1, <1>2, <1>3, <1>7, <2>2, <2>3, LinkedIs
  <2>6. AskedProgram = q
    BY <1>6, <2>2, <2>4
  <2> QED
    BY <1>1, <1>2, <2>2, <2>5, <2>6 DEF ProgramIsRight
<1>9. CASE ~IsOwn(ctx)
  <2>1. ctx.used[1] \in BuiltIn
    BY <1>1, <1>2, <1>9 DEF IsOwn
  <2>2. ASSUME AskedProgram # None PROVE ctx.used[1] # AskedProgram /\ Failed(AskedProgram)
    <3>1. AskedProgram = q /\ q # None /\ right(q)
      BY <1>6, <2>2
    <3>2. q \notin BuiltIn /\ last = q /\ q \in Programs
      BY <1>4, <3>1
    <3>3. NotUsable(ctx, q)
      BY <1>1, <1>9, <3>2 DEF Bound, ProgramCache, last
    <3>4. ctx.list[q] # {}
      BY <3>1 DEF Group, Stages
    <3> QED
      BY <2>1, <3>1, <3>2, <3>3, <3>4 DEF NotUsable, Failed
  <2> QED
    BY <1>1, <1>2, <2>1, <2>2 DEF ProgramIsRight
<1> QED
  BY <1>8, <1>9


-----------------------------------------------------------------------------
(* The steps, and the programs                                              *)

\* What holds of State at all times.
ProgramsKept(c) == ProgramState(c) /\ Believed(c)

\* Pushing and popping state sets.
LEMMA CarriedRight ==
  ASSUME NEW c, NEW d, ProgramsKept(c), Carried(c, d)
  PROVE  ProgramsKept(d) /\ (NoProgram(c) => NoProgram(d)) /\ d.last = c.last
<1>0. DOMAIN c = Fields /\ DOMAIN d = Fields
  BY DEF ProgramsKept, ProgramState, Built, Carried, Stacked
<1>1. /\ d.text = c.text /\ d.list = c.list /\ d.defines = c.defines /\ d.pcs = c.pcs
      /\ d.pcp = c.pcp /\ d.last = c.last /\ d.used = c.used
  BY <1>0 DEF Carried, OnlyIn, StackFields, Fields
<1>2. Built(d)
  BY <1>0, <1>1, ImageFrame
  DEF ProgramsKept, ProgramState, Built, TextsRight, ShaderDefines, CompiledRight, LinkedRight, LinkRight,
      Carried, Stacked
<1>3. StacksRight(d) /\ DefineStacks(d)
  BY DEF Carried, Stacked
<1>4. UsedRight(d)
  BY <1>1 DEF ProgramsKept, ProgramState, UsedRight, UsedNow, Carried
<1> DEFINE a == c.attrMap["PROGRAM"]
           b == d.attrMap["PROGRAM"]
<1>5. b.last = a.last /\ b.cloned = a.cloned /\ (b = a \/ b.changed)
  BY DEF Carried, OtherTypes, Types, AttributeTypes
<1> HIDE DEF a, b
<1>6. Remembered(a) => Remembered(b)
  BY <1>5 DEF Remembered
<1>7. IsOwn(d) <=> IsOwn(c)
  BY <1>1 DEF IsOwn
<1>8. Believed(d)
  BY <1>1, <1>5, <1>7 DEF ProgramsKept, Believed, ProgramCache, NotUsable, a, b
<1>9. NoProgram(c) => NoProgram(d)
  BY <1>5, <1>7 DEF NoProgram, a, b
<1>10. ProgramState(d)
  BY <1>2, <1>3, <1>4, <1>6 DEF ProgramsKept, ProgramState, a, b
<1> QED
  BY <1>1, <1>8, <1>9, <1>10 DEF ProgramsKept

\* What they do not notice.
LEMMA BesideKept ==
  ASSUME NEW c, NEW d, Beside(c, d)
  PROVE  /\ ProgramsKept(c) => ProgramsKept(d)
         /\ NoProgram(c) => NoProgram(d)
<1>1. d.last = c.last /\ d.attrMap["PROGRAM"] = c.attrMap["PROGRAM"]
  BY DEF Beside
<1>2. ProgramsKept(c) => ProgramsKept(d)
  BY BesideRight, BesideState DEF ProgramsKept
<1> QED
  BY <1>1, <1>2 DEF NoProgram, IsOwn

\* What is kept can be pushed on and popped from.
LEMMA KeptStacked ==
  ASSUME NEW c, ProgramsKept(c)
  PROVE  Stacked(c) /\ Shaped(c)
BY BuiltShaped DEF ProgramsKept, ProgramState, Stacked, Built

\* The end of a frame: no program of the scene's remains.
LEMMA EndProgram ==
  ASSUME NEW c, Good(c), ProgramState(c), Believable(c, NoStateSet), c.sets = << >>
  PROVE  ProgramsKept(Apply(c, NoStateSet)) /\ NoProgram(Apply(c, NoStateSet))
<1> DEFINE d == Apply(c, NoStateSet)
<1>1. ProgramState(d) /\ LeafProgram(d, NoStateSet)
  BY ApplyPrograms DEF Good
<1>2. d.sets = << >>
  BY ApplyRight
<1> HIDE DEF d
<1>3. d.attrMap["PROGRAM"].vec = << >>
  BY <1>1, <1>2, StackOfNone DEF ProgramState, StacksRight, AttributeStack, OtherTypes, Types, AttributeTypes
<1>4. d.attrMap["PROGRAM"].last \in {Default, None}
  BY <1>1, <1>3 DEF LeafProgram, ProgramDrawn, OwnEntry, NoStateSet
<1>5. Bound(d) /\ d.last[1] \in Programs
  BY <1>1 DEF LeafProgram, UsedNow, ProgramState, Built, LinkedRight
<1>6. NoProgram(d)
  BY <1>4, <1>5, StateAssumption DEF NoProgram, Bound
<1>7. Believed(d)
  BY <1>5 DEF Bound, Believed
<1> QED
  BY <1>1, <1>6, <1>7 DEF ProgramsKept, d

\* popAllStateSets() leaves no program in use, and none asked for.
LEMMA PopAllProgram ==
  ASSUME NEW c, Good(c), ProgramsKept(c)
  PROVE  ProgramState(PopAllStateSets(c)) /\ Believable(PopAllStateSets(c), NoStateSet)
<1> DEFINE b == PopDownTo(c, 0)
           d == ApplyModelViewMatrix(b, Identity)
           e == [d EXCEPT !.last = None]
<1>0. Len(c.sets) \in Nat /\ 0 \in 0 .. Len(c.sets)
  <2>1. c.sets \in Seq(StateSets)
    BY DEF Good, ModesRight, ModeStacks
  <2> QED
    BY <2>1
<1>1. Carried(c, b)
  BY <1>0, KeptStacked, StacksCarry
<1>2. ProgramsKept(b) /\ Shaped(b)
  BY <1>1, CarriedRight, KeptStacked
<1> HIDE DEF b
<1>3. ProgramsKept(d)
  BY <1>2, UniformsMove, BesideUniforms, BesideKept
<1> HIDE DEF d
<1>4. DOMAIN e = Fields /\ DOMAIN d = Fields /\ e.last = None /\ \A f \in Fields \ {"last"} : e[f] = d[f]
  BY <1>3 DEF ProgramsKept, ProgramState, Built, Fields
<1>5. e = PopAllStateSets(c)
  BY DEF e, d, b, PopAllStateSets
<1> HIDE DEF e
<1>6. /\ e.sets = d.sets /\ e.attrMap = d.attrMap /\ e.uniMap = d.uniMap /\ e.defMap = d.defMap
  BY <1>4 DEF Fields
<1>7. Built(e)
  BY <1>3, <1>4, BuiltFrame DEF ProgramsKept, ProgramState, Fields
<1>8. ProgramState(e)
  BY <1>3, <1>4, <1>6, <1>7
  DEF ProgramsKept, ProgramState, StacksRight, AttributeStack, DefineStacks, UsedRight
<1>9. e.sets = << >>
  BY <1>5, PopAllRight
<1>10. e.attrMap["PROGRAM"].vec = << >>
  BY <1>8, <1>9, StackOfNone DEF ProgramState, StacksRight, AttributeStack, OtherTypes, Types, AttributeTypes
<1>11. Believable(e, NoStateSet)
  BY <1>4, <1>10 DEF Believable
<1> QED
  BY <1>5, <1>8, <1>11

\* Between frames, a change of programs that leaves the one in use as it is.
ProgramsChanged(c, d) ==
    /\ Built(d) /\ OnlyIn(c, d, {"text", "list", "defines", "pcs", "pcp", "defMap"})
    /\ d.defMap.vec = c.defMap.vec
    /\ c.last # None => c.last \in DOMAIN d.pcp /\ d.pcp[c.last].isLinked

\* The built-in programs ask about no define.
LEMMA BuiltInDefines ==
  ASSUME NEW c, Built(c), NEW p \in BuiltIn
  PROVE  c.defines[p] = {}
<1>1. p \in Programs /\ c.defines[p] = ShaderDefines(c, p)
  BY BuiltInAssumption DEF Built, TextsRight
<1>2. c.list[p] = ShadersOf[p] /\ \A sh \in ShadersOf[p] : c.text[sh] = 0
  BY DEF Built, TextsRight
<1>3. \A sh \in ShadersOf[p] : Imports[sh][0] = {} /\ Requires[sh] = {}
  BY BuiltInAssumption
<1> QED
  BY <1>1, <1>2, <1>3 DEF ShaderDefines

\* A change of the programs between two draws keeps what is known of them.
LEMMA ChangedRight ==
  ASSUME NEW c, NEW d, ProgramsKept(c), NoProgram(c), ProgramsChanged(c, d)
  PROVE  ProgramsKept(d) /\ NoProgram(d)
<1>0. DOMAIN c = Fields /\ Built(c) /\ Built(d)
  BY DEF ProgramsKept, ProgramState, Built, ProgramsChanged
<1>1. /\ d.sets = c.sets /\ d.attrMap = c.attrMap /\ d.uniMap = c.uniMap
      /\ d.last = c.last /\ d.used = c.used /\ d.defMap.vec = c.defMap.vec
  BY <1>0 DEF ProgramsChanged, OnlyIn, Fields
<1>2. StacksRight(d) /\ DefineStacks(d)
  BY <1>1 DEF ProgramsKept, ProgramState, StacksRight, AttributeStack, DefineStacks
<1>3. UsedRight(d)
  <2> SUFFICES ASSUME c.last # None PROVE UsedRight(d)
    BY <1>1 DEF UsedRight
  <2>1. c.last[1] \in BuiltIn
    BY DEF NoProgram, IsOwn
  <2>2. c.defines[c.last[1]] = {} /\ d.defines[c.last[1]] = {}
    BY <1>0, <2>1, BuiltInDefines
  <2>3. c.last[2] = {} /\ UsedNow(c)
    BY <2>2 DEF ProgramsKept, ProgramState, UsedRight
  <2> QED
    BY <1>1, <2>2, <2>3 DEF UsedRight, UsedNow, ProgramsChanged
<1>4. NoProgram(d)
  BY <1>1 DEF NoProgram, IsOwn
<1>5. Believed(d)
  BY <1>1 DEF ProgramsKept, Believed, ProgramCache, NoProgram, IsOwn
<1>6. ProgramState(d)
  BY <1>0, <1>1, <1>2, <1>3 DEF ProgramsKept, ProgramState
<1> QED
  BY <1>4, <1>5, <1>6 DEF ProgramsKept


\* The texts and lists as they may change: not those of the built-in programs.
Edited(c, e, ps) ==
    /\ OnlyIn(c, e, {"text", "list", "pcs"})
    /\ e.text \in [Shaders -> 0 .. MaxEdits] /\ e.list \in [Programs -> SUBSET Shaders]
    /\ CompiledRight(e)
    /\ ps \subseteq Programs \ BuiltIn
    /\ \A p \in Programs \ ps : e.list[p] = c.list[p] /\ \A sh \in c.list[p] : e.text[sh] = c.text[sh]

\* dirtyProgram marks every program whose text it is.
LEMMA DirtyProgramRight ==
  ASSUME NEW c, ProgramsKept(c), NoProgram(c), NEW e, NEW ps, Edited(c, e, ps)
  PROVE  ProgramsChanged(c, DirtyProgram(e, ps))
<1> DEFINE d == DirtyProgram(e, ps)
<1>0. DOMAIN c = Fields /\ DOMAIN e = Fields /\ Built(c)
  BY DEF Edited, OnlyIn, ProgramsKept, ProgramState, Built
<1>1. e.defines = c.defines /\ e.pcp = c.pcp /\ e.defMap = c.defMap
  BY <1>0 DEF Edited, OnlyIn, Fields
<1>2. /\ DOMAIN d = Fields /\ \A f \in Fields \ {"defines", "pcp"} : d[f] = e[f]
      /\ d.defines = [p \in Programs |-> IF p \in ps THEN ShaderDefines(e, p) ELSE c.defines[p]]
      /\ d.pcp = [k \in DOMAIN c.pcp |-> IF k[1] \in ps
                     THEN [c.pcp[k] EXCEPT !.needsLink = TRUE, !.isLinked = FALSE] ELSE c.pcp[k]]
  BY <1>0, <1>1, Zenon DEF DirtyProgram, Fields
<1> HIDE DEF d
<1>3. d.text = e.text /\ d.list = e.list /\ d.pcs = e.pcs /\ d.defMap = c.defMap
  BY <1>1, <1>2, Zenon DEF Fields
<1>4. \A p \in Programs : ShaderDefines(d, p) = ShaderDefines(e, p)
  BY <1>3 DEF ShaderDefines
<1>5. ASSUME NEW p \in Programs \ ps PROVE ShaderDefines(e, p) = c.defines[p]
  BY <1>0 DEF Edited, ShaderDefines, Built, TextsRight
<1>6. d.defines = [p \in Programs |-> ShaderDefines(d, p)]
  BY <1>2, <1>4, <1>5, ZenonT(30)
<1>7. TextsRight(d)
  <2>1. \A p \in BuiltIn : p \in Programs \ ps
    BY BuiltInAssumption DEF Edited
  <2>2. ASSUME NEW p \in BuiltIn PROVE d.list[p] = ShadersOf[p] /\ \A sh \in ShadersOf[p] : d.text[sh] = 0
    BY <1>0, <1>3, <2>1 DEF Edited, Built, TextsRight
  <2> QED
    BY <1>3, <1>6, <2>2 DEF Edited, TextsRight
<1>8. CompiledRight(d)
  BY <1>3 DEF Edited, CompiledRight
<1>9. ASSUME NEW k \in DOMAIN c.pcp PROVE LinkRight(d, k)
  <2>1. LinkRight(c, k) /\ k[1] \in Programs
    BY <1>0 DEF Built, LinkedRight
  <2>2. CASE k[1] \in ps
    <3>1. d.pcp[k] = [c.pcp[k] EXCEPT !.needsLink = TRUE, !.isLinked = FALSE]
      BY <1>2, <2>2, Zenon
    <3>2. DOMAIN d.pcp[k] = PCPFields /\ d.pcp[k].needsLink /\ ~d.pcp[k].isLinked
      BY <2>1, <3>1 DEF LinkRight, PCPFields
    <3> QED
      BY <3>2 DEF LinkRight
  <2>3. CASE k[1] \notin ps
    <3>1. d.pcp[k] = c.pcp[k]
      BY <1>2, <2>3, Zenon
    <3>2. d.list[k[1]] = c.list[k[1]] /\ \A sh \in c.list[k[1]] : d.text[sh] = c.text[sh]
      BY <1>3, <2>1, <2>3 DEF Edited
    <3>3. ASSUME NEW stage \in Stages
          PROVE  ObjectsFor(d, Group(d, k[1], stage), k[2]) = ObjectsFor(c, Group(c, k[1], stage), k[2])
      <4> DEFINE G == Group(c, k[1], stage)
                 D(x) == k[2] \cap UNION {Imports[y][x.text[y]] : y \in G}
                 R(x, sh) == [shader |-> sh, defs |-> D(x), version |-> x.text[sh]]
      <4>1. Group(d, k[1], stage) = G /\ \A sh \in G : d.text[sh] = c.text[sh]
        BY <3>2 DEF Group
      <4> HIDE DEF G
      <4>2. D(d) = D(c)
        BY <4>1
      <4>3. ObjectsFor(d, G, k[2]) = IF \E sh \in G : ~(Requires[sh] \subseteq k[2]) THEN {}
                                     ELSE {R(d, sh) : sh \in G}
        BY DEF ObjectsFor
      <4>4. ObjectsFor(c, G, k[2]) = IF \E sh \in G : ~(Requires[sh] \subseteq k[2]) THEN {}
                                     ELSE {R(c, sh) : sh \in G}
        BY DEF ObjectsFor
      <4>5. \A sh \in G : R(d, sh) = R(c, sh)
        <5> HIDE DEF D
        <5> QED
          BY <4>1, <4>2
      <4> HIDE DEF R
      <4>6. {R(d, sh) : sh \in G} = {R(c, sh) : sh \in G}
        BY <4>5
      <4> QED
        BY <4>1, <4>3, <4>4, <4>6 DEF G
    <3>4. ImageFor(d, k[1], k[2]) = ImageFor(c, k[1], k[2])
      BY <3>3 DEF ImageFor
    <3> QED
      BY <2>1, <3>1, <3>4 DEF LinkRight
  <2> QED
    BY <2>2, <2>3
<1>10. Built(d)
  <2>1. LinkedRight(d)
    BY <1>0, <1>2, <1>9, Zenon DEF Built, LinkedRight
  <2> QED
    BY <1>0, <1>2, <1>3, <1>7, <1>8, <2>1, Zenon DEF Built, DefinesCached
<1>11. OnlyIn(c, d, {"text", "list", "defines", "pcs", "pcp", "defMap"})
  BY <1>0, <1>2, Zenon DEF Edited, OnlyIn
<1>12. c.last # None => c.last \in DOMAIN d.pcp /\ d.pcp[c.last].isLinked
  <2> SUFFICES ASSUME c.last # None PROVE c.last \in DOMAIN d.pcp /\ d.pcp[c.last].isLinked
    OBVIOUS
  <2>1. c.last[1] \in BuiltIn /\ c.last \in DOMAIN c.pcp /\ c.pcp[c.last].isLinked
    BY DEF NoProgram, IsOwn, ProgramsKept, ProgramState, UsedRight, UsedNow
  <2>2. c.last[1] \notin ps
    BY <2>1 DEF Edited
  <2> QED
    BY <1>2, <2>1, <2>2, Zenon
<1> QED
  BY <1>3, <1>10, <1>11, <1>12 DEF ProgramsChanged, d

\* Nothing changed.
LEMMA UnchangedRight ==
  ASSUME NEW c, ProgramsKept(c)
  PROVE  ProgramsChanged(c, c)
BY DEF ProgramsKept, ProgramState, ProgramsChanged, OnlyIn, UsedRight, UsedNow

\* setShaderSource, addShader and removeShader.
LEMMA TextsChange ==
  ASSUME NEW c, ProgramsKept(c), NoProgram(c)
  PROVE  /\ \A sh \in Shaders \ UNION {c.list[p] : p \in BuiltIn} :
              c.text[sh] < MaxEdits => ProgramsChanged(c, SetShaderSource(c, sh))
         /\ ProgramsChanged(c, AddShader(c, Host, Optional))
         /\ ProgramsChanged(c, RemoveShader(c, Host, Optional))
<1>0. /\ DOMAIN c = Fields /\ TextsRight(c) /\ CompiledRight(c)
      /\ c.text \in [Shaders -> 0 .. MaxEdits] /\ c.list \in [Programs -> SUBSET Shaders]
      /\ MaxEdits \in Nat /\ Host \in Programs /\ Host \notin BuiltIn /\ Optional \in Shaders
  BY ProgramAssumption, BuiltInAssumption DEF ProgramsKept, ProgramState, Built, TextsRight
<1>1. ASSUME NEW sh \in Shaders \ UNION {c.list[p] : p \in BuiltIn}, c.text[sh] < MaxEdits
      PROVE  ProgramsChanged(c, SetShaderSource(c, sh))
  <2> DEFINE e == [c EXCEPT !.text[sh] = @ + 1,
                            !.pcs = [k \in DOMAIN @ |-> IF k[1] = sh THEN Stale ELSE @[k]]]
             ps == {p \in Programs : sh \in c.list[p]}
  <2>1. /\ DOMAIN e = Fields /\ \A f \in Fields \ {"text", "pcs"} : e[f] = c[f]
        /\ e.text = [c.text EXCEPT ![sh] = @ + 1]
        /\ e.pcs = [k \in DOMAIN c.pcs |-> IF k[1] = sh THEN Stale ELSE c.pcs[k]]
    BY <1>0, Zenon DEF Fields
  <2> HIDE DEF e
  <2>2. e.list = c.list
    BY <2>1 DEF Fields
  <2>3. e.text \in [Shaders -> 0 .. MaxEdits] /\ \A x \in Shaders \ {sh} : e.text[x] = c.text[x]
    BY <1>0, <1>1, <2>1
  <2>4. CompiledRight(e)
    <3>1. ASSUME NEW k \in DOMAIN e.pcs PROVE e.pcs[k] \in {Stale, e.text[k[1]]}
      <4>1. k \in DOMAIN c.pcs /\ c.pcs[k] \in {Stale, c.text[k[1]]}
        BY <1>0, <2>1 DEF CompiledRight
      <4>2. CASE k[1] = sh
        BY <2>1, <4>1, <4>2
      <4>3. CASE k[1] # sh
        <5>1. e.text[k[1]] = c.text[k[1]]
          BY <1>0, <2>1, <4>3
        <5> QED
          BY <2>1, <4>1, <4>3, <5>1
      <4> QED
        BY <4>2, <4>3
    <3> QED
      BY <3>1 DEF CompiledRight
  <2>5. ps \subseteq Programs \ BuiltIn
    BY <1>1
  <2>6. \A p \in Programs \ ps : e.list[p] = c.list[p] /\ \A x \in c.list[p] : e.text[x] = c.text[x]
    BY <1>0, <2>2, <2>3
  <2>7. OnlyIn(c, e, {"text", "list", "pcs"})
    BY <1>0, <2>1 DEF OnlyIn
  <2>8. Edited(c, e, ps)
    BY <1>0, <2>2, <2>3, <2>4, <2>5, <2>6, <2>7 DEF Edited
  <2> HIDE DEF ps
  <2>9. ProgramsChanged(c, DirtyProgram(e, ps))
    BY <2>8, DirtyProgramRight
  <2> QED
    BY <2>9 DEF SetShaderSource, e, ps
<1>2. ASSUME NEW S \in SUBSET Shaders PROVE Edited(c, [c EXCEPT !.list[Host] = S], {Host})
  <2> DEFINE e == [c EXCEPT !.list[Host] = S]
  <2>1. /\ DOMAIN e = Fields /\ \A f \in Fields \ {"list"} : e[f] = c[f]
        /\ e.list = [c.list EXCEPT ![Host] = S]
    BY <1>0 DEF Fields
  <2> HIDE DEF e
  <2>2. e.text = c.text /\ e.pcs = c.pcs
    BY <2>1 DEF Fields
  <2>3. e.list \in [Programs -> SUBSET Shaders] /\ \A p \in Programs \ {Host} : e.list[p] = c.list[p]
    BY <1>0, <2>1
  <2>4. OnlyIn(c, e, {"text", "list", "pcs"}) /\ CompiledRight(e)
    BY <1>0, <2>1, <2>2 DEF OnlyIn, CompiledRight
  <2>5. Edited(c, e, {Host})
    BY <1>0, <2>2, <2>3, <2>4 DEF Edited
  <2> QED
    BY <2>5 DEF e
<1>3. ASSUME NEW S \in SUBSET Shaders
      PROVE  ProgramsChanged(c, DirtyProgram([c EXCEPT !.list[Host] = S], {Host}))
  BY <1>2, DirtyProgramRight
<1>4. ProgramsChanged(c, AddShader(c, Host, Optional))
  <2>1. [c EXCEPT !.list[Host] = @ \cup {Optional}] = [c EXCEPT !.list[Host] = c.list[Host] \cup {Optional}]
    BY <1>0 DEF Fields
  <2>2. c.list[Host] \cup {Optional} \in SUBSET Shaders
    BY <1>0
  <2> QED
    BY <1>3, <2>1, <2>2, UnchangedRight DEF AddShader
<1>5. ProgramsChanged(c, RemoveShader(c, Host, Optional))
  <2>1. [c EXCEPT !.list[Host] = @ \ {Optional}] = [c EXCEPT !.list[Host] = c.list[Host] \ {Optional}]
    BY <1>0 DEF Fields
  <2>2. c.list[Host] \ {Optional} \in SUBSET Shaders
    BY <1>0
  <2> QED
    BY <1>3, <2>1, <2>2, UnchangedRight DEF RemoveShader
<1> QED
  BY <1>1, <1>4, <1>5

\* compileGLObjects and releaseGLObjects of a program of the scene.
LEMMA ObjectsChange ==
  ASSUME NEW c, ProgramsKept(c), NoProgram(c), NEW p \in Programs \ BuiltIn
  PROVE  ProgramsChanged(c, CompileProgram(c, p)) /\ ProgramsChanged(c, ReleaseProgram(c, p))
<1>0. DOMAIN c = Fields /\ Built(c)
  BY DEF ProgramsKept, ProgramState, Built
<1>1. c.last # None => c.last \in DOMAIN c.pcp /\ c.pcp[c.last].isLinked /\ c.last[1] \in BuiltIn
  BY DEF NoProgram, IsOwn, ProgramsKept, ProgramState, UsedRight, UsedNow
<1>2. ProgramsChanged(c, CompileProgram(c, p))
  <2>1. CASE c.list[p] = {}
    BY <2>1, UnchangedRight DEF CompileProgram
  <2>2. CASE c.list[p] # {}
    <3> DEFINE d == CompileProgram(c, p)
    <3>1. /\ OnlyIn(c, d, {"defMap", "pcs", "pcp"}) /\ Built(d) /\ Later(c, d)
          /\ d.defMap.vec = c.defMap.vec
      BY <1>0, <2>2, CompileRight
    <3> HIDE DEF d
    <3>2. c.last # None => ~c.pcp[c.last].needsLink
      BY <1>0, <1>1 DEF Built, LinkedRight, LinkRight
    <3>3. c.last # None => c.last \in DOMAIN d.pcp /\ d.pcp[c.last].isLinked
      BY <1>1, <3>1, <3>2 DEF Later
    <3>4. OnlyIn(c, d, {"text", "list", "defines", "pcs", "pcp", "defMap"})
      BY <3>1, OnlyInMore
    <3> QED
      BY <3>1, <3>3, <3>4 DEF ProgramsChanged, d
  <2> QED
    BY <2>1, <2>2
<1>3. ProgramsChanged(c, ReleaseProgram(c, p))
  <2> DEFINE d == ReleaseProgram(c, p)
  <2>1. /\ DOMAIN d = Fields /\ \A f \in Fields \ {"pcp", "pcs"} : d[f] = c[f]
        /\ d.pcp = [k \in {k \in DOMAIN c.pcp : k[1] # p} |-> c.pcp[k]]
        /\ d.pcs = [k \in {k \in DOMAIN c.pcs : k[1] \notin c.list[p]} |-> c.pcs[k]]
    BY <1>0, Zenon DEF ReleaseProgram, Fields
  <2> HIDE DEF d
  <2>2. /\ d.text = c.text /\ d.list = c.list /\ d.defines = c.defines /\ d.defMap = c.defMap
    BY <2>1 DEF Fields
  <2>3. TextsRight(d)
    BY <1>0, <2>2 DEF Built, TextsRight, ShaderDefines
  <2>4. CompiledRight(d)
    BY <1>0, <2>1, <2>2 DEF Built, CompiledRight
  <2>5. LinkedRight(d)
    <3>1. ASSUME NEW k \in DOMAIN d.pcp PROVE LinkRight(d, k) /\ k \in Programs \X SUBSET Defines
      <4>1. k \in DOMAIN c.pcp /\ d.pcp[k] = c.pcp[k]
        BY <2>1
      <4>2. ImageFor(d, k[1], k[2]) = ImageFor(c, k[1], k[2])
        BY <2>2, ImageFrame
      <4>3. LinkRight(c, k) /\ k \in Programs \X SUBSET Defines
        BY <1>0, <4>1 DEF Built, LinkedRight
      <4> QED
        BY <4>1, <4>2, <4>3 DEF LinkRight
    <3> QED
      BY <3>1 DEF LinkedRight
  <2>6. Built(d)
    BY <1>0, <2>1, <2>2, <2>3, <2>4, <2>5 DEF Built, DefinesCached
  <2>7. c.last # None => c.last \in DOMAIN d.pcp /\ d.pcp[c.last].isLinked
    BY <1>1, <2>1
  <2>8. OnlyIn(c, d, {"text", "list", "defines", "pcs", "pcp", "defMap"})
    BY <1>0, <2>1 DEF OnlyIn
  <2> QED
    BY <2>2, <2>6, <2>7, <2>8 DEF ProgramsChanged, d
<1> QED
  BY <1>2, <1>3


\* A change of what is beside: modes, textures, images and values.
LEMMA BesideChange ==
  ASSUME NEW c, ProgramsKept(c), NEW d, OnlyIn(c, d, BesideFields), DOMAIN d.attrMap = DOMAIN c.attrMap,
         \A t \in OtherTypes : d.attrMap[t] = c.attrMap[t]
  PROVE  ProgramsKept(d) /\ (NoProgram(c) => NoProgram(d))
BY KeptStacked, BesideFrame, BesideKept

\* The same where no attribute is touched.
LEMMA BesideAttributes ==
  ASSUME NEW c, ProgramsKept(c), NEW d, NEW G, OnlyIn(c, d, G), G \subseteq BesideFields \ {"attrMap"}
  PROVE  ProgramsKept(d) /\ (NoProgram(c) => NoProgram(d))
<1>1. DOMAIN c = Fields
  BY DEF ProgramsKept, ProgramState, Built
<1>2. d.attrMap = c.attrMap
  BY <1>1 DEF OnlyIn, Fields
<1>3. OnlyIn(c, d, BesideFields)
  BY OnlyInMore
<1> QED
  BY <1>2, <1>3, BesideChange

\* What dirtyAllModes() and dirtyAllAttributes() leave: the modes, what was applied
\* last of every attribute, and the buffer are all they touch.
LEMMA DirtyKeepsPrograms ==
  ASSUME NEW c, ProgramsKept(c), NEW d, DOMAIN d = Fields,
         \A f \in Fields \ {"modeMap", "modes", "attrMap", "bound"} : d[f] = c[f],
         d.attrMap = [t \in Types |-> [c.attrMap[t] EXCEPT !.last = None, !.changed = TRUE]]
  PROVE  ProgramsKept(d) /\ (NoProgram(c) => NoProgram(d))
<1>0. /\ DOMAIN c = Fields /\ DOMAIN c.attrMap = Types /\ "PROGRAM" \in OtherTypes
      /\ \A t \in OtherTypes : DOMAIN c.attrMap[t] = {"vec", "last", "changed", "cloned"}
  BY DEF ProgramsKept, ProgramState, Built, StacksRight, AttributeStack, OtherTypes, Types, AttributeTypes
<1>2. ASSUME NEW t \in OtherTypes
      PROVE  /\ DOMAIN d.attrMap[t] = {"vec", "last", "changed", "cloned"}
             /\ d.attrMap[t].vec = c.attrMap[t].vec /\ d.attrMap[t].cloned = c.attrMap[t].cloned
             /\ d.attrMap[t].last = None /\ d.attrMap[t].changed = TRUE
  <2>1. d.attrMap[t] = [c.attrMap[t] EXCEPT !.last = None, !.changed = TRUE]
    BY Zenon DEF OtherTypes
  <2> QED
    BY <1>0, <2>1, Zenon
<1>3. /\ d.sets = c.sets /\ d.uniMap = c.uniMap /\ d.defMap = c.defMap /\ d.last = c.last
      /\ d.used = c.used /\ d.pcp = c.pcp /\ d.defines = c.defines
      /\ d.text = c.text /\ d.list = c.list /\ d.pcs = c.pcs
  BY Zenon DEF Fields
<1>4. Built(d)
  <2>1. \A f \in {"text", "list", "defines", "pcs", "pcp", "defMap"} : d[f] = c[f]
    BY <1>3
  <2> QED
    BY <2>1, BuiltFrame DEF ProgramsKept, ProgramState
<1>5. StacksRight(d)
  BY <1>2, <1>3, Zenon DEF ProgramsKept, ProgramState, StacksRight, AttributeStack
<1>6. DefineStacks(d) /\ UsedRight(d)
  BY <1>3 DEF ProgramsKept, ProgramState, DefineStacks, UsedRight, UsedNow
<1>7. Remembered(d.attrMap["PROGRAM"])
  BY <1>0, <1>2, Zenon DEF Remembered
<1>8. IsOwn(d) <=> IsOwn(c)
  BY <1>3 DEF IsOwn
<1>9. Believed(d)
  BY <1>0, <1>2, <1>8, StateAssumption, Zenon DEF ProgramsKept, Believed, ProgramCache
<1>10. NoProgram(c) => NoProgram(d)
  BY <1>0, <1>2, <1>8, StateAssumption, Zenon DEF NoProgram
<1> QED
  BY <1>4, <1>5, <1>6, <1>7, <1>9, <1>10, Zenon DEF ProgramsKept, ProgramState

\* dirtyAllModes() and dirtyAllAttributes(): whatever is asked for is applied again.
LEMMA DirtyProgramsKept ==
  ASSUME NEW c, ProgramsKept(c), NEW on
  PROVE  LET d == DirtyState(c, on)
         IN ProgramsKept(d) /\ (NoProgram(c) => NoProgram(d))
<1> DEFINE d == DirtyState(c, on)
<1>1. DOMAIN c = Fields
  BY DEF ProgramsKept, ProgramState, Built
<1>2. /\ DOMAIN d = Fields /\ \A f \in Fields \ {"modeMap", "modes", "attrMap", "bound"} : d[f] = c[f]
      /\ d.attrMap = [t \in Types |-> [c.attrMap[t] EXCEPT !.last = None, !.changed = TRUE]]
  BY <1>1, Zenon DEF DirtyState, Fields
<1> HIDE DEF d
<1>3. ProgramsKept(d) /\ (NoProgram(c) => NoProgram(d))
  BY <1>2, DirtyKeepsPrograms
<1> QED
  BY <1>3 DEF d

\* What switching a mode past State, or applying one, touches.
LEMMA SwitchOnly ==
  ASSUME NEW c, DOMAIN c = Fields, NEW m, NEW on
  PROVE  /\ OnlyIn(c, ApplyMode([c EXCEPT !.modeMap[m] = Touched(@)], m, on), {"modeMap", "modes"})
         /\ \A last : OnlyIn(c, HaveAppliedMode(c, m, on, last), {"modeMap", "modes"})
<1>1. \A b : OnlyIn(b, ApplyMode(b, m, on), {"modeMap", "modes"})
  BY DEF OnlyIn, ApplyMode
<1> DEFINE b == [c EXCEPT !.modeMap[m] = Touched(@)]
<1>2. OnlyIn(c, b, {"modeMap", "modes"})
  BY DEF OnlyIn
<1> HIDE DEF b
<1>3. OnlyIn(c, ApplyMode(b, m, on), {"modeMap", "modes"})
  BY <1>1, <1>2, OnlyInBoth
<1>4. \A last : OnlyIn(c, HaveAppliedMode(c, m, on, last), {"modeMap", "modes"})
  BY DEF HaveAppliedMode, OnlyIn
<1> QED
  BY <1>3, <1>4 DEF b

\* reset() between frames.
LEMMA ResetProgram ==
  ASSUME NEW c, ProgramsKept(c), c.sets = << >>
  PROVE  ProgramsKept(ResetState(c)) /\ NoProgram(ResetState(c))
<1> DEFINE d == ResetState(c)
<1>0. /\ DOMAIN c = Fields /\ DOMAIN c.attrMap = Types /\ "PROGRAM" \in OtherTypes
      /\ \A t \in OtherTypes : DOMAIN c.attrMap[t] = {"vec", "last", "changed", "cloned"}
      /\ Built(c) /\ DefineStacks(c)
  BY DEF ProgramsKept, ProgramState, Built, StacksRight, AttributeStack, OtherTypes, Types, AttributeTypes
<1>1. /\ DOMAIN d = Fields
      /\ \A f \in Fields \ {"sets", "modeMap", "attrMap", "uniMap", "modelView", "last"} : d[f] = c[f]
      /\ d.sets = << >> /\ d.last = None
      /\ d.attrMap = [t \in Types |-> [c.attrMap[t] EXCEPT !.vec = << >>, !.last = None, !.changed = TRUE]]
      /\ d.uniMap = [n \in UniformNames |-> [vec |-> << >>, changed |-> TRUE]]
  BY <1>0, Zenon DEF ResetState, Fields
<1> HIDE DEF d
<1>2. ASSUME NEW t \in OtherTypes
      PROVE  /\ DOMAIN d.attrMap[t] = {"vec", "last", "changed", "cloned"}
             /\ d.attrMap[t].vec = << >> /\ d.attrMap[t].last = None /\ d.attrMap[t].changed = TRUE
  <2>1. d.attrMap[t] = [c.attrMap[t] EXCEPT !.vec = << >>, !.last = None, !.changed = TRUE]
    BY <1>1, Zenon DEF OtherTypes
  <2> QED
    BY <1>0, <2>1
<1>4. d.uniMap["u"] = [vec |-> << >>, changed |-> TRUE]
  BY <1>1, Zenon DEF UniformNames
<1>5. StacksRight(d)
  <2>1. << >> \in Seq(StateSets)
    OBVIOUS
  <2>2. ASSUME NEW t \in OtherTypes PROVE AttributeStack(d, t)
    <3>1. StackOf(<< >>, << >>, "attributes", t)
      BY StackOfNone
    <3>2. d.attrMap[t].vec = << >> /\ d.sets = << >>
      BY <1>1, <1>2, Zenon
    <3>3. StackOf(d.attrMap[t].vec, d.sets, "attributes", t)
      BY <3>1, <3>2
    <3> QED
      BY <1>2, <3>3 DEF AttributeStack
  <2>3. DOMAIN d.uniMap["u"] = {"vec", "changed"} /\ StackOf(d.uniMap["u"].vec, d.sets, "uniforms", "u")
    <3>1. StackOf(<< >>, << >>, "uniforms", "u")
      BY StackOfNone
    <3>2. DOMAIN d.uniMap["u"] = {"vec", "changed"} /\ d.uniMap["u"].vec = << >>
      BY <1>4
    <3> QED
      BY <1>1, <3>1, <3>2, Zenon
  <2> QED
    BY <1>1, <2>1, <2>2, <2>3, Zenon DEF StacksRight
<1>6. DefineStacks(d)
  <2>1. d.defMap = c.defMap
    BY <1>1, Zenon DEF Fields
  <2> QED
    BY <1>0, <1>1, <2>1, Zenon DEF DefineStacks
<1>7. Built(d)
  BY <1>0, <1>1, BuiltFrame, Zenon DEF Fields
<1>8. UsedRight(d) /\ Remembered(d.attrMap["PROGRAM"])
  BY <1>0, <1>1, <1>2, Zenon DEF UsedRight, Remembered
<1>9. d.attrMap["PROGRAM"].last = None /\ ~IsOwn(d)
  BY <1>0, <1>1, <1>2, Zenon DEF IsOwn
<1>10. None \notin Programs
  BY StateAssumption
<1>11. Believed(d) /\ NoProgram(d)
  BY <1>9, <1>10, Zenon DEF Believed, ProgramCache, NoProgram
<1> QED
  BY <1>5, <1>6, <1>7, <1>8, <1>11 DEF ProgramsKept, ProgramState, d

\* A uniform of a state set is set to another value.
LEMMA UniformChange ==
  ASSUME NEW c, ProgramsKept(c), NEW u
  PROVE  LET d == UniformModified([c EXCEPT !.value[u] = 1 - @], u)
         IN ProgramsKept(d) /\ (NoProgram(c) => NoProgram(d))
<1> DEFINE e == [c EXCEPT !.value[u] = 1 - @]
           d == UniformModified(e, u)
<1>1. DOMAIN c = Fields
  BY DEF ProgramsKept, ProgramState, Built
<1>2. OnlyIn(c, e, {"value"})
  BY <1>1 DEF OnlyIn, Fields
<1> HIDE DEF e
<1>3. ProgramsKept(e) /\ (NoProgram(c) => NoProgram(e))
  BY <1>2, BesideAttributes DEF BesideFields, TextureFields
<1>4. Beside(e, d)
  BY <1>3, KeptStacked, UniformsMove, BesideUniforms
<1> HIDE DEF d
<1>5. ProgramsKept(d) /\ (NoProgram(c) => NoProgram(d))
  BY <1>3, <1>4, BesideKept
<1> QED
  BY <1>5 DEF d, e


\* At the start nothing is built, asked for or remembered.
LEMMA InitPrograms ==
  ASSUME Init
  PROVE  ProgramsRight
<1>1. /\ DOMAIN ctx = Fields /\ ctx.sets = << >>
      /\ ctx.attrMap = [t \in Types |-> [vec |-> << >>, last |-> None, changed |-> FALSE, cloned |-> FALSE]]
      /\ ctx.uniMap = [n \in UniformNames |-> [vec |-> << >>, changed |-> TRUE]]
      /\ ctx.defMap = [vec |-> [x \in Defines |-> << >>], changed |-> FALSE, current |-> {}]
      /\ ctx.text = [sh \in Shaders |-> 0] /\ ctx.list = ShadersOf
      /\ ctx.defines = [p \in Programs |-> UNION {Imports[sh][0] \cup Requires[sh] : sh \in ShadersOf[p]}]
      /\ ctx.pcs = << >> /\ ctx.pcp = << >> /\ ctx.last = None
  BY DEF Init, Fields
<1>2. drawn = None /\ StateRight
  BY InitRight DEF Init
<1>3. DOMAIN ctx.pcs = {} /\ DOMAIN ctx.pcp = {}
  BY <1>1
<1>4. TextsRight(ctx)
  <2>1. ctx.text \in [Shaders -> 0 .. MaxEdits] /\ ctx.list \in [Programs -> SUBSET Shaders]
    BY <1>1, ProgramAssumption
  <2>2. ASSUME NEW p \in Programs PROVE ctx.defines[p] = ShaderDefines(ctx, p)
    <3>1. \A sh \in ShadersOf[p] : ctx.text[sh] = 0
      BY <1>1, ProgramAssumption
    <3>2. ctx.list[p] = ShadersOf[p]
      BY <1>1
    <3>3. {Imports[sh][ctx.text[sh]] \cup Requires[sh] : sh \in ShadersOf[p]}
            = {Imports[sh][0] \cup Requires[sh] : sh \in ShadersOf[p]}
      BY <3>1
    <3> QED
      BY <1>1, <3>2, <3>3 DEF ShaderDefines
  <2>3. ctx.defines = [p \in Programs |-> ShaderDefines(ctx, p)]
    BY <1>1, <2>2
  <2>4. \A p \in BuiltIn : ctx.list[p] = ShadersOf[p] /\ \A sh \in ShadersOf[p] : ctx.text[sh] = 0
    BY <1>1, ProgramAssumption, BuiltInAssumption
  <2> QED
    BY <2>1, <2>3, <2>4 DEF TextsRight
<1>5. DefinesCached(ctx)
  BY <1>1 DEF DefinesCached, Tops
<1>6. Built(ctx)
  BY <1>1, <1>3, <1>4, <1>5 DEF Built, CompiledRight, LinkedRight
<1>7. ASSUME NEW t \in Types
      PROVE  /\ DOMAIN ctx.attrMap[t] = {"vec", "last", "changed", "cloned"}
             /\ ctx.attrMap[t].vec = << >> /\ ctx.attrMap[t].last = None /\ ~ctx.attrMap[t].cloned
  BY <1>1
<1>8. StacksRight(ctx)
  <2>1. << >> \in Seq(StateSets)
    OBVIOUS
  <2>2. ASSUME NEW t \in OtherTypes PROVE AttributeStack(ctx, t)
    <3>1. StackOf(<< >>, << >>, "attributes", t)
      BY StackOfNone
    <3>2. StackOf(ctx.attrMap[t].vec, ctx.sets, "attributes", t)
      BY <1>1, <1>7, <3>1 DEF OtherTypes
    <3> QED
      BY <1>7, <3>2 DEF AttributeStack, OtherTypes
  <2>3. DOMAIN ctx.uniMap["u"] = {"vec", "changed"} /\ StackOf(ctx.uniMap["u"].vec, ctx.sets, "uniforms", "u")
    <3>1. StackOf(<< >>, << >>, "uniforms", "u")
      BY StackOfNone
    <3>2. DOMAIN ctx.uniMap["u"] = {"vec", "changed"} /\ ctx.uniMap["u"].vec = << >>
      BY <1>1 DEF UniformNames
    <3> QED
      BY <1>1, <3>1, <3>2
  <2> QED
    BY <1>1, <2>1, <2>2, <2>3 DEF StacksRight
<1>9. DefineStacks(ctx)
  <2>1. ASSUME NEW x \in Defines PROVE StackOf(ctx.defMap.vec[x], ctx.sets, "defines", x)
    <3>1. StackOf(<< >>, << >>, "defines", x)
      BY StackOfNone
    <3>2. ctx.defMap.vec[x] = << >>
      BY <1>1
    <3> QED
      BY <1>1, <3>1, <3>2
  <2> QED
    BY <2>1 DEF DefineStacks
<1>10. UsedRight(ctx) /\ ~IsOwn(ctx)
  BY <1>1 DEF UsedRight, IsOwn
<1>11. LET a == ctx.attrMap["PROGRAM"] IN a.vec = << >> /\ a.last = None /\ ~a.cloned
  BY <1>7 DEF Types, AttributeTypes
<1>12. Remembered(ctx.attrMap["PROGRAM"])
  BY <1>11 DEF Remembered, Settled
<1>13. Believed(ctx) /\ NoProgram(ctx)
  BY <1>10, <1>11, StateAssumption DEF Believed, ProgramCache, NoProgram
<1> QED
  BY <1>2, <1>6, <1>8, <1>9, <1>10, <1>12, <1>13 DEF ProgramsRight, ProgramState

\* Every step keeps it.
LEMMA NextPrograms ==
  ASSUME ProgramsRight, [Next]_vars
  PROVE  ProgramsRight'
<1>0. StateRight /\ StateRight' /\ Good(ctx) /\ DOMAIN ctx = Fields
  BY NextRight DEF ProgramsRight, StateRight, Good
<1>1. ProgramsKept(ctx) /\ (~drawing => NoProgram(ctx))
  BY DEF ProgramsRight, ProgramsKept
<1>2. ASSUME ProgramsKept(ctx'), ~drawing' => NoProgram(ctx'), drawn' # None => LeafProgram(ctx', drawn')
      PROVE  ProgramsRight'
  BY <1>0, <1>2 DEF ProgramsRight, ProgramsKept
<1>3. ASSUME NEW d, ProgramsKept(d), NoProgram(ctx) => NoProgram(d),
             ctx' = d, drawn' = None, drawing' = drawing
      PROVE  ProgramsRight'
  BY <1>1, <1>2, <1>3
<1>4. ASSUME NEW d, Carried(ctx, d), ctx' = d, drawn' = None, drawing' = drawing
      PROVE  ProgramsRight'
  BY <1>1, <1>3, <1>4, CarriedRight
<1>5. \A d : Changing(d) => /\ ProgramsKept(ctx) /\ NoProgram(ctx) /\ ctx.sets = << >>
                            /\ ctx' = d /\ drawn' = None /\ drawing' = drawing
  BY <1>1 DEF Changing, Other
<1>6. ASSUME NEW d, ProgramsChanged(ctx, d), Changing(d) PROVE ProgramsRight'
  BY <1>3, <1>5, <1>6, ChangedRight
<1>7. ASSUME NEW d, NEW G, OnlyIn(ctx, d, G), G \subseteq BesideFields \ {"attrMap"}, Changing(d)
      PROVE  ProgramsRight'
  BY <1>3, <1>5, <1>7, BesideAttributes
<1>8. Stacked(ctx) /\ Shaped(ctx) /\ DOMAIN ctx.attrMap = Types /\ ObjectsRight(ctx)
  BY <1>0, <1>1, KeptStacked DEF Stacked, StacksRight, Good, TexturesRight
<1>9. {"images"} \subseteq BesideFields \ {"attrMap"} /\ {"image", "seen"} \subseteq BesideFields \ {"attrMap"}
      /\ {"object"} \subseteq BesideFields \ {"attrMap"} /\ {"unref"} \subseteq BesideFields \ {"attrMap"}
      /\ {"modeMap", "modes"} \subseteq BesideFields \ {"attrMap"}
  BY DEF BesideFields, TextureFields
<1>10. CASE UNCHANGED vars
  BY <1>0, <1>10 DEF vars, ProgramsRight
<1>11. ASSUME NEW ss \in StateSets, PushSet(ss) PROVE ProgramsRight'
  BY <1>4, <1>8, <1>11, PushCarries DEF PushSet, Sets
<1>12. CASE PopSet
  BY <1>4, <1>8, <1>12, PopCarries DEF PopSet, Sets
<1>13. ASSUME NEW pos \in 0 .. MaxDepth, NEW ss \in StateSets, InsertSet(pos, ss) PROVE ProgramsRight'
  <2>1. ctx' = InsertStateSet(ctx, pos, ss) /\ drawn' = None /\ drawing' = drawing /\ pos < Len(ctx.sets)
    BY <1>13 DEF InsertSet, Sets
  <2>2. pos \in Nat
    OBVIOUS
  <2> QED
    BY <1>4, <1>8, <2>1, <2>2, InsertCarries
<1>14. ASSUME NEW pos \in 0 .. MaxDepth, RemoveSet(pos) PROVE ProgramsRight'
  <2>1. ctx' = RemoveStateSet(ctx, pos) /\ drawn' = None /\ drawing' = drawing
    BY <1>14 DEF RemoveSet, Sets
  <2>2. pos \in Nat
    OBVIOUS
  <2> QED
    BY <1>4, <1>8, <2>1, <2>2, InsertCarries
<1>15. ASSUME NEW leaf \in StateSets \cup {NoStateSet}, RenderLeaf(leaf) PROVE ProgramsRight'
  <2>0. PICK x : ctx' = ApplyBuiltInUniforms(Apply(ApplyModelViewMatrix(ctx, x), leaf))
    BY <1>15 DEF RenderLeaf
  <2> DEFINE b == ApplyModelViewMatrix(ctx, x)
             d == Apply(b, leaf)
             e == ApplyBuiltInUniforms(d)
  <2>1. ctx' = e /\ drawn' = leaf /\ drawing' = TRUE
    BY <1>15, <2>0 DEF RenderLeaf
  <2>2. ProgramsKept(b)
    BY <1>1, <1>8, UniformsMove, BesideUniforms, BesideKept
  <2>3. TexturesRight(b)
    <3>1. Ready(ctx)
      BY <1>0, <1>8 DEF Ready, Types, TextureTypes
    <3>2. Aside(ctx, b)
      BY <3>1, AsideParts
    <3> HIDE DEF b
    <3> QED
      BY <1>0, <3>2, AsideGood DEF Good
  <2> HIDE DEF b
  <2>4. ProgramState(d) /\ LeafProgram(d, leaf)
    BY <2>2, <2>3, ApplyPrograms DEF ProgramsKept, Believable
  <2> HIDE DEF d
  <2>5. Beside(d, e)
    BY <2>4, BuiltShaped, DrawnUniformsMove, BesideUniforms DEF ProgramState
  <2> HIDE DEF e
  <2>6. ProgramState(e) /\ LeafProgram(e, leaf)
    BY <2>4, <2>5, BesideState
  <2>7. Believed(e)
    BY <2>6 DEF LeafProgram, Bound, Believed
  <2> QED
    BY <1>2, <2>1, <2>6, <2>7 DEF ProgramsKept
<1>16. CASE EndFrame
  <2> DEFINE b == PopAllStateSets(ctx)
             d == Apply(b, NoStateSet)
  <2>1. ctx' = d /\ drawn' = None
    BY <1>16 DEF EndFrame
  <2>2. Good(b) /\ b.sets = << >>
    BY <1>0, PopAllRight
  <2>3. ProgramState(b) /\ Believable(b, NoStateSet)
    BY <1>0, <1>1, PopAllProgram
  <2> HIDE DEF b
  <2>4. ProgramsKept(d) /\ NoProgram(d)
    BY <2>2, <2>3, EndProgram
  <2> HIDE DEF d
  <2> QED
    BY <1>2, <2>1, <2>4
<1>17. ASSUME NEW m \in Modes, NEW on \in BOOLEAN, NEW told \in {"applyMode", "value", "unknown"},
              SwitchMode(m, on, told)
       PROVE  ProgramsRight'
  <2>1. /\ \/ ctx' = ApplyMode([ctx EXCEPT !.modeMap[m] = Touched(@)], m, on)
           \/ \E last : ctx' = HaveAppliedMode(ctx, m, on, last)
        /\ drawn' = None /\ drawing' = drawing
    BY <1>17 DEF SwitchMode, Other
  <2>2. OnlyIn(ctx, ctx', {"modeMap", "modes"})
    BY <1>0, <2>1, SwitchOnly
  <2> QED
    BY <1>1, <1>3, <1>9, <2>1, <2>2, BesideAttributes
<1>18. ASSUME NEW t \in Textures \ OneDimensional, NEW s \in Sizes, CopyTexture(t, s) PROVE ProgramsRight'
  <2> DEFINE b == CopyTexImage2D(ctx, t, s)
             d == [b EXCEPT !.attrMap["TEXTURE"].last = t, !.attrMap["TEXTURE"].changed = TRUE]
  <2>1. ctx' = d /\ drawn' = None /\ drawing' = drawing
    BY <1>18 DEF CopyTexture, Other
  <2>2. OnlyIn(ctx, b, TextureFields)
    BY <1>0, <1>8, CopyRight
  <2> HIDE DEF b
  <2>3. DOMAIN b = Fields /\ b.attrMap = ctx.attrMap
    BY <1>0, <2>2 DEF OnlyIn, TextureFields, Fields
  <2>4. /\ DOMAIN d = Fields /\ \A f \in Fields \ {"attrMap"} : d[f] = b[f]
        /\ DOMAIN d.attrMap = Types /\ \A u \in OtherTypes : d.attrMap[u] = ctx.attrMap[u]
    BY <1>8, <2>3 DEF OtherTypes, Fields
  <2> HIDE DEF d
  <2>5. OnlyIn(ctx, d, BesideFields)
    BY <1>0, <2>2, <2>3, <2>4 DEF OnlyIn, BesideFields
  <2> QED
    BY <1>1, <1>3, <1>8, <2>1, <2>4, <2>5, BesideChange
<1>19. CASE DirtyAll
  <2>1. PICK on : ctx' = DirtyState(ctx, on) /\ drawn' = None /\ drawing' = drawing
    BY <1>19 DEF DirtyAll, Other
  <2> DEFINE d == DirtyState(ctx, on)
  <2>2. ProgramsKept(d) /\ (NoProgram(ctx) => NoProgram(d))
    BY <1>1, DirtyProgramsKept
  <2> HIDE DEF d
  <2> QED
    BY <1>3, <2>1, <2>2 DEF d
<1>20. CASE Change
  <2>1. ASSUME NEW sh \in Shaders \ UNION {ctx.list[p] : p \in BuiltIn}, EditShader(sh) PROVE ProgramsRight'
    <3>1. Changing(SetShaderSource(ctx, sh)) /\ ctx.text[sh] < MaxEdits
      BY <2>1 DEF EditShader
    <3> QED
      BY <1>5, <1>6, <3>1, TextsChange
  <2>2. CASE AddOptional
    BY <1>5, <1>6, <2>2, TextsChange DEF AddOptional
  <2>3. CASE RemoveOptional
    BY <1>5, <1>6, <2>3, TextsChange DEF RemoveOptional
  <2>4. ASSUME NEW p \in Programs \ BuiltIn, CompileObjects(p) PROVE ProgramsRight'
    BY <1>5, <1>6, <2>4, ObjectsChange DEF CompileObjects
  <2>5. ASSUME NEW p \in Programs \ BuiltIn, ReleaseObjects(p) PROVE ProgramsRight'
    BY <1>5, <1>6, <2>5, ObjectsChange DEF ReleaseObjects
  <2>6. ASSUME NEW u \in Uniforms, SetUniform(u) PROVE ProgramsRight'
    BY <1>1, <1>3, <1>5, <2>6, UniformChange DEF SetUniform
  <2>7. ASSUME NEW t \in Textures, UnRefImage(t) PROVE ProgramsRight'
    <3>1. OnlyIn(ctx, [ctx EXCEPT !.unref = @ \cup {t}], {"unref"})
      BY <1>0 DEF OnlyIn, Fields
    <3> QED
      BY <1>7, <1>9, <2>7, <3>1 DEF UnRefImage
  <2>8. ASSUME NEW im \in Images, NEW s \in Sizes, EditImage(im, s) PROVE ProgramsRight'
    BY <1>0, <1>7, <1>8, <1>9, <2>8, DirtyImageRight DEF EditImage
  <2>9. ASSUME NEW t \in Textures, NEW im \in Images, ChangeImage(t, im) PROVE ProgramsRight'
    BY <1>0, <1>7, <1>8, <1>9, <2>9, SetImageRight DEF ChangeImage
  <2>10. ASSUME NEW t \in Textures, ReleaseObject(t) PROVE ProgramsRight'
    BY <1>0, <1>7, <1>8, <1>9, <2>10, ReleaseRight DEF ReleaseObject
  <2>11. CASE Reset
    BY <1>1, <1>3, <1>5, <2>11, ResetProgram DEF Reset
  <2> QED
    BY <1>20, <2>1, <2>2, <2>3, <2>4, <2>5, <2>6, <2>7, <2>8, <2>9, <2>10, <2>11 DEF Change
<1> QED
  BY <1>10, <1>11, <1>12, <1>13, <1>14, <1>15, <1>16, <1>17, <1>18, <1>19, <1>20 DEF Next

\* Whatever is pushed, popped, applied past State, edited, added, removed,
\* compiled or released, and however many programs, shaders and defines
\* there are: a leaf is drawn with the program the state sets above it ask
\* for, linked from the sources its shaders have now under the defines in
\* force, or with a built-in one where that cannot be or could not once.
THEOREM LeavesHaveTheirProgram == Spec => []ProgramIsRight
<1>1. Init => ProgramsRight
  BY InitPrograms
<1>2. ProgramsRight /\ [Next]_vars => ProgramsRight'
  BY NextPrograms
<1>3. ProgramsRight => ProgramIsRight
  BY RightIsProgram
<1> QED
  BY <1>1, <1>2, <1>3, PTL DEF Spec

-----------------------------------------------------------------------------
(* Uniforms                                                                 *)

\* What a uniform of that name has to hold that was uploaded from the
\* object o: State's own are their object, a state set's has another.
Fits(n, o) == IF n \in FFPNames \cup {"osg_ModelViewMatrix"} THEN o = n ELSE o \in Uniforms

ValueOf(c, n, o) ==
    IF n = "osg_ModelViewMatrix" THEN c.matrix
    ELSE IF n \in FFPNames THEN c.ffp[n] ELSE <<o, c.value[o]>>

EntryFields == {"object", "fresh", "value"}

\* What a program believes it uploaded and not outdated is what it has to hold.
EntryRight(c, n, e) ==
    /\ DOMAIN e = EntryFields
    /\ e.fresh => Fits(n, e.object) /\ e.value = ValueOf(c, n, e.object)

\* Of all programs ever linked.
UploadsRight(c) ==
    \A k \in DOMAIN c.pcp :
      /\ DOMAIN c.pcp[k].uniforms = ActiveIn[k[1]]
      /\ \A n \in ActiveIn[k[1]] : EntryRight(c, n, c.pcp[k].uniforms[n])

\* Unless State asks for an upload, the last program it made one to has all of them.
FFPUploaded(c) ==
    ~c.ffpDirty /\ c.ffpLast # None =>
      /\ c.ffpLast \in DOMAIN c.pcp /\ ~c.pcp[c.ffpLast].needsLink
      /\ \A n \in ActiveIn[c.ffpLast[1]] \cap FFPNames : c.pcp[c.ffpLast].uniforms[n].value = c.ffp[n]

\* What State keeps of the fixed-function pipeline, before a program is thought of.
ValuesRight(c) ==
    /\ DOMAIN c.ffp = FFPNames /\ DOMAIN c.value = Uniforms
    /\ c.ffp["osg_FrontLightModelProduct_sceneColor"] = <<c.material, c.lightModel>>
    /\ c.modelView # Identity => c.matrix = c.modelView

UniformState(c) == UploadsRight(c) /\ FFPUploaded(c) /\ ValuesRight(c)

\* What an attribute's apply() leaves in State.
FFPValue(c, type) ==
    CASE type = "TEXMAT" -> c.ffp["osg_TextureMatrix0"]
      [] type = "FOG" -> c.ffp["osg_Fog_color"]
      [] type = "MATERIAL" -> c.material
      [] type = "LIGHTMODEL" -> c.lightModel

\* The attribute believed to be applied last is; where there was none it is the default.
AttributeKept(c, type) ==
    LET a == c.attrMap[type]
    IN /\ Remembered(a)
       /\ a.last # None => FFPValue(c, type) = a.last
       /\ ~a.cloned => FFPValue(c, type) = Default

AttributesKept(c) == \A type \in FFPTypes : AttributeKept(c, type)

\* What a leaf asks for over the stack vec of a list, or else other.
LeafAsks(list, k, vec, other) ==
    IF OwnEntry(list, k, vec) THEN list[k].value
    ELSE IF vec # << >> THEN Last(vec).value ELSE other

\* The leaf's attribute of that type is in force.
AttributeDrawn(c, leaf, type) ==
    FFPValue(c, type) = LeafAsks(leaf.attributes, type, c.attrMap[type].vec, Default)

\* Each uniform of the program in use has what it should for the leaf.
LeafUniforms(c, leaf) ==
    LET k == c.last
        object == LeafAsks(leaf.uniforms, "u", c.uniMap["u"].vec, None)
        value(n) == c.pcp[k].uniforms[n].value
    IN /\ \A type \in FFPTypes : AttributeDrawn(c, leaf, type)
       /\ c.modelView # Identity
       /\ "osg_ModelViewMatrix" \in ActiveIn[k[1]] => value("osg_ModelViewMatrix") = c.matrix
       /\ \A n \in ActiveIn[k[1]] \cap FFPNames : value(n) = c.ffp[n]
       /\ "u" \in ActiveIn[k[1]] /\ object # None => value("u") = <<object, c.value[object]>>

\* The fields that the uniforms are about.
ValueFields == UniformFields \cup {"value"}

\* What does not touch them nor the attributes' last values keeps all of that.
LEMMA UniformFrame ==
  ASSUME NEW c, NEW d, \A f \in ValueFields : d[f] = c[f]
  PROVE  /\ UniformState(c) => UniformState(d)
         /\ \A type \in FFPTypes : FFPValue(d, type) = FFPValue(c, type)
<1>1. /\ d.pcp = c.pcp /\ d.ffp = c.ffp /\ d.ffpDirty = c.ffpDirty /\ d.ffpLast = c.ffpLast
      /\ d.material = c.material /\ d.lightModel = c.lightModel
      /\ d.modelView = c.modelView /\ d.matrix = c.matrix /\ d.value = c.value
  BY DEF ValueFields, UniformFields
<1>2. UploadsRight(c) => UploadsRight(d)
  <2>1. \A n, o : ValueOf(d, n, o) = ValueOf(c, n, o)
    BY <1>1 DEF ValueOf
  <2>2. \A n, e : EntryRight(c, n, e) <=> EntryRight(d, n, e)
    BY <2>1 DEF EntryRight
  <2> QED
    BY <1>1, <2>2 DEF UploadsRight
<1>3. FFPUploaded(c) => FFPUploaded(d)
  BY <1>1 DEF FFPUploaded
<1> QED
  BY <1>1, <1>2, <1>3 DEF UniformState, ValuesRight, FFPValue

\* The uniforms of each program are as they were, or those of one just linked.
PCPReset(c, d) ==
    \A k \in DOMAIN d.pcp :
      \/ k \in DOMAIN c.pcp /\ d.pcp[k].uniforms = c.pcp[k].uniforms
      \/ d.pcp[k].uniforms = NoUniforms(k[1])

\* One change of the programs after another.
LEMMA ResetBoth ==
  ASSUME NEW c, NEW d, NEW e, PCPReset(c, d), PCPReset(d, e)
  PROVE  PCPReset(c, e)
BY DEF PCPReset

\* Linking programs, making and releasing them keeps it too, as long as the last
\* program with all values is not linked again behind State's back.
LEMMA ResetUniforms ==
  ASSUME NEW c, NEW d, UniformState(c), PCPReset(c, d), \A f \in ValueFields \ {"pcp"} : d[f] = c[f],
         Later(c, d) \/ c.ffpDirty
  PROVE  UniformState(d)
<1>1. /\ d.ffp = c.ffp /\ d.ffpDirty = c.ffpDirty /\ d.ffpLast = c.ffpLast
      /\ d.material = c.material /\ d.lightModel = c.lightModel
      /\ d.modelView = c.modelView /\ d.matrix = c.matrix /\ d.value = c.value
  BY DEF ValueFields, UniformFields
<1>2. \A n, o : ValueOf(d, n, o) = ValueOf(c, n, o)
  BY <1>1 DEF ValueOf
<1>3. ASSUME NEW k \in DOMAIN d.pcp
      PROVE  /\ DOMAIN d.pcp[k].uniforms = ActiveIn[k[1]]
             /\ \A n \in ActiveIn[k[1]] : EntryRight(d, n, d.pcp[k].uniforms[n])
  <2>1. CASE k \in DOMAIN c.pcp /\ d.pcp[k].uniforms = c.pcp[k].uniforms
    BY <1>2, <2>1 DEF UniformState, UploadsRight, EntryRight
  <2>2. CASE d.pcp[k].uniforms = NoUniforms(k[1])
    <3>1. \A n \in ActiveIn[k[1]] : d.pcp[k].uniforms[n] = [object |-> None, fresh |-> FALSE, value |-> None]
      BY <2>2 DEF NoUniforms
    <3> QED
      BY <2>2, <3>1 DEF NoUniforms, EntryRight, EntryFields
  <2> QED
    BY <2>1, <2>2 DEF PCPReset
<1>4. FFPUploaded(d)
  BY <1>1 DEF UniformState, FFPUploaded, Later
<1> QED
  BY <1>1, <1>3, <1>4 DEF UniformState, UploadsRight, ValuesRight

-----------------------------------------------------------------------------
(* Uploading                                                                *)

\* What apply(Uniform) leaves of a program's uniforms.
UploadedTo(c, d, n, o) ==
    /\ OnlyIn(c, d, {"pcp"}) /\ UploadsRight(d) /\ SamePrograms(c, d)
    /\ n \in ActiveIn[c.last[1]] =>
         d.pcp[c.last].uniforms[n].object = o /\ d.pcp[c.last].uniforms[n].value = ValueOf(c, n, o)
    /\ \A k \in DOMAIN c.pcp : \A m \in ActiveIn[k[1]] :
         k # c.last \/ m # n => d.pcp[k].uniforms[m] = c.pcp[k].uniforms[m]

\* A uniform is there afterwards, and no other is touched.
LEMMA UploadRight ==
  ASSUME NEW c, Shaped(c), UploadsRight(c), c.last # None, c.last \in DOMAIN c.pcp,
         NEW n, NEW o, Fits(n, o)
  PROVE  UploadedTo(c, ApplyUniform(c, n, o, ValueOf(c, n, o)), n, o)
<1> DEFINE v == ValueOf(c, n, o)
           k == c.last
           e == [object |-> o, fresh |-> TRUE, value |-> v]
           d == [c EXCEPT !.pcp[c.last].uniforms[n] = e]
<1>0. /\ DOMAIN c = Fields /\ DOMAIN c.pcp[k] = PCPFields
      /\ DOMAIN c.pcp[k].uniforms = ActiveIn[k[1]]
      /\ \A m \in ActiveIn[k[1]] : EntryRight(c, m, c.pcp[k].uniforms[m])
  BY DEF Shaped, UploadsRight
<1>1. SamePrograms(c, c) /\ OnlyIn(c, c, {"pcp"})
  BY DEF SamePrograms, Shaped, OnlyIn
<1>2. CASE n \notin ActiveIn[k[1]]
  <2>1. ApplyUniform(c, n, o, v) = c
    BY <1>2 DEF ApplyUniform
  <2> QED
    BY <1>1, <1>2, <2>1 DEF UploadedTo
<1>3. CASE n \in ActiveIn[k[1]] /\ c.pcp[k].uniforms[n].object = o /\ c.pcp[k].uniforms[n].fresh
  <2>1. ApplyUniform(c, n, o, v) = c
    BY <1>3 DEF ApplyUniform
  <2>2. c.pcp[k].uniforms[n].value = v
    BY <1>0, <1>3 DEF EntryRight
  <2> QED
    BY <1>1, <1>3, <2>1, <2>2 DEF UploadedTo
<1>4. CASE n \in ActiveIn[k[1]] /\ ~(c.pcp[k].uniforms[n].object = o /\ c.pcp[k].uniforms[n].fresh)
  <2>1. ApplyUniform(c, n, o, v) = d
    BY <1>4 DEF ApplyUniform
  <2>2. EntryRight(c, n, e)
    BY DEF EntryRight, EntryFields
  <2>3. e.object = o /\ e.value = v
    OBVIOUS
  <2> HIDE DEF e, v
  <2>4. OnlyIn(c, d, {"pcp"}) /\ d.pcp = [c.pcp EXCEPT ![k].uniforms[n] = e]
    BY <1>0 DEF OnlyIn, Fields
  <2>5. SamePrograms(c, d)
    <3> HIDE DEF d
    <3> QED
      BY <2>4 DEF SamePrograms, Shaped, PCPFields
  <2> HIDE DEF d
  <2>6. \A j \in DOMAIN c.pcp : j # k => d.pcp[j] = c.pcp[j]
    BY <2>4
  <2>7. d.pcp[k].uniforms = [c.pcp[k].uniforms EXCEPT ![n] = e]
    BY <1>0, <2>4 DEF PCPFields
  <2>8. /\ d.pcp[k].uniforms[n] = e /\ DOMAIN d.pcp[k].uniforms = ActiveIn[k[1]]
        /\ \A m \in ActiveIn[k[1]] : m # n => d.pcp[k].uniforms[m] = c.pcp[k].uniforms[m]
    BY <1>0, <1>4, <2>7
  <2>9. \A m, x : ValueOf(d, m, x) = ValueOf(c, m, x)
    BY <1>0, <2>4 DEF ValueOf, OnlyIn, Fields
  <2>10. \A m, x : EntryRight(c, m, x) <=> EntryRight(d, m, x)
    BY <2>9 DEF EntryRight
  <2>11. DOMAIN d.pcp = DOMAIN c.pcp
    BY <2>4
  <2>12. UploadsRight(d)
    <3> SUFFICES ASSUME NEW j \in DOMAIN d.pcp
                 PROVE  /\ DOMAIN d.pcp[j].uniforms = ActiveIn[j[1]]
                        /\ \A m \in ActiveIn[j[1]] : EntryRight(d, m, d.pcp[j].uniforms[m])
      BY DEF UploadsRight
    <3>1. CASE j = k
      BY <1>0, <2>2, <2>8, <2>10, <3>1
    <3>2. CASE j # k
      BY <2>6, <2>10, <2>11, <3>2 DEF UploadsRight
    <3> QED
      BY <3>1, <3>2
  <2> QED
    BY <2>1, <2>3, <2>4, <2>5, <2>6, <2>8, <2>12 DEF UploadedTo, v
<1> QED
  BY <1>2, <1>3, <1>4

-----------------------------------------------------------------------------
(* Modifying                                                                *)

\* What a modification of the object o leaves of the programs.
Modified(c, d) ==
    /\ DOMAIN d = Fields /\ \A f \in Fields \ {"pcp"} : d[f] = c[f]
    /\ SamePrograms(c, d)
    /\ \A k \in DOMAIN c.pcp :
         /\ DOMAIN d.pcp[k].uniforms = ActiveIn[k[1]]
         /\ \A n \in ActiveIn[k[1]] : d.pcp[k].uniforms[n].value = c.pcp[k].uniforms[n].value

\* b is how things were before the object o got another value: then c outdates it.
LEMMA ModifiedRight ==
  ASSUME NEW b, NEW c, Shaped(c), c.pcp = b.pcp, UploadsRight(b), NEW o,
         \A n, x : Fits(n, x) /\ x # o => ValueOf(c, n, x) = ValueOf(b, n, x)
  PROVE  Modified(c, UniformModified(c, o)) /\ UploadsRight(UniformModified(c, o))
<1> DEFINE d == UniformModified(c, o)
<1>0. DOMAIN c = Fields /\ \A k \in DOMAIN c.pcp : DOMAIN c.pcp[k] = PCPFields
  BY DEF Shaped
<1>1. /\ DOMAIN d = Fields /\ \A f \in Fields \ {"pcp"} : d[f] = c[f]
      /\ d.pcp = [k \in DOMAIN c.pcp |-> [c.pcp[k] EXCEPT !.uniforms = Outdated(c.pcp[k].uniforms, o)]]
  BY <1>0, Zenon DEF UniformModified, Fields
<1> HIDE DEF d
<1>2. \A n, x : ValueOf(d, n, x) = ValueOf(c, n, x)
  <2>1. d.matrix = c.matrix /\ d.ffp = c.ffp /\ d.value = c.value
    BY <1>1 DEF Fields
  <2> QED
    BY <2>1 DEF ValueOf
<1>3. DOMAIN d.pcp = DOMAIN c.pcp
  BY <1>1
<1>4. ASSUME NEW k \in DOMAIN c.pcp
      PROVE  /\ DOMAIN d.pcp[k] = PCPFields
             /\ \A f \in PCPFields \ {"uniforms"} : d.pcp[k][f] = c.pcp[k][f]
             /\ d.pcp[k].uniforms = Outdated(c.pcp[k].uniforms, o)
  <2>1. d.pcp[k] = [c.pcp[k] EXCEPT !.uniforms = Outdated(c.pcp[k].uniforms, o)]
    BY <1>1
  <2> QED
    BY <1>0, <2>1 DEF PCPFields
<1>5. ASSUME NEW k \in DOMAIN c.pcp
      PROVE  /\ DOMAIN d.pcp[k].uniforms = ActiveIn[k[1]]
             /\ \A n \in ActiveIn[k[1]] : /\ d.pcp[k].uniforms[n].value = c.pcp[k].uniforms[n].value
                                          /\ EntryRight(d, n, d.pcp[k].uniforms[n])
  <2> DEFINE us == c.pcp[k].uniforms
  <2>1. DOMAIN us = ActiveIn[k[1]] /\ \A n \in ActiveIn[k[1]] : EntryRight(b, n, us[n])
    BY DEF UploadsRight
  <2> HIDE DEF us
  <2>2. /\ DOMAIN Outdated(us, o) = ActiveIn[k[1]]
        /\ \A n \in ActiveIn[k[1]] :
             Outdated(us, o)[n] = IF us[n].object = o THEN [us[n] EXCEPT !.fresh = FALSE] ELSE us[n]
    BY <2>1 DEF Outdated
  <2>3. ASSUME NEW n \in ActiveIn[k[1]]
        PROVE  Outdated(us, o)[n].value = us[n].value /\ EntryRight(d, n, Outdated(us, o)[n])
    <3>1. CASE us[n].object = o
      <4>1. Outdated(us, o)[n] = [us[n] EXCEPT !.fresh = FALSE]
        BY <2>2, <3>1
      <4>2. /\ DOMAIN Outdated(us, o)[n] = EntryFields
            /\ Outdated(us, o)[n].fresh = FALSE /\ Outdated(us, o)[n].value = us[n].value
        BY <2>1, <4>1 DEF EntryRight, EntryFields
      <4> QED
        BY <4>2 DEF EntryRight
    <3>2. CASE us[n].object # o
      <4>1. Outdated(us, o)[n] = us[n]
        BY <2>2, <3>2
      <4> QED
        BY <1>2, <2>1, <3>2, <4>1 DEF EntryRight
    <3> QED
      BY <3>1, <3>2
  <2> QED
    BY <1>4, <2>2, <2>3 DEF us
<1>6. SamePrograms(c, d)
  BY <1>0, <1>3, <1>4 DEF SamePrograms
<1>7. Modified(c, d)
  BY <1>1, <1>5, <1>6 DEF Modified
<1>8. UploadsRight(d)
  BY <1>3, <1>5 DEF UploadsRight
<1> QED
  BY <1>7, <1>8 DEF d

\* A program that has all the values of State keeps them.
LEMMA ModifiedUploaded ==
  ASSUME NEW c, NEW d, Modified(c, d), FFPUploaded(c)
  PROVE  FFPUploaded(d)
<1>1. /\ d.ffpDirty = c.ffpDirty /\ d.ffpLast = c.ffpLast /\ d.ffp = c.ffp
      /\ DOMAIN d.pcp = DOMAIN c.pcp
      /\ \A k \in DOMAIN c.pcp : /\ d.pcp[k].needsLink = c.pcp[k].needsLink
                                 /\ \A n \in ActiveIn[k[1]] :
                                      d.pcp[k].uniforms[n].value = c.pcp[k].uniforms[n].value
  BY DEF Modified, SamePrograms, Fields, PCPFields
<1> QED
  BY <1>1 DEF FFPUploaded

\* ffpSet(): State has the value, and whoever uploaded another is outdated.
FFPSet(c, d, n, v) ==
    /\ DOMAIN d = Fields /\ \A f \in Fields \ {"pcp", "ffp", "ffpDirty"} : d[f] = c[f]
    /\ DOMAIN d.ffp = FFPNames /\ d.ffp[n] = v /\ \A m \in FFPNames \ {n} : d.ffp[m] = c.ffp[m]
    /\ UploadsRight(d) /\ FFPUploaded(d)
    /\ c.ffpDirty => d.ffpDirty

\* Setting a fixed-function value leaves no upload of another believed fresh.
LEMMA SetFFPRight ==
  ASSUME NEW c, Shaped(c), UploadsRight(c), FFPUploaded(c), DOMAIN c.ffp = FFPNames,
         NEW n \in FFPNames, NEW v
  PROVE  FFPSet(c, SetFFP(c, n, v), n, v)
<1> DEFINE b == [c EXCEPT !.ffp[n] = v, !.ffpDirty = TRUE]
           d == UniformModified(b, n)
<1>0. DOMAIN c = Fields
  BY DEF Shaped
<1>1. CASE c.ffp[n] = v
  <2>1. SetFFP(c, n, v) = c
    BY <1>1 DEF SetFFP
  <2> QED
    BY <1>0, <1>1, <2>1 DEF FFPSet
<1>2. CASE c.ffp[n] # v
  <2>1. SetFFP(c, n, v) = d
    BY <1>2 DEF SetFFP
  <2>2. /\ DOMAIN b = Fields /\ \A f \in Fields \ {"ffp", "ffpDirty"} : b[f] = c[f]
        /\ b.ffp = [c.ffp EXCEPT ![n] = v] /\ b.ffpDirty
    BY <1>0, Zenon DEF Fields
  <2> HIDE DEF b
  <2>3. /\ b.pcp = c.pcp /\ b.matrix = c.matrix /\ b.value = c.value
        /\ DOMAIN b.ffp = FFPNames /\ b.ffp[n] = v /\ \A m \in FFPNames \ {n} : b.ffp[m] = c.ffp[m]
    BY <2>2 DEF Fields
  <2>4. Shaped(b)
    BY <2>2, <2>3 DEF Shaped
  <2>5. \A m, x : Fits(m, x) /\ x # n => ValueOf(b, m, x) = ValueOf(c, m, x)
    BY <2>3 DEF Fits, ValueOf
  <2>6. Modified(b, d) /\ UploadsRight(d)
    BY <2>3, <2>4, <2>5, ModifiedRight
  <2> HIDE DEF d
  <2>7. d.ffpDirty /\ d.ffp = b.ffp /\ DOMAIN d = Fields /\ \A f \in Fields \ {"pcp"} : d[f] = b[f]
    BY <2>2, <2>6 DEF Modified, Fields
  <2>8. \A f \in Fields \ {"pcp", "ffp", "ffpDirty"} : d[f] = c[f]
    BY <2>2, <2>7
  <2>9. FFPSet(c, d, n, v)
    BY <2>3, <2>6, <2>7, <2>8 DEF FFPSet, FFPUploaded
  <2> QED
    BY <2>1, <2>9
<1> QED
  BY <1>1, <1>2

\* What is uploaded does not hang on material and light model themselves.
LEMMA UploadsFrame ==
  ASSUME NEW c, NEW d, \A f \in {"pcp", "ffp", "ffpDirty", "ffpLast", "matrix", "value"} : d[f] = c[f]
  PROVE  (UploadsRight(c) => UploadsRight(d)) /\ (FFPUploaded(c) => FFPUploaded(d))
<1>1. /\ d.pcp = c.pcp /\ d.ffp = c.ffp /\ d.ffpDirty = c.ffpDirty /\ d.ffpLast = c.ffpLast
      /\ d.matrix = c.matrix /\ d.value = c.value
  OBVIOUS
<1>2. \A n, o : ValueOf(d, n, o) = ValueOf(c, n, o)
  BY <1>1 DEF ValueOf
<1>3. \A n, e : EntryRight(c, n, e) <=> EntryRight(d, n, e)
  BY <1>2 DEF EntryRight
<1> QED
  BY <1>1, <1>3 DEF UploadsRight, FFPUploaded

\* What apply() of a fixed-function attribute a leaves.
FFPApplied(c, d, type, a) ==
    /\ DOMAIN d = Fields /\ \A f \in Fields \ UniformFields : d[f] = c[f]
    /\ UniformState(d) /\ d.modelView = c.modelView /\ (c.ffpDirty => d.ffpDirty)
    /\ FFPValue(d, type) = a
    /\ \A t \in FFPTypes \ {type} : FFPValue(d, t) = FFPValue(c, t)

\* TexMat::apply() and Fog::apply().
LEMMA ApplyValueRight ==
  ASSUME NEW c, Shaped(c), UniformState(c), NEW type \in {"TEXMAT", "FOG"}, NEW a
  PROVE  FFPApplied(c, ApplyOne(c, type, a), type, a)
<1> DEFINE n == IF type = "TEXMAT" THEN "osg_TextureMatrix0" ELSE "osg_Fog_color"
           d == ApplyOne(c, type, a)
<1>1. d = SetFFP(c, n, a)
  BY DEF ApplyOne, ApplyTexMat, ApplyFog
<1>2. n \in FFPNames \ {"osg_FrontLightModelProduct_sceneColor"}
  BY DEF FFPNames
<1>3. FFPSet(c, d, n, a)
  BY <1>1, <1>2, SetFFPRight DEF UniformState, ValuesRight
<1> HIDE DEF d
<1>4. /\ DOMAIN d = Fields /\ \A f \in Fields \ UniformFields : d[f] = c[f]
      /\ d.modelView = c.modelView /\ d.matrix = c.matrix /\ d.value = c.value
      /\ d.material = c.material /\ d.lightModel = c.lightModel
      /\ d.ffp["osg_FrontLightModelProduct_sceneColor"] = c.ffp["osg_FrontLightModelProduct_sceneColor"]
  BY <1>2, <1>3 DEF FFPSet, Fields, UniformFields, FFPNames
<1>5. UniformState(d)
  BY <1>3, <1>4 DEF FFPSet, UniformState, ValuesRight
<1>6. FFPValue(d, type) = a /\ \A t \in FFPTypes \ {type} : FFPValue(d, t) = FFPValue(c, t)
  BY <1>3, <1>4 DEF FFPSet, FFPValue, FFPTypes, FFPNames
<1> QED
  BY <1>3, <1>4, <1>5, <1>6 DEF FFPApplied, FFPSet, d

\* Material::apply() and LightModel::apply(), which share the scene's colour.
LEMMA ApplyColourRight ==
  ASSUME NEW c, Shaped(c), UniformState(c), NEW type \in {"MATERIAL", "LIGHTMODEL"}, NEW a
  PROVE  FFPApplied(c, ApplyOne(c, type, a), type, a)
<1> DEFINE n == "osg_FrontLightModelProduct_sceneColor"
           b == IF type = "MATERIAL" THEN [c EXCEPT !.material = a] ELSE [c EXCEPT !.lightModel = a]
           v == <<b.material, b.lightModel>>
           d == SetFFP(b, n, v)
<1>0. DOMAIN c = Fields
  BY DEF Shaped
<1>1. ApplyOne(c, type, a) = d
  BY DEF ApplyOne, ApplyMaterial, ApplyLightModel, UpdateSceneColor
<1>2. /\ DOMAIN b = Fields /\ \A f \in Fields \ {"material", "lightModel"} : b[f] = c[f]
      /\ b.material = IF type = "MATERIAL" THEN a ELSE c.material
      /\ b.lightModel = IF type = "LIGHTMODEL" THEN a ELSE c.lightModel
  BY <1>0 DEF Fields
<1> HIDE DEF b
<1>3. \A f \in {"pcp", "ffp", "ffpDirty", "ffpLast", "matrix", "value", "modelView"} : b[f] = c[f]
  BY <1>2 DEF Fields
<1>4. Shaped(b) /\ UploadsRight(b) /\ FFPUploaded(b) /\ DOMAIN b.ffp = FFPNames
  BY <1>2, <1>3, UploadsFrame DEF Shaped, UniformState, ValuesRight
<1>5. n \in FFPNames
  BY DEF FFPNames
<1>6. FFPSet(b, d, n, v)
  BY <1>4, <1>5, SetFFPRight
<1> HIDE DEF d
<1>7. /\ DOMAIN d = Fields /\ \A f \in Fields \ {"pcp", "ffp", "ffpDirty", "material", "lightModel"} : d[f] = c[f]
      /\ d.material = b.material /\ d.lightModel = b.lightModel
      /\ d.ffp[n] = v /\ \A m \in FFPNames \ {n} : d.ffp[m] = c.ffp[m]
      /\ DOMAIN d.ffp = FFPNames
  BY <1>2, <1>3, <1>6 DEF FFPSet, Fields
<1>8. /\ \A f \in Fields \ UniformFields : d[f] = c[f]
      /\ d.modelView = c.modelView /\ d.matrix = c.matrix /\ d.value = c.value
  BY <1>7 DEF Fields, UniformFields
<1>9. UniformState(d)
  BY <1>6, <1>7, <1>8 DEF FFPSet, UniformState, ValuesRight
<1>10. FFPValue(d, type) = a /\ \A t \in FFPTypes \ {type} : FFPValue(d, t) = FFPValue(c, t)
  BY <1>2, <1>7 DEF FFPValue, FFPTypes, FFPNames
<1>11. c.ffpDirty => d.ffpDirty
  BY <1>3, <1>6 DEF FFPSet
<1> QED
  BY <1>1, <1>7, <1>8, <1>9, <1>10, <1>11 DEF FFPApplied

\* applyModelViewMatrix().
LEMMA MatrixRight ==
  ASSUME NEW c, Shaped(c), UniformState(c), NEW m
  PROVE  LET d == ApplyModelViewMatrix(c, m)
         IN /\ UniformState(d) /\ d.modelView = m
            /\ DOMAIN d = Fields /\ \A f \in Fields \ {"pcp", "modelView", "matrix"} : d[f] = c[f]
<1> DEFINE b == [c EXCEPT !.modelView = m, !.matrix = m]
           d == UniformModified(b, "osg_ModelViewMatrix")
<1>0. DOMAIN c = Fields
  BY DEF Shaped
<1>1. CASE c.modelView = m
  BY <1>0, <1>1 DEF ApplyModelViewMatrix
<1>2. CASE c.modelView # m
  <2>1. ApplyModelViewMatrix(c, m) = d
    BY <1>2 DEF ApplyModelViewMatrix
  <2>2. /\ DOMAIN b = Fields /\ \A f \in Fields \ {"modelView", "matrix"} : b[f] = c[f]
        /\ b.modelView = m /\ b.matrix = m
    BY <1>0 DEF Fields
  <2> HIDE DEF b
  <2>3. b.pcp = c.pcp /\ b.ffp = c.ffp /\ b.value = c.value /\ b.ffpDirty = c.ffpDirty /\ b.ffpLast = c.ffpLast
    BY <2>2 DEF Fields
  <2>4. \A n, x : Fits(n, x) /\ x # "osg_ModelViewMatrix" => ValueOf(b, n, x) = ValueOf(c, n, x)
    BY <2>3 DEF Fits, ValueOf
  <2>5. Shaped(b)
    BY <2>2, <2>3 DEF Shaped
  <2>6. Modified(b, d) /\ UploadsRight(d)
    BY <2>3, <2>4, <2>5, ModifiedRight DEF UniformState
  <2> HIDE DEF d
  <2>7. FFPUploaded(b)
    BY <2>3 DEF UniformState, FFPUploaded
  <2>8. FFPUploaded(d)
    BY <2>6, <2>7, ModifiedUploaded
  <2>9. /\ DOMAIN d = Fields /\ \A f \in Fields \ {"pcp", "modelView", "matrix"} : d[f] = c[f]
        /\ d.modelView = m /\ d.matrix = m
    BY <2>2, <2>6 DEF Modified, Fields
  <2>10. ValuesRight(d)
    BY <2>9 DEF ValuesRight, UniformState, Fields
  <2> QED
    BY <2>1, <2>6, <2>8, <2>9, <2>10 DEF UniformState
<1> QED
  BY <1>1, <1>2

\* Uniform::set() on one of a state set.
LEMMA SetValueRight ==
  ASSUME NEW c, Shaped(c), UniformState(c), NEW u
  PROVE  LET d == UniformModified([c EXCEPT !.value[u] = 1 - @], u)
         IN /\ UniformState(d)
            /\ DOMAIN d = Fields /\ \A f \in Fields \ {"pcp", "value"} : d[f] = c[f]
<1> DEFINE b == [c EXCEPT !.value[u] = 1 - @]
           d == UniformModified(b, u)
<1>0. DOMAIN c = Fields
  BY DEF Shaped
<1>1. /\ DOMAIN b = Fields /\ \A f \in Fields \ {"value"} : b[f] = c[f]
      /\ DOMAIN b.value = DOMAIN c.value /\ \A x \in DOMAIN c.value : x # u => b.value[x] = c.value[x]
  BY <1>0 DEF Fields
<1> HIDE DEF b
<1>2. b.pcp = c.pcp /\ b.ffp = c.ffp /\ b.matrix = c.matrix /\ b.ffpDirty = c.ffpDirty /\ b.ffpLast = c.ffpLast
  BY <1>1 DEF Fields
<1>3. \A n, x : Fits(n, x) /\ x # u => ValueOf(b, n, x) = ValueOf(c, n, x)
  BY <1>1, <1>2 DEF Fits, ValueOf, UniformState, ValuesRight
<1>4. Shaped(b)
  BY <1>1, <1>2 DEF Shaped
<1>5. Modified(b, d) /\ UploadsRight(d)
  BY <1>2, <1>3, <1>4, ModifiedRight DEF UniformState
<1> HIDE DEF d
<1>6. FFPUploaded(b)
  BY <1>2 DEF UniformState, FFPUploaded
<1>7. FFPUploaded(d)
  BY <1>5, <1>6, ModifiedUploaded
<1>8. /\ DOMAIN d = Fields /\ \A f \in Fields \ {"pcp", "value"} : d[f] = c[f]
      /\ d.value = b.value
  BY <1>1, <1>5 DEF Modified, Fields
<1>9. ValuesRight(d)
  BY <1>1, <1>8 DEF ValuesRight, UniformState, Fields
<1> QED
  BY <1>5, <1>7, <1>8, <1>9 DEF UniformState, d, b

-----------------------------------------------------------------------------
(* The attributes that set uniforms                                         *)

\* What a leaf and the state sets ask for is an attribute, not None.
LEMMA AttributeAsked ==
  ASSUME NEW c, StacksRight(c), NEW leaf \in StateSets \cup {NoStateSet}, NEW type \in FFPTypes
  PROVE  LET vec == c.attrMap[type].vec
         IN /\ OwnEntry(leaf.attributes, type, vec) => leaf.attributes[type].value # None
            /\ vec # << >> => Last(vec).value # None
<1> DEFINE vec == c.attrMap[type].vec
<1>1. StackOf(vec, c.sets, "attributes", type) /\ c.sets \in Seq(StateSets)
  BY DEF StacksRight, AttributeStack, OtherTypes, FFPTypes, Types, AttributeTypes, TextureTypes
<1>2. vec # << >> => Last(vec) \in EntriesOf("attributes", type)
  BY <1>1, StackHas
<1> HIDE DEF vec
<1>3. vec # << >> => Last(vec).value # None
  BY <1>2, StateAssumption DEF EntriesOf
<1>4. OwnEntry(leaf.attributes, type, vec) => leaf.attributes[type].value # None
  BY StateAssumption DEF OwnEntry, NoStateSet
<1> QED
  BY <1>3, <1>4 DEF vec

\* What is known before such an attribute's turn in apply() comes.
AttributesReady(c) == Shaped(c) /\ StacksRight(c) /\ UniformState(c) /\ AttributesKept(c)

\* What its turn may change.
SlotOf(c, d, type) ==
    /\ DOMAIN d = Fields /\ \A f \in Fields \ (UniformFields \cup {"attrMap"}) : d[f] = c[f]
    /\ UniformState(d) /\ d.modelView = c.modelView /\ (c.ffpDirty => d.ffpDirty)
    /\ DOMAIN d.attrMap = Types /\ \A t \in Types \ {type} : d.attrMap[t] = c.attrMap[t]
    /\ DOMAIN d.attrMap[type] = DOMAIN c.attrMap[type] /\ d.attrMap[type].vec = c.attrMap[type].vec
    /\ \A t \in FFPTypes \ {type} : FFPValue(d, t) = FFPValue(c, t)

\* What is remembered of the attribute changes.
LEMMA EntryChanged ==
  ASSUME NEW c, AttributesReady(c), NEW type \in FFPTypes, NEW d,
         DOMAIN d = Fields, \A f \in Fields \ {"attrMap"} : d[f] = c[f],
         DOMAIN d.attrMap = Types, \A t \in Types \ {type} : d.attrMap[t] = c.attrMap[t],
         DOMAIN d.attrMap[type] = DOMAIN c.attrMap[type], d.attrMap[type].vec = c.attrMap[type].vec
  PROVE  SlotOf(c, d, type) /\ FFPValue(d, type) = FFPValue(c, type) /\ Shaped(d)
<1>1. \A f \in ValueFields : d[f] = c[f]
  BY DEF ValueFields, UniformFields, Fields
<1>2. UniformState(d) /\ \A t \in FFPTypes : FFPValue(d, t) = FFPValue(c, t)
  BY <1>1, UniformFrame DEF AttributesReady
<1>3. d.modelView = c.modelView /\ d.ffpDirty = c.ffpDirty /\ d.pcp = c.pcp
  BY <1>1 DEF ValueFields, UniformFields
<1> QED
  BY <1>2, <1>3 DEF SlotOf, AttributesReady, Shaped

\* The attribute x is applied, and the entry counts as changed or not.
AttributeApplied(c, d, type, x, v) ==
    /\ SlotOf(c, d, type) /\ FFPValue(d, type) = x
    /\ d.attrMap[type].last = x /\ d.attrMap[type].changed = v /\ d.attrMap[type].cloned

\* apply() of an attribute that State keeps in uniforms, and what it leaves.
LEMMA FFPAttribute ==
  ASSUME NEW c, AttributesReady(c), NEW type \in FFPTypes, NEW v \in BOOLEAN, NEW x, x # None
  PROVE  AttributeApplied(c, ApplyAttribute([c EXCEPT !.attrMap[type].changed = v], type, x), type, x, v)
<1> DEFINE a == c.attrMap[type]
           g == [c EXCEPT !.attrMap[type].changed = v]
           m == [g EXCEPT !.attrMap[type].last = x, !.attrMap[type].cloned = TRUE]
           d == ApplyOne(m, type, x)
<1>0. /\ DOMAIN c = Fields /\ DOMAIN c.attrMap = Types /\ type \in Types
      /\ DOMAIN a = {"vec", "last", "changed", "cloned"} /\ AttributeKept(c, type)
  BY DEF AttributesReady, Shaped, StacksRight, AttributeStack, OtherTypes, AttributesKept, FFPTypes, Types,
         AttributeTypes, TextureTypes
<1>1. /\ DOMAIN g = Fields /\ \A f \in Fields \ {"attrMap"} : g[f] = c[f]
      /\ DOMAIN g.attrMap = Types /\ \A t \in Types \ {type} : g.attrMap[t] = c.attrMap[t]
      /\ DOMAIN g.attrMap[type] = DOMAIN a /\ g.attrMap[type].vec = a.vec /\ g.attrMap[type].last = a.last
      /\ g.attrMap[type].cloned = a.cloned /\ g.attrMap[type].changed = v
  BY <1>0 DEF Fields
<1>2. CASE a.last = x
  <2>1. ApplyAttribute(g, type, x) = g
    BY <1>1, <1>2 DEF ApplyAttribute
  <2> HIDE DEF g
  <2>2. SlotOf(c, g, type) /\ FFPValue(g, type) = FFPValue(c, type)
    BY <1>1, EntryChanged
  <2>3. FFPValue(c, type) = x /\ a.cloned
    BY <1>0, <1>2 DEF AttributeKept, Remembered
  <2> QED
    BY <1>1, <1>2, <2>1, <2>2, <2>3 DEF g, AttributeApplied
<1>3. CASE a.last # x
  <2>1. ApplyAttribute(g, type, x) = d
    BY <1>1, <1>3 DEF ApplyAttribute
  <2> HIDE DEF g
  <2>2. /\ DOMAIN m = Fields /\ \A f \in Fields \ {"attrMap"} : m[f] = c[f]
        /\ DOMAIN m.attrMap = Types /\ \A t \in Types \ {type} : m.attrMap[t] = c.attrMap[t]
        /\ DOMAIN m.attrMap[type] = DOMAIN a /\ m.attrMap[type].vec = a.vec /\ m.attrMap[type].last = x
        /\ m.attrMap[type].cloned = TRUE /\ m.attrMap[type].changed = v
    BY <1>0, <1>1 DEF Fields
  <2> HIDE DEF m
  <2>3. SlotOf(c, m, type) /\ Shaped(m)
    BY <2>2, EntryChanged
  <2>4. FFPApplied(m, d, type, x)
    <3>1. UniformState(m)
      BY <2>3 DEF SlotOf
    <3> QED
      BY <2>3, <3>1, ApplyValueRight, ApplyColourRight DEF FFPTypes
  <2> HIDE DEF d
  <2>5. d.attrMap = m.attrMap /\ "attrMap" \notin UniformFields
    BY <2>4 DEF FFPApplied, Fields, UniformFields
  <2>6. SlotOf(c, d, type)
    <3>1. \A f \in Fields \ (UniformFields \cup {"attrMap"}) : d[f] = c[f]
      BY <2>3, <2>4 DEF FFPApplied, SlotOf
    <3> QED
      BY <2>2, <2>3, <2>4, <2>5, <3>1 DEF FFPApplied, SlotOf
  <2> QED
    BY <2>1, <2>2, <2>4, <2>5, <2>6 DEF FFPApplied, g, AttributeApplied
<1> QED
  BY <1>2, <1>3

\* Its turn in apply(): it is the one asked for afterwards.
LEMMA FFPSlotRight ==
  ASSUME NEW c, AttributesReady(c), NEW type \in FFPTypes, NEW leaf \in StateSets \cup {NoStateSet}
  PROVE  LET d == ApplyAttributeSlot(c, type, leaf)
         IN SlotOf(c, d, type) /\ AttributeKept(d, type) /\ AttributeDrawn(d, leaf, type)
<1> DEFINE a == c.attrMap[type]
           d == ApplyAttributeSlot(c, type, leaf)
           set(v) == [c EXCEPT !.attrMap[type].changed = v]
<1>0. /\ DOMAIN c = Fields /\ DOMAIN c.attrMap = Types /\ type \in Types
      /\ DOMAIN a = {"vec", "last", "changed", "cloned"} /\ AttributeKept(c, type)
      /\ None # Default
  BY StateAssumption DEF AttributesReady, Shaped, StacksRight, AttributeStack, OtherTypes, AttributesKept, FFPTypes,
         Types, AttributeTypes, TextureTypes
<1>1. /\ OwnEntry(leaf.attributes, type, a.vec) => leaf.attributes[type].value # None
      /\ a.vec # << >> => Last(a.vec).value # None
  BY AttributeAsked DEF AttributesReady
<1>2. SlotOf(c, c, type)
  BY <1>0 DEF SlotOf, AttributesReady
<1>3. CASE OwnEntry(leaf.attributes, type, a.vec)
  <2> DEFINE x == leaf.attributes[type].value
             e == ApplyAttribute(set(TRUE), type, x)
  <2>1. CASE a.last = x
    <3>1. d = c
      BY <1>3, <2>1 DEF ApplyAttributeSlot, MarkAttribute, ApplyAttribute
    <3>2. FFPValue(c, type) = x
      BY <1>0, <1>1, <1>3, <2>1 DEF AttributeKept
    <3> QED
      BY <1>0, <1>2, <1>3, <3>1, <3>2 DEF AttributeDrawn, LeafAsks
  <2>2. CASE a.last # x
    <3>1. d = e
      BY <1>3, <2>2 DEF ApplyAttributeSlot, MarkAttribute, set
    <3>2. AttributeApplied(c, e, type, x, TRUE)
      <4>1. x # None /\ TRUE \in BOOLEAN
        BY <1>1, <1>3
      <4> HIDE DEF x
      <4> QED
        BY <4>1, FFPAttribute
    <3> HIDE DEF e, d, x, set
    <3>3. e.attrMap[type].vec = a.vec
      BY <3>2 DEF SlotOf, AttributeApplied
    <3>4. AttributeDrawn(e, leaf, type)
      BY <1>3, <3>2, <3>3 DEF AttributeDrawn, LeafAsks, x, AttributeApplied
    <3>5. AttributeKept(e, type)
      BY <1>1, <1>3, <3>2 DEF AttributeKept, Remembered, AttributeApplied, x
    <3> QED
      BY <3>1, <3>2, <3>4, <3>5 DEF d, AttributeApplied
  <2> QED
    BY <2>1, <2>2
<1>4. CASE ~OwnEntry(leaf.attributes, type, a.vec) /\ ~a.changed
  <2>1. d = c
    BY <1>4 DEF ApplyAttributeSlot
  <2>2. Settled(a)
    BY <1>0, <1>4 DEF AttributeKept, Remembered
  <2>3. AttributeDrawn(c, leaf, type)
    BY <1>0, <1>1, <1>4, <2>2 DEF AttributeDrawn, LeafAsks, AttributeKept, Settled
  <2> QED
    BY <1>0, <1>2, <2>1, <2>3
<1>5. CASE ~OwnEntry(leaf.attributes, type, a.vec) /\ a.changed
  <2> DEFINE n == set(FALSE)
             x == IF a.vec = << >> THEN Default ELSE Last(a.vec).value
             e == ApplyAttribute(n, type, x)
             g == [n EXCEPT !.attrMap[type].last = None]
  <2>1. /\ DOMAIN n = Fields /\ \A f \in Fields \ {"attrMap"} : n[f] = c[f]
        /\ DOMAIN n.attrMap = Types /\ \A t \in Types \ {type} : n.attrMap[t] = c.attrMap[t]
        /\ DOMAIN n.attrMap[type] = DOMAIN a /\ n.attrMap[type].vec = a.vec
        /\ n.attrMap[type].cloned = a.cloned /\ n.attrMap[type].changed = FALSE
    BY <1>0 DEF Fields
  <2>2. CASE a.vec # << >> \/ a.cloned
    <3>1. d = e
      BY <1>5, <2>1, <2>2 DEF ApplyAttributeSlot, ApplyTopAttribute
    <3>2. x # None
      BY <1>0, <1>1
    <3>3. AttributeApplied(c, e, type, x, FALSE)
      <4>1. FALSE \in BOOLEAN
        OBVIOUS
      <4> HIDE DEF x
      <4> QED
        BY <3>2, <4>1, FFPAttribute
    <3> HIDE DEF e, d, n
    <3>4. e.attrMap[type].vec = a.vec
      BY <3>3 DEF SlotOf, AttributeApplied
    <3>5. AttributeDrawn(e, leaf, type)
      BY <1>5, <3>3, <3>4 DEF AttributeDrawn, LeafAsks, AttributeApplied
    <3>6. AttributeKept(e, type)
      BY <3>2, <3>3, <3>4 DEF AttributeKept, Remembered, Settled, AttributeApplied
    <3> QED
      BY <3>1, <3>3, <3>5, <3>6 DEF d, AttributeApplied
  <2>3. CASE a.vec = << >> /\ ~a.cloned
    <3>1. d = g
      BY <1>5, <2>1, <2>3 DEF ApplyAttributeSlot, ApplyTopAttribute
    <3> HIDE DEF n
    <3>2. /\ DOMAIN g = Fields /\ \A f \in Fields \ {"attrMap"} : g[f] = c[f]
          /\ DOMAIN g.attrMap = Types /\ \A t \in Types \ {type} : g.attrMap[t] = c.attrMap[t]
          /\ DOMAIN g.attrMap[type] = DOMAIN a /\ g.attrMap[type].vec = a.vec /\ g.attrMap[type].last = None
          /\ g.attrMap[type].cloned = a.cloned /\ g.attrMap[type].changed = FALSE
      BY <1>0, <2>1 DEF Fields
    <3> HIDE DEF g, d
    <3>3. SlotOf(c, g, type) /\ FFPValue(g, type) = FFPValue(c, type)
      BY <3>2, EntryChanged
    <3>4. FFPValue(c, type) = Default
      BY <1>0, <2>3 DEF AttributeKept
    <3>5. AttributeDrawn(g, leaf, type)
      BY <1>5, <2>3, <3>2, <3>3, <3>4 DEF AttributeDrawn, LeafAsks
    <3>6. AttributeKept(g, type)
      BY <2>3, <3>2, <3>3, <3>4 DEF AttributeKept, Remembered, Settled
    <3> QED
      BY <3>1, <3>3, <3>5, <3>6 DEF d
  <2> QED
    BY <2>2, <2>3
<1> QED
  BY <1>3, <1>4, <1>5

-----------------------------------------------------------------------------
(* Programs and their uniforms                                              *)

\* The programs are shaped as they were, and their uniforms as they were or reset.
Resets(c, d) == Shaped(d) /\ PCPReset(c, d)

\* One step of linking after another.
LEMMA ResetsBoth ==
  ASSUME NEW c, NEW d, NEW e, Resets(c, d), Resets(d, e)
  PROVE  Resets(c, e)
BY ResetBoth DEF Resets

\* The steps of compiling and linking, each.
LEMMA StepsReset ==
  ASSUME NEW c, Shaped(c)
  PROVE  /\ Resets(c, c)
         /\ Resets(c, UpdateCurrentDefines(c))
         /\ \A key : Resets(c, NewPCP(c, key))
         /\ \A sh : Resets(c, CompileShader(c, sh))
         /\ \A group : Resets(c, MergeStage(c, group))
         /\ \A key : Resets(c, LinkProgram(c, key))
         /\ \A key : Resets(c, UseProgram(c, key))
<1>0. DOMAIN c = Fields /\ \A k \in DOMAIN c.pcp : DOMAIN c.pcp[k] = PCPFields
  BY DEF Shaped
<1>1. ASSUME NEW d, DOMAIN d = Fields, d.pcp = c.pcp PROVE Resets(c, d)
  BY <1>0, <1>1 DEF Resets, Shaped, PCPReset
<1>2. Resets(c, c)
  BY <1>0, <1>1
<1>3. Resets(c, UpdateCurrentDefines(c))
  <2> DEFINE d == UpdateCurrentDefines(c)
  <2>1. DOMAIN d = Fields /\ d.pcp = c.pcp
    BY <1>0 DEF UpdateCurrentDefines, Fields
  <2> HIDE DEF d
  <2>2. Resets(c, d)
    BY <1>1, <2>1
  <2> QED
    BY <2>2 DEF d
<1>4. ASSUME NEW key PROVE Resets(c, NewPCP(c, key))
  <2> DEFINE new == [needsLink |-> TRUE, isLinked |-> FALSE, image |-> {}, uniforms |-> NoUniforms(key[1])]
             d == NewPCP(c, key)
  <2>1. CASE key \in DOMAIN c.pcp
    BY <1>2, <2>1 DEF NewPCP
  <2>2. CASE key \notin DOMAIN c.pcp
    <3>1. /\ DOMAIN d = Fields
          /\ d.pcp = [k \in DOMAIN c.pcp \cup {key} |-> IF k # key THEN c.pcp[k] ELSE new]
      BY <1>0, <2>2 DEF NewPCP, Fields
    <3>2. DOMAIN new = PCPFields /\ new.uniforms = NoUniforms(key[1])
      BY DEF PCPFields
    <3> HIDE DEF d, new
    <3>3. DOMAIN d.pcp = DOMAIN c.pcp \cup {key} /\ d.pcp[key] = new
          /\ \A k \in DOMAIN c.pcp : d.pcp[k] = c.pcp[k]
      BY <2>2, <3>1
    <3>4. Resets(c, d)
      BY <1>0, <3>1, <3>2, <3>3 DEF Resets, Shaped, PCPReset
    <3> QED
      BY <3>4 DEF d
  <2> QED
    BY <2>1, <2>2
<1>5. ASSUME NEW sh PROVE Resets(c, CompileShader(c, sh))
  <2> DEFINE d == CompileShader(c, sh)
  <2>1. DOMAIN d = Fields /\ d.pcp = c.pcp
    BY <1>0 DEF CompileShader, CompilePCS, Fields
  <2> HIDE DEF d
  <2>2. Resets(c, d)
    BY <1>1, <2>1
  <2> QED
    BY <2>2 DEF d
<1>6. ASSUME NEW group PROVE Resets(c, MergeStage(c, group))
  BY <1>2, <1>5 DEF MergeStage
<1>7. ASSUME NEW key PROVE Resets(c, LinkProgram(c, key))
  <2> DEFINE objects == ProgramImage(c, key[1])
             new == [needsLink |-> FALSE, isLinked |-> Linkable(objects), image |-> objects,
                     uniforms |-> NoUniforms(key[1])]
             d == [c EXCEPT !.pcp[key] = new]
  <2>1. DOMAIN new = PCPFields /\ new.uniforms = NoUniforms(key[1])
    BY DEF PCPFields
  <2>2. LinkProgram(c, key) = c \/ LinkProgram(c, key) = d
    BY DEF LinkProgram, LinkImage
  <2> HIDE DEF new
  <2>3. DOMAIN d = Fields /\ d.pcp = [c.pcp EXCEPT ![key] = new]
    BY <1>0 DEF Fields
  <2> HIDE DEF d
  <2>4. /\ DOMAIN d.pcp = DOMAIN c.pcp /\ (key \in DOMAIN c.pcp => d.pcp[key] = new)
        /\ \A k \in DOMAIN c.pcp : k # key => d.pcp[k] = c.pcp[k]
    BY <2>3
  <2>5. Resets(c, d)
    BY <1>0, <2>1, <2>3, <2>4 DEF Resets, Shaped, PCPReset
  <2> QED
    BY <1>2, <2>2, <2>5
<1>8. ASSUME NEW key PROVE Resets(c, UseProgram(c, key))
  <2> DEFINE d == UseProgram(c, key)
  <2>1. DOMAIN d = Fields /\ d.pcp = c.pcp
    BY <1>0 DEF UseProgram, Fields
  <2> HIDE DEF d
  <2>2. Resets(c, d)
    BY <1>1, <2>1
  <2> QED
    BY <2>2 DEF d
<1> QED
  BY <1>2, <1>3, <1>4, <1>5, <1>6, <1>7, <1>8

\* compileGLObjects() and Program::apply().
LEMMA ApplyResets ==
  ASSUME NEW c, Shaped(c), NEW p
  PROVE  Resets(c, CompileProgram(c, p)) /\ Resets(c, ApplyProgram(c, p))
<1>1. ASSUME NEW b, Shaped(b) PROVE Resets(b, GetPCP(b, p))
  <2> DEFINE u == UpdateCurrentDefines(b)
  <2>1. Resets(b, u) /\ Shaped(u)
    BY <1>1, StepsReset DEF Resets
  <2> HIDE DEF u
  <2>2. Resets(u, NewPCP(u, PCPKey(u, p)))
    BY <2>1, StepsReset
  <2> QED
    BY <2>1, <2>2, ResetsBoth DEF GetPCP, MakePCP, u
<1>2. ASSUME NEW b, Shaped(b) PROVE Resets(b, CompilePCP(b, p))
  <2> DEFINE d == MergeStage(b, Group(b, p, "vertex"))
             e == MergeStage(d, Group(b, p, "fragment"))
             key == PCPKey(b, p)
  <2>1. Resets(b, d) /\ Shaped(d)
    BY <1>2, StepsReset DEF Resets
  <2> HIDE DEF d
  <2>2. Resets(d, e) /\ Shaped(e)
    BY <2>1, StepsReset DEF Resets
  <2> HIDE DEF e
  <2>3. Resets(e, LinkProgram(e, key))
    BY <2>2, StepsReset
  <2>4. Resets(b, LinkProgram(e, key))
    BY <2>1, <2>2, <2>3, ResetsBoth
  <2> QED
    BY <2>4 DEF CompilePCP, MergeShadersForGLES, d, e
<1>3. ASSUME NEW b, Shaped(b) PROVE Resets(b, CompileProgram(b, p))
  <2> DEFINE d == GetPCP(b, p)
  <2>1. Resets(b, d) /\ Shaped(d)
    BY <1>1, <1>3 DEF Resets
  <2> HIDE DEF d
  <2>2. Resets(b, CompilePCP(d, p))
    BY <1>2, <2>1, ResetsBoth
  <2> QED
    BY <1>3, <2>2, StepsReset DEF CompileProgram, d
<1>4. Resets(c, ApplyProgram(c, p))
  <2> DEFINE d == GetPCP(c, p)
             key == PCPKey(d, p)
             e == IF d.pcp[key].needsLink THEN CompileProgram(d, p) ELSE d
             used == IF e.pcp[key].isLinked THEN key ELSE None
  <2>1. Resets(c, d) /\ Shaped(d)
    BY <1>1 DEF Resets
  <2>2. ApplyProgram(c, p) = IF c.list[p] = {} THEN UseProgram(c, None) ELSE UseProgram(e, used)
    BY DEF ApplyProgram, UseCompiled, UseIfLinked
  <2> HIDE DEF d, key
  <2>3. Resets(d, e) /\ Shaped(e)
    BY <1>3, <2>1, StepsReset DEF Resets
  <2> HIDE DEF e, used
  <2>4. Resets(e, UseProgram(e, used))
    BY <2>3, StepsReset
  <2>5. Resets(c, UseProgram(e, used))
    BY <2>1, <2>3, <2>4, ResetsBoth
  <2>6. Resets(c, UseProgram(c, None))
    BY StepsReset
  <2> QED
    BY <2>2, <2>5, <2>6
<1> QED
  BY <1>3, <1>4

\* What marks programs for linking, and what releases them.
LEMMA MarksReset ==
  ASSUME NEW c, Shaped(c)
  PROVE  /\ \A ps : Resets(c, DirtyProgram(c, ps))
         /\ \A p : Resets(c, ReleaseProgram(c, p))
<1>0. DOMAIN c = Fields /\ \A k \in DOMAIN c.pcp : DOMAIN c.pcp[k] = PCPFields
  BY DEF Shaped
<1>1. ASSUME NEW ps PROVE Resets(c, DirtyProgram(c, ps))
  <2> DEFINE d == DirtyProgram(c, ps)
  <2>1. /\ DOMAIN d = Fields
        /\ d.pcp = [k \in DOMAIN c.pcp |-> IF k[1] \in ps
                     THEN [c.pcp[k] EXCEPT !.needsLink = TRUE, !.isLinked = FALSE] ELSE c.pcp[k]]
    BY <1>0, Zenon DEF DirtyProgram, Fields
  <2> HIDE DEF d
  <2>2. ASSUME NEW k \in DOMAIN c.pcp
        PROVE  DOMAIN d.pcp[k] = PCPFields /\ d.pcp[k].uniforms = c.pcp[k].uniforms
    <3>1. CASE k[1] \in ps
      <4>1. d.pcp[k] = [c.pcp[k] EXCEPT !.needsLink = TRUE, !.isLinked = FALSE]
        BY <2>1, <3>1, Zenon
      <4> QED
        BY <1>0, <4>1 DEF PCPFields
    <3>2. CASE k[1] \notin ps
      <4>1. d.pcp[k] = c.pcp[k]
        BY <2>1, <3>2, Zenon
      <4> QED
        BY <1>0, <4>1
    <3> QED
      BY <3>1, <3>2
  <2>3. DOMAIN d.pcp = DOMAIN c.pcp
    BY <2>1, Zenon
  <2>4. Resets(c, d)
    BY <2>1, <2>2, <2>3 DEF Resets, Shaped, PCPReset
  <2> QED
    BY <2>4 DEF d
<1>2. ASSUME NEW p PROVE Resets(c, ReleaseProgram(c, p))
  <2> DEFINE d == ReleaseProgram(c, p)
  <2>1. /\ DOMAIN d = Fields
        /\ d.pcp = [k \in {k \in DOMAIN c.pcp : k[1] # p} |-> c.pcp[k]]
    BY <1>0, Zenon DEF ReleaseProgram, Fields
  <2> HIDE DEF d
  <2>2. /\ DOMAIN d.pcp \subseteq DOMAIN c.pcp
        /\ \A k \in DOMAIN d.pcp : d.pcp[k] = c.pcp[k]
    BY <2>1
  <2>3. Resets(c, d)
    BY <1>0, <2>1, <2>2 DEF Resets, Shaped, PCPReset
  <2> QED
    BY <2>3 DEF d
<1> QED
  BY <1>1, <1>2

\* Nothing happens to the attributes that State keeps in uniforms, and what is
\* uploaded stays right.
Quiet(c, d) ==
    /\ UniformState(d) /\ d.modelView = c.modelView /\ (c.ffpDirty => d.ffpDirty)
    /\ \A type \in FFPTypes : FFPValue(d, type) = FFPValue(c, type) /\ d.attrMap[type] = c.attrMap[type]

\* One quiet change after another.
LEMMA QuietBoth ==
  ASSUME NEW c, NEW d, NEW e, Quiet(c, d), Quiet(d, e)
  PROVE  Quiet(c, e)
BY DEF Quiet

\* What was right of the attributes stays right through a quiet change.
LEMMA QuietRight ==
  ASSUME NEW c, NEW d, Quiet(c, d)
  PROVE  /\ AttributesKept(c) => AttributesKept(d)
         /\ \A leaf : \A type \in FFPTypes : AttributeDrawn(c, leaf, type) => AttributeDrawn(d, leaf, type)
<1>1. \A type \in FFPTypes : AttributeKept(c, type) => AttributeKept(d, type)
  BY DEF Quiet, AttributeKept
<1>2. \A leaf : \A type \in FFPTypes : AttributeDrawn(c, leaf, type) => AttributeDrawn(d, leaf, type)
  BY DEF Quiet, AttributeDrawn
<1> QED
  BY <1>1, <1>2 DEF AttributesKept

\* What has nothing to do with either.
LEMMA QuietFrame ==
  ASSUME NEW c, NEW d, UniformState(c), \A f \in ValueFields : d[f] = c[f],
         \A type \in FFPTypes : d.attrMap[type] = c.attrMap[type]
  PROVE  Quiet(c, d)
<1>1. d.modelView = c.modelView /\ d.ffpDirty = c.ffpDirty
  BY DEF ValueFields, UniformFields
<1> QED
  BY <1>1, UniformFrame DEF Quiet

\* Nor linking, as long as the last program with all values stays as it is.
LEMMA QuietReset ==
  ASSUME NEW c, NEW d, UniformState(c), PCPReset(c, d), Later(c, d) \/ c.ffpDirty,
         \A f \in ValueFields \ {"pcp"} : d[f] = c[f],
         \A type \in FFPTypes : d.attrMap[type] = c.attrMap[type]
  PROVE  Quiet(c, d)
<1>1. UniformState(d)
  BY ResetUniforms
<1>2. /\ d.modelView = c.modelView /\ d.ffpDirty = c.ffpDirty /\ d.ffp = c.ffp
      /\ d.material = c.material /\ d.lightModel = c.lightModel
  BY DEF ValueFields, UniformFields
<1> QED
  BY <1>1, <1>2 DEF Quiet, FFPValue

\* Program::apply().
LEMMA ApplyProgramQuiet ==
  ASSUME NEW c, Built(c), UniformState(c), NEW p \in Programs
  PROVE  Quiet(c, ApplyProgram(c, p))
<1> DEFINE d == ApplyProgram(c, p)
<1>1. ProgramApplied(c, d, p)
  BY ApplyProgramRight
<1>2. Resets(c, d)
  BY BuiltShaped, ApplyResets
<1> HIDE DEF d
<1>3. d.attrMap = c.attrMap /\ \A f \in ValueFields \ {"pcp"} : d[f] = c[f]
  BY <1>1 DEF ProgramApplied, OnlyIn, Built, ProgramFields, ValueFields, UniformFields, Fields
<1>4. Quiet(c, d)
  BY <1>1, <1>2, <1>3, QuietReset DEF Resets, ProgramApplied
<1> QED
  BY <1>4 DEF d

\* The attribute list of apply(), at the program.
LEMMA ProgramSlotResets ==
  ASSUME NEW c, Shaped(c), NEW leaf
  PROVE  PCPReset(c, ApplyAttributeSlot(c, "PROGRAM", leaf))
<1> DEFINE vec == c.attrMap["PROGRAM"].vec
           own == leaf.attributes["PROGRAM"].value
           top == IF vec = << >> THEN Default ELSE Last(vec).value
           set(v) == [c EXCEPT !.attrMap["PROGRAM"].changed = v]
           none == [set(FALSE) EXCEPT !.attrMap["PROGRAM"].last = None]
<1>0. DOMAIN c = Fields
  BY DEF Shaped
<1>1. ASSUME NEW b, DOMAIN b = Fields, b.pcp = c.pcp, NEW x
      PROVE  PCPReset(c, b) /\ PCPReset(c, ApplyAttribute(b, "PROGRAM", x))
  <2> DEFINE m == [b EXCEPT !.attrMap["PROGRAM"].last = x, !.attrMap["PROGRAM"].cloned = TRUE]
             z == [m EXCEPT !.used = None, !.last = None]
  <2>1. PCPReset(c, b)
    BY <1>1 DEF PCPReset
  <2>2. ApplyAttribute(b, "PROGRAM", x) \in {b, z, ApplyProgram(m, x)}
    BY DEF ApplyAttribute, ApplyOne
  <2>3. DOMAIN m = Fields /\ m.pcp = c.pcp
    BY <1>1 DEF Fields
  <2> HIDE DEF m
  <2>4. PCPReset(c, z)
    <3>1. z.pcp = c.pcp
      BY <2>3 DEF Fields
    <3> QED
      BY <3>1 DEF PCPReset
  <2>5. PCPReset(c, ApplyProgram(m, x))
    <3>1. Shaped(m)
      BY <2>3 DEF Shaped
    <3> QED
      BY <2>3, <3>1, ApplyResets DEF Resets, PCPReset
  <2> HIDE DEF z
  <2> QED
    BY <2>1, <2>2, <2>4, <2>5
<1>2. \A v : DOMAIN set(v) = Fields /\ set(v).pcp = c.pcp
  BY <1>0 DEF Fields
<1>3. DOMAIN none = Fields /\ none.pcp = c.pcp
  BY <1>0 DEF Fields
<1>4. PCPReset(c, c)
  BY DEF PCPReset
<1>5. ApplyAttributeSlot(c, "PROGRAM", leaf) \in
        {ApplyAttribute(c, "PROGRAM", own), ApplyAttribute(set(TRUE), "PROGRAM", own), c, none,
         ApplyAttribute(set(FALSE), "PROGRAM", top)}
  <2>1. set(FALSE).attrMap["PROGRAM"].vec = vec
    BY <1>0 DEF Fields
  <2>2. ApplyTopAttribute(set(FALSE), "PROGRAM") \in {none, ApplyAttribute(set(FALSE), "PROGRAM", top)}
    <3> HIDE DEF set
    <3> QED
      BY <2>1 DEF ApplyTopAttribute
  <2> QED
    BY <2>2 DEF ApplyAttributeSlot, MarkAttribute
<1> HIDE DEF set, none, own, top
<1> QED
  BY <1>0, <1>1, <1>2, <1>3, <1>4, <1>5

\* The turn of the program touches no attribute that State keeps in uniforms.
LEMMA ProgramSlotQuiet ==
  ASSUME NEW c, UniformState(c), Shaped(c), NEW leaf, SlotKept(c, ApplyAttributeSlot(c, "PROGRAM", leaf)),
         DOMAIN c.attrMap = Types
  PROVE  Quiet(c, ApplyAttributeSlot(c, "PROGRAM", leaf))
<1> DEFINE d == ApplyAttributeSlot(c, "PROGRAM", leaf)
<1>1. PCPReset(c, d)
  BY ProgramSlotResets
<1> HIDE DEF d
<1>2. SlotKept(c, d)
  BY DEF d
<1>3. \A f \in ValueFields \ {"pcp"} : d[f] = c[f]
  BY <1>2 DEF SlotKept, OnlyIn, Shaped, ProgramFields, ValueFields, UniformFields, Fields
<1>4. \A type \in FFPTypes : d.attrMap[type] = c.attrMap[type]
  BY <1>2 DEF SlotKept, OnlyType, FFPTypes, Types, AttributeTypes, TextureTypes
<1>5. Quiet(c, d)
  BY <1>1, <1>2, <1>3, <1>4, QuietReset DEF SlotKept
<1> QED
  BY <1>5 DEF d

\* The program once more, and the program of last resort: that one asks for an upload.
LEMMA LastResortQuiet ==
  ASSUME NEW c, Built(c), UsedRight(c), UniformState(c)
  PROVE  /\ \A previous : Quiet(c, ApplyIfDefinesChanged(c, previous))
         /\ Quiet(c, ApplyFallbackProgramIfNeeded(c))
         /\ c.last = None => ApplyFallbackProgramIfNeeded(c).ffpDirty
<1>1. Quiet(c, c)
  BY DEF Quiet
<1>2. ASSUME NEW previous PROVE Quiet(c, ApplyIfDefinesChanged(c, previous))
  <2>1. c.last # None => c.last[1] \in Programs
    BY DEF UsedRight, UsedNow, Built, LinkedRight
  <2> QED
    BY <1>1, <2>1, ApplyProgramQuiet DEF ApplyIfDefinesChanged
<1>3. CASE c.last # None
  BY <1>1, <1>2, <1>3 DEF ApplyFallbackProgramIfNeeded
<1>4. CASE c.last = None
  <2> DEFINE p == IF c.attrMap["TEXTURE"].last # None THEN "fallback_textured" ELSE "fallback_plain"
             e == ApplyProgram(c, p)
             d == [e EXCEPT !.ffpDirty = TRUE]
  <2>1. ApplyFallbackProgramIfNeeded(c) = d
    BY <1>4 DEF ApplyFallbackProgramIfNeeded
  <2>2. p \in Programs
    BY BuiltInAssumption
  <2> HIDE DEF p
  <2>3. Quiet(c, e) /\ DOMAIN e = Fields
    BY <2>2, ApplyProgramQuiet, ApplyProgramRight DEF ProgramApplied, Built
  <2> HIDE DEF e
  <2>4. DOMAIN d = Fields /\ d.ffpDirty /\ \A f \in Fields \ {"ffpDirty"} : d[f] = e[f]
    BY <2>3 DEF Fields
  <2> HIDE DEF d
  <2>5. /\ d.pcp = e.pcp /\ d.ffp = e.ffp /\ d.material = e.material /\ d.lightModel = e.lightModel
        /\ d.modelView = e.modelView /\ d.matrix = e.matrix /\ d.value = e.value /\ d.attrMap = e.attrMap
    BY <2>4 DEF Fields
  <2>6. UniformState(d)
    <3>1. \A n, o : ValueOf(d, n, o) = ValueOf(e, n, o)
      BY <2>5 DEF ValueOf
    <3>2. UploadsRight(d)
      BY <2>3, <2>5, <3>1 DEF Quiet, UniformState, UploadsRight, EntryRight
    <3> QED
      BY <2>3, <2>4, <2>5, <3>2 DEF Quiet, UniformState, FFPUploaded, ValuesRight
  <2>7. \A type : FFPValue(d, type) = FFPValue(e, type)
    BY <2>5 DEF FFPValue
  <2>8. Quiet(c, d)
    BY <2>3, <2>4, <2>5, <2>6, <2>7 DEF Quiet
  <2> QED
    BY <1>2, <2>1, <2>4, <2>8
<1> QED
  BY <1>3, <1>4

-----------------------------------------------------------------------------
(* apply() and the uniforms                                                 *)

\* The attributes of the types S have had their turn, and are the leaf's.
AttributesSet(c, leaf, S) == AttributesReady(c) /\ \A type \in S : AttributeDrawn(c, leaf, type)

\* What the turns leave: the matrix, and that an upload was asked for.
AsksStill(c, d) == d.modelView = c.modelView /\ (c.ffpDirty => d.ffpDirty)

\* One more attribute's turn, and those that had theirs stay the leaf's.
LEMMA SlotsSet ==
  ASSUME NEW c, NEW leaf \in StateSets \cup {NoStateSet}, NEW S \in SUBSET FFPTypes, AttributesSet(c, leaf, S),
         NEW type \in FFPTypes
  PROVE  LET d == ApplyAttributeSlot(c, type, leaf)
         IN AttributesSet(d, leaf, S \cup {type}) /\ Beside(c, d) /\ AsksStill(c, d)
<1> DEFINE d == ApplyAttributeSlot(c, type, leaf)
<1>1. Beside(c, d)
  BY FFPSlotBeside DEF AttributesSet, AttributesReady
<1>2. SlotOf(c, d, type) /\ AttributeKept(d, type) /\ AttributeDrawn(d, leaf, type)
  BY FFPSlotRight DEF AttributesSet
<1> HIDE DEF d
<1>3. Shaped(d) /\ StacksRight(d)
  BY <1>1, BesideRight DEF Beside, AttributesSet, AttributesReady
<1>4. \A t \in FFPTypes \ {type} : d.attrMap[t] = c.attrMap[t] /\ FFPValue(d, t) = FFPValue(c, t)
  BY <1>2 DEF SlotOf, FFPTypes, Types, AttributeTypes, TextureTypes
<1>5. AttributesKept(d)
  BY <1>2, <1>4 DEF AttributesKept, AttributeKept, AttributesSet, AttributesReady
<1>6. ASSUME NEW t \in S, t # type PROVE AttributeDrawn(d, leaf, t)
  BY <1>4, <1>6 DEF AttributeDrawn, AttributesSet
<1>7. UniformState(d) /\ AsksStill(c, d)
  BY <1>2 DEF SlotOf, AsksStill
<1>8. AttributesSet(d, leaf, S \cup {type}) /\ Beside(c, d) /\ AsksStill(c, d)
  BY <1>1, <1>2, <1>3, <1>5, <1>6, <1>7 DEF AttributesSet, AttributesReady
<1> QED
  BY <1>8 DEF d

\* Nothing of that is lost where it is quiet.
LEMMA QuietSet ==
  ASSUME NEW c, NEW d, NEW leaf, NEW S \in SUBSET FFPTypes, AttributesSet(c, leaf, S), Quiet(c, d),
         StacksRight(d), Shaped(d)
  PROVE  AttributesSet(d, leaf, S) /\ AsksStill(c, d)
<1>1. AttributesReady(d)
  BY QuietRight DEF AttributesSet, AttributesReady, Quiet
<1>2. \A type \in S : AttributeDrawn(d, leaf, type)
  BY QuietRight DEF AttributesSet
<1> QED
  BY <1>1, <1>2 DEF AttributesSet, AsksStill, Quiet

\* The attributes and modes that come before the defines.
LEMMA TexMatSet ==
  ASSUME NEW c, ProgramState(c), TexturesRight(c), UniformState(c), AttributesKept(c),
         NEW leaf \in StateSets \cup {NoStateSet}
  PROVE  LET n == ApplyModes(ApplyTextureAttributes(c, leaf), leaf)
         IN AttributesSet(n, leaf, {"TEXMAT"}) /\ AsksStill(c, n)
<1> DEFINE a == ApplyAttributeSlot(c, "TEXTURE", leaf)
           b == ApplyAttributeSlot(a, "TEXMAT", leaf)
           n == ApplyModes(b, leaf)
<1>0. Shaped(c) /\ DOMAIN c = Fields /\ StacksRight(c)
  BY BuiltShaped DEF ProgramState, Built
<1>1. AttributesSet(c, leaf, {})
  BY <1>0 DEF AttributesSet, AttributesReady
<1>2. AttributesSet(a, leaf, {}) /\ AsksStill(c, a)
  <2>1. /\ OnlyIn(c, a, TextureFields \cup {"attrMap"}) /\ TexturesRight(a)
        /\ \A u \in OtherTypes : a.attrMap[u] = c.attrMap[u]
    BY <1>0, TextureSlot DEF OtherTypes
  <2> HIDE DEF a
  <2>2. \A type \in FFPTypes : a.attrMap[type] = c.attrMap[type]
    BY <2>1 DEF FFPTypes, OtherTypes, Types, AttributeTypes, TextureTypes
  <2>3. \A f \in ValueFields : a[f] = c[f]
    BY <1>0, <2>1 DEF OnlyIn, ValueFields, UniformFields, TextureFields, Fields
  <2>4. a.sets = c.sets /\ a.uniMap = c.uniMap /\ a.pcp = c.pcp /\ DOMAIN a = Fields
    BY <1>0, <2>1 DEF OnlyIn, TextureFields, Fields
  <2>5. DOMAIN a.attrMap = Types
    BY <2>1 DEF TexturesRight, TextureStack
  <2>6. StacksRight(a) /\ Shaped(a)
    BY <1>0, <2>1, <2>4, <2>5 DEF StacksRight, AttributeStack, Shaped
  <2>7. Quiet(c, a)
    BY <2>2, <2>3, QuietFrame
  <2> QED
    BY <1>1, <2>6, <2>7, QuietSet
<1> HIDE DEF a
<1>3. AttributesSet(b, leaf, {"TEXMAT"}) /\ AsksStill(a, b)
  <2> DEFINE S == {}
             T == S \cup {"TEXMAT"}
  <2>1. S \in SUBSET FFPTypes /\ T = {"TEXMAT"} /\ AttributesSet(a, leaf, S)
    BY <1>2
  <2> HIDE DEF S
  <2>2. AttributesSet(b, leaf, S \cup {"TEXMAT"}) /\ AsksStill(a, b)
    BY <2>1, SlotsSet DEF FFPTypes
  <2> QED
    BY <2>1, <2>2
<1> HIDE DEF b
<1>4. AttributesSet(n, leaf, {"TEXMAT"}) /\ AsksStill(b, n)
  <2>0. Shaped(b) /\ StacksRight(b) /\ UniformState(b)
    BY <1>3 DEF AttributesSet, AttributesReady
  <2>1. DOMAIN n = Fields /\ \A f \in Fields \ {"modeMap", "modes"} : n[f] = b[f]
    BY <2>0, Zenon DEF ApplyModes, Shaped
  <2> HIDE DEF n
  <2>2. /\ n.sets = b.sets /\ n.uniMap = b.uniMap /\ n.pcp = b.pcp /\ n.attrMap = b.attrMap
        /\ \A f \in ValueFields : n[f] = b[f]
    BY <2>1 DEF Fields, ValueFields, UniformFields
  <2>3. StacksRight(n) /\ Shaped(n)
    BY <2>0, <2>1, <2>2 DEF StacksRight, AttributeStack, Shaped
  <2>4. Quiet(b, n)
    BY <2>0, <2>2, QuietFrame
  <2> QED
    BY <1>3, <2>3, <2>4, QuietSet DEF FFPTypes
<1>5. AsksStill(c, n)
  BY <1>2, <1>3, <1>4 DEF AsksStill
<1> QED
  BY <1>4, <1>5 DEF n, b, a, ApplyTextureAttributes

\* The others.
LEMMA LightingSet ==
  ASSUME NEW c, NEW leaf \in StateSets \cup {NoStateSet}, AttributesSet(c, leaf, {"TEXMAT"})
  PROVE  AttributesSet(ApplyLighting(c, leaf), leaf, FFPTypes) /\ AsksStill(c, ApplyLighting(c, leaf))
<1> DEFINE d1 == ApplyAttributeSlot(c, "MATERIAL", leaf)
           d2 == ApplyAttributeSlot(d1, "LIGHTMODEL", leaf)
           d3 == ApplyAttributeSlot(d2, "FOG", leaf)
           S1 == {"TEXMAT"} \cup {"MATERIAL"}
           S2 == S1 \cup {"LIGHTMODEL"}
           S3 == S2 \cup {"FOG"}
<1>0. {"TEXMAT"} \in SUBSET FFPTypes /\ S1 \in SUBSET FFPTypes /\ S2 \in SUBSET FFPTypes /\ S3 = FFPTypes
  BY DEF FFPTypes
<1>1. AttributesSet(d1, leaf, S1) /\ AsksStill(c, d1)
  BY <1>0, SlotsSet DEF FFPTypes
<1> HIDE DEF d1, S1
<1>2. AttributesSet(d2, leaf, S2) /\ AsksStill(d1, d2)
  BY <1>0, <1>1, SlotsSet DEF FFPTypes
<1> HIDE DEF d2, S2
<1>3. AttributesSet(d3, leaf, S3) /\ AsksStill(d2, d3)
  BY <1>0, <1>2, SlotsSet DEF FFPTypes
<1> HIDE DEF d3, S3
<1>4. AttributesSet(d3, leaf, FFPTypes) /\ AsksStill(c, d3)
  BY <1>0, <1>1, <1>2, <1>3 DEF AsksStill
<1> QED
  BY <1>4 DEF d3, d2, d1, ApplyLighting

\* With the program, the attributes are as the leaf asks for.
LEMMA ChosenSet ==
  ASSUME NEW n, ProgramState(n), NEW leaf \in StateSets \cup {NoStateSet}, Believable(n, leaf),
         AttributesSet(n, leaf, {"TEXMAT"})
  PROVE  LET d == ApplyFallbackProgramIfNeeded(ApplyWithDefines(n, leaf))
         IN /\ AttributesSet(d, leaf, FFPTypes) /\ AsksStill(n, d)
            /\ n.last = None /\ leaf = NoStateSet /\ n.attrMap["PROGRAM"].vec = << >> => d.ffpDirty
<1> DEFINE d1 == PushDefines(n, leaf.defines)
           d4 == ApplyLighting(d1, leaf)
           d5 == ApplyAttributeSlot(d4, "PROGRAM", leaf)
           d6 == ApplyIfDefinesChanged(d5, n.last)
           d7 == ApplyFallbackProgramIfNeeded(d6)
<1>0. /\ DOMAIN n = Fields /\ DefinesCached(n) /\ DefineEntries(n) /\ DefineList(leaf.defines)
  <2>1. n.sets \in Seq(StateSets) /\ DefineStacks(n) /\ DOMAIN n = Fields /\ DefinesCached(n)
    BY DEF ProgramState, StacksRight, Built
  <2>2. DefineEntries(n)
    BY <2>1, EntriesAre
  <2>3. DefineList(leaf.defines)
    <3>1. DefineList(NoStateSet.defines)
      BY DEF DefineList, NoStateSet
    <3> QED
      BY <3>1, ListsAre
  <2> QED
    BY <2>1, <2>2, <2>3
<1>1. /\ Built(d1) /\ StacksRight(d1) /\ UsedRight(d1) /\ Believable(d1, leaf)
      /\ d1.attrMap = n.attrMap /\ d1.last = n.last
      /\ AttributesSet(d1, leaf, {"TEXMAT"}) /\ AsksStill(n, d1)
  <2>1. DefinesKept(n, d1)
    BY <1>0, DefinesPush
  <2> HIDE DEF d1
  <2>2. d1.attrMap = n.attrMap /\ d1.last = n.last /\ \A f \in ValueFields : d1[f] = n[f]
    BY <1>0, <2>1, DefinesKeptRight DEF Fields, ValueFields, UniformFields
  <2>3. Built(d1) /\ StacksRight(d1) /\ UsedRight(d1) /\ Believable(d1, leaf) /\ Shaped(d1)
    BY <1>0, <2>1, <2>2, DefinesKeptRight, BuiltShaped DEF ProgramState, Believable
  <2>4. Quiet(n, d1)
    BY <2>2, QuietFrame DEF AttributesSet, AttributesReady
  <2>5. AttributesSet(d1, leaf, {"TEXMAT"}) /\ AsksStill(n, d1)
    BY <2>3, <2>4, QuietSet DEF FFPTypes
  <2> QED
    BY <2>2, <2>3, <2>5
<1> HIDE DEF d1
<1>2. Beside(d1, d4) /\ AttributesSet(d4, leaf, FFPTypes) /\ AsksStill(d1, d4)
  BY <1>1, BuiltShaped, LightingBeside, LightingSet
<1> HIDE DEF d4
<1>3. /\ ProgramReady(d4) /\ Believable(d4, leaf)
      /\ d4.last = n.last /\ d4.attrMap["PROGRAM"] = n.attrMap["PROGRAM"] /\ Shaped(d4)
  <2>1. Built(d4) /\ StacksRight(d4) /\ UsedRight(d4) /\ Believable(d4, leaf) /\ Shaped(d4)
    BY <1>1, <1>2, BesideRight, BesideState
  <2>2. /\ d4.attrMap["PROGRAM"] = n.attrMap["PROGRAM"] /\ d4.last = n.last
    BY <1>1, <1>2 DEF Beside
  <2> QED
    BY <2>1, <2>2 DEF ProgramReady, ProgramState
<1>4. SlotKept(d4, d5) /\ Bound(d5)
  BY <1>3, ProgramSlot DEF Believable
<1>5. Quiet(d4, d5)
  BY <1>2, <1>3, <1>4, ProgramSlotQuiet DEF AttributesSet, AttributesReady, StacksRight
<1>6. n.last = None /\ leaf = NoStateSet /\ n.attrMap["PROGRAM"].vec = << >> => d5.last = None
  <2> SUFFICES ASSUME d4.last = None, leaf = NoStateSet, d4.attrMap["PROGRAM"].vec = << >>
               PROVE  d5.last = None
    BY <1>3
  <2> DEFINE b == [d4 EXCEPT !.attrMap["PROGRAM"].changed = FALSE]
             none == [b EXCEPT !.attrMap["PROGRAM"].last = None]
             m == [b EXCEPT !.attrMap["PROGRAM"].last = Default, !.attrMap["PROGRAM"].cloned = TRUE]
             z == [m EXCEPT !.used = None, !.last = None]
  <2>1. /\ DOMAIN d4 = Fields /\ DOMAIN d4.attrMap = Types
        /\ DOMAIN d4.attrMap["PROGRAM"] = {"vec", "last", "changed", "cloned"}
    BY <1>3 DEF ProgramReady, Built, StacksRight, AttributeStack, OtherTypes, Types, AttributeTypes
  <2>2. DOMAIN b = Fields /\ b.last = None /\ b.attrMap["PROGRAM"].vec = << >>
    BY <2>1 DEF Types, AttributeTypes, Fields
  <2>3. ~OwnEntry(leaf.attributes, "PROGRAM", d4.attrMap["PROGRAM"].vec)
    BY DEF OwnEntry, NoStateSet
  <2> HIDE DEF b
  <2>4. none.last = None /\ DOMAIN m = Fields
    BY <2>2 DEF Fields
  <2> HIDE DEF m
  <2>5. z.last = None
    BY <2>4 DEF Fields
  <2>6. ApplyTopAttribute(b, "PROGRAM") \in {b, none, z}
    BY <2>2 DEF ApplyTopAttribute, ApplyAttribute, ApplyOne, m
  <2>7. d5 \in {d4, b, none, z}
    BY <2>3, <2>6 DEF ApplyAttributeSlot, b
  <2> HIDE DEF z, none, d5
  <2> QED
    BY <2>2, <2>4, <2>5, <2>7
<1> HIDE DEF d5
<1>7. /\ Built(d5) /\ UsedRight(d5) /\ StacksRight(d5) /\ DOMAIN d5 = Fields
      /\ d5.last = n.last \/ d5.last = None \/ ~d5.defMap.changed
  <2>1. DOMAIN d4 = Fields /\ DOMAIN d5 = Fields
    BY <1>3, <1>4 DEF ProgramReady, Built, SlotKept
  <2>2. d5.sets = d4.sets /\ d5.uniMap = d4.uniMap
    BY <1>4, <2>1 DEF SlotKept, OnlyIn, ProgramFields, Fields
  <2>3. /\ DOMAIN d5.attrMap = DOMAIN d4.attrMap
        /\ \A t \in DOMAIN d4.attrMap \ {"PROGRAM"} : d5.attrMap[t] = d4.attrMap[t]
        /\ DOMAIN d5.attrMap["PROGRAM"] = DOMAIN d4.attrMap["PROGRAM"]
        /\ d5.attrMap["PROGRAM"].vec = d4.attrMap["PROGRAM"].vec
    BY <1>4 DEF SlotKept, OnlyType
  <2>4. StacksRight(d5)
    BY <1>3, <2>2, <2>3 DEF ProgramReady, StacksRight, AttributeStack, OtherTypes
  <2> QED
    BY <1>3, <1>4, <2>1, <2>4 DEF SlotKept
<1>8. Quiet(d5, d6)
  BY <1>5, <1>7, LastResortQuiet DEF Quiet
<1>9. d5.last = None => d6 = d5
  BY DEF ApplyIfDefinesChanged
<1>10. /\ OnlyIn(d5, d6, ProgramFields) /\ Built(d6) /\ UsedRight(d6) /\ Bound(d6) /\ InForceNow(d6)
  BY <1>4, <1>7, IfDefinesChangedRight
<1> HIDE DEF d6
<1>11. Quiet(d6, d7) /\ (d6.last = None => d7.ffpDirty)
  BY <1>8, <1>10, LastResortQuiet DEF Quiet
<1>12. OnlyIn(d6, d7, OtherFields) /\ Built(d7)
  BY <1>10, FallbackRight
<1> HIDE DEF d7
<1>13. d7.sets = d5.sets /\ d7.attrMap = d5.attrMap /\ d7.uniMap = d5.uniMap
  <2>1. DOMAIN d6 = Fields
    BY <1>10 DEF Built
  <2> QED
    BY <1>7, <1>10, <1>12, <2>1 DEF OnlyIn, OtherFields, ProgramFields, UniformFields, Fields
<1>14. StacksRight(d7) /\ Shaped(d7)
  BY <1>7, <1>12, <1>13, BuiltShaped DEF StacksRight, AttributeStack
<1>15. AttributesSet(d7, leaf, FFPTypes) /\ AsksStill(d4, d7)
  <2>1. Quiet(d4, d7)
    BY <1>5, <1>8, <1>11, QuietBoth
  <2> QED
    BY <1>2, <1>14, <2>1, QuietSet
<1>16. AsksStill(n, d7)
  BY <1>1, <1>2, <1>15 DEF AsksStill
<1>17. n.last = None /\ leaf = NoStateSet /\ n.attrMap["PROGRAM"].vec = << >> => d7.ffpDirty
  BY <1>6, <1>9, <1>11
<1>18. d7 = ApplyFallbackProgramIfNeeded(ApplyWithDefines(n, leaf))
  BY DEF d7, d6, d5, d4, d1, ApplyWithDefines, ApplyAttributes
<1> QED
  BY <1>15, <1>16, <1>17, <1>18

\* One upload keeps what is remembered of uploads.
LEMMA UploadQuiet ==
  ASSUME NEW c, NEW d, Shaped(c), UniformState(c), NEW n, NEW o, Fits(n, o), UploadedTo(c, d, n, o)
  PROVE  Quiet(c, d)
<1>1. /\ DOMAIN d = Fields /\ \A f \in Fields \ {"pcp"} : d[f] = c[f]
      /\ SamePrograms(c, d) /\ UploadsRight(d)
  BY DEF UploadedTo, OnlyIn, Shaped
<1>2. /\ d.ffp = c.ffp /\ d.ffpDirty = c.ffpDirty /\ d.ffpLast = c.ffpLast
      /\ d.material = c.material /\ d.lightModel = c.lightModel /\ d.attrMap = c.attrMap
      /\ d.modelView = c.modelView /\ d.matrix = c.matrix /\ d.value = c.value
  BY <1>1 DEF Fields
<1>3. FFPUploaded(d)
  <2> SUFFICES ASSUME ~c.ffpDirty, c.ffpLast # None
               PROVE  /\ c.ffpLast \in DOMAIN d.pcp /\ ~d.pcp[c.ffpLast].needsLink
                      /\ \A m \in ActiveIn[c.ffpLast[1]] \cap FFPNames :
                           d.pcp[c.ffpLast].uniforms[m].value = c.ffp[m]
    BY <1>2 DEF FFPUploaded
  <2> DEFINE k == c.ffpLast
  <2>1. /\ k \in DOMAIN c.pcp /\ ~c.pcp[k].needsLink
        /\ \A m \in ActiveIn[k[1]] \cap FFPNames : c.pcp[k].uniforms[m].value = c.ffp[m]
    BY DEF UniformState, FFPUploaded
  <2> HIDE DEF k
  <2>2. k \in DOMAIN d.pcp /\ ~d.pcp[k].needsLink
    BY <1>1, <2>1 DEF SamePrograms, PCPFields
  <2>3. ASSUME NEW m \in ActiveIn[k[1]] \cap FFPNames PROVE d.pcp[k].uniforms[m].value = c.ffp[m]
    <3>1. CASE k # c.last \/ m # n
      BY <2>1, <3>1 DEF UploadedTo
    <3>2. CASE k = c.last /\ m = n
      <4>1. ValueOf(c, n, o) = c.ffp[n]
        BY <3>2 DEF ValueOf, FFPNames
      <4> QED
        BY <3>2, <4>1 DEF UploadedTo
    <3> QED
      BY <3>1, <3>2
  <2> QED
    BY <2>2, <2>3 DEF k
<1>4. ValuesRight(d)
  BY <1>2 DEF ValuesRight, UniformState
<1> QED
  BY <1>1, <1>2, <1>3, <1>4 DEF Quiet, UniformState, FFPValue

\* The uniform u of the program in use is the one that the leaf asks for.
ObjectDrawn(c, leaf) ==
    LET object == LeafAsks(leaf.uniforms, "u", c.uniMap["u"].vec, None)
    IN "u" \in ActiveIn[c.last[1]] /\ object # None =>
         c.pcp[c.last].uniforms["u"].value = <<object, c.value[object]>>

\* The uniforms of the state sets.
LEMMA UniformsDrawn ==
  ASSUME NEW c, Shaped(c), StacksRight(c), UniformState(c), c.last # None, c.last \in DOMAIN c.pcp,
         NEW leaf \in StateSets \cup {NoStateSet}
  PROVE  LET d == ApplyUniforms(c, leaf)
         IN Quiet(c, d) /\ ObjectDrawn(d, leaf)
<1> DEFINE vec == c.uniMap["u"].vec
           d == ApplyUniforms(c, leaf)
<1>1. vec # << >> => Last(vec).value \in Uniforms
  <2>1. StackOf(vec, c.sets, "uniforms", "u") /\ c.sets \in Seq(StateSets)
    BY DEF StacksRight
  <2>2. vec # << >> => Last(vec) \in EntriesOf("uniforms", "u")
    BY <2>1, StackHas
  <2> HIDE DEF vec
  <2> QED
    BY <2>2, StateAssumption DEF EntriesOf
<1>2. OwnEntry(leaf.uniforms, "u", vec) => leaf.uniforms["u"].value \in Uniforms
  BY StateAssumption DEF OwnEntry, NoStateSet
<1>3. ASSUME NEW o \in Uniforms PROVE UploadedTo(c, ApplyObject(c, "u", o), "u", o) /\ Fits("u", o)
                                      /\ ValueOf(c, "u", o) = <<o, c.value[o]>>
  <2>1. Fits("u", o) /\ ValueOf(c, "u", o) = <<o, c.value[o]>>
    BY DEF Fits, ValueOf, FFPNames
  <2>2. UploadsRight(c)
    BY DEF UniformState
  <2>3. UploadedTo(c, ApplyUniform(c, "u", o, ValueOf(c, "u", o)), "u", o)
    BY <2>1, <2>2, UploadRight
  <2> QED
    BY <2>1, <2>3 DEF ApplyObject
<1>4. ASSUME NEW o \in Uniforms, d = ApplyObject(c, "u", o), o = LeafAsks(leaf.uniforms, "u", vec, None)
      PROVE  Quiet(c, d) /\ ObjectDrawn(d, leaf)
  <2>1. UploadedTo(c, d, "u", o) /\ Fits("u", o) /\ ValueOf(c, "u", o) = <<o, c.value[o]>>
    BY <1>3, <1>4
  <2> HIDE DEF d
  <2>2. Quiet(c, d)
    BY <2>1, UploadQuiet
  <2>3. d.uniMap = c.uniMap /\ d.last = c.last /\ d.value = c.value
    BY <2>1 DEF UploadedTo, OnlyIn, Shaped, Fields
  <2>4. ObjectDrawn(d, leaf)
    BY <1>4, <2>1, <2>3 DEF ObjectDrawn, UploadedTo
  <2> QED
    BY <2>2, <2>4
<1>5. CASE OwnEntry(leaf.uniforms, "u", vec)
  <2> DEFINE o == leaf.uniforms["u"].value
  <2>1. d = ApplyObject(c, "u", o) /\ o = LeafAsks(leaf.uniforms, "u", vec, None)
    BY <1>5 DEF ApplyUniforms, ApplyUniformSlot, LeafAsks
  <2> QED
    BY <1>2, <1>4, <1>5, <2>1
<1>6. CASE ~OwnEntry(leaf.uniforms, "u", vec) /\ vec # << >>
  <2> DEFINE o == Last(vec).value
  <2>1. d = ApplyObject(c, "u", o) /\ o = LeafAsks(leaf.uniforms, "u", vec, None)
    BY <1>6 DEF ApplyUniforms, ApplyUniformSlot, LeafAsks
  <2> QED
    BY <1>1, <1>4, <1>6, <2>1
<1>7. CASE ~OwnEntry(leaf.uniforms, "u", vec) /\ vec = << >>
  <2>1. d = c /\ LeafAsks(leaf.uniforms, "u", vec, None) = None
    BY <1>7 DEF ApplyUniforms, ApplyUniformSlot, LeafAsks
  <2> QED
    BY <2>1 DEF Quiet, ObjectDrawn
<1> QED
  BY <1>5, <1>6, <1>7

\* What a leaf has once the drawable's uniforms are applied: its matrix and the
\* fixed-function values.
StateUploaded(c) ==
    /\ "osg_ModelViewMatrix" \in ActiveIn[c.last[1]] =>
         c.pcp[c.last].uniforms["osg_ModelViewMatrix"].value = c.matrix
    /\ \A n \in ActiveIn[c.last[1]] \cap FFPNames : c.pcp[c.last].uniforms[n].value = c.ffp[n]

\* What that leaves alone.
DrawableUploaded(c, d) ==
    /\ OnlyIn(c, d, {"pcp", "ffpLast", "ffpDirty"}) /\ SamePrograms(c, d)
    /\ UniformState(d) /\ StateUploaded(d)
    /\ "u" \in ActiveIn[c.last[1]] =>
         d.pcp[c.last].uniforms["u"].value = c.pcp[c.last].uniforms["u"].value

\* Uploads in a row.
LEMMA UploadFFPRight ==
  ASSUME NEW c, Shaped(c), UploadsRight(c), ValuesRight(c), c.last # None, c.last \in DOMAIN c.pcp,
         ~c.pcp[c.last].needsLink
  PROVE  LET d == UploadFFP(c)
         IN /\ OnlyIn(c, d, {"pcp", "ffpLast", "ffpDirty"}) /\ SamePrograms(c, d) /\ UniformState(d)
            /\ \A n \in ActiveIn[c.last[1]] \cap FFPNames : d.pcp[c.last].uniforms[n].value = c.ffp[n]
            /\ \A n \in ActiveIn[c.last[1]] \ FFPNames :
                 d.pcp[c.last].uniforms[n] = c.pcp[c.last].uniforms[n]
<1> DEFINE A == "osg_FrontLightModelProduct_sceneColor"
           B == "osg_TextureMatrix0"
           C == "osg_Fog_color"
           g == [c EXCEPT !.ffpLast = c.last, !.ffpDirty = FALSE]
           x == UploadValue(g, A)
           y == UploadValue(x, B)
           d == UploadValue(y, C)
           k == c.last
<1>0. FFPNames = {A, B, C} /\ A # B /\ B # C /\ A # C
  BY DEF FFPNames
<1>1. /\ DOMAIN g = Fields /\ \A f \in Fields \ {"ffpLast", "ffpDirty"} : g[f] = c[f]
      /\ g.ffpLast = c.last /\ g.ffpDirty = FALSE
  BY DEF Shaped, Fields
<1> HIDE DEF g
\* One of the three.
<1>2. ASSUME NEW b, Shaped(b), UploadsRight(b), b.last = c.last, b.ffp = c.ffp, c.last \in DOMAIN b.pcp,
             NEW n \in FFPNames
      PROVE  LET e == UploadValue(b, n)
             IN /\ Shaped(e) /\ UploadsRight(e) /\ e.last = c.last /\ e.ffp = c.ffp /\ c.last \in DOMAIN e.pcp
                /\ OnlyIn(b, e, {"pcp"}) /\ SamePrograms(b, e)
                /\ n \in ActiveIn[k[1]] => e.pcp[k].uniforms[n].value = c.ffp[n]
                /\ \A m \in ActiveIn[k[1]] : m # n => e.pcp[k].uniforms[m] = b.pcp[k].uniforms[m]
  <2> DEFINE e == UploadValue(b, n)
  <2>1. ValueOf(b, n, n) = c.ffp[n] /\ Fits(n, n)
    BY <1>2 DEF ValueOf, Fits, FFPNames
  <2>2. UploadedTo(b, ApplyUniform(b, n, n, ValueOf(b, n, n)), n, n)
    BY <1>2, <2>1, UploadRight
  <2>3. UploadedTo(b, e, n, n)
    BY <1>2, <2>1, <2>2 DEF UploadValue
  <2> HIDE DEF e
  <2>4. OnlyIn(b, e, {"pcp"}) /\ SamePrograms(b, e) /\ UploadsRight(e)
    BY <2>3 DEF UploadedTo
  <2>5. Shaped(e)
    BY <1>2, <2>4 DEF OnlyIn, SamePrograms, Shaped
  <2>6. e.last = c.last /\ e.ffp = c.ffp /\ c.last \in DOMAIN e.pcp
    BY <1>2, <2>4 DEF OnlyIn, SamePrograms, Shaped, Fields
  <2>7. /\ n \in ActiveIn[k[1]] => e.pcp[k].uniforms[n].value = c.ffp[n]
        /\ \A m \in ActiveIn[k[1]] : m # n => e.pcp[k].uniforms[m] = b.pcp[k].uniforms[m]
    BY <1>2, <2>1, <2>3 DEF UploadedTo
  <2> QED
    BY <2>4, <2>5, <2>6, <2>7 DEF e
<1>3. g.last = c.last /\ g.ffp = c.ffp /\ g.pcp = c.pcp /\ Shaped(g) /\ UploadsRight(g)
  <2>1. /\ g.last = c.last /\ g.ffp = c.ffp /\ g.pcp = c.pcp /\ g.matrix = c.matrix /\ g.value = c.value
    BY <1>1 DEF Fields
  <2>2. \A n, o : ValueOf(g, n, o) = ValueOf(c, n, o)
    BY <2>1 DEF ValueOf
  <2>3. UploadsRight(g)
    BY <2>1, <2>2 DEF UploadsRight, EntryRight
  <2> QED
    BY <1>1, <2>1, <2>3 DEF Shaped
<1>4. /\ Shaped(x) /\ UploadsRight(x) /\ x.last = c.last /\ x.ffp = c.ffp /\ c.last \in DOMAIN x.pcp
      /\ OnlyIn(g, x, {"pcp"}) /\ SamePrograms(g, x)
      /\ A \in ActiveIn[k[1]] => x.pcp[k].uniforms[A].value = c.ffp[A]
      /\ \A m \in ActiveIn[k[1]] : m # A => x.pcp[k].uniforms[m] = g.pcp[k].uniforms[m]
  <2>1. A \in FFPNames
    BY <1>0
  <2> HIDE DEF A, k
  <2> QED
    BY <1>2, <1>3, <2>1
<1> HIDE DEF x
<1>5. /\ Shaped(y) /\ UploadsRight(y) /\ y.last = c.last /\ y.ffp = c.ffp /\ c.last \in DOMAIN y.pcp
      /\ OnlyIn(x, y, {"pcp"}) /\ SamePrograms(x, y)
      /\ B \in ActiveIn[k[1]] => y.pcp[k].uniforms[B].value = c.ffp[B]
      /\ \A m \in ActiveIn[k[1]] : m # B => y.pcp[k].uniforms[m] = x.pcp[k].uniforms[m]
  <2>1. B \in FFPNames
    BY <1>0
  <2> HIDE DEF B, k
  <2> QED
    BY <1>2, <1>4, <2>1
<1> HIDE DEF y
<1>6. /\ Shaped(d) /\ UploadsRight(d) /\ d.last = c.last /\ d.ffp = c.ffp /\ c.last \in DOMAIN d.pcp
      /\ OnlyIn(y, d, {"pcp"}) /\ SamePrograms(y, d)
      /\ C \in ActiveIn[k[1]] => d.pcp[k].uniforms[C].value = c.ffp[C]
      /\ \A m \in ActiveIn[k[1]] : m # C => d.pcp[k].uniforms[m] = y.pcp[k].uniforms[m]
  <2>1. C \in FFPNames
    BY <1>0
  <2> HIDE DEF C, k
  <2> QED
    BY <1>2, <1>5, <2>1
<1>7. UploadFFP(c) = d
  BY DEF UploadFFP, d, y, x, g
<1> HIDE DEF d
<1>8. \A n \in ActiveIn[k[1]] \cap FFPNames : d.pcp[k].uniforms[n].value = c.ffp[n]
  <2>1. A \in ActiveIn[k[1]] => d.pcp[k].uniforms[A].value = c.ffp[A]
    BY <1>0, <1>4, <1>5, <1>6
  <2>2. B \in ActiveIn[k[1]] => d.pcp[k].uniforms[B].value = c.ffp[B]
    BY <1>0, <1>5, <1>6
  <2>3. C \in ActiveIn[k[1]] => d.pcp[k].uniforms[C].value = c.ffp[C]
    BY <1>6
  <2> HIDE DEF A, B, C, k
  <2> QED
    BY <1>0, <2>1, <2>2, <2>3
<1>9. \A n \in ActiveIn[k[1]] \ FFPNames : d.pcp[k].uniforms[n] = c.pcp[k].uniforms[n]
  <2> HIDE DEF A, B, C, k
  <2> QED
    BY <1>0, <1>3, <1>4, <1>5, <1>6
<1>10. OnlyIn(g, d, {"pcp"}) /\ SamePrograms(g, d)
  BY <1>4, <1>5, <1>6, OnlyInBoth, SameProgramsBoth
<1>11. OnlyIn(c, d, {"pcp", "ffpLast", "ffpDirty"}) /\ SamePrograms(c, d)
  BY <1>1, <1>3, <1>10 DEF OnlyIn, SamePrograms, Shaped
<1>12. /\ d.ffpLast = c.last /\ d.material = c.material /\ d.lightModel = c.lightModel
       /\ d.modelView = c.modelView /\ d.matrix = c.matrix /\ d.value = c.value
  BY <1>1, <1>10, <1>11 DEF OnlyIn, Shaped, Fields
<1>13. ~d.pcp[k].needsLink
  BY <1>11 DEF SamePrograms, PCPFields
<1>14. FFPUploaded(d)
  BY <1>6, <1>8, <1>12, <1>13 DEF FFPUploaded
<1>15. ValuesRight(d)
  BY <1>6, <1>12 DEF ValuesRight
<1> QED
  BY <1>6, <1>7, <1>8, <1>9, <1>11, <1>14, <1>15 DEF UniformState

\* applyModelViewAndProjectionUniformsIfRequired().
LEMMA DrawableUniforms ==
  ASSUME NEW c, Shaped(c), UniformState(c), c.last # None, c.last \in DOMAIN c.pcp, ~c.pcp[c.last].needsLink
  PROVE  DrawableUploaded(c, ApplyBuiltInUniforms(c))
<1> DEFINE M == "osg_ModelViewMatrix"
           k == c.last
           e == ApplyUniform(c, M, M, c.matrix)
           d == UploadFFP(e)
<1>0. M \notin FFPNames /\ "u" \notin FFPNames /\ "u" # M
  BY DEF FFPNames
<1>1. UploadedTo(c, e, M, M) /\ Fits(M, M) /\ ValueOf(c, M, M) = c.matrix
  <2>1. ValueOf(c, M, M) = c.matrix /\ Fits(M, M) /\ UploadsRight(c)
    BY DEF ValueOf, Fits, UniformState
  <2>2. UploadedTo(c, ApplyUniform(c, M, M, ValueOf(c, M, M)), M, M)
    BY <2>1, UploadRight
  <2> QED
    BY <2>1, <2>2
<1>2. ApplyBuiltInUniforms(c) = IF e.ffpDirty \/ e.ffpLast # e.last THEN d ELSE e
  BY DEF ApplyBuiltInUniforms, UploadFFPIfNeeded
<1> HIDE DEF e, M
<1>3. Quiet(c, e)
  BY <1>1, UploadQuiet
<1>4. /\ OnlyIn(c, e, {"pcp"}) /\ SamePrograms(c, e) /\ Shaped(e)
      /\ e.last = c.last /\ e.ffp = c.ffp /\ e.matrix = c.matrix
      /\ c.last \in DOMAIN e.pcp /\ ~e.pcp[c.last].needsLink
  BY <1>1 DEF UploadedTo, OnlyIn, SamePrograms, Shaped, Fields, PCPFields
<1>5. /\ M \in ActiveIn[k[1]] => e.pcp[k].uniforms[M].value = c.matrix
      /\ \A n \in ActiveIn[k[1]] : n # M => e.pcp[k].uniforms[n] = c.pcp[k].uniforms[n]
  BY <1>1 DEF UploadedTo
<1>6. CASE ~(e.ffpDirty \/ e.ffpLast # e.last)
  <2>1. \A n \in ActiveIn[k[1]] \cap FFPNames : e.pcp[k].uniforms[n].value = e.ffp[n]
    BY <1>3, <1>4, <1>6 DEF Quiet, UniformState, FFPUploaded
  <2>2. StateUploaded(e)
    BY <1>4, <1>5, <2>1 DEF StateUploaded, M
  <2>3. OnlyIn(c, e, {"pcp", "ffpLast", "ffpDirty"})
    BY <1>4, OnlyInMore
  <2>4. DrawableUploaded(c, e)
    BY <1>0, <1>3, <1>4, <1>5, <2>2, <2>3 DEF DrawableUploaded, Quiet
  <2> QED
    BY <1>2, <1>6, <2>4
<1>7. CASE e.ffpDirty \/ e.ffpLast # e.last
  <2>1. UploadsRight(e) /\ ValuesRight(e)
    BY <1>3 DEF Quiet, UniformState
  <2>2. /\ OnlyIn(e, d, {"pcp", "ffpLast", "ffpDirty"}) /\ SamePrograms(e, d) /\ UniformState(d)
        /\ \A n \in ActiveIn[k[1]] \cap FFPNames : d.pcp[k].uniforms[n].value = c.ffp[n]
        /\ \A n \in ActiveIn[k[1]] \ FFPNames : d.pcp[k].uniforms[n] = e.pcp[k].uniforms[n]
    BY <1>4, <2>1, UploadFFPRight
  <2> HIDE DEF d
  <2>3. d.last = c.last /\ d.ffp = c.ffp /\ d.matrix = c.matrix
    BY <1>4, <2>2 DEF OnlyIn, Shaped, Fields
  <2>4. StateUploaded(d)
    BY <1>0, <1>5, <2>2, <2>3 DEF StateUploaded, M
  <2>5. OnlyIn(c, d, {"pcp", "ffpLast", "ffpDirty"})
    <3>1. OnlyIn(c, e, {"pcp", "ffpLast", "ffpDirty"})
      BY <1>4, OnlyInMore
    <3> QED
      BY <2>2, <3>1, OnlyInBoth
  <2>6. SamePrograms(c, d)
    BY <1>4, <2>2, SameProgramsBoth
  <2>7. "u" \in ActiveIn[k[1]] => d.pcp[k].uniforms["u"].value = c.pcp[k].uniforms["u"].value
    BY <1>0, <1>5, <2>2
  <2>8. DrawableUploaded(c, d)
    BY <2>2, <2>4, <2>5, <2>6, <2>7 DEF DrawableUploaded
  <2> QED
    BY <1>2, <1>7, <2>8
<1> QED
  BY <1>6, <1>7

\* apply(): the attributes and uniforms that the leaf asks for.
LEMMA ApplySets ==
  ASSUME NEW c, ProgramState(c), TexturesRight(c), UniformState(c), AttributesKept(c),
         NEW leaf \in StateSets \cup {NoStateSet}, Believable(c, leaf)
  PROVE  LET d == Apply(c, leaf)
         IN /\ AttributesSet(d, leaf, FFPTypes) /\ AsksStill(c, d) /\ ObjectDrawn(d, leaf)
            /\ c.last = None /\ leaf = NoStateSet /\ c.attrMap["PROGRAM"].vec = << >> => d.ffpDirty
<1> DEFINE n  == ApplyModes(ApplyTextureAttributes(c, leaf), leaf)
           d7 == ApplyFallbackProgramIfNeeded(ApplyWithDefines(n, leaf))
           d8 == ApplyUniforms(d7, leaf)
           d9 == PopDefines(d8, leaf.defines)
<1>1. /\ ProgramState(n) /\ Believable(n, leaf)
      /\ n.last = c.last /\ n.attrMap["PROGRAM"] = c.attrMap["PROGRAM"]
  BY BeforeDefines, BesideState DEF Beside
<1>2. AttributesSet(n, leaf, {"TEXMAT"}) /\ AsksStill(c, n)
  BY TexMatSet
<1>3. Apply(c, leaf) = d9
  BY DEF Apply, ApplyState
<1> HIDE DEF n
<1>4. ProgramChosen(n, d7, leaf)
  BY <1>1, ProgramIsChosen
<1>5. /\ AttributesSet(d7, leaf, FFPTypes) /\ AsksStill(n, d7)
      /\ n.last = None /\ leaf = NoStateSet /\ n.attrMap["PROGRAM"].vec = << >> => d7.ffpDirty
  BY <1>1, <1>2, ChosenSet
<1> HIDE DEF d7
<1>6. /\ Shaped(d7) /\ StacksRight(d7) /\ UniformState(d7) /\ d7.last # None /\ d7.last \in DOMAIN d7.pcp
  BY <1>4, <1>5 DEF ProgramChosen, UsedRight, UsedNow, AttributesSet, AttributesReady
<1>7. Quiet(d7, d8) /\ ObjectDrawn(d8, leaf)
  BY <1>6, UniformsDrawn
<1>8. Beside(d7, d8)
  BY <1>6, DrawnUniformsMove, BesideUniforms
<1> HIDE DEF d8
<1>9. /\ Shaped(d8) /\ StacksRight(d8) /\ AttributesSet(d8, leaf, FFPTypes) /\ AsksStill(d7, d8)
  <2>1. Shaped(d8) /\ StacksRight(d8)
    BY <1>6, <1>8, BesideRight DEF Beside
  <2> QED
    BY <1>5, <1>7, <2>1, QuietSet
<1>10. DOMAIN d9 = Fields /\ \A f \in Fields \ {"defMap"} : d9[f] = d8[f]
  BY <1>9, Zenon DEF PopDefines, Shaped, Fields
<1> HIDE DEF d9
<1>11. /\ d9.sets = d8.sets /\ d9.uniMap = d8.uniMap /\ d9.attrMap = d8.attrMap /\ d9.pcp = d8.pcp
       /\ d9.last = d8.last /\ d9.value = d8.value /\ d9.ffpDirty = d8.ffpDirty
  BY <1>10 DEF Fields
<1>12. Quiet(d8, d9)
  <2>1. \A f \in ValueFields : d9[f] = d8[f]
    BY <1>10 DEF ValueFields, UniformFields, Fields
  <2> QED
    BY <1>7, <1>11, <2>1, QuietFrame DEF Quiet
<1>13. AttributesSet(d9, leaf, FFPTypes) /\ AsksStill(d8, d9)
  <2>1. StacksRight(d9) /\ Shaped(d9)
    BY <1>9, <1>10, <1>11 DEF StacksRight, AttributeStack, Shaped
  <2> QED
    BY <1>9, <1>12, <2>1, QuietSet
<1>14. ObjectDrawn(d9, leaf)
  BY <1>7, <1>11 DEF ObjectDrawn
<1>15. AsksStill(c, d9)
  BY <1>2, <1>5, <1>9, <1>13 DEF AsksStill
<1>16. c.last = None /\ leaf = NoStateSet /\ c.attrMap["PROGRAM"].vec = << >> => d9.ffpDirty
  BY <1>1, <1>5, <1>9, <1>13 DEF AsksStill
<1> QED
  BY <1>3, <1>13, <1>14, <1>15, <1>16

\* A leaf: its matrix is there, then apply() and the uniforms of the drawable.
LEMMA LeafSets ==
  ASSUME NEW c, ProgramState(c), TexturesRight(c), UniformState(c), AttributesKept(c),
         NEW leaf \in StateSets \cup {NoStateSet}, Believable(c, leaf), c.modelView # Identity
  PROVE  LET e == ApplyBuiltInUniforms(Apply(c, leaf))
         IN UniformState(e) /\ AttributesKept(e) /\ LeafUniforms(e, leaf)
<1> DEFINE d == Apply(c, leaf)
           e == ApplyBuiltInUniforms(d)
<1>1. /\ AttributesSet(d, leaf, FFPTypes) /\ ObjectDrawn(d, leaf) /\ d.modelView = c.modelView
  BY ApplySets DEF AsksStill
<1>2. ProgramState(d) /\ LeafProgram(d, leaf)
  BY ApplyPrograms
<1> HIDE DEF d
<1>3. /\ Shaped(d) /\ UniformState(d) /\ d.last # None /\ d.last \in DOMAIN d.pcp /\ ~d.pcp[d.last].needsLink
  BY <1>1, <1>2 DEF AttributesSet, AttributesReady, LeafProgram, UsedNow, ProgramState, Built, LinkedRight, LinkRight
<1>4. DrawableUploaded(d, e)
  BY <1>3, DrawableUniforms
<1> HIDE DEF e
<1>5. /\ e.last = d.last /\ e.uniMap = d.uniMap /\ e.value = d.value /\ e.attrMap = d.attrMap
      /\ e.modelView = d.modelView /\ e.ffp = d.ffp /\ e.material = d.material /\ e.lightModel = d.lightModel
  BY <1>3, <1>4 DEF DrawableUploaded, OnlyIn, Shaped, Fields
<1>6. \A type : FFPValue(e, type) = FFPValue(d, type)
  BY <1>5 DEF FFPValue
<1>7. AttributesKept(e)
  BY <1>1, <1>5, <1>6 DEF AttributesKept, AttributeKept, AttributesSet, AttributesReady
<1>8. \A type \in FFPTypes : AttributeDrawn(e, leaf, type)
  BY <1>1, <1>5, <1>6 DEF AttributeDrawn, AttributesSet
<1>9. UniformState(e) /\ StateUploaded(e)
  BY <1>4 DEF DrawableUploaded
<1>10. ObjectDrawn(e, leaf)
  BY <1>1, <1>4, <1>5 DEF ObjectDrawn, DrawableUploaded
<1>11. LeafUniforms(e, leaf)
  BY <1>1, <1>5, <1>8, <1>9, <1>10 DEF LeafUniforms, StateUploaded, ObjectDrawn
<1> QED
  BY <1>7, <1>9, <1>11 DEF e, d

-----------------------------------------------------------------------------
(* The uniforms that are asked for                                          *)

\* The inductive invariant: besides ProgramsRight, what is remembered of
\* uniforms and of the attributes that set them is right; between frames
\* State asks for an upload; and a leaf that was drawn has its uniforms.
UniformsRight ==
    /\ ProgramsRight
    /\ events \in Nat
    /\ UniformState(ctx) /\ AttributesKept(ctx)
    /\ ~drawing => ctx.ffpDirty
    /\ drawn # None => LeafUniforms(ctx, drawn)

\* What is remembered is what the state sets ask for.
LEMMA RightIsUniforms ==
  ASSUME UniformsRight
  PROVE  UniformsAreCurrent
<1> SUFFICES ASSUME drawn # None PROVE UniformsAreCurrent
  BY DEF UniformsAreCurrent
<1> DEFINE asked(type) == AskedOr("attributes", type, Default)
           object == AskedOr("uniforms", "u", None)
           names == ActiveIn[ctx.used[1]]
           value(n) == ctx.pcp[ctx.used].uniforms[n].value
<1>0. /\ ctx.sets \in Seq(StateSets) /\ StacksRight(ctx) /\ ctx.last = ctx.used
      /\ UniformState(ctx) /\ LeafUniforms(ctx, drawn)
  BY DEF UniformsRight, ProgramsRight, ProgramState, StacksRight, LeafProgram, UsedNow
<1>1. ASSUME NEW type \in FFPTypes PROVE FFPValue(ctx, type) = asked(type)
  <2> DEFINE vec == ctx.attrMap[type].vec
  <2>1. StackOf(vec, ctx.sets, "attributes", type)
    BY <1>0 DEF StacksRight, AttributeStack, OtherTypes, FFPTypes, Types, AttributeTypes, TextureTypes
  <2>2. AttributeDrawn(ctx, drawn, type)
    BY <1>0 DEF LeafUniforms
  <2> HIDE DEF vec
  <2>3. asked(type) = IF OwnEntry(drawn["attributes"], type, vec) THEN drawn["attributes"][type].value
                      ELSE IF vec = << >> THEN Default ELSE Last(vec).value
    BY <1>0, <2>1, AskedIs
  <2> QED
    BY <2>2, <2>3 DEF AttributeDrawn, LeafAsks, vec
<1>2. object = LeafAsks(drawn.uniforms, "u", ctx.uniMap["u"].vec, None)
  <2> DEFINE vec == ctx.uniMap["u"].vec
  <2>1. StackOf(vec, ctx.sets, "uniforms", "u")
    BY <1>0 DEF StacksRight
  <2> HIDE DEF vec
  <2>2. object = IF OwnEntry(drawn["uniforms"], "u", vec) THEN drawn["uniforms"]["u"].value
                 ELSE IF vec = << >> THEN None ELSE Last(vec).value
    BY <1>0, <2>1, AskedIs
  <2> QED
    BY <2>2 DEF LeafAsks, vec
<1>3. /\ ctx.ffp["osg_TextureMatrix0"] = asked("TEXMAT") /\ ctx.ffp["osg_Fog_color"] = asked("FOG")
      /\ ctx.material = asked("MATERIAL") /\ ctx.lightModel = asked("LIGHTMODEL")
  <2> HIDE DEF asked
  <2> QED
    BY <1>1 DEF FFPValue, FFPTypes
<1>4. /\ ctx.ffp["osg_FrontLightModelProduct_sceneColor"] = <<asked("MATERIAL"), asked("LIGHTMODEL")>>
      /\ ctx.matrix = ctx.modelView
  BY <1>0, <1>3 DEF UniformState, ValuesRight, LeafUniforms
<1>5. /\ "osg_ModelViewMatrix" \in names => value("osg_ModelViewMatrix") = ctx.modelView
      /\ \A n \in names \cap FFPNames : value(n) = ctx.ffp[n]
      /\ "u" \in names /\ object # None => value("u") = <<object, ctx.value[object]>>
  BY <1>0, <1>2, <1>4 DEF LeafUniforms
<1> HIDE DEF asked, object, names, value
<1>6. \A n \in names :
         value(n) =
           CASE n = "osg_ModelViewMatrix" -> ctx.modelView
             [] n = "osg_TextureMatrix0" -> asked("TEXMAT")
             [] n = "osg_Fog_color" -> asked("FOG")
             [] n = "osg_FrontLightModelProduct_sceneColor" -> <<asked("MATERIAL"), asked("LIGHTMODEL")>>
             [] n = "u" /\ object # None -> <<object, ctx.value[object]>>
             [] OTHER -> value(n)
  BY <1>3, <1>4, <1>5 DEF FFPNames
<1> QED
  BY <1>6 DEF UniformsAreCurrent, asked, object, names, value

-----------------------------------------------------------------------------
(* The steps, and the uniforms                                              *)

\* What holds of uniforms at all times.
UniformsKept(c) == UniformState(c) /\ AttributesKept(c)

\* A quiet change keeps what holds of uniforms at all times.
LEMMA QuietKept ==
  ASSUME NEW c, NEW d, UniformsKept(c), Quiet(c, d)
  PROVE  UniformsKept(d) /\ (c.ffpDirty => d.ffpDirty)
BY QuietRight DEF UniformsKept, Quiet

\* Pushing and popping state sets.
LEMMA CarriedUniforms ==
  ASSUME NEW c, NEW d, Shaped(c), UniformsKept(c), Carried(c, d)
  PROVE  UniformsKept(d) /\ d.ffpDirty = c.ffpDirty /\ d.modelView = c.modelView
<1>1. \A f \in ValueFields : d[f] = c[f]
  BY DEF Carried, OnlyIn, Shaped, StackFields, ValueFields, UniformFields, Fields
<1>2. UniformState(d) /\ \A type \in FFPTypes : FFPValue(d, type) = FFPValue(c, type)
  BY <1>1, UniformFrame DEF UniformsKept
<1>3. ASSUME NEW type \in FFPTypes PROVE AttributeKept(d, type)
  <2>1. LET a == c.attrMap[type]
            b == d.attrMap[type]
        IN b.last = a.last /\ b.cloned = a.cloned /\ (b = a \/ b.changed)
    BY DEF Carried, FFPTypes, OtherTypes, Types, AttributeTypes, TextureTypes
  <2> QED
    BY <1>2, <2>1 DEF UniformsKept, AttributesKept, AttributeKept, Remembered
<1>4. d.ffpDirty = c.ffpDirty /\ d.modelView = c.modelView
  BY <1>1 DEF ValueFields, UniformFields
<1> QED
  BY <1>2, <1>3, <1>4 DEF UniformsKept, AttributesKept

\* Another matrix.
LEMMA MatrixKept ==
  ASSUME NEW c, Shaped(c), UniformsKept(c), NEW m
  PROVE  LET d == ApplyModelViewMatrix(c, m)
         IN /\ UniformsKept(d) /\ d.modelView = m /\ DOMAIN d = Fields
            /\ \A f \in Fields \ {"pcp", "modelView", "matrix"} : d[f] = c[f]
<1> DEFINE d == ApplyModelViewMatrix(c, m)
<1>1. /\ UniformState(d) /\ d.modelView = m
      /\ DOMAIN d = Fields /\ \A f \in Fields \ {"pcp", "modelView", "matrix"} : d[f] = c[f]
  BY MatrixRight DEF UniformsKept
<1> HIDE DEF d
<1>2. d.attrMap = c.attrMap /\ d.ffp = c.ffp /\ d.material = c.material /\ d.lightModel = c.lightModel
  BY <1>1 DEF Fields
<1>3. AttributesKept(d)
  <2>1. \A type : FFPValue(d, type) = FFPValue(c, type)
    BY <1>2 DEF FFPValue
  <2> QED
    BY <1>2, <2>1 DEF UniformsKept, AttributesKept, AttributeKept
<1> QED
  BY <1>1, <1>3 DEF UniformsKept, d

\* popAllStateSets().
LEMMA PopAllUniforms ==
  ASSUME NEW c, ProgramsKept(c), UniformsKept(c)
  PROVE  UniformsKept(PopAllStateSets(c)) /\ PopAllStateSets(c).last = None
<1> DEFINE b == PopDownTo(c, 0)
           d == ApplyModelViewMatrix(b, Identity)
           e == [d EXCEPT !.last = None]
<1>1. Carried(c, b)
  <2>1. c.sets \in Seq(StateSets)
    BY DEF ProgramsKept, ProgramState, StacksRight
  <2>2. 0 \in 0 .. Len(c.sets)
    BY <2>1
  <2> QED
    BY <2>2, KeptStacked, StacksCarry
<1>2. UniformsKept(b) /\ Shaped(b)
  BY <1>1, KeptStacked, CarriedRight, CarriedUniforms
<1> HIDE DEF b
<1>3. UniformsKept(d) /\ DOMAIN d = Fields
  BY <1>2, MatrixKept
<1> HIDE DEF d
<1>4. e.last = None /\ e.attrMap = d.attrMap /\ \A f \in ValueFields : e[f] = d[f]
  BY <1>3 DEF Fields, ValueFields, UniformFields
<1> HIDE DEF e
<1>5. UniformsKept(e)
  BY <1>3, <1>4, QuietFrame, QuietKept DEF UniformsKept
<1> QED
  BY <1>4, <1>5 DEF e, d, b, PopAllStateSets

\* What was applied last of every attribute is forgotten.
LEMMA ForgottenKept ==
  ASSUME NEW c, UniformsKept(c), NEW d, UniformState(d),
         \A type \in FFPTypes : /\ FFPValue(d, type) = FFPValue(c, type)
                                /\ d.attrMap[type].last = None /\ d.attrMap[type].changed
                                /\ d.attrMap[type].cloned = c.attrMap[type].cloned
  PROVE  UniformsKept(d)
BY DEF UniformsKept, AttributesKept, AttributeKept, Remembered

\* dirtyAllModes() and dirtyAllAttributes().
LEMMA DirtyUniforms ==
  ASSUME NEW c, ProgramsKept(c), UniformsKept(c), NEW on
  PROVE  LET d == DirtyState(c, on)
         IN UniformsKept(d) /\ d.ffpDirty = c.ffpDirty
<1> DEFINE d == DirtyState(c, on)
<1>0. /\ DOMAIN c = Fields /\ DOMAIN c.attrMap = Types
      /\ \A type \in FFPTypes : type \in Types /\ DOMAIN c.attrMap[type] = {"vec", "last", "changed", "cloned"}
  BY DEF ProgramsKept, ProgramState, Built, StacksRight, AttributeStack, OtherTypes, FFPTypes, Types, AttributeTypes,
         TextureTypes
<1>1. /\ \A f \in Fields \ {"modeMap", "modes", "attrMap", "bound"} : d[f] = c[f]
      /\ d.attrMap = [t \in Types |-> [c.attrMap[t] EXCEPT !.last = None, !.changed = TRUE]]
  BY <1>0, Zenon DEF DirtyState, Fields
<1> HIDE DEF d
<1>2. \A f \in ValueFields : d[f] = c[f]
  BY <1>1 DEF Fields, ValueFields, UniformFields
<1>3. UniformState(d) /\ \A type \in FFPTypes : FFPValue(d, type) = FFPValue(c, type)
  BY <1>2, UniformFrame DEF UniformsKept
<1>4. ASSUME NEW type \in FFPTypes
      PROVE  /\ d.attrMap[type].last = None /\ d.attrMap[type].changed
             /\ d.attrMap[type].cloned = c.attrMap[type].cloned
  <2>1. type \in Types
    BY <1>0
  <2>2. d.attrMap[type] = [c.attrMap[type] EXCEPT !.last = None, !.changed = TRUE]
    BY <1>1, <2>1, Zenon
  <2> QED
    BY <1>0, <2>2
<1>5. d.ffpDirty = c.ffpDirty
  BY <1>2 DEF ValueFields, UniformFields
<1> QED
  BY <1>3, <1>4, <1>5, ForgottenKept DEF d

\* reset().
LEMMA ResetKept ==
  ASSUME NEW c, ProgramsKept(c), UniformsKept(c)
  PROVE  UniformsKept(ResetState(c)) /\ (c.ffpDirty => ResetState(c).ffpDirty)
<1> DEFINE d == ResetState(c)
<1>0. /\ DOMAIN c = Fields /\ DOMAIN c.attrMap = Types
      /\ \A type \in FFPTypes : type \in Types /\ DOMAIN c.attrMap[type] = {"vec", "last", "changed", "cloned"}
  BY DEF ProgramsKept, ProgramState, Built, StacksRight, AttributeStack, OtherTypes, FFPTypes, Types, AttributeTypes,
         TextureTypes
<1>1. /\ \A f \in Fields \ {"sets", "modeMap", "attrMap", "uniMap", "modelView", "last"} : d[f] = c[f]
      /\ d.attrMap = [t \in Types |-> [c.attrMap[t] EXCEPT !.vec = << >>, !.last = None, !.changed = TRUE]]
      /\ d.modelView = Identity /\ d.last = None
  BY <1>0, Zenon DEF ResetState, Fields
<1> HIDE DEF d
<1>2. /\ d.pcp = c.pcp /\ d.ffp = c.ffp /\ d.ffpDirty = c.ffpDirty /\ d.ffpLast = c.ffpLast
      /\ d.material = c.material /\ d.lightModel = c.lightModel
      /\ d.matrix = c.matrix /\ d.value = c.value
  BY <1>1 DEF Fields
<1>3. UniformState(d)
  <2>1. \A n, o : ValueOf(d, n, o) = ValueOf(c, n, o)
    BY <1>2 DEF ValueOf
  <2>2. UploadsRight(d)
    BY <1>2, <2>1 DEF UniformsKept, UniformState, UploadsRight, EntryRight
  <2>3. FFPUploaded(d)
    BY <1>2 DEF UniformsKept, UniformState, FFPUploaded
  <2>4. ValuesRight(d)
    BY <1>1, <1>2 DEF UniformsKept, UniformState, ValuesRight
  <2> QED
    BY <2>2, <2>3, <2>4 DEF UniformState
<1>4. ASSUME NEW type \in FFPTypes
      PROVE  /\ FFPValue(d, type) = FFPValue(c, type)
             /\ d.attrMap[type].last = None /\ d.attrMap[type].changed
             /\ d.attrMap[type].cloned = c.attrMap[type].cloned
  <2>1. d.attrMap[type] = [c.attrMap[type] EXCEPT !.vec = << >>, !.last = None, !.changed = TRUE]
    BY <1>0, <1>1
  <2> QED
    BY <1>0, <1>2, <2>1 DEF FFPValue
<1>5. UniformsKept(d)
  BY <1>3, <1>4, ForgottenKept
<1> QED
  BY <1>2, <1>5 DEF d

\* The end of a frame: State asks for an upload.
LEMMA EndUniforms ==
  ASSUME NEW c, ProgramState(c), TexturesRight(c), UniformsKept(c), Believable(c, NoStateSet),
         c.sets = << >>, c.last = None
  PROVE  UniformsKept(Apply(c, NoStateSet)) /\ Apply(c, NoStateSet).ffpDirty
<1>1. c.attrMap["PROGRAM"].vec = << >>
  BY StackOfNone DEF ProgramState, StacksRight, AttributeStack, OtherTypes, Types, AttributeTypes
<1>2. AttributesSet(Apply(c, NoStateSet), NoStateSet, FFPTypes) /\ Apply(c, NoStateSet).ffpDirty
  BY <1>1, ApplySets DEF UniformsKept
<1> QED
  BY <1>2 DEF AttributesSet, AttributesReady, UniformsKept

\* Between frames programs change: State asks for an upload then.
LEMMA ChangeResets ==
  ASSUME NEW c, Shaped(c)
  PROVE  /\ \A sh : PCPReset(c, SetShaderSource(c, sh))
         /\ \A p, sh : PCPReset(c, AddShader(c, p, sh)) /\ PCPReset(c, RemoveShader(c, p, sh))
         /\ \A p : PCPReset(c, CompileProgram(c, p)) /\ PCPReset(c, ReleaseProgram(c, p))
<1>0. DOMAIN c = Fields
  BY DEF Shaped
<1>1. ASSUME NEW e, DOMAIN e = Fields, e.pcp = c.pcp, NEW ps PROVE PCPReset(c, DirtyProgram(e, ps))
  <2>1. Shaped(e)
    BY <1>1 DEF Shaped
  <2> QED
    BY <1>1, <2>1, MarksReset DEF Resets, PCPReset
<1>2. ASSUME NEW sh PROVE PCPReset(c, SetShaderSource(c, sh))
  <2> DEFINE e == [c EXCEPT !.text[sh] = @ + 1,
                            !.pcs = [k \in DOMAIN @ |-> IF k[1] = sh THEN Stale ELSE @[k]]]
  <2>1. DOMAIN e = Fields /\ e.pcp = c.pcp
    BY <1>0, Zenon DEF Fields
  <2> HIDE DEF e
  <2>2. PCPReset(c, DirtyProgram(e, {p \in Programs : sh \in c.list[p]}))
    BY <1>1, <2>1
  <2> QED
    BY <2>2 DEF SetShaderSource, e
<1>3. PCPReset(c, c)
  BY DEF PCPReset
<1>4. ASSUME NEW p, NEW sh PROVE PCPReset(c, AddShader(c, p, sh)) /\ PCPReset(c, RemoveShader(c, p, sh))
  <2> DEFINE e == [c EXCEPT !.list[p] = @ \cup {sh}]
             f == [c EXCEPT !.list[p] = @ \ {sh}]
  <2>1. DOMAIN e = Fields /\ e.pcp = c.pcp /\ DOMAIN f = Fields /\ f.pcp = c.pcp
    BY <1>0 DEF Fields
  <2> HIDE DEF e, f
  <2>2. PCPReset(c, DirtyProgram(e, {p})) /\ PCPReset(c, DirtyProgram(f, {p}))
    BY <1>1, <2>1
  <2> QED
    BY <1>3, <2>2 DEF AddShader, RemoveShader, e, f
<1> QED
  BY <1>2, <1>4, ApplyResets, MarksReset DEF Resets

\* So what is remembered of uniforms stays right.
LEMMA ChangedUniforms ==
  ASSUME NEW c, NEW d, Shaped(c), UniformsKept(c), c.ffpDirty, ProgramsChanged(c, d), PCPReset(c, d)
  PROVE  UniformsKept(d) /\ d.ffpDirty
<1>1. d.attrMap = c.attrMap /\ \A f \in ValueFields \ {"pcp"} : d[f] = c[f]
  BY DEF ProgramsChanged, OnlyIn, Shaped, ValueFields, UniformFields, Fields
<1>2. Quiet(c, d)
  BY <1>1, QuietReset DEF UniformsKept
<1> QED
  BY <1>2, QuietKept

\* Nor does anything else that is beside them.
LEMMA BesideUniformsKept ==
  ASSUME NEW c, NEW d, NEW G, Shaped(c), UniformsKept(c), OnlyIn(c, d, G), G \cap ValueFields = {},
         "attrMap" \notin G
  PROVE  UniformsKept(d) /\ d.ffpDirty = c.ffpDirty
<1>1. d.attrMap = c.attrMap /\ \A f \in ValueFields : d[f] = c[f]
  BY DEF OnlyIn, Shaped, ValueFields, UniformFields, Fields
<1>2. Quiet(c, d) /\ d.ffpDirty = c.ffpDirty
  BY <1>1, QuietFrame DEF UniformsKept, ValueFields, UniformFields
<1> QED
  BY <1>2, QuietKept

\* A leaf or another event at most is counted.
LEMMA EventsCounted ==
  ASSUME events \in Nat, [Next]_vars
  PROVE  events' \in Nat
<1>1. \A c : Sets(c) \/ Other(c) \/ Changing(c) => events' \in {events, events + 1}
  BY DEF Sets, Other, Changing
<1>2. Change => events' \in {events, events + 1}
  BY <1>1, Zenon DEF Change, EditShader, AddOptional, RemoveOptional, CompileObjects, ReleaseObjects, EditImage,
                     ChangeImage, ReleaseObject, SetUniform, UnRefImage, Reset
<1>3. \A leaf : RenderLeaf(leaf) => events' \in {events, events + 1}
  BY DEF RenderLeaf
<1>4. EndFrame => events' \in {events, events + 1}
  BY DEF EndFrame
<1>5. \A m, on, told : SwitchMode(m, on, told) => events' \in {events, events + 1}
  BY <1>1, Zenon DEF SwitchMode
<1>6. DirtyAll => events' \in {events, events + 1}
  BY <1>1, Zenon DEF DirtyAll
<1>7. Next => events' \in {events, events + 1}
  BY <1>1, <1>2, <1>3, <1>4, <1>5, <1>6, Zenon DEF Next, PushSet, PopSet, InsertSet, RemoveSet, CopyTexture
<1> QED
  BY <1>7 DEF vars

\* At the start State asks for an upload, and every attribute is the default.
LEMMA InitUniforms ==
  ASSUME Init
  PROVE  UniformsRight
<1>1. /\ ctx.attrMap = [t \in Types |-> [vec |-> << >>, last |-> None, changed |-> FALSE, cloned |-> FALSE]]
      /\ ctx.pcp = << >> /\ ctx.value = [u \in Uniforms |-> 0]
      /\ ctx.ffp = [n \in FFPNames |-> IF n = "osg_FrontLightModelProduct_sceneColor"
                                       THEN <<Default, Default>> ELSE Default]
      /\ ctx.ffpDirty /\ ctx.material = Default /\ ctx.lightModel = Default /\ ctx.modelView = Identity
      /\ drawn = None /\ events = 0
  BY DEF Init
<1>2. DOMAIN ctx.pcp = {}
  BY <1>1
<1>3. ctx.ffp["osg_FrontLightModelProduct_sceneColor"] = <<Default, Default>>
      /\ ctx.ffp["osg_TextureMatrix0"] = Default /\ ctx.ffp["osg_Fog_color"] = Default
  BY <1>1 DEF FFPNames
<1>4. UniformState(ctx)
  BY <1>1, <1>2, <1>3 DEF UniformState, UploadsRight, FFPUploaded, ValuesRight
<1>5. ASSUME NEW type \in FFPTypes PROVE AttributeKept(ctx, type)
  <2>1. ctx.attrMap[type] = [vec |-> << >>, last |-> None, changed |-> FALSE, cloned |-> FALSE]
    BY <1>1 DEF FFPTypes, Types, AttributeTypes, TextureTypes
  <2>2. FFPValue(ctx, type) = Default
    BY <1>1, <1>3 DEF FFPValue, FFPTypes
  <2> QED
    BY <2>1, <2>2 DEF AttributeKept, Remembered, Settled
<1> QED
  BY <1>1, <1>4, <1>5, InitPrograms DEF UniformsRight, AttributesKept

\* Every step keeps it.
LEMMA NextUniforms ==
  ASSUME UniformsRight, [Next]_vars
  PROVE  UniformsRight'
<1>0. ProgramsRight /\ ProgramsRight' /\ events \in Nat /\ events' \in Nat
  BY NextPrograms, EventsCounted DEF UniformsRight
<1>1. UniformsKept(ctx) /\ (~drawing => ctx.ffpDirty)
  BY DEF UniformsRight, UniformsKept
<1>2. Good(ctx) /\ ProgramsKept(ctx) /\ (~drawing => NoProgram(ctx))
  BY <1>0 DEF ProgramsRight, StateRight, ProgramsKept
<1>3. Stacked(ctx) /\ Shaped(ctx) /\ DOMAIN ctx = Fields /\ DOMAIN ctx.attrMap = Types /\ ObjectsRight(ctx)
  BY <1>2, KeptStacked DEF Stacked, StacksRight, Good, TexturesRight
<1>4. ASSUME UniformsKept(ctx'), ~drawing' => ctx'.ffpDirty, drawn' # None => LeafUniforms(ctx', drawn')
      PROVE  UniformsRight'
  BY <1>0, <1>4 DEF UniformsRight, UniformsKept
<1>5. ASSUME NEW d, UniformsKept(d), ctx.ffpDirty => d.ffpDirty,
             ctx' = d, drawn' = None, drawing' = drawing
      PROVE  UniformsRight'
  BY <1>1, <1>4, <1>5
<1>6. ASSUME NEW d, Carried(ctx, d), ctx' = d, drawn' = None, drawing' = drawing
      PROVE  UniformsRight'
  BY <1>1, <1>3, <1>5, <1>6, CarriedUniforms
<1>7. \A d : Changing(d) => /\ ctx.ffpDirty /\ NoProgram(ctx) /\ ctx.sets = << >>
                            /\ ctx' = d /\ drawn' = None /\ drawing' = drawing
  BY <1>1, <1>2 DEF Changing, Other
<1>8. ASSUME NEW d, ProgramsChanged(ctx, d), PCPReset(ctx, d), Changing(d) PROVE UniformsRight'
  BY <1>1, <1>3, <1>5, <1>7, <1>8, ChangedUniforms
<1>9. ASSUME NEW d, NEW G, OnlyIn(ctx, d, G), G \cap ValueFields = {}, "attrMap" \notin G, Changing(d)
      PROVE  UniformsRight'
  BY <1>1, <1>3, <1>5, <1>7, <1>9, BesideUniformsKept
<1>10. /\ {"images"} \cap ValueFields = {} /\ {"image", "seen"} \cap ValueFields = {}
       /\ {"object"} \cap ValueFields = {} /\ {"unref"} \cap ValueFields = {}
       /\ {"modeMap", "modes"} \cap ValueFields = {}
  BY DEF ValueFields, UniformFields
<1>11. CASE UNCHANGED vars
  BY <1>0, <1>11 DEF vars, UniformsRight
<1>12. ASSUME NEW ss \in StateSets, PushSet(ss) PROVE UniformsRight'
  BY <1>3, <1>6, <1>12, PushCarries DEF PushSet, Sets
<1>13. CASE PopSet
  BY <1>3, <1>6, <1>13, PopCarries DEF PopSet, Sets
<1>14. ASSUME NEW pos \in 0 .. MaxDepth, NEW ss \in StateSets, InsertSet(pos, ss) PROVE UniformsRight'
  <2>1. ctx' = InsertStateSet(ctx, pos, ss) /\ drawn' = None /\ drawing' = drawing /\ pos < Len(ctx.sets)
    BY <1>14 DEF InsertSet, Sets
  <2>2. pos \in Nat
    OBVIOUS
  <2> QED
    BY <1>3, <1>6, <2>1, <2>2, InsertCarries
<1>15. ASSUME NEW pos \in 0 .. MaxDepth, RemoveSet(pos) PROVE UniformsRight'
  <2>1. ctx' = RemoveStateSet(ctx, pos) /\ drawn' = None /\ drawing' = drawing
    BY <1>15 DEF RemoveSet, Sets
  <2>2. pos \in Nat
    OBVIOUS
  <2> QED
    BY <1>3, <1>6, <2>1, <2>2, InsertCarries
<1>16. ASSUME NEW leaf \in StateSets \cup {NoStateSet}, RenderLeaf(leaf) PROVE UniformsRight'
  <2>0. PICK x : x # Identity /\ ctx' = ApplyBuiltInUniforms(Apply(ApplyModelViewMatrix(ctx, x), leaf))
    BY <1>16 DEF RenderLeaf
  <2> DEFINE b == ApplyModelViewMatrix(ctx, x)
             e == ApplyBuiltInUniforms(Apply(b, leaf))
  <2>1. ctx' = e /\ drawn' = leaf /\ drawing' = TRUE
    BY <1>16, <2>0 DEF RenderLeaf
  <2>3. ProgramsKept(b)
    BY <1>2, <1>3, UniformsMove, BesideUniforms, BesideKept
  <2>4. UniformsKept(b) /\ b.modelView # Identity
    BY <1>1, <1>3, <2>0, MatrixKept
  <2>5. TexturesRight(b)
    <3>1. Ready(ctx)
      BY <1>2, <1>3 DEF Ready, Types, TextureTypes
    <3>2. Aside(ctx, b)
      BY <3>1, AsideParts
    <3> HIDE DEF b
    <3> QED
      BY <1>2, <3>2, AsideGood DEF Good
  <2> HIDE DEF b
  <2>6. UniformState(e) /\ AttributesKept(e) /\ LeafUniforms(e, leaf)
    BY <2>3, <2>4, <2>5, LeafSets DEF ProgramsKept, Believable, UniformsKept
  <2> HIDE DEF e
  <2> QED
    BY <1>4, <2>1, <2>6 DEF UniformsKept
<1>17. CASE EndFrame
  <2> DEFINE b == PopAllStateSets(ctx)
             d == Apply(b, NoStateSet)
  <2>1. ctx' = d /\ drawn' = None
    BY <1>17 DEF EndFrame
  <2>2. Good(b) /\ b.sets = << >>
    BY <1>2, PopAllRight
  <2>3. ProgramState(b) /\ Believable(b, NoStateSet)
    BY <1>2, PopAllProgram
  <2>4. UniformsKept(b) /\ b.last = None
    BY <1>1, <1>2, PopAllUniforms
  <2> HIDE DEF b
  <2>5. UniformsKept(d) /\ d.ffpDirty
    BY <2>2, <2>3, <2>4, EndUniforms DEF Good
  <2> HIDE DEF d
  <2> QED
    BY <1>4, <2>1, <2>5
<1>18. ASSUME NEW m \in Modes, NEW on \in BOOLEAN, NEW told \in {"applyMode", "value", "unknown"},
              SwitchMode(m, on, told)
       PROVE  UniformsRight'
  <2>1. /\ \/ ctx' = ApplyMode([ctx EXCEPT !.modeMap[m] = Touched(@)], m, on)
           \/ \E last : ctx' = HaveAppliedMode(ctx, m, on, last)
        /\ drawn' = None /\ drawing' = drawing
    BY <1>18 DEF SwitchMode, Other
  <2>2. OnlyIn(ctx, ctx', {"modeMap", "modes"})
    BY <1>3, <2>1, SwitchOnly
  <2>3. "attrMap" \notin {"modeMap", "modes"}
    OBVIOUS
  <2>4. UniformsKept(ctx') /\ ctx'.ffpDirty = ctx.ffpDirty
    BY <1>1, <1>3, <1>10, <2>2, <2>3, BesideUniformsKept
  <2> QED
    BY <1>5, <2>1, <2>4
<1>19. ASSUME NEW t \in Textures \ OneDimensional, NEW s \in Sizes, CopyTexture(t, s) PROVE UniformsRight'
  <2> DEFINE b == CopyTexImage2D(ctx, t, s)
             d == [b EXCEPT !.attrMap["TEXTURE"].last = t, !.attrMap["TEXTURE"].changed = TRUE]
  <2>1. ctx' = d /\ drawn' = None /\ drawing' = drawing
    BY <1>19 DEF CopyTexture, Other
  <2>2. OnlyIn(ctx, b, TextureFields)
    BY <1>3, CopyRight
  <2> HIDE DEF b
  <2>3. DOMAIN b = Fields /\ b.attrMap = ctx.attrMap
    BY <1>3, <2>2 DEF OnlyIn, TextureFields, Fields
  <2>4. /\ DOMAIN d = Fields /\ \A f \in Fields \ {"attrMap"} : d[f] = b[f]
        /\ \A u \in OtherTypes : d.attrMap[u] = ctx.attrMap[u]
    BY <1>3, <2>3 DEF OtherTypes, Fields
  <2> HIDE DEF d
  <2>5. \A f \in ValueFields : d[f] = ctx[f]
    BY <1>3, <2>2, <2>4 DEF OnlyIn, TextureFields, ValueFields, UniformFields, Fields
  <2>6. \A type \in FFPTypes : d.attrMap[type] = ctx.attrMap[type]
    BY <2>4 DEF FFPTypes, OtherTypes, Types, AttributeTypes, TextureTypes
  <2>7. Quiet(ctx, d)
    BY <1>1, <2>5, <2>6, QuietFrame DEF UniformsKept
  <2> QED
    BY <1>1, <1>5, <2>1, <2>7, QuietKept
<1>20. CASE DirtyAll
  <2>1. PICK on : ctx' = DirtyState(ctx, on) /\ drawn' = None /\ drawing' = drawing
    BY <1>20 DEF DirtyAll, Other
  <2> DEFINE d == DirtyState(ctx, on)
  <2>2. UniformsKept(d) /\ d.ffpDirty = ctx.ffpDirty
    BY <1>1, <1>2, DirtyUniforms
  <2> HIDE DEF d
  <2> QED
    BY <1>5, <2>1, <2>2 DEF d
<1>21. CASE Change
  <2>1. ASSUME NEW sh \in Shaders \ UNION {ctx.list[p] : p \in BuiltIn}, EditShader(sh) PROVE UniformsRight'
    <3>1. Changing(SetShaderSource(ctx, sh)) /\ ctx.text[sh] < MaxEdits
      BY <2>1 DEF EditShader
    <3>2. ProgramsChanged(ctx, SetShaderSource(ctx, sh))
      BY <1>2, <1>7, <3>1, TextsChange
    <3> QED
      BY <1>3, <1>8, <3>1, <3>2, ChangeResets
  <2>2. CASE AddOptional
    <3>1. Changing(AddShader(ctx, Host, Optional))
      BY <2>2 DEF AddOptional
    <3>2. ProgramsChanged(ctx, AddShader(ctx, Host, Optional))
      BY <1>2, <1>7, <3>1, TextsChange
    <3> QED
      BY <1>3, <1>8, <3>1, <3>2, ChangeResets
  <2>3. CASE RemoveOptional
    <3>1. Changing(RemoveShader(ctx, Host, Optional))
      BY <2>3 DEF RemoveOptional
    <3>2. ProgramsChanged(ctx, RemoveShader(ctx, Host, Optional))
      BY <1>2, <1>7, <3>1, TextsChange
    <3> QED
      BY <1>3, <1>8, <3>1, <3>2, ChangeResets
  <2>4. ASSUME NEW p \in Programs \ BuiltIn, CompileObjects(p) PROVE UniformsRight'
    <3>1. Changing(CompileProgram(ctx, p))
      BY <2>4 DEF CompileObjects
    <3>2. ProgramsChanged(ctx, CompileProgram(ctx, p))
      BY <1>2, <1>7, <3>1, ObjectsChange
    <3> QED
      BY <1>3, <1>8, <3>1, <3>2, ChangeResets
  <2>5. ASSUME NEW p \in Programs \ BuiltIn, ReleaseObjects(p) PROVE UniformsRight'
    <3>1. Changing(ReleaseProgram(ctx, p))
      BY <2>5 DEF ReleaseObjects
    <3>2. ProgramsChanged(ctx, ReleaseProgram(ctx, p))
      BY <1>2, <1>7, <3>1, ObjectsChange
    <3> QED
      BY <1>3, <1>8, <3>1, <3>2, ChangeResets
  <2>6. ASSUME NEW u \in Uniforms, SetUniform(u) PROVE UniformsRight'
    <3> DEFINE d == UniformModified([ctx EXCEPT !.value[u] = 1 - @], u)
    <3>1. Changing(d)
      BY <2>6 DEF SetUniform
    <3>2. /\ UniformState(d) /\ DOMAIN d = Fields /\ \A f \in Fields \ {"pcp", "value"} : d[f] = ctx[f]
      BY <1>1, <1>3, SetValueRight DEF UniformsKept
    <3> HIDE DEF d
    <3>3. /\ d.attrMap = ctx.attrMap /\ d.ffpDirty = ctx.ffpDirty /\ d.modelView = ctx.modelView
          /\ d.ffp = ctx.ffp /\ d.material = ctx.material /\ d.lightModel = ctx.lightModel
      BY <3>2 DEF Fields
    <3>4. Quiet(ctx, d)
      BY <3>2, <3>3 DEF Quiet, FFPValue
    <3> QED
      BY <1>1, <1>5, <1>7, <3>1, <3>4, QuietKept
  <2>7. ASSUME NEW t \in Textures, UnRefImage(t) PROVE UniformsRight'
    <3>1. OnlyIn(ctx, [ctx EXCEPT !.unref = @ \cup {t}], {"unref"})
      BY <1>3 DEF OnlyIn, Fields
    <3> QED
      BY <1>9, <1>10, <2>7, <3>1 DEF UnRefImage
  <2>8. ASSUME NEW im \in Images, NEW s \in Sizes, EditImage(im, s) PROVE UniformsRight'
    BY <1>3, <1>9, <1>10, <2>8, DirtyImageRight DEF EditImage
  <2>9. ASSUME NEW t \in Textures, NEW im \in Images, ChangeImage(t, im) PROVE UniformsRight'
    BY <1>3, <1>9, <1>10, <2>9, SetImageRight DEF ChangeImage
  <2>10. ASSUME NEW t \in Textures, ReleaseObject(t) PROVE UniformsRight'
    BY <1>3, <1>9, <1>10, <2>10, ReleaseRight DEF ReleaseObject
  <2>11. CASE Reset
    BY <1>1, <1>2, <1>5, <1>7, <2>11, ResetKept DEF Reset
  <2> QED
    BY <1>21, <2>1, <2>2, <2>3, <2>4, <2>5, <2>6, <2>7, <2>8, <2>9, <2>10, <2>11 DEF Change
<1> QED
  BY <1>11, <1>12, <1>13, <1>14, <1>15, <1>16, <1>17, <1>18, <1>19, <1>20, <1>21 DEF Next

\* Whatever is pushed, popped, applied past State, edited, linked again,
\* released or set, and however many programs, attributes and uniforms
\* there are: a leaf is drawn with every uniform that its program reads at
\* the value that State, the attributes and the state sets give it, though
\* only what is believed to be outdated is uploaded
\* (State::applyModelViewAndProjectionUniformsIfRequired,
\* PerContextProgram::apply).
THEOREM LeavesHaveTheirUniforms == Spec => []UniformsAreCurrent
<1>1. Init => UniformsRight
  BY InitUniforms
<1>2. UniformsRight /\ [Next]_vars => UniformsRight'
  BY NextUniforms
<1>3. UniformsRight => UniformsAreCurrent
  BY RightIsUniforms
<1> QED
  BY <1>1, <1>2, <1>3, PTL DEF Spec
=============================================================================
