------------------------------- MODULE Geometry -------------------------------
(***************************************************************************)
(* osg::Geometry of the OpenGL ES port: its arrays and primitive sets, the    *)
(* buffer objects it puts its arrays into, how it sets up the attributes of   *)
(* OpenGL and draws, and how a geometry of the old form is rewritten on load. *)
(* More fields of the world, beside those of VertexArrayState:               *)
(*   hint  DisplaySettings' vertex buffer hint: "none", "vbo" or "vao"        *)
(*   geo   the geometries: arrays by role, primitive sets, whether they use   *)
(*         buffers and a vertex array object, hold deprecated data, and are   *)
(*         of DYNAMIC variance                                             *)
(*   quads State's index cache                                             *)
(* An array's binding is "undefined", "off", "overall", "perset", "pervertex" *)
(* or, of the old form, "perprimitive"; index is the IndexArray that form     *)
(* may have, or None.                                                      *)
(***************************************************************************)
EXTENDS VertexArrayState, Primitives

CONSTANTS Scenes,       \* worlds to start from: hint, arr and geo
          Old,          \* a geometry without content, and what may be loaded
          OldForms,     \*   into it: arr, arrays and sets
          Assignable,   \* <<geometry, role, array, binding>>: arrays that are set
          Editable,     \* <<index, primitive set>>: sets added or put in place
          Bindings,     \* bindings that are set
          MaxEvents

(* No geometry reads client arrays beside one with a vertex array object: the     *)
(* buffer that one leaves bound would be taken for them (Own is the like).       *)
ASSUME SceneAssumption ==
  \A s \in Scenes : s.hint = "none" => \A g \in DOMAIN s.geo : ~s.geo[g].useVao

VARIABLES world, drawn, loaded, events
vars == <<world, drawn, loaded, events>>

Roles(s, g) == DOMAIN s.geo[g].arrays
ArrayOf(s, g, r) == s.geo[g].arrays[r]
Binding(s, g, r) == s.arr[ArrayOf(s, g, r)].binding

NormalToFog == SubSeq(FixedRoles, 2, 5)
AttribRoles == [i \in 1..Cardinality(Slots) |-> <<"attrib", i - 1>>]
ArrayOrder  == FixedRoles \o TexRoles \o AttribRoles     \* getArrayList()
Present(s, g, roles) == SelectSeq(roles, LAMBDA r : r \in Roles(s, g))
Size(s, g, kind) == Max({0} \cup {r[2] + 1 : r \in {x \in Roles(s, g) : x[1] = kind}})

(* State::useVertexArrayObject, useVertexBufferObject: forced, or the geometry's. *)
UseVao(s, g) == s.hint = "vao" \/ s.geo[g].useVao
UseBuffers(s, g) == s.hint # "none" \/ s.geo[g].useVbo
Owner(s, g) == IF UseVao(s, g) THEN g ELSE Global

-----------------------------------------------------------------------------
(* Setting a geometry up                                                   *)

DirtyGLObjects(s, g) == IF s.vas[g] = None THEN s ELSE [s EXCEPT !.vas[g].requires = TRUE]

(* getOrCreateVertexBufferObject: the first buffer an array of g has.         *)
BufferFor(s, g, a) ==
  LET with == SelectSeq(Present(s, g, ArrayOrder), LAMBDA r : s.arr[ArrayOf(s, g, r)].vbo # None)
  IN IF with = <<>> THEN a ELSE s.arr[ArrayOf(s, g, Head(with))].vbo

Join(s, a, b) ==
  [s EXCEPT !.arr[a].vbo = b,
            !.buf = (b :> [dirty |-> TRUE, era |-> IF b \in DOMAIN @ THEN @[b].era ELSE 0]) @@ @]
AddBuffer(s, g, a) == IF s.arr[a].vbo # None THEN s ELSE Join(s, a, BufferFor(s, g, a))
AddBufferIfRequired(s, g, a) ==
  IF s.arr[a].binding \in {"pervertex", "undefined"} THEN AddBuffer(s, g, a) ELSE s

AssignFor(s, g, r) ==
  IF s.vas[g] = None THEN s
  ELSE [s EXCEPT !.vas[g] =
          CASE r[1] = "tex"    -> AssignTexCoords(@, Size(s, g, "tex"))
            [] r[1] = "attrib" -> AssignAttribs(@, Size(s, g, "attrib"))
            [] OTHER           -> Assign(@, r)]

(* The binding setVertexArray, setTexCoordArray and the others leave.         *)
BindingOnSet(s, r, a, binding) ==
  CASE r[1] # "vertex" /\ binding # "undefined" -> binding
    [] r[1] = "vertex" /\ s.arr[a].binding # "undefined" -> s.arr[a].binding
    [] r[1] \in {"vertex", "tex"} -> "pervertex"
    [] OTHER -> s.arr[a].binding

Placed(s, g, r, a, binding) ==
  DirtyGLObjects([s EXCEPT !.arr[a].binding = BindingOnSet(s, r, a, binding),
                           !.geo[g].arrays = (r :> a) @@ @], g)
SetArrayOf(s, g, r, a, binding) ==
  AddBufferIfRequired(AssignFor(Placed(s, g, r, a, binding), g, r), g, a)
RemoveArray(s, g, r) ==
  DirtyGLObjects([s EXCEPT !.geo[g].arrays = [x \in DOMAIN @ \ {r} |-> @[x]]], g)

(* SET_BINDING; generic attributes keep their buffer as it is.               *)
SetBinding(s, g, r, binding) ==
  LET a == ArrayOf(s, g, r)
      old == binding = "perprimitive" /\ r[1] # "attrib"
      bound == [s EXCEPT !.arr[a].binding = binding, !.geo[g].deprecated = @ \/ old]
  IN IF s.arr[a].binding = binding THEN s
     ELSE DirtyGLObjects(IF binding = "pervertex" /\ r[1] # "attrib"
                         THEN AddBufferIfRequired(bound, g, a) ELSE bound, g)

SetUseBuffers(s, g, flag) ==
  IF s.geo[g].useVbo = flag THEN s
  ELSE FoldLeft(LAMBDA x, r : AddBuffer(x, g, ArrayOf(x, g, r)), [s EXCEPT !.geo[g].useVbo = flag],
                Present(s, g, ArrayOrder))

SetSets(s, g, sets) == DirtyGLObjects([s EXCEPT !.geo[g].sets = sets], g)

(* osg::Array::dirty, after the array's elements have changed.               *)
Modified(s, a) ==
  LET t == [s EXCEPT !.arr[a].data = [i \in DOMAIN @ |-> [@[i] EXCEPT ![2] = @ + 1]],
                     !.arr[a].count = @ + 1]
  IN IF s.arr[a].vbo = None THEN t ELSE [t EXCEPT !.buf[s.arr[a].vbo].dirty = TRUE]

-----------------------------------------------------------------------------
(* Drawing                                                                 *)

(* osg::AttributeDispatchers: a value for all vertices becomes current.       *)
MakeCurrent(s, g, binding, n) ==
  LET bound == {r \in Roles(s, g) : r[1] \notin {"vertex", "tex"} /\ Binding(s, g, r) = binding}
  IN [s EXCEPT !.gl.current = [slot \in {Alias(r) : r \in bound} |->
        s.arr[ArrayOf(s, g, CHOOSE r \in bound : Alias(r) = slot)].data[n]] @@ @]

SetEach(s, o, g, roles) ==
  FoldLeft(LAMBDA x, r : SetArray(x, o, Dispatcher(x.vas[o], r), ArrayOf(x, g, r)), s, roles)
PerVertex(s, g, roles) == SelectSeq(Present(s, g, roles), LAMBDA r : Binding(s, g, r) = "pervertex")

SetFixed(s, o, g) ==
  SetEach(s, o, g, Present(s, g, SubSeq(FixedRoles, 1, 1)) \o PerVertex(s, g, NormalToFog))
AssignMore(s, o, g) ==
  [s EXCEPT !.vas[o] = AssignAttribs(AssignTexCoords(@, Size(s, g, "tex")), Size(s, g, "attrib"))]
SetOthers(s, o, g) ==
  SetEach(s, o, g, Present(s, g, TexRoles) \o PerVertex(s, g, AttribRoles))

SetUpArrays(s, o, g) ==
  ApplyDisabling(SetOthers(AssignMore(SetFixed(LazyDisabling(s, o), o, g), o, g), o, g), o)

DrawVertexArrays(s, o, g) ==
  LET t == MakeCurrent(s, g, "overall", 1)
  IN IF UseVao(s, g) /\ ~s.vas[o].requires THEN t ELSE SetUpArrays(t, o, g)

(* What OpenGL reads for vertex i of a slot; <<>> where the buffer of the slot   *)
(* is not the one that was meant, or does not hold the array.               *)
Stored(s, object, a) ==
  IF object \in DOMAIN s.gl.stores /\ a \in DOMAIN s.gl.stores[object] THEN s.gl.stores[object][a] ELSE <<>>
Reads(s, slot, i) ==
  LET at == s.gl.slots[s.gl.vao][slot]
      data == IF at.buffer # at.meant THEN <<>>
              ELSE IF at.buffer = None THEN s.arr[at.array].data ELSE Stored(s, at.buffer, at.array)
  IN IF ~at.on THEN s.gl.current[slot]
     ELSE IF i + 1 \in DOMAIN data THEN data[i + 1] ELSE <<>>

(* Roles the shaders are given: not those whose array is not bound.           *)
Visible(s, g) ==
  {r \in Roles(s, g) : r[1] \in {"vertex", "tex"} \/ Binding(s, g, r) \in
                       {"overall", "perset", "pervertex", "perprimitive"}}

Corners(s, g, indices) ==
  [i \in 1..Len(indices) |-> [r \in Visible(s, g) |-> Reads(s, Alias(r), indices[i])]]

(* d is the world and what was drawn so far.  drawQuads passes a pointer, which *)
(* OpenGL takes for an offset while an element buffer is bound.             *)
Emit(d, g, indices) == [d EXCEPT !.sets = Append(@, Corners(d.s, g, indices))]
DrawQuads(d, g, run) ==
  LET t == [d.s EXCEPT !.quads = CacheQuads(@, run[1], Len(run))]
  IN Emit([d EXCEPT !.s = t], g,
          IF t.gl.elements[t.gl.vao] # None THEN <<>> ELSE CachedQuads(t.quads, run[1], Len(run)))
DrawElements(d, o, g, indices) ==
  LET t == IF UseBuffers(d.s, g) THEN BindElementBuffer(d.s, o, g) ELSE d.s
  IN Emit([d EXCEPT !.s = t], g,
          IF t.gl.elements[t.gl.vao] = (IF UseBuffers(t, g) THEN g ELSE None) THEN indices ELSE <<>>)

DrawSet(d, o, g, p) ==
  CASE IsElements(p) -> DrawElements(d, o, g, p.indices)
    [] IsQuads(p) ->
         FoldLeft(LAMBDA x, run : DrawQuads(x, g, run), d, Runs(p))
    [] OTHER -> FoldLeft(LAMBDA x, run : Emit(x, g, run), d, Runs(p))

DrawPrimitives(s, o, g) ==
  FoldLeft(LAMBDA d, k : DrawSet([d EXCEPT !.s = MakeCurrent(@, g, "perset", k)], o, g, s.geo[g].sets[k]),
           [s |-> s, sets |-> <<>>], [k \in 1..Len(s.geo[g].sets) |-> k])

Unbound(s, o, g) ==
  IF UseBuffers(s, g) /\ ~UseVao(s, g) THEN UnbindElementBuffer(UnbindVertexBuffer(s, o), o) ELSE s

Supported(s, o, g) == [s EXCEPT !.vas[o].buffers = UseBuffers(s, g)]
DrawImplementation(s, o, g) ==
  LET d == DrawPrimitives(DrawVertexArrays(Supported(s, o, g), o, g), o, g)
  IN [d EXCEPT !.s = Unbound(@, o, g)]

(* createVertexArrayStateImplementation: the colour before the normal.        *)
AssignedFor(s, g) ==
  AssignAttribs(
    AssignTexCoords(
      FoldLeft(Assign, NewVas, Present(s, g, <<FixedRoles[1], FixedRoles[3], FixedRoles[2],
                                               FixedRoles[4], FixedRoles[5]>>)),
      Size(s, g, "tex")),
    Size(s, g, "attrib"))

WithVas(s, g) == IF UseVao(s, g) /\ s.vas[g] = None THEN Generate(s, g, AssignedFor(s, g)) ELSE s
Bound(s, g) == BindVao(s, s.vas[Owner(s, g)].vao)
Settled(d, g) == IF UseVao(d.s, g) THEN [d EXCEPT !.s.vas[g].requires = d.s.geo[g].dynamic] ELSE d

(* osg::Drawable::draw                                                     *)
Drawing(s, g) == Settled(DrawImplementation(Bound(WithVas(s, g), g), Owner(s, g), g), g)

Indexed(s, g) == \E k \in DOMAIN s.geo[g].sets : IsElements(s.geo[g].sets[k])
BuffersOf(s, g) == {s.arr[ArrayOf(s, g, r)].vbo : r \in Roles(s, g)} \ {None}

CompileElements(s, g) ==
  IF Indexed(s, g) /\ s.ebo[g] THEN [s EXCEPT !.ebo[g] = FALSE, !.gl.elements[s.gl.vao] = g] ELSE s
CompileBuffers(s, g) ==
  CompileElements(FoldLeft(Upload, s, SetToSeq({b \in BuffersOf(s, g) : s.buf[b].dirty})), g)

CompileVao(s, g) ==
  IF ~UseVao(s, g) THEN s
  ELSE BindVao(DrawVertexArrays(Bound(Generate(Dropped(s, g), g, AssignedFor(s, g)), g), g, g), 0)

CompileGLObjects(s, g) ==
  IF ~UseBuffers(s, g) \/ (BuffersOf(s, g) = {} /\ ~Indexed(s, g)) THEN s
  ELSE [CompileVao(CompileBuffers(s, g), g) EXCEPT !.gl.buffer = None, !.gl.elements[0] = None]

(* osg::BufferObject::releaseGLObjects, of a buffer that has a GL object.       *)
GivenUp(s, b) ==
  IF ObjectOf(s, b) \notin DOMAIN s.gl.stores THEN s
  ELSE [s EXCEPT !.orphans = @ \cup {ObjectOf(s, b)},
                 !.buf[b] = [dirty |-> TRUE, era |-> @.era + 1]]


(* A geometry's element buffer is its own: what is left of it is that it is dirty. *)
ReleaseGLObjects(s, g) ==
  FoldLeft(GivenUp, [ReleaseVas(s, g) EXCEPT !.ebo[g] = TRUE], SetToSeq(BuffersOf(s, g)))

-----------------------------------------------------------------------------
(* Geometries of the old form                                              *)

CheckForDeprecatedData(s, g) ==
  \E r \in Roles(s, g) : Binding(s, g, r) = "perprimitive" \/ s.arr[ArrayOf(s, g, r)].index # None

Elements(array) == IF array.index = None THEN array.data
                   ELSE [i \in DOMAIN array.index |-> array.data[array.index[i] + 1]]

NextId(a) == <<a[1], a[2] + 1>>
AsNew(array, data) == [array EXCEPT !.data = data, !.count = 0, !.vbo = None, !.index = None]
Adding(s, a, array) == [s EXCEPT !.arr = (a :> array) @@ @]

ExpandIndexArray(s, g, r) ==
  LET a == ArrayOf(s, g, r)
  IN IF s.arr[a].index = None THEN s
     ELSE SetArrayOf(Adding(s, NextId(a), AsNew(s.arr[a], Elements(s.arr[a]))), g, r, NextId(a), "undefined")

Copied(array, taken) ==
  [AsNew(array, [k \in DOMAIN taken |-> array.data[taken[k][IF array.binding = "perprimitive" THEN 2 ELSE 1]]])
     EXCEPT !.binding = "pervertex"]
DuplicateArray(s, g, r, taken) ==
  LET a == ArrayOf(s, g, r)
  IN IF r[1] # "vertex" /\ s.arr[a].binding \notin {"pervertex", "perprimitive"} THEN s
     ELSE [Adding(s, NextId(a), Copied(s.arr[a], taken)) EXCEPT !.geo[g].arrays[r] = NextId(a)]

PerPrimitive(s, g) ==
  \E r \in Roles(s, g) : r[1] \notin {"vertex", "tex"} /\ Binding(s, g, r) = "perprimitive"

Rewritten(s, g, fix) ==
  [FoldLeft(LAMBDA x, r : DuplicateArray(x, g, r, fix.taken), s, Present(s, g, ArrayOrder))
     EXCEPT !.geo[g].sets = fix.sets]

FixDeprecatedData(s, g) ==
  LET t == FoldLeft(LAMBDA x, r : ExpandIndexArray(x, g, r), s, Present(s, g, ArrayOrder))
  IN [IF PerPrimitive(t, g) THEN Rewritten(t, g, FixedSets(t.geo[g].sets)) ELSE t
        EXCEPT !.geo[g].deprecated = FALSE]

Read(s, g, form) ==
  LET t == [s EXCEPT !.arr = form.arr @@ @, !.geo[g].arrays = form.arrays, !.geo[g].sets = form.sets]
  IN [t EXCEPT !.geo[g].deprecated = CheckForDeprecatedData(t, g)]

-----------------------------------------------------------------------------
(* What a geometry describes: for every call that draws, the values of each      *)
(* corner.  A primitive is numbered among all of the geometry.               *)

PrimitivesIn(p, run) == IF run = <<>> THEN 0 ELSE (Len(run) - 1) \div VerticesPerPrimitive(p, run) + 1
PrimitivesBefore(sets, k, j) ==
  Sum([i \in 1..(k - 1) |-> Sum([n \in DOMAIN Runs(sets[i]) |-> PrimitivesIn(sets[i], Runs(sets[i])[n])])])
  + Sum([n \in 1..(j - 1) |-> PrimitivesIn(sets[k], Runs(sets[k])[n])])

At(data, i) == IF i \in DOMAIN data THEN data[i] ELSE <<>>      \* beyond the end
ValueFor(s, g, r, k, vertex, primitive) ==
  LET array == s.arr[ArrayOf(s, g, r)]
  IN At(Elements(array),
        CASE r[1] \in {"vertex", "tex"} \/ array.binding = "pervertex" -> vertex + 1
          [] array.binding = "overall" -> 1
          [] array.binding = "perset" -> k
          [] array.binding = "perprimitive" -> primitive)

Positions(p, run) == IF IsQuads(p) THEN QuadsOf(Run(0, Len(run))) ELSE Run(0, Len(run))

DescribedRun(s, g, k, j) ==
  LET p == s.geo[g].sets[k]
      run == Runs(p)[j]
      number(i) == PrimitivesBefore(s.geo[g].sets, k, j) + i \div VerticesPerPrimitive(p, run) + 1
  IN [i \in DOMAIN Positions(p, run) |-> [r \in Visible(s, g) |->
        ValueFor(s, g, r, k, run[Positions(p, run)[i] + 1], number(Positions(p, run)[i]))]]

Described(s, g) ==
  FlattenSeq([k \in DOMAIN s.geo[g].sets |->
                [j \in DOMAIN Runs(s.geo[g].sets[k]) |-> DescribedRun(s, g, k, j)]])

-----------------------------------------------------------------------------
(* The scene graph's operations.  With vertex array objects a geometry that has  *)
(* one keeps its roles and bindings, gets arrays only that have no buffer yet,    *)
(* and changes what is in them only if its variance is DYNAMIC.             *)

Stable(s, g) == UseVao(s, g) /\ s.vas[g] # None
Kept(s, a) == \E g \in DOMAIN s.geo : Stable(s, g) /\ a \in Range(s.geo[g].arrays)
(* The array buffer is not part of a vertex array object, but _currentVBO is kept *)
(* with it: a buffer that others uploaded since, and left unbound, is taken to be  *)
(* bound.  What changes lies in buffers of this geometry alone.             *)
Own(s, g) == \A h \in DOMAIN s.geo \ {g} : BuffersOf(s, h) \cap BuffersOf(s, g) = {}
HasName(s, g) == UseVao(s, g) => \E n \in 1..MaxVaos : n \notin s.gl.names

(* What the callers see to: a geometry has a vertex array, every array has an    *)
(* element for what is drawn of it, and no IndexArray goes to another geometry.  *)
Needed(s, g, r) ==
  IF r[1] \in {"vertex", "tex"} \/ Binding(s, g, r) = "pervertex"
  THEN {i + 1 : i \in UNION {Range(run) : run \in UNION {Range(Runs(p)) : p \in Range(s.geo[g].sets)}}}
  ELSE IF Binding(s, g, r) = "perset" THEN DOMAIN s.geo[g].sets ELSE {1}
(* drawQuads() takes no notice of an element buffer that is bound: sets that use *)
(* one come after the quads, and a vertex array object, which keeps it, has none.*)
QuadsFirst(s, g) ==
  \A j \in DOMAIN s.geo[g].sets :
    IsQuads(s.geo[g].sets[j]) /\ UseBuffers(s, g)
      => ~UseVao(s, g) /\ \A i \in 1..j : ~IsElements(s.geo[g].sets[i])
(* No two roles share a slot, and no generic attribute has that of a built-in   *)
(* role whose dispatcher getOrCreateVertexAttributeDispatch() cut off the list.  *)
Apart(s, g) ==
  /\ Cardinality({Alias(r) : r \in Roles(s, g)}) = Cardinality(Roles(s, g))
  /\ \A r \in Roles(s, g) : r[1] = "attrib" => r[2] \notin {Alias(q) : q \in {FixedRoles[4], FixedRoles[5]}}
Legal(s, g) ==
  \/ s.geo[g].deprecated
  \/ /\ \A r \in Roles(s, g) : /\ Needed(s, g, r) \subseteq DOMAIN s.arr[ArrayOf(s, g, r)].data
                               /\ s.arr[ArrayOf(s, g, r)].index = None
                               /\ Binding(s, g, r) # "perprimitive"
     /\ QuadsFirst(s, g)
     /\ Apart(s, g)

Init ==
  /\ world \in Scenes
  /\ drawn = None /\ loaded = None /\ events = 0

Changed(s) == /\ s # world
              /\ \A g \in DOMAIN s.geo : Legal(s, g)
              /\ world' = s
              /\ drawn' = None /\ loaded' = None
Count == events < MaxEvents /\ events' = events + 1

Draw(g) ==
  /\ HasName(world, g)
  /\ ~world.geo[g].deprecated
  /\ LET d == Drawing(world, g)
     IN /\ world' = d.s
        /\ drawn' = [geometry |-> g, sets |-> d.sets]
  /\ loaded' = None

DrawDeprecated(g) ==
  /\ world.geo[g].deprecated
  /\ HasName(world, g)
  /\ world' = Settled([s |-> Bound(WithVas(world, g), g)], g).s
  /\ drawn' = [geometry |-> g, sets |-> <<>>]
  /\ loaded' = None

Compile(g) == HasName(world, g) /\ Changed(CompileGLObjects(world, g))

Modify(a) ==
  /\ \A g \in DOMAIN world.geo :
       Stable(world, g) /\ a \in Range(world.geo[g].arrays) => world.geo[g].dynamic /\ Own(world, g)
  /\ Changed(Modified(world, a))

PutArray(g, r, a, binding) ==
  /\ Stable(world, g) => r \in Roles(world, g) /\ world.arr[a].vbo = None /\ Own(world, g)
  /\ ~Kept(world, a)
  /\ Changed(SetArrayOf(world, g, r, a, binding))

TakeArray(g, r) == r[1] # "vertex" /\ Changed(RemoveArray(world, g, r))

Bind(g, r, binding) ==
  /\ r[1] \notin {"vertex", "tex"}
  /\ ~Kept(world, ArrayOf(world, g, r))
  /\ Changed(SetBinding(world, g, r, binding))

WithSets(g, sets) ==
  Changed([SetSets(world, g, sets) EXCEPT !.ebo[g] = @ \/ \E k \in DOMAIN sets : IsElements(sets[k])])
EditSets(g) ==
  LET sets == world.geo[g].sets
  IN \/ \E e \in Editable : e[1] <= Len(sets) + 1 /\ WithSets(g, InsertAt(sets, e[1], e[2]))
     \/ \E e \in Editable : e[1] <= Len(sets) /\ WithSets(g, [sets EXCEPT ![e[1]] = e[2]])
     \/ \E i, j \in DOMAIN sets : i <= j /\ WithSets(g, SubSeq(sets, 1, i - 1) \o SubSeq(sets, j + 1, Len(sets)))

UseVbo(g, flag) == Changed(SetUseBuffers(world, g, flag))
Release(g) == Changed(ReleaseGLObjects(world, g))
Flush == \E n \in 1..Len(world.gone) : Changed(Flushed(world, n))
(* By a drawable that draws by itself, for which osg::Drawable::draw has bound the *)
(* state for all geometries; where vertex array objects are forced, it has its   *)
(* own, with no array.                                                     *)
DisableAllArrays == world.hint # "vao" /\ Changed(DisableAll(BindVao(world, 0), Global))

(* GLBufferObjectManager.                                                  *)
FlushBuffers == Changed(FoldLeft(DeleteBuffer, world, SetToSeq(world.orphans)))

(* The arrays fixDeprecatedData() makes have no buffer, and a new vertex array    *)
(* object takes it that none is bound: loading comes before vertex array objects.*)
Load(form, fix) ==
  /\ Old \in DOMAIN world.geo /\ Roles(world, Old) = {}
  /\ fix => \A g \in DOMAIN world.geo : ~UseVao(world, g)
  /\ LET old == Read(world, Old, form)
         new == IF fix THEN FixDeprecatedData(old, Old) ELSE old
     IN /\ QuadsFirst(new, Old)
        /\ world' = new
        /\ loaded' = IF fix THEN [before |-> Described(old, Old), after |-> Described(new, Old)] ELSE None
  /\ drawn' = None

Next ==
  /\ Count
  /\ \/ \E g \in {x \in DOMAIN world.geo : Roles(world, x) # {}} :
          \/ Draw(g) \/ DrawDeprecated(g) \/ Compile(g) \/ Release(g) \/ EditSets(g)
          \/ \E r \in Roles(world, g) : TakeArray(g, r)
          \/ \E flag \in BOOLEAN : UseVbo(g, flag)
          \/ \E r \in Roles(world, g), b \in Bindings : Bind(g, r, b)
     \/ \E a \in DOMAIN world.arr : Modify(a)
     \/ \E e \in {x \in Assignable : x[1] \in DOMAIN world.geo /\ x[3] \in DOMAIN world.arr} :
          PutArray(e[1], e[2], e[3], e[4])
     \/ Flush \/ FlushBuffers \/ DisableAllArrays
     \/ \E form \in OldForms, fix \in BOOLEAN : Load(form, fix)

Spec == Init /\ [][Next]_vars

-----------------------------------------------------------------------------
(* Properties                                                              *)

Streamed(s, g) == {r \in Roles(s, g) : r[1] \in {"vertex", "tex"} \/ Binding(s, g, r) = "pervertex"}

Enabled(s) == {slot \in Slots : s.gl.slots[s.gl.vao][slot].on}

(* Slots whose buffer object was deleted after they were last given a pointer.   *)
Lost(s) == {slot \in Enabled(s) : /\ s.gl.slots[s.gl.vao][slot].meant # None
                                  /\ s.gl.slots[s.gl.vao][slot].meant \notin DOMAIN s.gl.stores
                                  /\ s.gl.slots[s.gl.vao][slot].buffer = None}


(* A geometry of the old form has the same corners after fixDeprecatedData() as *)
(* before: index arrays resolved, values of primitives given to their vertices,  *)
(* and its primitive sets naming the new vertices.  OldForms has no set of several *)
(* lengths, which fixDeprecatedData() leaves at the last length's vertices, and  *)
(* none with more vertices than its indices can name: theirs would wrap around. *)
FixedAsMeant == loaded # None => loaded.after = loaded.before
=============================================================================
