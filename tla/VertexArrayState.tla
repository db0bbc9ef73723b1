--------------------------- MODULE VertexArrayState ---------------------------
(***************************************************************************)
(* osg::VertexArrayState: which array each vertex attribute of OpenGL reads. *)
(* Under OpenGL ES the built-in attributes are aliased to generic ones, so   *)
(* every array has a slot; a dispatcher remembers what it last gave its slot *)
(* and OpenGL is only told what is new.  There is one VertexArrayState for    *)
(* all geometries, or one per geometry with a vertex array object of its own. *)
(*                                                                         *)
(* The operators take the world s and return it changed.  Its fields here:   *)
(*   arr  the osg::Arrays: binding, data, modified count, buffer object      *)
(*   buf  the osg::BufferObjects, under the name of the array they were made *)
(*        for: dirty, and which of its GL buffer objects it has: one it gave *)
(*        up is followed by another one                                    *)
(*   orphans  the GL buffer objects given up and not deleted yet            *)
(*   ebo  whether a geometry's element buffer is dirty                      *)
(*   vas  the VertexArrayState of Global and of each geometry, or None       *)
(*   vao  State's _currentVAO                                              *)
(*   gone the VertexArrayStateManager's list of released states             *)
(*   gl   OpenGL: bound vertex array object, names in use, per object the    *)
(*        slots and whose element buffer is bound, the array buffer (not     *)
(*        part of the object), the current values; and what each buffer     *)
(*        object stores of each array                                     *)
(***************************************************************************)
EXTENDS Naturals, Sequences, FiniteSets, SequencesExt, GLNull

CONSTANTS Compact,      \* resetVertexAttributeAlias()'s compactAliasing
          TexUnits,     \* texture units with an alias: 8
          NumAttribs,   \* slots assignAllDispatchers() prepares: 16
          MaxVaos,      \* names OpenGL gives to vertex array objects: 1..MaxVaos
          Global        \* owner of the VertexArrayState for all geometries

ASSUME AliasAssumption == TexUnits \in Nat /\ NumAttribs \in Nat \ {0} /\ MaxVaos \in Nat

(* A role is what an array is to a geometry: <<"tex", i>> is texture unit i,    *)
(* <<"attrib", i>> generic attribute i.                                     *)
FixedRoles == << <<"vertex", 0>>, <<"normal", 0>>, <<"color", 0>>, <<"secondary", 0>>, <<"fog", 0>> >>
TexRoles   == [i \in 1..TexUnits |-> <<"tex", i - 1>>]
BuiltIn    == ToSet(FixedRoles \o TexRoles)

(* resetVertexAttributeAlias, for a built-in role; a generic one is its slot.  *)
Alias(r) ==
  CASE r[1] = "attrib"    -> r[2]
    [] r[1] = "vertex"    -> 0
    [] r[1] = "normal"    -> IF Compact THEN 1 ELSE 2
    [] r[1] = "color"     -> IF Compact THEN 2 ELSE 3
    [] r[1] = "secondary" -> IF Compact THEN 3 + TexUnits ELSE 4
    [] r[1] = "fog"       -> IF Compact THEN 4 + TexUnits ELSE 5
    [] r[1] = "tex"       -> IF Compact THEN 3 + r[2] ELSE 8 + r[2]

Slots == 0..Max({NumAttribs - 1, 7 + TexUnits})
Unset == [on |-> FALSE, array |-> None, buffer |-> None, meant |-> None]
NoSlots == [slot \in Slots |-> Unset]

-----------------------------------------------------------------------------
(* Dispatchers.  One is named <<slot, n>>, the n-th made for its slot.        *)

NewVas == [roles |-> [r \in BuiltIn |-> None], list |-> <<>>, disp |-> <<>>,
           active |-> {}, previous |-> {}, vbo |-> None, ebo |-> None,
           buffers |-> TRUE, requires |-> TRUE, vao |-> 0]

Resized(list, n) == SubSeq(list \o [i \in 1..n |-> None], 1, n)

Fresh == [array |-> None, count |-> 0, active |-> FALSE]
NewId(v, slot) == <<slot, Cardinality({d \in DOMAIN v.disp : d[1] = slot})>>
Create(v, slots) ==
  [v EXCEPT !.list = [i \in {slot + 1 : slot \in slots} |-> NewId(v, i - 1)] @@ @,
            !.disp = [d \in {NewId(v, slot) : slot \in slots} |-> Fresh] @@ @]
Filled(v, slots) == IF \A slot \in slots : v.list[slot + 1] # None THEN v
                    ELSE Create(v, {slot \in slots : v.list[slot + 1] = None})

(* list.resize(slot + 1): the entries above the slot go.                     *)
GetOrCreate(v, slot) == Filled([v EXCEPT !.list = Resized(@, slot + 1)], {slot})

Hold(v, r) == [v EXCEPT !.roles[r] = v.list[Alias(r) + 1]]
Assign(v, r) == IF v.roles[r] # None THEN v ELSE Hold(GetOrCreate(v, Alias(r)), r)

AssignTexCoords(v, n) == FoldLeft(Assign, v, SubSeq(TexRoles, 1, n))

FilledUp(v) == Filled(v, 0..(Len(v.list) - 1))
AssignAttribs(v, n) == FilledUp([v EXCEPT !.list = IF n > Len(@) THEN Resized(@, n) ELSE @])

AssignAllDispatchers(v) ==
  AssignTexCoords(FoldLeft(Assign, AssignAttribs(v, NumAttribs), FixedRoles), TexUnits)

Dispatcher(v, r) == IF r[1] = "attrib" THEN v.list[r[2] + 1] ELSE v.roles[r]

-----------------------------------------------------------------------------
(* Buffers, and what OpenGL is told                                        *)

ObjectOf(s, b) == <<b, s.buf[b].era>>

Upload(s, b) ==
  LET members == {a \in DOMAIN s.arr : s.arr[a].vbo = b}
  IN [s EXCEPT !.buf[b].dirty = FALSE,
               !.gl.stores = (ObjectOf(s, b) :> [a \in members |-> s.arr[a].data]) @@ @,
               !.gl.buffer = ObjectOf(s, b)]

BindVertexBuffer(s, o, b) ==
  LET object == ObjectOf(s, b)
  IN IF s.buf[b].dirty THEN [Upload(s, b) EXCEPT !.vas[o].vbo = object]
     ELSE IF s.vas[o].vbo # object THEN [s EXCEPT !.gl.buffer = object, !.vas[o].vbo = object]
     ELSE s

UnbindVertexBuffer(s, o) ==
  IF s.vas[o].vbo = None THEN s ELSE [s EXCEPT !.gl.buffer = None, !.vas[o].vbo = None]

BindElementBuffer(s, o, g) ==
  IF s.ebo[g] \/ s.vas[o].ebo # g
  THEN [s EXCEPT !.ebo[g] = FALSE, !.gl.elements[s.gl.vao] = g, !.vas[o].ebo = g] ELSE s

UnbindElementBuffer(s, o) ==
  IF s.vas[o].ebo = None THEN s
  ELSE [s EXCEPT !.gl.elements[s.gl.vao] = None, !.vas[o].ebo = None]

InBuffer(s, o, a) == s.vas[o].buffers /\ s.arr[a].vbo # None
BindBufferOf(s, o, a) ==
  IF InBuffer(s, o, a) THEN BindVertexBuffer(s, o, s.arr[a].vbo) ELSE UnbindVertexBuffer(s, o)

(* callVertexAttribPointer: the slot reads from the buffer bound, at an offset  *)
(* into the one that is meant, or at an address if none is.                 *)
Dispatch(s, o, d, a) ==
  [s EXCEPT !.gl.slots[s.gl.vao][d[1]] =
     [@ EXCEPT !.array = a, !.buffer = s.gl.buffer,
               !.meant = IF InBuffer(s, o, a) THEN ObjectOf(s, s.arr[a].vbo) ELSE None]]
Enable(s, d) == [s EXCEPT !.gl.slots[s.gl.vao][d[1]].on = TRUE]

Disable(s, o, d) ==
  [s EXCEPT !.gl.slots[s.gl.vao][d[1]].on = FALSE,
            !.vas[o].disp[d] = Fresh]

Activate(s, o, d) == [s EXCEPT !.vas[o].disp[d].active = TRUE, !.vas[o].active = @ \cup {d}]
Remember(s, o, d, a) ==
  [s EXCEPT !.vas[o].disp[d].array = a, !.vas[o].disp[d].count = s.arr[a].count]

\* Faulty: an array that is still the same is taken to be unchanged.
RenewIfOther(s, o, d, a) ==
  CASE s.vas[o].disp[d].array = None -> Dispatch(Enable(BindBufferOf(s, o, a), d), o, d, a)
    [] s.vas[o].disp[d].array = a -> s
    [] OTHER -> Dispatch(BindBufferOf(s, o, a), o, d, a)

Renew(s, o, d, a) ==
  CASE s.vas[o].disp[d].array = None -> Dispatch(Enable(BindBufferOf(s, o, a), d), o, d, a)
    [] s.vas[o].disp[d].array # None /\ s.vas[o].disp[d].array = a
         /\ s.vas[o].disp[d].count = s.arr[a].count -> s
    [] OTHER -> Dispatch(BindBufferOf(s, o, a), o, d, a)

SetArray(s, o, d, a) == Remember(Renew(Activate(s, o, d), o, d, a), o, d, a)

LazyDisabling(s, o) ==
  [s EXCEPT !.vas[o].previous = s.vas[o].active,
            !.vas[o].active = {},
            !.vas[o].disp = [d \in s.vas[o].active |-> [@[d] EXCEPT !.active = FALSE]] @@ @]

ApplyDisabling(s, o) ==
  LET left == {d \in s.vas[o].previous : ~s.vas[o].disp[d].active}
  IN [FoldLeft(LAMBDA x, d : Disable(x, o, d), s, SetToSeq(left)) EXCEPT !.vas[o].previous = {}]

(* State::disableAllVertexArrays, on the current VertexArrayState: of the      *)
(* generic attributes, attribute 0 alone.                                  *)
DisableAll(s, o) ==
  LET v == s.vas[o]
      reached == {v.roles[r] : r \in BuiltIn} \cup {v.list[1]}
      set == {d \in reached \ {None} : v.disp[d].array # None}
  IN FoldLeft(LAMBDA x, d : Disable(x, o, d), s, SetToSeq(set))

-----------------------------------------------------------------------------
(* Vertex array objects                                                    *)

BindVao(s, n) == IF s.vao = n THEN s ELSE [s EXCEPT !.gl.vao = n, !.vao = n]

FreeName(s) == CHOOSE n \in 1..MaxVaos : /\ n \notin s.gl.names
                                         /\ \A m \in 1..(n - 1) : m \in s.gl.names

(* generateVertexArrayObject, for the VertexArrayState v.                    *)
Generate(s, o, v) ==
  [s EXCEPT !.vas[o] = [v EXCEPT !.vao = FreeName(s)],
            !.gl.names = @ \cup {FreeName(s)},
            !.gl.slots[FreeName(s)] = NoSlots,
            !.gl.elements[FreeName(s)] = None]

(* deleteVertexArrayObject; OpenGL unbinds an object that is deleted.        *)
Delete(s, v) ==
  IF v.vao = 0 THEN s
  ELSE [s EXCEPT !.gl.names = @ \ {v.vao}, !.gl.vao = IF @ = v.vao THEN 0 ELSE @]

(* ~VertexArrayState, resetCurrentVertexArrayStateOnMatch.                   *)
Destroy(s, v) == IF v.vao = s.vao THEN [s EXCEPT !.vao = 0] ELSE s

(* OpenGL deletes a buffer object: the array buffer and the vertex array object *)
(* that are bound lose it; other vertex array objects keep what it stores.   *)
DeleteBuffer(s, object) ==
  LET kept == \E n \in (s.gl.names \cup {0}) \ {s.gl.vao} : \E slot \in Slots : s.gl.slots[n][slot].buffer = object
  IN [s EXCEPT !.orphans = @ \ {object},
               !.gl.buffer = IF @ = object THEN None ELSE @,
               !.gl.stores = IF kept THEN @ ELSE [x \in DOMAIN @ \ {object} |-> @[x]],
               !.gl.slots[s.gl.vao] =
                 [slot \in Slots |-> IF @[slot].buffer = object THEN [@[slot] EXCEPT !.buffer = None] ELSE @[slot]]]

(* VertexArrayStateManager: a released state waits until it is flushed; a      *)
(* flush that runs out of time takes the first n.                           *)
Flushed(s, n) ==
  [FoldLeft(LAMBDA x, v : Destroy(Delete(x, v), v), s, SubSeq(s.gone, 1, n))
     EXCEPT !.gone = SubSeq(@, n + 1, Len(@))]

Dropped(s, o) == IF s.vas[o] = None THEN s ELSE Destroy([s EXCEPT !.vas[o] = None], s.vas[o])

ReleaseVas(s, o) ==
  IF s.vas[o] = None THEN s
  ELSE [s EXCEPT !.gone = Append(@, s.vas[o]), !.vas[o] = None]
=============================================================================
