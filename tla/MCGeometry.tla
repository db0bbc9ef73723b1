------------------------------ MODULE MCGeometry ------------------------------
(* Two geometries that share an array, or one and one to load.               *)
EXTENDS Geometry

V == <<"vertex", 0>>
N == <<"normal", 0>>
C == <<"color", 0>>
F == <<"fog", 0>>
T(i) == <<"tex", i>>
X(i) == <<"attrib", i>>

Arr(name, n, binding) ==
  [binding |-> binding, data |-> [i \in 1..n |-> <<name, 0, i>>], count |-> 0, vbo |-> None, index |-> None]
WithIndex(array, index) == [array EXCEPT !.index = index]

Quads(first, count)   == [kind |-> "arrays", mode |-> "quads", first |-> first, count |-> count]
Arrays(mode, first, count) == [kind |-> "arrays", mode |-> mode, first |-> first, count |-> count]
Lengths(mode, first, lengths) == [kind |-> "lengths", mode |-> mode, first |-> first, lengths |-> lengths]
Indices(mode, indices) == [kind |-> "elements", mode |-> mode, indices |-> indices, limit |-> 16]

Geo(sets, dynamic) ==
  [arrays |-> <<>>, sets |-> sets, useVbo |-> FALSE, useVao |-> FALSE, deprecated |-> FALSE, dynamic |-> dynamic]

Scratch(hint, arr, geo) ==
  [hint |-> hint, arr |-> arr, buf |-> <<>>, geo |-> geo, quads |-> NoQuads, vao |-> 0, gone |-> <<>>,
   orphans |-> {},
   ebo |-> [g \in DOMAIN geo |-> TRUE],
   vas |-> [o \in {Global} \cup DOMAIN geo |-> IF o = Global THEN AssignAllDispatchers(NewVas) ELSE None],
   gl  |-> [vao |-> 0, names |-> {}, slots |-> [n \in 0..MaxVaos |-> NoSlots],
            elements |-> [n \in 0..MaxVaos |-> None], buffer |-> None, stores |-> <<>>,
            current |-> [slot \in Slots |-> None]]]

MCArrays ==
  (<<"v1", 0>> :> Arr("v1", 10, "undefined")) @@ (<<"n", 0>> :> Arr("n", 10, "pervertex")) @@
  (<<"c1", 0>> :> Arr("c1", 10, "overall")) @@ (<<"t1", 0>> :> Arr("t1", 10, "undefined")) @@
  (<<"v2", 0>> :> Arr("v2", 10, "undefined")) @@ (<<"x2", 0>> :> Arr("x2", 10, "pervertex"))

Put(s, g, r, a) == SetArrayOf(s, g, r, <<a, 0>>, "undefined")
Scene(hint, sets1, sets2) ==
  LET empty == Scratch(hint, MCArrays, ("g1" :> Geo(sets1, TRUE)) @@ ("g2" :> Geo(sets2, FALSE)))
      first == Put(Put(Put(Put(empty, "g1", V, "v1"), "g1", N, "n"), "g1", C, "c1"), "g1", T(1), "t1")
  IN Put(Put(first, "g2", V, "v2"), "g2", X(4), "x2")
Sharing(hint, sets1, sets2) == Put(Scene(hint, sets1, sets2), "g2", N, "n")

\* One geometry, and one to load.
LoadScene ==
  LET empty == Scratch("vbo", Restrict(MCArrays, {<<"v2", 0>>, <<"n", 0>>}),
                       ("g2" :> Geo(<<Quads(5, 4)>>, FALSE)) @@ ("old" :> Geo(<<>>, FALSE)))
  IN Put(Put(empty, "g2", V, "v2"), "g2", N, "n")

Indexed3 == <<Indices("triangles", <<2, 1, 0>>)>>
MCScenes ==
  {Sharing(hint, <<Quads(0, 4), Indices("triangles", <<2, 1, 0>>)>>, <<Quads(5, 4)>>) : hint \in {"none", "vbo"}}
  \cup {Sharing("vao", Indexed3, <<Arrays("strip", 1, 3)>>), LoadScene}
  \cup {[Scene("vbo", Indexed3, <<Quads(5, 4)>>) EXCEPT !.geo["g1"].useVao = TRUE]}

MCOldForms ==
  {[arr |-> (<<"ov", 0>> :> Arr("ov", 8, "pervertex")) @@
            (<<"oc", 0>> :> WithIndex(Arr("oc", 3, "perprimitive"), <<2, 0, 1, 0>>)) @@
            (<<"on", 0>> :> Arr("on", 4, "perset")),
    arrays |-> (V :> <<"ov", 0>>) @@ (C :> <<"oc", 0>>) @@ (N :> <<"on", 0>>),
    sets |-> <<Quads(0, 8), Indices("strip", <<4, 2, 4>>), Lengths("lines", 2, <<2>>)>>],
   [arr |-> (<<"ov", 0>> :> WithIndex(Arr("ov", 3, "pervertex"), <<2, 0, 1, 0>>)),
    arrays |-> (V :> <<"ov", 0>>),
    sets |-> <<Arrays("triangles", 0, 3)>>]}

MCAssignable ==
  {<<"g1", V, <<"v2", 0>>, "undefined">>, <<"g2", C, <<"c1", 0>>, "pervertex">>,
   <<"g2", X(7), <<"x2", 0>>, "undefined">>,
   <<"g2", F, <<"n", 0>>, "undefined">>}

MCEditable == {<<1, Quads(4, 5)>>}
MCBindings == {"perset", "pervertex", "perprimitive"}
=============================================================================
