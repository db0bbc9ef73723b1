------------------------------ MODULE Primitives ------------------------------
(***************************************************************************)
(* The primitive sets of an osg::Geometry: the vertices they name, how       *)
(* State::drawQuads turns quads into triangles through its index cache, and   *)
(* how Geometry::fixDeprecatedData rewrites a geometry of the old form, with  *)
(* index arrays and one value per primitive.  A primitive set is             *)
(*   [kind |-> "arrays",   mode, first, count]                             *)
(*   [kind |-> "lengths",  mode, first, lengths]                           *)
(*   [kind |-> "elements", mode, indices, limit], indices being below limit   *)
(***************************************************************************)
EXTENDS Naturals, Sequences, SequencesExt, GLNull

CONSTANT ShortLimit     \* drawQuads uses 16-bit indices below it: 65536

Run(first, count) == [i \in 1..count |-> first + i - 1]
Sum(lengths) == FoldLeft(LAMBDA x, y : x + y, 0, lengths)

IsElements(p) == p.kind = "elements"
IsQuads(p) == ~IsElements(p) /\ p.mode = "quads"

(* The runs of vertices a primitive set names, one per call that draws it.     *)
Runs(p) ==
  CASE p.kind = "arrays"   -> <<Run(p.first, p.count)>>
    [] p.kind = "lengths"  -> [k \in 1..Len(p.lengths) |->
                                 Run(p.first + Sum(SubSeq(p.lengths, 1, k - 1)), p.lengths[k])]
    [] p.kind = "elements" -> <<p.indices>>

VerticesPerPrimitive(p, run) ==
  CASE p.mode = "points"    -> 1
    [] p.mode = "lines"     -> 2
    [] p.mode = "triangles" -> 3
    [] p.mode = "quads"     -> 4
    [] OTHER                -> Len(run)

-----------------------------------------------------------------------------
(* Quads                                                                   *)

(* The two triangles of the quad at base; a remainder of count is dropped.     *)
Triangles(base) == <<base, base + 1, base + 3, base + 1, base + 2, base + 3>>
QuadsOf(run) == FlattenSeq([q \in 1..(Len(run) \div 4) |-> Triangles(run[4 * q - 3])])

(* The cache holds, for each width and residue of the first vertex, indices of *)
(* the quads from that residue on.                                         *)
NoQuads == [width \in {"ushort", "uint"} |-> [residue \in 0..3 |-> <<>>]]

OffsetFirst(first) == ((first - (first % 4)) \div 4) * 6
EndOfIndices(first, count) == OffsetFirst(first) + (count \div 4) * 6
Width(first, count) == IF EndOfIndices(first, count) < ShortLimit THEN "ushort" ELSE "uint"

Expanded(indices, residue, end) ==
  IF end < Len(indices) THEN indices
  ELSE indices \o FlattenSeq([q \in 1..(end \div 6 - Len(indices) \div 6) |->
                                Triangles((Len(indices) \div 6 + q - 1) * 4 + residue)])

CacheQuads(cache, first, count) ==
  [cache EXCEPT ![Width(first, count)][first % 4] =
     Expanded(@, first % 4, EndOfIndices(first, count))]

CachedQuads(cache, first, count) ==
  SubSeq(cache[Width(first, count)][first % 4], OffsetFirst(first) + 1, EndOfIndices(first, count))

-----------------------------------------------------------------------------
(* Geometry::fixDeprecatedData.  fix.taken is, for every vertex of the new       *)
(* arrays, the vertex and the primitive its values are copied from (from 1).   *)

Unfixed == [taken |-> <<>>, primitives |-> 0, sets |-> <<>>]

\* Faulty: the primitives are counted anew in every run.
TakeRunAnew(fix, p, run) ==
  LET n == VerticesPerPrimitive(p, run)
  IN [fix EXCEPT !.taken = @ \o [k \in 1..Len(run) |-> <<run[k] + 1, ((k - 1) \div n) + 1>>]]

TakeRun(fix, p, run) ==
  LET n == VerticesPerPrimitive(p, run)
  IN [fix EXCEPT !.taken = @ \o [k \in 1..Len(run) |->
                                   <<run[k] + 1, fix.primitives + ((k - 1) \div n) + 1>>],
                 !.primitives = @ + (IF run = <<>> THEN 0 ELSE (Len(run) - 1) \div n + 1)]

Add(fix, p) == [fix EXCEPT !.sets = Append(@, p)]

FixArrays(fix, p) == Add(TakeRun(fix, p, Run(p.first, p.count)), [p EXCEPT !.first = Len(fix.taken)])

(* setFirst() is called for every length: the last one stays.                *)
FirstOfLast(p, end) == IF p.lengths = <<>> THEN p ELSE [p EXCEPT !.first = end - Last(p.lengths)]
TakeRuns(fix, p) == FoldLeft(LAMBDA f, run : TakeRun(f, p, run), fix, Runs(p))
FixLengths(fix, p) == Add(TakeRuns(fix, p), FirstOfLast(p, Len(fix.taken) + Sum(p.lengths)))

(* The new indices are of the old ones' width.                              *)
FixElements(fix, p) ==
  Add(TakeRun(fix, p, p.indices), [p EXCEPT !.indices = [k \in DOMAIN @ |-> (Len(fix.taken) + k - 1) % p.limit]])

FixSet(fix, p) ==
  CASE p.kind = "arrays"   -> FixArrays(fix, p)
    [] p.kind = "lengths"  -> FixLengths(fix, p)
    [] p.kind = "elements" -> FixElements(fix, p)

FixedSets(sets) == FoldLeft(FixSet, Unfixed, sets)
=============================================================================
