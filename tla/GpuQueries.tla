----------------------------- MODULE GpuQueries -----------------------------
(***************************************************************************)
(* ARBQuerySupport of osg/Renderer.cpp: how long the GPU took for a frame. *)
(* draw() puts a timestamp query before and one after a frame's commands   *)
(* and picks the results up in a later frame, when the GPU has them.  A    *)
(* timestamp is a counter of Bits bits, so it wraps; State keeps one more  *)
(* with the system time it belongs to (frameCompleted), and checkQuery     *)
(* places the frame in system time relative to it.                         *)
(*                                                                         *)
(* `time' is the GPU's time as if it never wrapped.  Results, and gpuTime, *)
(* are kept as true times too; what the code sees of one is its Counter.   *)
(***************************************************************************)
EXTENDS Integers, Sequences, SequencesExt

CONSTANTS
    Bits,       \* getTimestampBits(), below 64
    Window,     \* bound: no timestamp in use is older than this
    MaxTime,    \* bound: GPU time
    MaxFrame    \* bound: frames drawn with GPU statistics

ASSUME BitsAssumption == Bits \in Nat /\ Bits > 2
ASSUME BoundsAssumption == Window \in Nat /\ MaxTime \in Nat /\ MaxFrame \in Nat

VARIABLES
    time,
    phase,          \* where the graphics thread is in its frame
    frame,          \* the frame being drawn, or the last one
    active,         \* _queryFrameList: frame, pair of queries, their true times
    available,      \* _availableQueryObjects, pairs by number
    generated,      \* how many pairs were ever generated
    gpuTime,        \* when State::frameCompleted took its timestamp
    results         \* the statistics, with the query and gpuTime they are made from

vars == <<time, phase, frame, active, available, generated, gpuTime, results>>

\* one << n
Power[n \in 0 .. Bits] == IF n = 0 THEN 1 ELSE 2 * Power[n - 1]

wrapAdd == Power[Bits]
hiMask == Power[Bits - 1]
Counter(t) == t % wrapAdd
HighBit(c) == c \div hiMask
Quarter == hiMask \div 2

\* What is further apart than a quarter of the range is taken for a wrap: no result is
\* picked up that late.  The bound of time leaves room for every first time.
ASSUME WindowAssumption == Window <= Quarter
ASSUME TimeAssumption == wrapAdd <= MaxTime + 1

\* From the first frameCompleted on; before it the timestamp kept is 0.
Init ==
    /\ time \in 0 .. wrapAdd - 1
    /\ phase = "check" /\ frame = 0
    /\ active = << >> /\ available = << >> /\ generated = 0
    /\ gpuTime = time
    /\ results = {}
-----------------------------------------------------------------------------
(***************************************************************************)
(* The arithmetic of checkQuery on three counters, begin, end and gpu.     *)
(***************************************************************************)
MayHaveWrapped(b, e, g) == HighBit(b) + HighBit(e) + HighBit(g) \in {1, 2}
EndWrapped(b, e) == b > e
GpuWrapped(b, g) == g < b /\ b - g > Quarter
BothWrapped(e, g) == e < g /\ g - e > Quarter

\* Faulty: the cases are not told apart by the order they are tried in.
UnwrappedFirst(b, e, g) ==
    IF ~MayHaveWrapped(b, e, g) THEN <<b, e, g>>
    ELSE IF GpuWrapped(b, g) THEN <<b, e, g + wrapAdd>>
    ELSE IF EndWrapped(b, e) THEN <<b, e + wrapAdd, g>>
    ELSE IF BothWrapped(e, g) THEN <<b + wrapAdd, e + wrapAdd, g>>
    ELSE <<b, e, g>>

\* Faulty: only the frame's own two timestamps are looked at.
UnwrappedEnd(b, e, g) ==
    IF MayHaveWrapped(b, e, g) /\ EndWrapped(b, e) THEN <<b, e + wrapAdd, g>>
    ELSE <<b, e, g>>

Unwrapped(b, e, g) ==
    IF ~MayHaveWrapped(b, e, g) THEN <<b, e, g>>
    ELSE IF EndWrapped(b, e) THEN <<b, e + wrapAdd, g>>
    ELSE IF GpuWrapped(b, g) THEN <<b, e, g + wrapAdd>>
    ELSE IF BothWrapped(e, g) THEN <<b + wrapAdd, e + wrapAdd, g>>
    ELSE <<b, e, g>>

\* What checkQuery reports of a query: times are relative to gpuTick.
Result(q) ==
    LET u == Unwrapped(Counter(q.begin), Counter(q.end), Counter(gpuTime))
    IN  [query |-> q, gpu |-> gpuTime,
         taken |-> u[2] - u[1], begin |-> u[1] - u[3], end |-> u[2] - u[3]]
-----------------------------------------------------------------------------
\* The queries in list s of the frames F, in order, as a loop over the list finds them.
Picked(s, F) ==
    LET picked[n \in 0 .. Len(s)] ==
            IF n = 0 THEN << >>
            ELSE IF s[n].frame \in F THEN Append(picked[n - 1], s[n]) ELSE picked[n - 1]
    IN  picked[Len(s)]

Frames(s) == {s[i].frame : i \in 1 .. Len(s)}

\* Faulty: what is reported stays in the list.
CheckErasesNone ==
    /\ phase \in {"check", "ended"}
    /\ \E ready \in SUBSET Frames(active) :
          LET done == Picked(active, ready)
          IN  /\ available' = available \o [i \in 1 .. Len(done) |-> done[i].query]
              /\ results' = results \union {Result(done[i]) : i \in 1 .. Len(done)}
    /\ phase' = IF phase = "check" THEN "begin" ELSE "complete"
    /\ UNCHANGED <<time, frame, active, generated, gpuTime>>

\* Faulty: a pair goes back to the pool though its result is not there yet.
CheckReturnsAll ==
    /\ phase \in {"check", "ended"}
    /\ \E ready \in SUBSET Frames(active) :
          LET done == Picked(active, ready)
          IN  /\ active' = Picked(active, Frames(active) \ ready)
              /\ available' = available \o [i \in 1 .. Len(active) |-> active[i].query]
              /\ results' = results \union {Result(done[i]) : i \in 1 .. Len(done)}
    /\ phase' = IF phase = "check" THEN "begin" ELSE "complete"
    /\ UNCHANGED <<time, frame, generated, gpuTime>>

\* checkQuery: every query whose second timestamp is available is reported, and its
\* pair returned.  draw() calls it before and after the frame.
Check ==
    /\ phase \in {"check", "ended"}
    /\ \E ready \in SUBSET Frames(active) :
          LET done == Picked(active, ready)
          IN  /\ active' = Picked(active, Frames(active) \ ready)
              /\ available' = available \o [i \in 1 .. Len(done) |-> done[i].query]
              /\ results' = results \union {Result(done[i]) : i \in 1 .. Len(done)}
    /\ phase' = IF phase = "check" THEN "begin" ELSE "complete"
    /\ UNCHANGED <<time, frame, generated, gpuTime>>

BeginQuery ==
    /\ phase = "begin" /\ frame < MaxFrame
    /\ frame' = frame + 1
    /\ \/ /\ available = << >>
          /\ generated' = generated + 1
          /\ active' = Append(active, [frame |-> frame', query |-> generated',
                                       begin |-> time, end |-> time])
          /\ UNCHANGED available
       \/ /\ available # << >>
          /\ active' = Append(active, [frame |-> frame', query |-> Last(available),
                                       begin |-> time, end |-> time])
          /\ available' = Front(available)
          /\ UNCHANGED generated
    /\ phase' = "draw"
    /\ UNCHANGED <<time, gpuTime, results>>

\* Faulty: the first query of the pair is used again.
EndQueryFirst ==
    /\ phase = "draw"
    /\ active' = [active EXCEPT ![Len(active)].begin = time]
    /\ phase' = "ended"
    /\ UNCHANGED <<time, frame, available, generated, gpuTime, results>>

EndQuery ==
    /\ phase = "draw"
    /\ active' = [active EXCEPT ![Len(active)].end = time]
    /\ phase' = "ended"
    /\ UNCHANGED <<time, frame, available, generated, gpuTime, results>>

\* State::frameCompleted() takes a timestamp and the system time.
FrameCompleted ==
    /\ phase = "complete"
    /\ gpuTime' = time
    /\ phase' = "check"
    /\ UNCHANGED <<time, frame, active, available, generated, results>>

\* Time goes on, and no result takes longer than Window.
Tick ==
    /\ time < MaxTime
    /\ time + 1 - gpuTime <= Window
    /\ \A i \in 1 .. Len(active) : time + 1 - active[i].begin <= Window
    /\ time' = time + 1
    /\ UNCHANGED <<phase, frame, active, available, generated, gpuTime, results>>

Next == Check \/ BeginQuery \/ EndQuery \/ FrameCompleted \/ Tick

Spec == Init /\ [][Next]_vars
-----------------------------------------------------------------------------
Pairs(s) == {s[i].query : i \in 1 .. Len(s)}

TypeOK ==
    /\ time \in 0 .. MaxTime /\ gpuTime \in 0 .. time
    /\ phase \in {"check", "begin", "draw", "ended", "complete"}
    /\ frame \in 0 .. MaxFrame
    /\ \A i \in 1 .. Len(active) :
          /\ active[i].frame \in 1 .. frame /\ active[i].query \in 1 .. generated
          /\ active[i].begin <= active[i].end /\ active[i].end <= time
    /\ ToSet(available) \subseteq 1 .. generated

\* A pair of queries serves one frame at a time and comes back: each pair is in the
\* pool or in use, and in one place only.
PairsReused ==
    /\ Pairs(active) \union ToSet(available) = 1 .. generated
    /\ Len(active) + Len(available) = generated

\* Every frame drawn is waiting for its result or reported, once.
ReportedOnce ==
    LET waiting == Frames(active)
        reported == {r.query.frame : r \in results}
    IN  /\ waiting \intersect reported = {} /\ waiting \union reported = 1 .. frame
        /\ \A r, s \in results : r.query.frame = s.query.frame => r = s

\* The time taken is right, wherever the counter wrapped.
TakenRight == \A r \in results : r.taken = r.query.end - r.query.begin

\* The wrap lies after begin and before both end and gpuTimestamp.  The chain of
\* cases corrects one of the two only, and places the frame a whole wrap early.
Straddles(r) ==
    /\ r.query.begin \div wrapAdd < r.query.end \div wrapAdd
    /\ r.query.begin \div wrapAdd < r.gpu \div wrapAdd

\* Begin and end are placed right relative to the system time, wherever else one of
\* the three counters wrapped before the others.
PlacedRight ==
    \A r \in results : ~Straddles(r) =>
        r.begin = r.query.begin - r.gpu /\ r.end = r.query.end - r.gpu
=============================================================================
