--------------------------- MODULE FrameTransport ---------------------------
(***************************************************************************)
(* How a rendered frame gets from the simulator to the presenter: the swap *)
(* of osg/GraphicsWindowEGL.cpp (publishToShm, dumpFrameIfRequested) and   *)
(* the shared memory segment behind it (ShmFrameWriter).  The segment is a *)
(* seqlock over two slots.  It outlives the simulator: a simulator that is *)
(* started again finds the old one and sets its header back.               *)
(*                                                                         *)
(* A frame is its number, and a slot is its two halves.  The two increments*)
(* of the sequence are acquire-release operations and everything between   *)
(* them is plain stores.  On ARM that lets the stores between them be seen *)
(* in any order and even before the first increment; the second increment  *)
(* is seen after all of them.  `unseen' holds the stores issued and not    *)
(* yet seen.                                                               *)
(*                                                                         *)
(* The presenter is another program; it reads the way a seqlock is read.   *)
(***************************************************************************)
EXTENDS Naturals

CONSTANTS
    Modes,          \* of "pbo", "blocking", "shared": the ways to publish
    DumpEvery,      \* FGFS_DUMP_EVERY, 0 if not set
    MaxFrame,       \* bound: frames rendered
    MaxEpoch        \* bound: simulators that open the segment

ASSUME ModesAssumption == Modes \subseteq {"pbo", "blocking", "shared"}
ASSUME CountsAssumption == DumpEvery \in Nat /\ MaxFrame \in Nat /\ MaxEpoch \in Nat \ {0}

VARIABLES
    mode,           \* the way this simulator publishes
    enabled,        \* publishToShm's own switch
    ready,          \* g_shm.ready()
    frame,          \* the frame in the render target
    frameCount,     \* _frameCount
    pbo,            \* _pbo: the frame read back into each, 0 for none yet
    sequence, activeSlot,       \* of the header
    dmabuf,         \* are the dmabuf fields of the header set?
    slots,          \* the two halves of each slot
    writer,         \* where the render thread is in swapBuffersImplementation
    source,         \* the frame being published
    published,      \* the last frame this simulator published
    unseen,         \* its stores that are not yet seen
    dumped,         \* the newest frame in the dump file
    epoch,          \* how often a simulator set the header back
    reader,         \* where the presenter is
    readSequence, readSlot, readHalf, readEpoch, readDmabuf,    \* what it has read
    shown           \* the newest frame it accepted

target == <<frame, frameCount, pbo>>
header == <<sequence, activeSlot, dmabuf>>
switches == <<mode, enabled, ready>>
readerVars == <<reader, readSequence, readSlot, readHalf, readEpoch, readDmabuf, shown>>
vars == <<switches, target, header, slots, writer, source, published, unseen, dumped, epoch,
          readerVars>>

Frames == 0 .. MaxFrame
Slot == {0, 1}
Half == {"first", "second"}
Store == {"reset", "fields", "begin", "dmabuf", "slot"} \union Half

NoFrame == [h \in Half |-> 0]

Init ==
    /\ mode \in Modes /\ enabled = TRUE /\ ready = FALSE
    /\ frame = 0 /\ frameCount = 0
    /\ pbo = [i \in Slot |-> 0]
    /\ sequence = 0 /\ activeSlot = 0 /\ dmabuf = FALSE
    /\ slots = [s \in Slot |-> NoFrame]
    /\ writer = "render" /\ source = 0 /\ published = 0 /\ unseen = {}
    /\ dumped = 0
    /\ epoch = 0
    /\ reader = "idle" /\ readSequence = 0 /\ readSlot = 0 /\ readHalf = NoFrame
    /\ readEpoch = 0 /\ readDmabuf = FALSE
    /\ shown = 0

cur == frameCount % 2
prev == 1 - cur
-----------------------------------------------------------------------------
(***************************************************************************)
(* The render thread.                                                      *)
(***************************************************************************)
\* A frame is complete and the buffers are swapped.
Swap ==
    /\ writer = "render" /\ frame < MaxFrame
    /\ frame' = frame + 1
    /\ writer' = IF enabled THEN "publish" ELSE "dump"
    /\ UNCHANGED <<switches, frameCount, pbo, header, slots, source, published, unseen, dumped,
                   epoch, readerVars>>

\* ShmFrameWriter::open() sets the header back field by field, outside the lock.
\* Where it fails publishing is given up for good.
Open ==
    /\ writer = "publish" /\ ~ready
    /\ \/ /\ ready' = TRUE
          /\ unseen' = {"reset", "fields"}
          /\ writer' = "open"
          /\ UNCHANGED enabled
       \/ /\ enabled' = FALSE
          /\ writer' = "dump"
          /\ UNCHANGED <<ready, unseen>>
    /\ UNCHANGED <<mode, target, header, slots, source, published, dumped, epoch, readerVars>>

ResetSeen ==
    /\ "reset" \in unseen
    /\ sequence' = 0 /\ epoch' = epoch + 1
    /\ unseen' = unseen \ {"reset"}
    /\ UNCHANGED <<switches, target, activeSlot, dmabuf, slots, writer, source, published, dumped,
                   readerVars>>

FieldsSeen ==
    /\ "fields" \in unseen
    /\ activeSlot' = 0 /\ dmabuf' = FALSE
    /\ unseen' = unseen \ {"fields"}
    /\ UNCHANGED <<switches, target, sequence, slots, writer, source, published, dumped,
                   epoch, readerVars>>

Opened ==
    /\ writer = "open" /\ unseen = {}
    /\ writer' = "publish"
    /\ UNCHANGED <<switches, target, header, slots, source, published, unseen, dumped, epoch,
                   readerVars>>

\* Faulty: the transfer goes into one and the same PBO.
ReadBackSamePbo ==
    /\ writer = "publish" /\ ready /\ mode = "pbo"
    /\ pbo' = [pbo EXCEPT ![0] = frame]
    /\ writer' = IF frameCount > 0 THEN "map" ELSE "count"
    /\ UNCHANGED <<switches, frame, frameCount, header, slots, source, published, unseen, dumped,
                   epoch, readerVars>>

\* Start the transfer of this frame into one PBO.
ReadBack ==
    /\ writer = "publish" /\ ready /\ mode = "pbo"
    /\ pbo' = [pbo EXCEPT ![cur] = frame]
    /\ writer' = IF frameCount > 0 THEN "map" ELSE "count"
    /\ UNCHANGED <<switches, frame, frameCount, header, slots, source, published, unseen, dumped,
                   epoch, readerVars>>

\* Map the other PBO.  The mapping may fail, and nothing is published then.
Map ==
    /\ writer = "map"
    /\ \/ /\ source' = pbo[prev]
          /\ unseen' = {"begin", "slot"} \union Half
          /\ writer' = "write"
       \/ /\ writer' = "count"
          /\ UNCHANGED <<source, unseen>>
    /\ UNCHANGED <<switches, target, header, slots, published, dumped, epoch, readerVars>>

\* Without PBOs the frame is read straight into the slot.  frameCount goes up
\* after this frame, not before the slot is chosen.
ReadBlocking ==
    /\ writer = "publish" /\ ready /\ mode = "blocking"
    /\ source' = frame
    /\ unseen' = {"begin", "slot"} \union Half
    /\ writer' = "write"
    /\ UNCHANGED <<switches, target, header, slots, published, dumped, epoch, readerVars>>

\* The presenter has the buffer rendered into; only the header is written.
PublishDmabuf ==
    /\ writer = "publish" /\ ready /\ mode = "shared"
    /\ source' = frame
    /\ unseen' = {"begin", "dmabuf"}
    /\ writer' = "write"
    /\ UNCHANGED <<switches, target, header, slots, published, dumped, epoch, readerVars>>

\* Faulty: beginWrite() is forgotten, and so the sequence never becomes odd.
BeginForgotten ==
    /\ "begin" \in unseen
    /\ unseen' = unseen \ {"begin"}
    /\ UNCHANGED <<switches, target, header, slots, writer, source, published, dumped, epoch,
                   readerVars>>

\* beginWrite(), or the first line of publishDmabuf().
BeginSeen ==
    /\ "begin" \in unseen
    /\ sequence' = sequence + 1
    /\ unseen' = unseen \ {"begin"}
    /\ UNCHANGED <<switches, target, activeSlot, dmabuf, slots, writer, source, published, dumped,
                   epoch, readerVars>>

\* One half of what memcpy or glReadPixels writes to the slot.
HalfSeen ==
    \E h \in Half \intersect unseen :
        /\ slots' = [slots EXCEPT ![cur][h] = source]
        /\ unseen' = unseen \ {h}
        /\ UNCHANGED <<switches, target, header, writer, source, published, dumped, epoch,
                       readerVars>>

\* Faulty: endWrite() is given the counter and not its low bit.
SlotSeenUnmasked ==
    /\ "slot" \in unseen
    /\ activeSlot' = frameCount
    /\ unseen' = unseen \ {"slot"}
    /\ UNCHANGED <<switches, target, sequence, dmabuf, slots, writer, source, published, dumped,
                   epoch, readerVars>>

\* Faulty: the slots are swapped the wrong way round.
SlotSeenOther ==
    /\ "slot" \in unseen
    /\ activeSlot' = prev
    /\ unseen' = unseen \ {"slot"}
    /\ UNCHANGED <<switches, target, sequence, dmabuf, slots, writer, source, published, dumped,
                   epoch, readerVars>>

\* endWrite() names the slot just written.
SlotSeen ==
    /\ "slot" \in unseen
    /\ activeSlot' = cur
    /\ unseen' = unseen \ {"slot"}
    /\ UNCHANGED <<switches, target, sequence, dmabuf, slots, writer, source, published, dumped,
                   epoch, readerVars>>

DmabufSeen ==
    /\ "dmabuf" \in unseen
    /\ dmabuf' = TRUE
    /\ unseen' = unseen \ {"dmabuf"}
    /\ UNCHANGED <<switches, target, sequence, activeSlot, slots, writer, source, published, dumped,
                   epoch, readerVars>>

\* Faulty: the second increment is forgotten.
EndForgotten ==
    /\ writer = "write" /\ unseen = {}
    /\ published' = source
    /\ writer' = "count"
    /\ UNCHANGED <<switches, target, header, slots, source, unseen, dumped, epoch,
                   readerVars>>

\* The second increment.
EndWrite ==
    /\ writer = "write" /\ unseen = {}
    /\ sequence' = sequence + 1
    /\ published' = source
    /\ writer' = "count"
    /\ UNCHANGED <<switches, target, activeSlot, dmabuf, slots, source, unseen, dumped,
                   epoch, readerVars>>

\* ++_frameCount, published or not.
Count ==
    /\ writer = "count"
    /\ frameCount' = frameCount + 1
    /\ writer' = "dump"
    /\ UNCHANGED <<switches, frame, pbo, header, slots, source, published, unseen, dumped, epoch,
                   readerVars>>

\* dumpFrameIfRequested() counts the frame too, with the same counter.
Dump ==
    /\ writer = "dump"
    /\ IF DumpEvery = 0 THEN UNCHANGED <<frameCount, dumped>>
       ELSE /\ frameCount' = frameCount + 1
            /\ dumped' = IF frameCount' % DumpEvery = 0 THEN frame ELSE dumped
    /\ writer' = "render"
    /\ UNCHANGED <<switches, frame, pbo, header, slots, source, published, unseen, epoch, readerVars>>

\* The simulator dies.  Of the stores under way any may never be made, only the
\* first one is when a later one has been seen.
Crash ==
    /\ epoch < MaxEpoch
    /\ writer # "down"
    /\ "begin" \in unseen => unseen = {"begin", "slot"} \union Half
                             \/ unseen = {"begin", "dmabuf"}
    /\ "reset" \in unseen => "fields" \in unseen
    /\ writer' = "down"
    /\ unseen' = {}
    /\ UNCHANGED <<switches, target, header, slots, source, published, dumped, epoch, readerVars>>

\* A new simulator: its own counters are new, the segment is what it was.
Restart ==
    /\ writer = "down"
    /\ mode' \in Modes /\ enabled' = TRUE /\ ready' = FALSE
    /\ frameCount' = 0
    /\ pbo' = [i \in Slot |-> 0]
    /\ writer' = "render" /\ source' = 0 /\ published' = 0
    /\ UNCHANGED <<frame, header, slots, unseen, dumped, epoch, readerVars>>
-----------------------------------------------------------------------------
(***************************************************************************)
(* The presenter.                                                          *)
(***************************************************************************)
writerVars == <<switches, target, header, slots, writer, source, published, unseen, dumped, epoch>>

\* An odd sequence is a frame being written, and 0 is no frame yet.
ReadSequence ==
    /\ reader \in {"idle", "accepted"}
    /\ sequence % 2 = 0 /\ sequence > 0
    /\ readSequence' = sequence
    /\ readEpoch' = epoch
    /\ reader' = "header"
    /\ UNCHANGED <<writerVars, readSlot, readHalf, readDmabuf, shown>>

ReadHeader ==
    /\ reader = "header"
    /\ readSlot' = activeSlot /\ readDmabuf' = dmabuf
    /\ reader' = "first"
    /\ UNCHANGED <<writerVars, readSequence, readHalf, readEpoch, shown>>

ReadHalf ==
    /\ reader \in Half
    /\ readHalf' = [readHalf EXCEPT ![reader] = slots[readSlot][reader]]
    /\ reader' = IF reader = "first" THEN "second" ELSE "check"
    /\ UNCHANGED <<writerVars, readSequence, readSlot, readEpoch, readDmabuf, shown>>

\* What was read counts only if the sequence is still the same.
Check ==
    /\ reader = "check"
    /\ reader' = IF sequence = readSequence THEN "accepted" ELSE "idle"
    /\ shown' = IF sequence = readSequence /\ ~readDmabuf THEN readHalf["first"] ELSE shown
    /\ UNCHANGED <<writerVars, readSequence, readSlot, readHalf, readEpoch, readDmabuf>>
-----------------------------------------------------------------------------
Writing == \/ Swap \/ Open \/ Opened \/ ReadBack \/ Map \/ ReadBlocking
           \/ PublishDmabuf \/ EndWrite \/ Count \/ Dump
Seeing == ResetSeen \/ FieldsSeen \/ BeginSeen \/ HalfSeen \/ SlotSeen \/ DmabufSeen
Reading == ReadSequence \/ ReadHeader \/ ReadHalf \/ Check

Next == Writing \/ Seeing \/ Crash \/ Restart \/ Reading

\* The render thread and the presenter run, and stores get seen.
Fairness == WF_vars(Writing) /\ WF_vars(Seeing) /\ WF_vars(Reading)

Spec == Init /\ [][Next]_vars
FairSpec == Spec /\ Fairness
-----------------------------------------------------------------------------
TypeOK ==
    /\ mode \in Modes /\ enabled \in BOOLEAN /\ ready \in BOOLEAN
    /\ frame \in Frames /\ frameCount \in Nat
    /\ pbo \in [Slot -> Frames]
    /\ sequence \in Nat /\ activeSlot \in Slot /\ dmabuf \in BOOLEAN
    /\ slots \in [Slot -> [Half -> Frames]]
    /\ writer \in {"render", "publish", "open", "map", "write", "count", "dump", "down"}
    /\ source \in Frames /\ published \in Frames /\ dumped \in Frames
    /\ unseen \subseteq Store
    /\ epoch \in 0 .. MaxEpoch /\ readEpoch \in 0 .. MaxEpoch
    /\ reader \in {"idle", "header", "check", "accepted"} \union Half
    /\ readSequence \in Nat /\ readSlot \in Slot /\ readDmabuf \in BOOLEAN
    /\ readHalf \in [Half -> Frames]
    /\ shown \in Frames

\* publishToShm's comment: what is fetched is the result of the frame before, and
\* never from a PBO that has nothing in it yet.  Without PBOs it is this frame.
PreviousFrame ==
    writer = "write" => source = IF mode = "pbo" THEN frame - 1 ELSE frame

\* Both slots are there so that the last frame stays whole where the header points
\* while the next one is written.  A frame that could not be mapped upsets that:
\* the frames before and after it go to the same slot.
ActiveSlotKept ==
    /\ writer = "write" /\ mode # "shared" /\ {"begin", "slot"} \subseteq unseen
    /\ published > 0 /\ published = source - 1
    => \A h \in Half : slots[activeSlot][h] = published

(***************************************************************************)
(* A frame the presenter accepts is whole, a rendered one, and no older    *)
(* than the one before - except in windows nothing closes: before the      *)
(* first increment of a write is seen, and when a new simulator is setting *)
(* the header back or did so since the sequence was read.                  *)
(***************************************************************************)
AcceptsWhole ==
    [][ /\ Check /\ reader' = "accepted" /\ ~readDmabuf
        /\ "begin" \notin unseen /\ "reset" \notin unseen /\ readEpoch = epoch
        => /\ readHalf["first"] = readHalf["second"]
           /\ shown' > 0 /\ shown' >= shown ]_vars

\* When the simulator rests, the presenter comes to show its last frame.
CatchesUp ==
    frame = MaxFrame /\ writer = "render" /\ mode # "shared" /\ published > 0
        ~> shown = published \/ writer = "down"
=============================================================================
