------------------------ MODULE FrameTransportProofs ------------------------
(***************************************************************************)
(* Proofs about FrameTransport, for any number of frames and of simulators *)
(* that come and go.  Where the theorems say DumpEvery = 0 they do so for  *)
(* a reason: MCFrameTransportDump.cfg shows what happens otherwise.        *)
(***************************************************************************)
EXTENDS FrameTransport, Integers, TLAPS

Even(n) == n % 2 = 0

\* A simulator that is still to set the header back is one of those counted.
Starts ==
    /\ ~ready \/ "reset" \in unseen \/ writer = "down" => epoch < MaxEpoch
    /\ writer = "down" => unseen = {}
    /\ "reset" \in unseen => ready

\* The PBO not in use holds the frame before; between Swap and Count the frame
\* rendered is one further.
Pace ==
    /\ writer = "write" => source = IF mode = "pbo" THEN frame - 1 ELSE frame
    /\ writer \in {"publish", "open", "map", "write", "count"} => enabled
    /\ writer = "map" => mode = "pbo" /\ frameCount > 0
    /\ enabled /\ mode = "pbo" =>
         /\ writer \in {"render", "dump"} /\ frameCount > 0 => pbo[prev] = frame
         /\ writer \in {"publish", "open", "map"} /\ frameCount > 0 => pbo[prev] = frame - 1
         /\ writer \in {"map", "write", "count"} => pbo[cur] = frame

\* The frames counted were rendered, so the one fetched is not the empty frame.
Counted ==
    /\ writer \in {"publish", "open", "map", "write", "count"} => frame > 0
    /\ writer \in {"render", "dump"} /\ frameCount > 0 => frame > 0
    /\ writer \in {"publish", "open", "map"} /\ frameCount > 0 => frame > 1
    /\ writer = "write" => source > 0

Overwrites == {"begin", "slot"} \union Half
Announces == {"begin", "dmabuf"}

\* Which stores can be under way, and the sequence they are made under.
Stores ==
    /\ writer \in {"open", "map", "write"} => ready
    /\ writer = "open" => unseen \subseteq {"reset", "fields"}
    /\ writer = "write" => unseen \subseteq IF mode = "shared" THEN Announces ELSE Overwrites
    /\ writer \notin {"open", "write"} => unseen = {}
    /\ writer = "open" /\ "reset" \notin unseen => sequence = 0
    /\ writer = "write" /\ "begin" \notin unseen => ~Even(sequence)
    /\ writer = "write" /\ "begin" \in unseen => Even(sequence)
    /\ ready /\ writer \notin {"open", "write", "down"} => Even(sequence)
    /\ writer = "write" /\ mode = "shared" => "dmabuf" \in unseen \/ dmabuf
    /\ writer = "write" /\ mode # "shared" =>
         /\ "slot" \in unseen \/ activeSlot = cur
         /\ \A h \in Half : h \in unseen \/ slots[cur][h] = source

\* Every frame anybody holds is at most the newest one written or being written.
Newest ==
    IF writer = "write" THEN source
    ELSE IF writer \in {"publish", "open", "map"} THEN frame - 1 ELSE frame

Rendered ==
    /\ \A s \in Slot, h \in Half : slots[s][h] <= Newest
    /\ \A h \in Half : readHalf[h] <= Newest
    /\ shown <= Newest

\* No store has been seen before the one that should announce it.
Announced ==
    /\ "begin" \in unseen => unseen \in {Overwrites, Announces}
    /\ "reset" \in unseen => "fields" \in unseen

\* An even sequence promises that the active slot is the newest whole frame.
Whole ==
    Even(sequence) /\ sequence > 0 /\ Announced /\ ~dmabuf =>
        /\ slots[activeSlot]["first"] > 0
        /\ slots[activeSlot]["second"] = slots[activeSlot]["first"]
        /\ \A s \in Slot, h \in Half : slots[s][h] <= slots[activeSlot]["first"]
        /\ \A h \in Half : readHalf[h] <= slots[activeSlot]["first"]
        /\ shown <= slots[activeSlot]["first"]

\* While the sequence is what it was, so is everything that was read under it.
Reads ==
    reader \in {"header", "check"} \union Half =>
        /\ Even(readSequence) /\ readSequence > 0
        /\ readEpoch <= epoch
        /\ readEpoch = epoch => readSequence <= sequence
        /\ readEpoch = epoch /\ readSequence = sequence /\ Announced /\ reader # "header" =>
             /\ readSlot = activeSlot /\ readDmabuf = dmabuf
             /\ reader # "first" => readHalf["first"] = slots[activeSlot]["first"]
             /\ reader = "check" => readHalf["second"] = slots[activeSlot]["second"]
-----------------------------------------------------------------------------
\* The low bit of a counter alternates.
LEMMA Parity ==
    ASSUME NEW n \in Nat
    PROVE  /\ n % 2 \in {0, 1} /\ (n + 1) % 2 = 1 - (n % 2)
           /\ Even(n) <=> ~Even(n + 1)
BY DEF Even

LEMMA CurPrev ==
    ASSUME frameCount \in Nat
    PROVE  cur \in Slot /\ prev \in Slot /\ prev # cur
BY Parity DEF cur, prev, Slot

LEMMA NextCur ==
    ASSUME frameCount \in Nat, frameCount' = frameCount + 1
    PROVE  cur' = prev /\ prev' = cur
BY Parity DEF cur, prev

LEMMA SameCur ==
    ASSUME frameCount' = frameCount
    PROVE  cur' = cur /\ prev' = prev
BY DEF cur, prev
-----------------------------------------------------------------------------
TInv == TypeOK /\ Starts

\* The first store of open() to be seen: a simulator that was still to come has come.
LEMMA ResetTyped ==
    ASSUME TInv, ResetSeen
    PROVE  TInv'
<1>1. TypeOK /\ Starts
  BY DEF TInv
<1>2. /\ "reset" \in unseen /\ epoch' = epoch + 1 /\ sequence' = 0
      /\ unseen' = unseen \ {"reset"}
      /\ UNCHANGED <<switches, target, activeSlot, dmabuf, slots, writer, source, published,
                     dumped, readerVars>>
  BY DEF ResetSeen
<1>3. epoch' \in 0 .. MaxEpoch /\ unseen' \subseteq Store /\ sequence' \in Nat
  BY <1>1, <1>2, CountsAssumption DEF TypeOK, Starts
<1>4. TypeOK'
  BY <1>1, <1>2, <1>3 DEF TypeOK, switches, target, readerVars
<1>5. writer # "down" /\ ready
  BY <1>1, <1>2 DEF Starts
<1>6. Starts'
  BY <1>2, <1>5 DEF Starts, switches
<1> QED
  BY <1>4, <1>6 DEF TInv

LEMMA TypeStep ==
    ASSUME TInv, [Next]_vars
    PROVE  TInv'
<1>11. CASE ResetSeen
  BY <1>11, ResetTyped
<1> USE CountsAssumption DEF TInv, TypeOK, Starts
<1>1. CASE Swap
  BY <1>1 DEF Swap, switches, header, readerVars, Frames
<1>2. CASE Open
  BY <1>2 DEF Open, target, header, readerVars, Store
<1>3. CASE Opened
  BY <1>3 DEF Opened, switches, target, header, readerVars
<1>4. CASE ReadBack
  BY <1>4, CurPrev DEF ReadBack, switches, header, readerVars
<1>5. CASE Map
  <2>1. unseen' \subseteq Store /\ ("reset" \in unseen' => "reset" \in unseen)
    BY <1>5 DEF Map, Store, Half
  <2>2. source' \in Frames /\ writer' \in {"write", "count"}
    BY <1>5, CurPrev DEF Map
  <2> QED
    BY <1>5, <2>1, <2>2 DEF Map, switches, target, header, readerVars
<1>6. CASE ReadBlocking
  <2>1. unseen' \subseteq Store /\ "reset" \notin unseen'
    BY <1>6 DEF ReadBlocking, Store, Half
  <2> QED
    BY <1>6, <2>1 DEF ReadBlocking, switches, target, header, readerVars
<1>7. CASE PublishDmabuf
  BY <1>7 DEF PublishDmabuf, switches, target, header, readerVars, Store
<1>8. CASE EndWrite
  BY <1>8 DEF EndWrite, switches, target, readerVars
<1>9. CASE Count
  BY <1>9 DEF Count, switches, header, readerVars
<1>10. CASE Dump
  BY <1>10 DEF Dump, switches, header, readerVars
<1>12. CASE FieldsSeen
  BY <1>12 DEF FieldsSeen, switches, target, readerVars, Slot
<1>13. CASE BeginSeen
  BY <1>13 DEF BeginSeen, switches, target, readerVars
<1>14. CASE HalfSeen
  BY <1>14, CurPrev DEF HalfSeen, switches, target, header, readerVars
<1>15. CASE SlotSeen
  BY <1>15, CurPrev DEF SlotSeen, switches, target, readerVars
<1>16. CASE DmabufSeen
  BY <1>16 DEF DmabufSeen, switches, target, readerVars
<1>17. CASE Crash
  BY <1>17 DEF Crash, switches, target, header, readerVars
<1>18. CASE Restart
  <2>1. 0 \in Frames /\ pbo' \in [Slot -> Frames]
    BY <1>18 DEF Restart, Frames
  <2> QED
    BY <1>18, <2>1 DEF Restart, header, readerVars
<1>19. CASE ReadSequence
  BY <1>19 DEF ReadSequence, writerVars, switches, target, header
<1>20. CASE ReadHeader
  BY <1>20 DEF ReadHeader, writerVars, switches, target, header, Half
<1>21. CASE ReadHalf
  BY <1>21 DEF ReadHalf, writerVars, switches, target, header, Half
<1>22. CASE Check
  BY <1>22 DEF Check, writerVars, switches, target, header, Half
<1>23. CASE UNCHANGED vars
  BY <1>23 DEF vars, switches, target, header, readerVars
<1> QED
  BY <1>1, <1>2, <1>3, <1>4, <1>5, <1>6, <1>7, <1>8, <1>9, <1>10, <1>11, <1>12, <1>13,
     <1>14, <1>15, <1>16, <1>17, <1>18, <1>19, <1>20, <1>21, <1>22, <1>23
     DEF Next, Writing, Seeing, Reading

LEMMA TypeInit == Init => TInv
<1> SUFFICES ASSUME Init PROVE TypeOK /\ Starts
  BY DEF TInv
<1>1. 0 \in Frames /\ 0 \in Slot /\ 0 \in 0 .. MaxEpoch /\ 0 < MaxEpoch
  BY CountsAssumption DEF Frames, Slot
<1>2. slots \in [Slot -> [Half -> Frames]] /\ pbo \in [Slot -> Frames] /\ readHalf \in [Half -> Frames]
  BY <1>1 DEF Init, NoFrame
<1> QED
  BY <1>1, <1>2 DEF Init, TypeOK, Starts

(***************************************************************************)
(* Every variable keeps its type, and in particular no more simulators set *)
(* the header back than are counted.                                       *)
(***************************************************************************)
THEOREM Typing == Spec => []TypeOK
<1>1. Spec => []TInv
  BY TypeInit, TypeStep, PTL DEF Spec
<1> QED
  BY <1>1, PTL DEF TInv
-----------------------------------------------------------------------------
(***************************************************************************)
(* What is fetched is the frame before: Pace and Counted are inductive, as *)
(* long as the dump does not count along.                                  *)
(***************************************************************************)
\* Neither the stores nor the presenter move the render thread.
LEMMA Aside ==
    ASSUME Seeing \/ Reading \/ UNCHANGED vars
    PROVE  UNCHANGED <<mode, enabled, ready, frame, frameCount, pbo, writer, source>>
<1>1. CASE Seeing
  BY <1>1 DEF Seeing, ResetSeen, FieldsSeen, BeginSeen, HalfSeen, SlotSeen, DmabufSeen,
              switches, target
<1>2. CASE Reading
  BY <1>2 DEF Reading, ReadSequence, ReadHeader, ReadHalf, Check, writerVars, switches, target
<1> QED
  BY <1>1, <1>2 DEF vars, switches, target

LEMMA PaceStep ==
    ASSUME TypeOK, Pace, [Next]_vars, DumpEvery = 0
    PROVE  Pace'
<1> USE DEF Pace
<1>0. frame \in Nat /\ frameCount \in Nat /\ pbo \in [Slot -> Frames]
  BY CountsAssumption DEF TypeOK, Frames
<1>1. CASE Swap
  BY <1>0, <1>1, SameCur DEF Swap, switches
<1>2. CASE Open
  <2>1. UNCHANGED <<mode, frame, frameCount, pbo, source, cur, prev>>
    BY <1>2, SameCur DEF Open, target
  <2>2. CASE writer' = "open" /\ UNCHANGED enabled
    BY <1>2, <2>1, <2>2 DEF Open
  <2>3. CASE writer' = "dump" /\ enabled' = FALSE
    BY <2>3
  <2> QED
    BY <1>2, <2>2, <2>3 DEF Open
<1>3. CASE Opened
  BY <1>0, <1>3, SameCur DEF Opened, target, switches
<1>4. CASE ReadBack
  BY <1>0, <1>4, CurPrev, SameCur DEF ReadBack, switches
<1>5. CASE Map
  BY <1>0, <1>5, SameCur DEF Map, switches, target
<1>6. CASE ReadBlocking
  BY <1>0, <1>6, SameCur DEF ReadBlocking, switches, target
<1>7. CASE PublishDmabuf
  BY <1>0, <1>7, SameCur DEF PublishDmabuf, switches, target
<1>8. CASE EndWrite
  BY <1>0, <1>8, SameCur DEF EndWrite, switches, target
<1>9. CASE Count
  BY <1>0, <1>9, NextCur DEF Count, switches
<1>10. CASE Dump
  BY <1>0, <1>10, SameCur DEF Dump, switches
<1>11. CASE Crash
  BY <1>0, <1>11, SameCur DEF Crash, switches, target
<1>12. CASE Restart
  BY <1>12 DEF Restart
<1>13. CASE Seeing \/ Reading \/ UNCHANGED vars
  BY <1>13, Aside, SameCur
<1> QED
  BY <1>1, <1>2, <1>3, <1>4, <1>5, <1>6, <1>7, <1>8, <1>9, <1>10, <1>11, <1>12, <1>13
     DEF Next, Writing

LEMMA CountedStep ==
    ASSUME TypeOK, Pace, Counted, [Next]_vars, DumpEvery = 0
    PROVE  Counted'
<1> USE DEF Counted
<1>0. frame \in Nat /\ frameCount \in Nat
  BY CountsAssumption DEF TypeOK, Frames
<1>1. CASE Swap
  BY <1>0, <1>1 DEF Swap
<1>2. CASE Open
  BY <1>0, <1>2 DEF Open, target
<1>3. CASE Opened
  BY <1>0, <1>3 DEF Opened, target
<1>4. CASE ReadBack
  BY <1>0, <1>4 DEF ReadBack
<1>5. CASE Map
  BY <1>0, <1>5 DEF Map, target, Pace
<1>6. CASE ReadBlocking
  BY <1>0, <1>6 DEF ReadBlocking, target
<1>7. CASE PublishDmabuf
  BY <1>0, <1>7 DEF PublishDmabuf, target
<1>8. CASE EndWrite
  BY <1>0, <1>8 DEF EndWrite, target
<1>9. CASE Count
  BY <1>0, <1>9 DEF Count
<1>10. CASE Dump
  BY <1>0, <1>10 DEF Dump
<1>11. CASE Crash
  BY <1>0, <1>11 DEF Crash, target
<1>12. CASE Restart
  BY <1>12 DEF Restart
<1>13. CASE Seeing \/ Reading \/ UNCHANGED vars
  BY <1>13, Aside
<1> QED
  BY <1>1, <1>2, <1>3, <1>4, <1>5, <1>6, <1>7, <1>8, <1>9, <1>10, <1>11, <1>12, <1>13
     DEF Next, Writing

LEMMA PaceInit == Init => Pace /\ Counted
BY DEF Init, Pace, Counted

(***************************************************************************)
(* What publishToShm fetches is the frame rendered before - or this one,   *)
(* where it reads without PBOs - through any number of restarts.           *)
(***************************************************************************)
THEOREM FetchesPrevious ==
    ASSUME DumpEvery = 0
    PROVE  Spec => []PreviousFrame
<1>1. TypeOK /\ Pace /\ [Next]_vars => Pace'
  BY PaceStep
<1>2. Pace => PreviousFrame
  BY DEF Pace, PreviousFrame
<1> QED
  BY <1>1, <1>2, PaceInit, Typing, PTL DEF Spec
-----------------------------------------------------------------------------
(***************************************************************************)
(* Which stores are under way where, and the sequence they are made under. *)
(***************************************************************************)
\* A store under way tells where the render thread is.
LEMMA StoreOwner ==
    ASSUME Stores
    PROVE  /\ "begin" \in unseen => writer = "write"
           /\ "slot" \in unseen => writer = "write" /\ mode # "shared"
           /\ \A h \in Half : h \in unseen => writer = "write" /\ mode # "shared"
           /\ "dmabuf" \in unseen => writer = "write" /\ mode = "shared"
           /\ "reset" \in unseen => writer = "open"
           /\ "fields" \in unseen => writer = "open"
BY DEF Stores, Overwrites, Announces, Half

LEMMA EvenZero == Even(0)
BY DEF Even

\* The presenter's steps, and no step, leave everything of the writer's alone.
LEMMA Reader ==
    ASSUME Reading \/ UNCHANGED vars
    PROVE  UNCHANGED <<mode, enabled, ready, frame, frameCount, pbo, sequence, activeSlot, dmabuf,
                       slots, writer, source, published, unseen, epoch>>
BY DEF Reading, ReadSequence, ReadHeader, ReadHalf, Check, writerVars, vars, switches, target, header

LEMMA StoresStep ==
    ASSUME TypeOK, Pace, Stores, [Next]_vars
    PROVE  Stores'
<1>0. sequence \in Nat /\ frameCount \in Nat /\ cur \in Slot
  BY CurPrev DEF TypeOK
<1>1. CASE Swap
  BY <1>1 DEF Swap, Stores, switches, header
<1>2. CASE Open
  <2>1. CASE writer' = "open" /\ unseen' = {"reset", "fields"} /\ ready'
    BY <2>1 DEF Stores
  <2>2. CASE writer' = "dump" /\ UNCHANGED <<ready, unseen>>
    BY <1>2, <2>2 DEF Open, Stores
  <2> QED
    BY <1>2, <2>1, <2>2 DEF Open
<1>3. CASE Opened
  BY <1>3, EvenZero DEF Opened, Stores, switches, header
<1>4. CASE ReadBack
  BY <1>4 DEF ReadBack, Stores, switches, header
<1>5. CASE Map
  <2>1. CASE unseen' = Overwrites /\ writer' = "write"
    BY <1>5, <2>1 DEF Map, Stores, Pace, switches, header, Overwrites
  <2>2. CASE writer' = "count" /\ UNCHANGED unseen
    BY <1>5, <2>2 DEF Map, Stores, switches, header
  <2> QED
    BY <1>5, <2>1, <2>2 DEF Map, Overwrites
<1>6. CASE ReadBlocking
  BY <1>6 DEF ReadBlocking, Stores, switches, header, Overwrites
<1>7. CASE PublishDmabuf
  BY <1>7 DEF PublishDmabuf, Stores, switches, header, Announces
<1>8. CASE EndWrite
  BY <1>0, <1>8, Parity DEF EndWrite, Stores, switches
<1>9. CASE Count
  BY <1>9 DEF Count, Stores, switches, header
<1>10. CASE Dump
  BY <1>10 DEF Dump, Stores, switches, header
<1>11. CASE ResetSeen
  BY <1>11, StoreOwner DEF ResetSeen, Stores, switches
<1>12. CASE FieldsSeen
  BY <1>12, StoreOwner DEF FieldsSeen, Stores, switches
<1>13. CASE BeginSeen
  <2>1. writer = "write" /\ Even(sequence)
    BY <1>13, StoreOwner DEF BeginSeen, Stores
  <2>2. ~Even(sequence')
    BY <1>0, <1>13, <2>1, Parity DEF BeginSeen
  <2> QED
    BY <1>13, <2>1, <2>2, SameCur DEF BeginSeen, Stores, switches, target, Half
<1>14. CASE HalfSeen
  <2>1. PICK h \in Half \intersect unseen :
             slots' = [slots EXCEPT ![cur][h] = source] /\ unseen' = unseen \ {h}
    BY <1>14 DEF HalfSeen
  <2>2. writer = "write" /\ mode # "shared" /\ UNCHANGED <<switches, target, header, writer, source>>
    BY <1>14, StoreOwner DEF HalfSeen
  <2>3. \A g \in Half : g \in unseen' \/ slots'[cur'][g] = source'
    BY <1>0, <2>1, <2>2, SameCur DEF Stores, TypeOK, target
  <2>4. "begin" # h /\ "slot" # h
    BY DEF Half
  <2> QED
    BY <2>1, <2>2, <2>3, <2>4, SameCur DEF Stores, switches, target, header
<1>15. CASE SlotSeen
  BY <1>15, StoreOwner, SameCur DEF SlotSeen, Stores, switches, target, Half
<1>16. CASE DmabufSeen
  BY <1>16, StoreOwner DEF DmabufSeen, Stores, switches
<1>17. CASE Crash
  BY <1>17 DEF Crash, Stores
<1>18. CASE Restart
  BY <1>18 DEF Restart, Stores
<1>19. CASE Reading \/ UNCHANGED vars
  BY <1>19, Reader, SameCur DEF Stores
<1> QED
  BY <1>1, <1>2, <1>3, <1>4, <1>5, <1>6, <1>7, <1>8, <1>9, <1>10, <1>11, <1>12, <1>13,
     <1>14, <1>15, <1>16, <1>17, <1>18, <1>19 DEF Next, Writing, Seeing
-----------------------------------------------------------------------------
(***************************************************************************)
(* Nobody holds a frame newer than the newest.                             *)
(***************************************************************************)
LEMMA Numbers ==
    ASSUME TypeOK
    PROVE  /\ frame \in Nat /\ source \in Nat /\ frameCount \in Nat /\ Newest \in Int
           /\ \A s \in Slot, h \in Half : slots[s][h] \in Nat
           /\ \A h \in Half : readHalf[h] \in Nat
           /\ shown \in Nat
<1>1. Frames \subseteq Nat
  BY CountsAssumption DEF Frames
<1>2. frame \in Nat /\ source \in Nat /\ frameCount \in Nat /\ shown \in Nat
  BY <1>1 DEF TypeOK
<1>3. Newest \in Int
  BY <1>2 DEF Newest
<1>4. \A s \in Slot, h \in Half : slots[s][h] \in Nat
  BY <1>1 DEF TypeOK
<1>5. \A h \in Half : readHalf[h] \in Nat
  BY <1>1 DEF TypeOK
<1> QED
  BY <1>2, <1>3, <1>4, <1>5

LEMMA NewestGrows ==
    ASSUME TypeOK, Pace, Pace', [Next]_vars
    PROVE  Newest <= Newest'
<1> USE DEF Newest
<1>0. frame \in Nat /\ source \in Nat
  BY Numbers
<1>1. CASE Swap
  BY <1>0, <1>1 DEF Swap
<1>2. CASE Open
  BY <1>0, <1>2 DEF Open, target
<1>3. CASE Opened
  BY <1>0, <1>3 DEF Opened, target
<1>4. CASE ReadBack
  BY <1>0, <1>4 DEF ReadBack
<1>5. CASE Map
  BY <1>0, <1>5 DEF Map, target, Pace
<1>6. CASE ReadBlocking
  BY <1>0, <1>6 DEF ReadBlocking, target
<1>7. CASE PublishDmabuf
  BY <1>0, <1>7 DEF PublishDmabuf, target
<1>8. CASE EndWrite
  BY <1>0, <1>8 DEF EndWrite, target, Pace
<1>9. CASE Count
  BY <1>0, <1>9 DEF Count
<1>10. CASE Dump
  BY <1>0, <1>10 DEF Dump
<1>11. CASE Crash
  BY <1>0, <1>11 DEF Crash, target, Pace
<1>12. CASE Restart
  BY <1>0, <1>12 DEF Restart
<1>13. CASE Seeing \/ Reading \/ UNCHANGED vars
  BY <1>0, <1>13, Aside
<1> QED
  BY <1>1, <1>2, <1>3, <1>4, <1>5, <1>6, <1>7, <1>8, <1>9, <1>10, <1>11, <1>12, <1>13
     DEF Next, Writing

\* Who changes what the two sides have in hand.
LEMMA Holders ==
    ASSUME [Next]_vars
    PROVE  /\ HalfSeen \/ UNCHANGED slots
           /\ ReadHalf \/ UNCHANGED readHalf
           /\ Check \/ UNCHANGED shown
<1>1. CASE Writing
  BY <1>1 DEF Writing, Swap, Open, Opened, ReadBack, Map, ReadBlocking, PublishDmabuf, EndWrite,
              Count, Dump, header, readerVars
<1>2. CASE Seeing
  BY <1>2 DEF Seeing, ResetSeen, FieldsSeen, BeginSeen, HalfSeen, SlotSeen, DmabufSeen, header,
              readerVars
<1>3. CASE Crash \/ Restart
  BY <1>3 DEF Crash, Restart, header, readerVars
<1>4. CASE Reading
  BY <1>4 DEF Reading, ReadSequence, ReadHeader, ReadHalf, Check, writerVars
<1>5. CASE UNCHANGED vars
  BY <1>5 DEF vars, readerVars
<1> QED
  BY <1>1, <1>2, <1>3, <1>4, <1>5 DEF Next

LEMMA RenderedStep ==
    ASSUME TInv, TInv', Pace, Pace', Stores, Rendered, [Next]_vars
    PROVE  Rendered'
<1>a. frame' \in Nat /\ source' \in Nat
  BY CountsAssumption DEF TInv, TypeOK, Frames
<1>b. Newest' \in Int
  BY <1>a DEF Newest
<1>0. Newest <= Newest' /\ Newest \in Int /\ Newest' \in Int
  BY <1>b, NewestGrows, Numbers DEF TInv
<1>1. \A s \in Slot, h \in Half : slots[s][h] \in Nat /\ slots[s][h] <= Newest
  BY Numbers DEF TInv, Rendered
<1>2. \A h \in Half : readHalf[h] \in Nat /\ readHalf[h] <= Newest
  BY Numbers DEF TInv, Rendered
<1>3. shown \in Nat /\ shown <= Newest
  BY Numbers DEF TInv, Rendered
<1>4. \A s \in Slot, h \in Half : slots'[s][h] <= Newest'
  <2>1. CASE UNCHANGED slots
    BY <1>0, <1>1, <2>1
  <2>2. CASE HalfSeen
    <3>1. PICK g \in Half \intersect unseen : slots' = [slots EXCEPT ![cur][g] = source]
      BY <2>2 DEF HalfSeen
    <3>2. source = Newest /\ source \in Nat
      BY StoreOwner, Numbers DEF Newest, TInv
    <3>3. ASSUME NEW s \in Slot, NEW h \in Half
          PROVE  slots'[s][h] = slots[s][h] \/ slots'[s][h] = source
      BY <3>1 DEF TInv, TypeOK
    <3> QED
      BY <1>0, <1>1, <3>2, <3>3
  <2> QED
    BY <2>1, <2>2, Holders
<1>5. \A h \in Half : readHalf'[h] <= Newest'
  <2>1. CASE UNCHANGED readHalf
    BY <1>0, <1>2, <2>1
  <2>2. CASE ReadHalf
    <3>1. readSlot \in Slot /\ reader \in Half /\ readHalf \in [Half -> Frames]
          /\ readHalf' = [readHalf EXCEPT ![reader] = slots[readSlot][reader]]
      BY <2>2 DEF ReadHalf, TInv, TypeOK
    <3> QED
      BY <1>0, <1>1, <1>2, <3>1
  <2> QED
    BY <2>1, <2>2, Holders
<1>6. shown' <= Newest'
  <2>1. CASE UNCHANGED shown
    BY <1>0, <1>3, <2>1
  <2>2. CASE Check
    <3>1. shown' = shown \/ shown' = readHalf["first"]
      BY <2>2 DEF Check
    <3> QED
      BY <1>0, <1>2, <1>3, <3>1 DEF Half
  <2> QED
    BY <2>1, <2>2, Holders
<1> QED
  BY <1>4, <1>5, <1>6 DEF Rendered
-----------------------------------------------------------------------------
(***************************************************************************)
(* The seqlock.  A step of the simulator is one of four: it leaves what a  *)
(* presenter reads alone, or it starts over, or it changes the sequence,   *)
(* or what it changes is not to be read.                                   *)
(***************************************************************************)
headerAndSlots == <<sequence, activeSlot, dmabuf, slots, epoch>>

\* Nothing a presenter reads changes, and nothing has overtaken its announcement.
Quiet == UNCHANGED <<headerAndSlots, readerVars>> /\ Announced

LEMMA QuietSteps ==
    ASSUME Stores,
           \/ Swap \/ Open \/ Opened \/ ReadBack \/ Map \/ ReadBlocking \/ PublishDmabuf
           \/ Count \/ Dump \/ Crash \/ Restart
    PROVE  Quiet
<1> USE DEF Quiet, headerAndSlots, header
<1>1. CASE unseen = {} /\ (Swap \/ Open \/ Opened \/ ReadBack \/ Map)
  BY <1>1 DEF Announced, Swap, Open, Opened, ReadBack, Map
<1>2. CASE unseen = {} /\ (ReadBlocking \/ PublishDmabuf \/ Count \/ Dump \/ Restart)
  BY <1>2 DEF Announced, ReadBlocking, PublishDmabuf, Count, Dump, Restart
<1>3. CASE Crash
  BY <1>3 DEF Announced, Crash, Overwrites, Announces
<1>4. ~Crash => unseen = {}
  BY DEF Stores, Swap, Open, Opened, ReadBack, Map, ReadBlocking, PublishDmabuf, Count, Dump,
         Restart
<1> QED
  BY <1>1, <1>2, <1>3, <1>4

\* A store between the increments makes the frame one not to be read.
LEMMA Torn ==
    ASSUME Stores, Stores', HalfSeen \/ SlotSeen \/ DmabufSeen
    PROVE  (~Even(sequence') \/ ~Announced') /\ UNCHANGED <<sequence, epoch, readerVars>>
<1>1. PICK st \in unseen \ {"begin"} : unseen' = unseen \ {st}
  BY DEF HalfSeen, SlotSeen, DmabufSeen, Half
<1>2. writer = "write" /\ UNCHANGED <<sequence, epoch, readerVars, writer>>
  BY StoreOwner DEF HalfSeen, SlotSeen, DmabufSeen, header
<1>3. CASE "begin" \notin unseen'
  BY <1>2, <1>3 DEF Stores
<1>4. CASE "begin" \in unseen'
  <2>1. unseen \subseteq Announces \/ unseen \subseteq Overwrites
    BY <1>2 DEF Stores
  <2>2. unseen' # Announces /\ unseen' # Overwrites
    BY <1>1, <2>1 DEF Announces, Overwrites, Half
  <2> QED
    BY <1>2, <1>4, <2>2 DEF Announced
<1> QED
  BY <1>2, <1>3, <1>4

\* Where a new simulator sets the header back there is nothing to be read.
LEMMA SetBack ==
    ASSUME Stores, FieldsSeen
    PROVE  (sequence' = 0 \/ ~Announced') /\ UNCHANGED <<sequence, epoch, slots, readerVars>>
<1>1. writer = "open"
  BY StoreOwner DEF FieldsSeen
<1> QED
  BY <1>1 DEF FieldsSeen, Stores, Announced

LEMMA WholeStep ==
    ASSUME TInv, Pace, Counted, Stores, Stores', Rendered, Whole, Reads, [Next]_vars
    PROVE  Whole'
<1>1. CASE Quiet
  BY <1>1 DEF Quiet, headerAndSlots, readerVars, Whole
<1>2. CASE EndWrite
  <2>1. writer = "write" /\ unseen = {} /\ UNCHANGED <<activeSlot, dmabuf, slots, readHalf, shown>>
    BY <1>2 DEF EndWrite, readerVars
  <2>2. ASSUME ~dmabuf
        PROVE  \A h \in Half : slots[activeSlot][h] = source
    BY <2>1, <2>2 DEF Stores
  <2>3. source > 0 /\ source = Newest
    BY <2>1 DEF Counted, Newest
  <2> QED
    BY <2>1, <2>2, <2>3 DEF Whole, Rendered, Half
<1>3. CASE HalfSeen \/ SlotSeen \/ DmabufSeen
  BY <1>3, Torn DEF Whole
<1>4. CASE FieldsSeen
  BY <1>4, SetBack DEF Whole
<1>5. CASE ResetSeen
  BY <1>5 DEF ResetSeen, Whole
<1>6. CASE BeginSeen
  <2>1. writer' = "write" /\ "begin" \notin unseen'
    BY <1>6, StoreOwner DEF BeginSeen
  <2> QED
    BY <2>1 DEF Stores, Whole
<1>7. CASE ReadHalf
  <2>1. UNCHANGED <<sequence, unseen, headerAndSlots, shown>>
    BY <1>7 DEF ReadHalf, writerVars, header, headerAndSlots
  <2>2. readSlot \in Slot /\ reader \in Half /\ readHalf \in [Half -> Frames]
        /\ readHalf' = [readHalf EXCEPT ![reader] = slots[readSlot][reader]]
    BY <1>7 DEF ReadHalf, TInv, TypeOK
  <2>3. \A h \in Half : readHalf'[h] = readHalf[h] \/ readHalf'[h] = slots[readSlot][h]
    BY <2>2
  <2> QED
    BY <2>1, <2>2, <2>3 DEF Whole, Announced, headerAndSlots
<1>8. CASE Check
  <2>1. UNCHANGED <<sequence, unseen, headerAndSlots, readHalf>>
    BY <1>8 DEF Check, writerVars, header, headerAndSlots
  <2>2. shown' = shown \/ shown' = readHalf["first"]
    BY <1>8 DEF Check
  <2> QED
    BY <2>1, <2>2 DEF Whole, Announced, headerAndSlots, Half
<1>9. CASE ReadSequence \/ ReadHeader \/ UNCHANGED vars
  BY <1>9 DEF ReadSequence, ReadHeader, vars, writerVars, readerVars, header, Whole, Announced
<1> QED
  BY <1>1, <1>2, <1>3, <1>4, <1>5, <1>6, <1>7, <1>8, <1>9, QuietSteps
     DEF Next, Writing, Seeing, Reading

LEMMA ReadsStep ==
    ASSUME TInv, Stores, Stores', Reads, [Next]_vars
    PROVE  Reads'
<1>0. sequence \in Nat /\ readSequence \in Nat /\ epoch \in Nat /\ readEpoch \in Nat
  BY CountsAssumption DEF TInv, TypeOK
<1>1. CASE Quiet
  BY <1>1 DEF Quiet, headerAndSlots, readerVars, Reads
<1>2. CASE HalfSeen \/ SlotSeen \/ DmabufSeen
  BY <1>2, Torn DEF Reads, readerVars
<1>3. CASE FieldsSeen
  BY <1>0, <1>3, SetBack DEF Reads, readerVars
<1>4. CASE ResetSeen
  BY <1>0, <1>4 DEF ResetSeen, Reads, readerVars
<1>5. CASE BeginSeen \/ EndWrite
  <2>1. sequence' = sequence + 1 /\ UNCHANGED <<epoch, readerVars>>
    BY <1>5 DEF BeginSeen, EndWrite
  <2> QED
    BY <1>0, <2>1 DEF Reads, readerVars
<1>6. CASE ReadSequence
  BY <1>0, <1>6 DEF ReadSequence, writerVars, header, Reads, Even, Half
<1>7. CASE ReadHeader
  BY <1>7 DEF ReadHeader, writerVars, header, Reads, Announced, Half
<1>8. CASE ReadHalf
  <2>1. UNCHANGED <<headerAndSlots, unseen, readSequence, readSlot, readEpoch, readDmabuf>>
    BY <1>8 DEF ReadHalf, writerVars, header, headerAndSlots
  <2>2. readHalf' = [readHalf EXCEPT ![reader] = slots[readSlot][reader]]
        /\ readHalf \in [Half -> Frames] /\ reader \in Half
    BY <1>8 DEF ReadHalf, TInv, TypeOK
  <2>3. CASE reader = "first" /\ reader' = "second"
    BY <2>1, <2>2, <2>3 DEF Reads, Announced, headerAndSlots, Half
  <2>4. CASE reader = "second" /\ reader' = "check"
    BY <2>1, <2>2, <2>4 DEF Reads, Announced, headerAndSlots, Half
  <2> QED
    BY <1>8, <2>3, <2>4 DEF ReadHalf, Half
<1>9. CASE Check
  BY <1>9 DEF Check, Reads, Half
<1>10. CASE UNCHANGED vars
  BY <1>10 DEF vars, readerVars, header, Reads, Announced
<1> QED
  BY <1>1, <1>2, <1>3, <1>4, <1>5, <1>6, <1>7, <1>8, <1>9, <1>10, QuietSteps
     DEF Next, Writing, Seeing, Reading

(***************************************************************************)
(* Whatever a presenter accepts - outside the windows that AcceptsWhole    *)
(* names - is one whole frame, and not an older one than it had.  It holds *)
(* through any number of crashes and restarts, on a processor that         *)
(* reorders the stores between the increments as it likes.                 *)
(***************************************************************************)
THEOREM AcceptsOnlyWhole ==
    ASSUME DumpEvery = 0
    PROVE  Spec => AcceptsWhole
<1> DEFINE IInv == TInv /\ Pace /\ Counted /\ Stores /\ Rendered /\ Whole /\ Reads
<1>1. Init => IInv
  <2> SUFFICES ASSUME Init PROVE IInv
    OBVIOUS
  <2>1. Rendered
    BY DEF Init, Rendered, Newest, NoFrame
  <2>2. Stores
    BY EvenZero DEF Init, Stores
  <2>3. Whole /\ Reads
    BY DEF Init, Whole, Reads, Half
  <2> QED
    BY <2>1, <2>2, <2>3, TypeInit, PaceInit
<1>2. IInv /\ [Next]_vars => IInv'
  <2> SUFFICES ASSUME IInv, [Next]_vars PROVE IInv'
    OBVIOUS
  <2>1. TInv' /\ Pace' /\ Counted' /\ Stores'
    BY TypeStep, PaceStep, CountedStep, StoresStep DEF TInv
  <2>2. Rendered' /\ Whole' /\ Reads'
    BY <2>1, RenderedStep, WholeStep, ReadsStep
  <2> QED
    BY <2>1, <2>2
<1>3. ASSUME IInv, Check, reader' = "accepted", ~readDmabuf, "begin" \notin unseen,
             "reset" \notin unseen, readEpoch = epoch
      PROVE  readHalf["first"] = readHalf["second"] /\ shown' > 0 /\ shown' >= shown
  <2>1. reader = "check" /\ sequence = readSequence /\ shown' = readHalf["first"]
    BY <1>3 DEF Check
  <2>2. Announced
    BY <1>3 DEF Announced
  <2>3. /\ Even(sequence) /\ sequence > 0 /\ ~dmabuf
        /\ readHalf["first"] = slots[activeSlot]["first"]
        /\ readHalf["second"] = slots[activeSlot]["second"]
    BY <1>3, <2>1, <2>2 DEF Reads
  <2>4. /\ readHalf["first"] > 0 /\ readHalf["second"] = readHalf["first"]
        /\ shown <= readHalf["first"]
    BY <1>3, <2>2, <2>3 DEF Whole
  <2>5. shown \in Nat /\ readHalf["first"] \in Nat
    BY <1>3, Numbers DEF TInv, Half
  <2> QED
    BY <2>1, <2>4, <2>5
<1>4. IInv /\ [Next]_vars =>
        [ /\ Check /\ reader' = "accepted" /\ ~readDmabuf
          /\ "begin" \notin unseen /\ "reset" \notin unseen /\ readEpoch = epoch
          => /\ readHalf["first"] = readHalf["second"]
             /\ shown' > 0 /\ shown' >= shown ]_vars
  BY <1>3
<1> QED
  BY <1>1, <1>2, <1>4, PTL DEF Spec, AcceptsWhole
-----------------------------------------------------------------------------
(***************************************************************************)
(* The two slots take turns.  What was published lies where the header     *)
(* points, and that is not the slot written next, as long as every frame   *)
(* is published: Alternates is about the step from one frame to the next.  *)
(***************************************************************************)
\* The frame published now or, when the thread is done with it, published last.
Late == IF mode = "pbo" THEN frame - 1 ELSE frame

Lies(s) == activeSlot = s /\ \A h \in Half : slots[s][h] = published

\* Frame after frame, what was published lies where the header points, and that is the
\* slot not written next.
Alternates ==
    published > 0 =>
        /\ ready /\ enabled /\ writer # "open"
        /\ published <= IF writer \in {"publish", "map", "write"} THEN Late - 1 ELSE Late
        /\ mode # "shared" =>
             /\ writer = "count" /\ published = Late => Lies(cur)
             /\ writer \in {"render", "dump"} /\ published = Late => Lies(prev)
             /\ writer \in {"publish", "map"} /\ published = Late - 1 => Lies(prev)
             /\ writer = "write" /\ "slot" \in unseen /\ published = Late - 1 => Lies(prev)

\* What was published stays where it is while neither header nor slots change.
LEMMA SameLies ==
    ASSUME UNCHANGED <<activeSlot, slots, published>>, NEW CONSTANT s, Lies(s)
    PROVE  Lies(s)'
BY DEF Lies

\* Every step keeps the turns: a frame that could not be mapped ends them, and the next
\* one published begins them anew.
LEMMA AlternatesStep ==
    ASSUME TInv, Pace, Stores, Alternates, [Next]_vars, DumpEvery = 0
    PROVE  Alternates'
<1>0. /\ frame \in Nat /\ frameCount \in Nat /\ published \in Nat /\ slots \in [Slot -> [Half -> Frames]]
      /\ cur \in Slot /\ prev \in Slot /\ prev # cur
  BY CountsAssumption, CurPrev DEF TInv, TypeOK, Frames
<1>1. CASE Swap
  <2>1. /\ writer = "render" /\ frame' = frame + 1 /\ mode' = mode
        /\ writer' = IF enabled THEN "publish" ELSE "dump"
        /\ UNCHANGED <<ready, enabled, cur, prev, activeSlot, slots, published>>
    BY <1>1, SameCur DEF Swap, switches, header
  <2>2. Late \in Int /\ Late' = Late + 1
    BY <1>0, <2>1 DEF Late
  <2> QED
    BY <1>0, <2>1, <2>2 DEF Alternates, Lies
<1>2. CASE Open
  BY <1>2 DEF Open, Alternates
<1>3. CASE Opened
  BY <1>3 DEF Opened, Alternates
<1>4. CASE ReadBack
  <2>1. /\ writer = "publish" /\ writer' \in {"map", "count"}
        /\ UNCHANGED <<mode, ready, enabled, cur, prev, Late, activeSlot, slots, published, unseen>>
    BY <1>4, SameCur DEF ReadBack, switches, header, Late
  <2>2. Late \in Int
    BY <1>0 DEF Late
  <2> QED
    BY <1>0, <2>1, <2>2 DEF Alternates, Lies
<1>5. CASE Map
  <2>1. /\ writer = "map" /\ writer' \in {"write", "count"}
        /\ UNCHANGED <<mode, ready, enabled, cur, prev, Late, activeSlot, slots, published>>
    BY <1>5, SameCur DEF Map, switches, target, header, Late
  <2>2. Late \in Int
    BY <1>0 DEF Late
  <2> QED
    BY <1>0, <2>1, <2>2 DEF Alternates, Lies
<1>6. CASE ReadBlocking \/ PublishDmabuf
  <2>1. /\ writer = "publish" /\ writer' = "write"
        /\ UNCHANGED <<mode, ready, enabled, cur, prev, Late, activeSlot, slots, published>>
    BY <1>6, SameCur DEF ReadBlocking, PublishDmabuf, switches, target, header, Late
  <2> QED
    BY <2>1 DEF Alternates, Lies
<1>7. CASE EndWrite
  <2>1. /\ writer = "write" /\ unseen = {} /\ published' = source /\ writer' = "count"
        /\ UNCHANGED <<mode, ready, enabled, cur, prev, Late, activeSlot, slots>>
    BY <1>7, SameCur DEF EndWrite, switches, target, Late
  <2>2. source = Late /\ enabled /\ ready
    BY <2>1 DEF Pace, Stores, Late
  <2>3. mode # "shared" => activeSlot = cur /\ \A h \in Half : slots[cur][h] = source
    BY <2>1 DEF Stores
  <2>4. Late \in Int
    BY <1>0 DEF Late
  <2> QED
    BY <2>1, <2>2, <2>3, <2>4 DEF Alternates, Lies
<1>8. CASE Count
  <2>1. /\ writer = "count" /\ writer' = "dump" /\ cur' = prev /\ prev' = cur
        /\ UNCHANGED <<mode, ready, enabled, Late, activeSlot, slots, published>>
    BY <1>0, <1>8, NextCur DEF Count, switches, header, Late
  <2> QED
    BY <2>1 DEF Alternates, Lies
<1>9. CASE Dump
  <2>1. /\ writer = "dump" /\ writer' = "render"
        /\ UNCHANGED <<mode, ready, enabled, cur, prev, Late, activeSlot, slots, published>>
    BY <1>9, SameCur DEF Dump, switches, header, Late
  <2> QED
    BY <2>1 DEF Alternates, Lies
<1>10. CASE Crash
  <2>1. /\ writer' = "down"
        /\ UNCHANGED <<mode, ready, enabled, Late, published>>
    BY <1>10 DEF Crash, switches, target, Late
  <2>2. Late \in Int
    BY <1>0 DEF Late
  <2> QED
    BY <1>0, <2>1, <2>2 DEF Alternates
<1>11. CASE Restart
  BY <1>11 DEF Restart, Alternates
<1>12. CASE FieldsSeen \/ ResetSeen
  <2>1. writer = "open" /\ UNCHANGED <<writer, published>>
    BY <1>12, StoreOwner DEF FieldsSeen, ResetSeen
  <2> QED
    BY <2>1 DEF Alternates
<1>13. CASE BeginSeen \/ HalfSeen \/ SlotSeen \/ DmabufSeen
  <2>1. /\ writer = "write"
        /\ UNCHANGED <<writer, mode, ready, enabled, cur, prev, Late, published>>
    BY <1>13, StoreOwner, SameCur
       DEF BeginSeen, HalfSeen, SlotSeen, DmabufSeen, switches, target, Late
  <2>2. "slot" \in unseen' => "slot" \in unseen /\ activeSlot' = activeSlot
    BY <1>13 DEF BeginSeen, HalfSeen, SlotSeen, DmabufSeen, header, Half
  <2>3. \A h \in Half : slots'[prev][h] = slots[prev][h]
    BY <1>0, <1>13 DEF BeginSeen, HalfSeen, SlotSeen, DmabufSeen
  <2> QED
    BY <2>1, <2>2, <2>3 DEF Alternates, Lies
<1>14. CASE Reading \/ UNCHANGED vars
  <2>1. UNCHANGED <<writer, unseen, mode, ready, enabled, cur, prev, Late, activeSlot, slots, published>>
    BY <1>14, SameCur DEF Reading, ReadSequence, ReadHeader, ReadHalf, Check, vars, writerVars,
                          switches, target, header, Late
  <2> QED
    BY <2>1 DEF Alternates, Lies
<1> QED
  BY <1>1, <1>2, <1>3, <1>4, <1>5, <1>6, <1>7, <1>8, <1>9, <1>10, <1>11, <1>12, <1>13, <1>14
     DEF Next, Writing, Seeing

(***************************************************************************)
(* The last frame stays whole where the header points while the next one   *)
(* is written into the other slot, for any number of frames and restarts   *)
(* and any order in which the stores are seen.                             *)
(***************************************************************************)
THEOREM KeepsActiveSlot ==
    ASSUME DumpEvery = 0
    PROVE  Spec => []ActiveSlotKept
<1> DEFINE IInv == TInv /\ Pace /\ Counted /\ Stores /\ Alternates
<1>1. Init => IInv
  <2> SUFFICES ASSUME Init PROVE Stores /\ Alternates
    BY TypeInit, PaceInit
  <2> QED
    BY EvenZero DEF Init, Stores, Alternates
<1>2. IInv /\ [Next]_vars => IInv'
  <2> SUFFICES ASSUME IInv, [Next]_vars PROVE IInv'
    OBVIOUS
  <2> QED
    BY TypeStep, PaceStep, CountedStep, StoresStep, AlternatesStep DEF TInv
<1>3. IInv => ActiveSlotKept
  <2> SUFFICES ASSUME IInv, writer = "write", mode # "shared", "slot" \in unseen,
                      published > 0, published = source - 1
               PROVE  \A h \in Half : slots[activeSlot][h] = published
    BY DEF ActiveSlotKept
  <2>1. source = Late
    BY DEF Pace, Late
  <2>2. Lies(prev)
    BY <2>1 DEF Alternates
  <2> QED
    BY <2>2 DEF Lies
<1> QED
  BY <1>1, <1>2, <1>3, PTL DEF Spec
=============================================================================
