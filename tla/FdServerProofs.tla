--------------------------- MODULE FdServerProofs ---------------------------
(***************************************************************************)
(* The invariants of FdServer for any number of presenters, any length of  *)
(* the backlog and any number of frames.                                   *)
(*                                                                         *)
(* A fence is the number of its frame, so the order in which fences are    *)
(* made is the order of numbers, and the inductive invariant is a chain:   *)
(* whoever got a fence last, then the fence in the hands of the thread,    *)
(* then the one kept for the next request, then the newest frame.          *)
(***************************************************************************)
EXTENDS FdServer, TLAPS

\* The fence in hand will be closed only if it is what was sent; it is not when it
\* was taken for a request that got the dmabuf, and that happens once.
Lost == open \ {fenceFd, fence}

Chain ==
    /\ fenceFd # NoFd => fenceFd \in open /\ fenceFd <= frame /\ lastFence < fenceFd
    /\ fence # NoFd => /\ fence \in open /\ fence <= frame
                       /\ server \in {"choose", "send", "close", "killed"}
                       /\ server = "choose" => lastFence < fence
    /\ fence # NoFd /\ fenceFd # NoFd => fence < fenceFd
    /\ toSend \in Fence => toSend = fence
    /\ server = "send" /\ toSend \in Fence => lastFence < toSend
    /\ lastFence <= frame
    /\ open \subseteq 0 .. frame

LossOnce ==
    /\ ~handedOutBuffer => Lost = {}
    /\ server \in {"send", "close", "killed"} /\ toSend = Payload /\ fence # NoFd
           => Lost = {}
    /\ server \in {"send", "close", "killed"} => handedOutBuffer
    /\ LosesAtMostOne

IInv == TypeOK /\ Chain /\ LossOnce
-----------------------------------------------------------------------------
LEMMA InitTyped == Init => TypeOK
<1> SUFFICES ASSUME Init PROVE TypeOK
    OBVIOUS
<1>1. backlog \in Seq(Presenters)
    BY DEF Init
<1>2. presenter \in [Presenters -> {"idle", "waiting", "gone"}]
    BY DEF Init
<1>3. server \in {"accept", "none"} /\ client = NoFd /\ toSend = NoFd /\ fence = NoFd
    BY DEF Init, Nobody
<1>4. fenceFd = NoFd /\ frame = 0 /\ open = {} /\ lastFence = 0 /\ ~handedOutBuffer
    BY DEF Init
<1>5. hasBuffer = {} /\ answered = {} /\ handedOutBuffer \in BOOLEAN
    BY DEF Init
<1>6. 0 \in 0 .. MaxFence
    BY BacklogAssumption
<1> QED BY <1>1, <1>2, <1>3, <1>4, <1>5, <1>6 DEF TypeOK, Fence, Nobody

\* No step leaves the types: what waits in the backlog is a presenter, and whatever
\* is sent is a descriptor.
LEMMA NextTyped == TypeOK /\ [Next]_vars => TypeOK'
<1> SUFFICES ASSUME TypeOK, [Next]_vars PROVE TypeOK'
    OBVIOUS
<1> USE FdAssumption, BacklogAssumption
    DEF TypeOK, Fence, Nobody, fenceVars, serverVars, presenterVars
<1>1. CASE Publish
  <2>1. frame' \in 1 .. MaxFence /\ frame' \in 0 .. MaxFence
      BY <1>1 DEF Publish
  <2>2. fenceFd' \in Fence \union {NoFd} /\ open' \subseteq Fence
      BY <1>1, <2>1 DEF Publish, SetFence
  <2> QED BY <1>1, <2>1, <2>2 DEF Publish
<1>2. CASE Accept
  <2>1. client' \in Presenters /\ backlog' \in Seq(Presenters)
      BY <1>2 DEF Accept
  <2> QED BY <1>2, <2>1 DEF Accept
<1>3. CASE AcceptFails
    BY <1>3 DEF AcceptFails
<1>4. CASE TakeFence
    BY <1>4 DEF TakeFence
<1>5. CASE Choose
    BY <1>5 DEF Choose
<1>6. CASE Send
  <2>1. client \in Presenters
      BY <1>6 DEF Send
  <2> QED BY <1>6, <2>1 DEF Send
<1>7. CASE Close
    BY <1>7 DEF Close
<1>8. ASSUME NEW p \in Presenters, Connect(p) PROVE TypeOK'
    BY <1>8 DEF Connect
<1>9. ASSUME NEW p \in Presenters, Leave(p) PROVE TypeOK'
    BY <1>9 DEF Leave
<1>10. CASE UNCHANGED vars
    BY <1>10 DEF vars
<1> QED BY <1>1, <1>2, <1>3, <1>4, <1>5, <1>6, <1>7, <1>8, <1>9, <1>10
        DEF Next, Serving

\* Every value a variable takes has its type, in every reachable state.
THEOREM Typing == Spec => []TypeOK
<1> QED BY InitTyped, NextTyped, PTL DEF Spec
-----------------------------------------------------------------------------
LEMMA InitInv == Init => IInv
<1> SUFFICES ASSUME Init PROVE IInv
    OBVIOUS
<1>1. TypeOK
    BY InitTyped
<1>2. fenceFd = NoFd /\ fence = NoFd /\ toSend = NoFd /\ open = {} /\ lastFence = 0
      /\ frame = 0 /\ server \in {"accept", "none"}
    BY DEF Init
<1>3. Chain
    BY <1>2, FdAssumption DEF Chain, Fence
<1>4. LossOnce
    BY <1>2 DEF LossOnce, Lost, LosesAtMostOne
<1> QED BY <1>1, <1>3, <1>4 DEF IInv

\* A frame extends the chain at its end, and closes the fence nobody came for.
LEMMA PublishInv == IInv /\ Publish => Chain' /\ LossOnce'
<1> SUFFICES ASSUME IInv, Publish PROVE Chain' /\ LossOnce'
    OBVIOUS
<1> USE FdAssumption, BacklogAssumption
<1>1. UNCHANGED <<serverVars, lastFence>> /\ frame' = frame + 1 /\ frame \in Nat
    BY DEF Publish, presenterVars, IInv, TypeOK
<1>2. CASE SetFence(frame')
  <2>1. fenceFd' = frame' /\ open' = (open \ {fenceFd}) \union {frame'}
      BY <1>1, <1>2 DEF SetFence
  <2>2. Chain'
      BY <1>1, <2>1 DEF IInv, TypeOK, Chain, serverVars, Fence
  <2>3. Lost' \subseteq Lost
      BY <1>1, <2>1 DEF Lost, serverVars
  <2> QED BY <1>1, <2>2, <2>3 DEF IInv, LossOnce, Lost, LosesAtMostOne, serverVars
<1>3. CASE SetFence(NoFd)
  <2>1. fenceFd' = NoFd /\ open' = open \ {fenceFd}
      BY <1>3 DEF SetFence
  <2>2. Chain'
      BY <1>1, <2>1 DEF IInv, TypeOK, Chain, serverVars, Fence
  <2>3. Lost' \subseteq Lost
      BY <1>1, <2>1 DEF Lost, serverVars
  <2> QED BY <1>1, <2>2, <2>3 DEF IInv, LossOnce, Lost, LosesAtMostOne, serverVars
<1>4. CASE UNCHANGED <<fenceFd, open>>
  <2>1. Chain'
      BY <1>1, <1>4 DEF IInv, TypeOK, Chain, serverVars, Fence
  <2> QED BY <1>1, <1>4, <2>1 DEF IInv, LossOnce, Lost, LosesAtMostOne, serverVars
<1> QED BY <1>2, <1>3, <1>4 DEF Publish

LEMMA TakeFenceInv == IInv /\ TakeFence => Chain' /\ LossOnce'
<1> SUFFICES ASSUME IInv, TakeFence PROVE Chain' /\ LossOnce'
    OBVIOUS
<1> USE FdAssumption, BacklogAssumption
<1>1. /\ server = "take" /\ server' = "choose" /\ fence' = fenceFd /\ fenceFd' = NoFd
      /\ UNCHANGED <<frame, open, handedOutBuffer, toSend, lastFence>>
    BY DEF TakeFence, presenterVars
<1>2. fence = NoFd /\ NoFd \notin open
    BY <1>1 DEF IInv, TypeOK, Chain, Fence
<1>3. toSend \notin Fence
    BY <1>2 DEF IInv, Chain, Fence
<1>4. Chain'
    BY <1>1, <1>2, <1>3 DEF IInv, TypeOK, Chain, Fence
<1>5. Lost' = Lost
    BY <1>1, <1>2 DEF Lost
<1> QED BY <1>1, <1>4, <1>5 DEF IInv, LossOnce, Lost, LosesAtMostOne

LEMMA ChooseInv == IInv /\ Choose => Chain' /\ LossOnce'
<1> SUFFICES ASSUME IInv, Choose PROVE Chain' /\ LossOnce'
    OBVIOUS
<1> USE FdAssumption, BacklogAssumption
<1>1. /\ server = "choose" /\ server' = "send"
      /\ UNCHANGED <<fenceFd, frame, open, fence, lastFence>>
    BY DEF Choose, fenceVars, presenterVars
<1>2. CASE handedOutBuffer /\ fence # NoFd
  <2>1. toSend' = fence /\ handedOutBuffer' = handedOutBuffer
      BY <1>2 DEF Choose
  <2>2. Chain'
      BY <1>1, <1>2, <2>1 DEF IInv, TypeOK, Chain, Fence
  <2>3. toSend' # Payload
      BY <1>2, <2>1 DEF IInv, TypeOK, Fence
  <2> QED BY <1>1, <1>2, <2>1, <2>2, <2>3 DEF IInv, LossOnce, Lost, LosesAtMostOne
<1>3. CASE ~(handedOutBuffer /\ fence # NoFd)
  <2>1. toSend' = Payload /\ handedOutBuffer' = TRUE
      BY <1>3 DEF Choose
  <2>2. Chain'
      BY <1>1, <2>1 DEF IInv, TypeOK, Chain, Fence
  <2>3. fence # NoFd => Lost = {}
      BY <1>3 DEF IInv, LossOnce
  <2> QED BY <1>1, <2>1, <2>2, <2>3 DEF IInv, LossOnce, Lost, LosesAtMostOne
<1> QED BY <1>2, <1>3

LEMMA SendInv == IInv /\ Send => Chain' /\ LossOnce'
<1> SUFFICES ASSUME IInv, Send PROVE Chain' /\ LossOnce'
    OBVIOUS
<1> USE FdAssumption, BacklogAssumption
<1>1. /\ server = "send" /\ server' \in {"close", "killed"}
      /\ UNCHANGED <<fenceFd, frame, open, handedOutBuffer, fence, toSend>>
    BY DEF Send, fenceVars
<1>2. lastFence' = lastFence \/ (lastFence' = toSend /\ toSend # Payload)
    BY DEF Send, presenterVars
<1>3. toSend # Payload => toSend \in Fence /\ toSend = fence
    BY <1>1 DEF IInv, TypeOK, Chain
<1>4. Chain'
  <2>1. CASE lastFence' = lastFence
      BY <1>1, <2>1 DEF IInv, TypeOK, Chain, Fence
  <2>2. CASE lastFence' = fence /\ fence \in Fence
      BY <1>1, <2>2 DEF IInv, TypeOK, Chain, Fence
  <2> QED BY <1>2, <1>3, <2>1, <2>2
<1> QED BY <1>1, <1>4 DEF IInv, LossOnce, Lost, LosesAtMostOne

\* The fence in hand is either closed or, once, added to what is lost.
LEMMA CloseInv == IInv /\ Close => Chain' /\ LossOnce'
<1> SUFFICES ASSUME IInv, Close PROVE Chain' /\ LossOnce'
    OBVIOUS
<1> USE FdAssumption, BacklogAssumption
<1>1. /\ server = "close" /\ server' = "accept" /\ fence' = NoFd /\ toSend' = NoFd
      /\ UNCHANGED <<fenceFd, frame, handedOutBuffer, lastFence>>
    BY DEF Close, presenterVars
<1>2. handedOutBuffer
    BY <1>1 DEF IInv, LossOnce
<1>3. CASE toSend = fence
  <2>1. open' = open \ {fence}
      BY <1>3 DEF Close
  <2>2. Chain'
      BY <1>1, <2>1 DEF IInv, TypeOK, Chain, Fence
  <2>3. Lost' \subseteq Lost
      BY <1>1, <2>1 DEF Lost
  <2> QED BY <1>1, <1>2, <2>2, <2>3 DEF IInv, LossOnce, Lost, LosesAtMostOne
<1>4. CASE toSend # fence
  <2>1. open' = open
      BY <1>4 DEF Close
  <2>2. Chain'
      BY <1>1, <2>1 DEF IInv, TypeOK, Chain, Fence
  <2>3. toSend = Payload
      BY <1>1, <1>4 DEF IInv, TypeOK, Chain
  <2>4. CASE fence = NoFd
    <3>1. Lost' \subseteq Lost
        BY <1>1, <2>1, <2>4 DEF Lost
    <3> QED BY <1>1, <1>2, <2>2, <3>1 DEF IInv, LossOnce, Lost, LosesAtMostOne
  <2>5. CASE fence # NoFd
    <3>1. Lost = {}
        BY <1>1, <2>3, <2>5 DEF IInv, LossOnce
    <3>2. Lost' \subseteq {fence}
        BY <1>1, <2>1, <3>1 DEF Lost
    <3> QED BY <1>1, <1>2, <2>2, <3>2 DEF LossOnce, Lost, LosesAtMostOne
  <2> QED BY <2>4, <2>5
<1> QED BY <1>3, <1>4

LEMMA NextInv == IInv /\ [Next]_vars => IInv'
<1> SUFFICES ASSUME IInv, [Next]_vars PROVE Chain' /\ LossOnce'
    BY NextTyped DEF IInv
<1>1. CASE UNCHANGED <<fenceVars, handedOutBuffer, server, fence, toSend, lastFence>>
  <2>1. Chain'
      BY <1>1 DEF IInv, Chain, fenceVars
  <2>2. LossOnce'
      BY <1>1 DEF IInv, LossOnce, Lost, LosesAtMostOne, fenceVars
  <2> QED BY <2>1, <2>2
<1>2. ASSUME /\ server = "accept" /\ server' \in {"take", "ended"}
             /\ UNCHANGED <<fenceVars, handedOutBuffer, fence, toSend, lastFence>>
      PROVE  Chain' /\ LossOnce'
  <2>1. fence = NoFd
      BY <1>2 DEF IInv, Chain
  <2>2. toSend \notin Fence
      BY <2>1, FdAssumption, BacklogAssumption DEF IInv, Chain, Fence
  <2>3. Chain'
      BY <1>2, <2>1, <2>2 DEF IInv, Chain, fenceVars
  <2>4. LossOnce'
      BY <1>2 DEF IInv, LossOnce, Lost, LosesAtMostOne, fenceVars
  <2> QED BY <2>3, <2>4
<1>3. CASE Accept
    BY <1>2, <1>3 DEF Accept, presenterVars
<1>4. CASE AcceptFails
    BY <1>2, <1>4 DEF AcceptFails, presenterVars
<1>5. CASE \E p \in Presenters : Connect(p) \/ Leave(p)
    BY <1>1, <1>5 DEF Connect, Leave, serverVars
<1>6. CASE UNCHANGED vars
    BY <1>1, <1>6 DEF vars, serverVars, presenterVars
<1> QED BY <1>3, <1>4, <1>5, <1>6, PublishInv, TakeFenceInv, ChooseInv, SendInv,
           CloseInv DEF Next, Serving

LEMMA Invariance == Spec => []IInv
<1> QED BY InitInv, NextInv, PTL DEF Spec
-----------------------------------------------------------------------------
\* setFence() never closes the descriptor sendFd() is passing on, and whatever either
\* of them closes is open: takeFence() moves the fence, under its lock.
THEOREM OneOwnerAlways == Spec => []OneOwner
<1>1. IInv => OneOwner
    BY FdAssumption, BacklogAssumption
       DEF IInv, TypeOK, Chain, OneOwner, Fence
<1> QED BY <1>1, Invariance, PTL

\* However many frames and requests: one fence is lost at most, the one taken for the
\* request that got the dmabuf first.
THEOREM OneLoss == Spec => []LosesAtMostOne
<1>1. IInv => LosesAtMostOne
    BY DEF IInv, LossOnce
<1> QED BY <1>1, Invariance, PTL

\* Fences go out in the order of their frames, each to one presenter.
THEOREM Forward == Spec => []FencesForward
<1>1. IInv => FencesForward
    BY FdAssumption, BacklogAssumption
       DEF IInv, TypeOK, Chain, FencesForward, Fence
<1> QED BY <1>1, Invariance, PTL
=============================================================================
