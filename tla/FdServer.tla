------------------------------ MODULE FdServer ------------------------------
(***************************************************************************)
(* FdServer of osg/GraphicsWindowEGL.cpp: a thread of the simulator hands  *)
(* the dmabuf it renders into, and the fence of the newest frame, to the   *)
(* presenters that ask for them over a Unix socket.  The render thread     *)
(* brings a new fence with every frame (publishToShm); fenceLock makes     *)
(* setFence() and takeFence() one step each.                               *)
(*                                                                         *)
(* A fence is the number of its frame; `open' are the fence descriptors    *)
(* the simulator has open.  A presenter is one run of the presenter        *)
(* program: it asks for one descriptor at a time, and may go at any time.  *)
(* Writing to a presenter that is gone raises SIGPIPE, which the code does *)
(* not block: where nothing else does, the simulator ends (server =        *)
(* "killed").                                                              *)
(***************************************************************************)
EXTENDS Naturals, Sequences

CONSTANTS
    Presenters,
    Backlog,        \* of listen()
    MaxFence,       \* bound: frames rendered
    NoFd,           \* -1
    Payload         \* payloadFd, the dmabuf

ASSUME BacklogAssumption == Backlog \in Nat \ {0} /\ MaxFence \in Nat
ASSUME FdAssumption ==
    NoFd \notin Nat \union Presenters /\ Payload \notin Nat /\ NoFd # Payload

VARIABLES
    fenceFd,            \* the fence kept for the next request
    frame,              \* the newest frame
    open,               \* fence descriptors open in this process
    handedOutBuffer,
    server,             \* where the thread is: accept, takeFence, ...
    client,             \* whose connection it serves
    fence, toSend,      \* locals of sendFd()
    backlog,            \* connections not yet accepted, oldest first
    presenter,          \* per presenter: "idle", "waiting" or "gone"
    hasBuffer,          \* the presenters that received the dmabuf
    answered,           \* the presenters that received anything
    lastFence           \* the newest fence received by anyone

fenceVars == <<fenceFd, frame, open>>
serverVars == <<handedOutBuffer, server, client, fence, toSend>>
presenterVars == <<presenter, hasBuffer, answered, lastFence>>
vars == <<fenceVars, serverVars, backlog, presenterVars>>

Fence == 1 .. MaxFence
Nobody == NoFd

\* start() may fail on the way; its caller does not ask, and goes on without a thread.
Init ==
    /\ fenceFd = NoFd /\ frame = 0 /\ open = {}
    /\ handedOutBuffer = FALSE
    /\ server \in {"accept", "none"}
    /\ client = Nobody /\ fence = NoFd /\ toSend = NoFd
    /\ backlog = << >>
    /\ presenter = [p \in Presenters |-> "idle"]
    /\ hasBuffer = {} /\ answered = {} /\ lastFence = 0
-----------------------------------------------------------------------------
\* Faulty: the fence before is not closed.
SetFenceOver(fd) ==
    /\ fenceFd' = fd
    /\ open' = IF fd = NoFd THEN open ELSE open \union {fd}

\* setFence(): keeps the newest fence and closes the one before.
SetFence(fd) ==
    /\ fenceFd' = fd
    /\ open' = (open \ {fenceFd}) \union ({fd} \ {NoFd})

\* The render thread publishes a frame.  The driver may have no descriptor for its
\* fence, and then -1 takes the place of the fence before; or it may have no fence,
\* and then the fence before stays.
Publish ==
    /\ frame < MaxFence /\ server # "killed"
    /\ frame' = frame + 1
    /\ SetFence(frame') \/ SetFence(NoFd) \/ UNCHANGED <<fenceFd, open>>
    /\ UNCHANGED <<serverVars, backlog, presenterVars>>
-----------------------------------------------------------------------------
(***************************************************************************)
(* The server thread.                                                      *)
(***************************************************************************)
Accept ==
    /\ server = "accept" /\ backlog # << >>
    /\ client' = Head(backlog)
    /\ backlog' = Tail(backlog)
    /\ server' = "take"
    /\ UNCHANGED <<fenceVars, handedOutBuffer, fence, toSend, presenterVars>>

\* Any error of accept() but EINTR ends the loop, and nobody starts another.
AcceptFails ==
    /\ server = "accept" /\ server' = "ended"
    /\ UNCHANGED <<fenceVars, handedOutBuffer, client, fence, toSend, backlog,
                   presenterVars>>

\* Faulty: takeFence() leaves the fence where it is.
TakeFenceKept ==
    /\ server = "take"
    /\ fence' = fenceFd
    /\ server' = "choose"
    /\ UNCHANGED <<fenceVars, handedOutBuffer, client, toSend, backlog, presenterVars>>

\* Faulty: it waits for a fence.
TakeFenceWaiting ==
    /\ server = "take" /\ fenceFd # NoFd
    /\ fence' = fenceFd
    /\ fenceFd' = NoFd
    /\ server' = "choose"
    /\ UNCHANGED <<frame, open, handedOutBuffer, client, toSend, backlog, presenterVars>>

TakeFence ==
    /\ server = "take"
    /\ fence' = fenceFd
    /\ fenceFd' = NoFd
    /\ server' = "choose"
    /\ UNCHANGED <<frame, open, handedOutBuffer, client, toSend, backlog, presenterVars>>

\* Faulty: it does not ask whether there is a fence.
ChooseAnyFence ==
    /\ server = "choose"
    /\ IF handedOutBuffer
       THEN toSend' = fence /\ UNCHANGED handedOutBuffer
       ELSE toSend' = Payload /\ handedOutBuffer' = TRUE
    /\ server' = "send"
    /\ UNCHANGED <<fenceVars, client, fence, backlog, presenterVars>>

\* The first request gets the dmabuf, whichever fence was taken for it; later ones
\* get the fence, or the dmabuf once more when there is none.
Choose ==
    /\ server = "choose"
    /\ IF handedOutBuffer /\ fence # NoFd
       THEN toSend' = fence /\ UNCHANGED handedOutBuffer
       ELSE toSend' = Payload /\ handedOutBuffer' = TRUE
    /\ server' = "send"
    /\ UNCHANGED <<fenceVars, client, fence, backlog, presenterVars>>

\* sendmsg(): a failure is logged, and the loop goes on as after a success.
Send ==
    /\ server = "send"
    /\ \/ /\ presenter[client] = "gone" /\ server' \in {"close", "killed"}
          /\ UNCHANGED presenterVars
       \/ /\ presenter[client] # "gone" /\ server' = "close"
          /\ presenter' = [presenter EXCEPT ![client] = "idle"]
          /\ answered' = answered \union {client}
          /\ \/ toSend = Payload /\ hasBuffer' = hasBuffer \union {client}
                                /\ UNCHANGED lastFence
             \/ toSend # Payload /\ lastFence' = toSend /\ UNCHANGED hasBuffer
    /\ UNCHANGED <<fenceVars, handedOutBuffer, client, fence, toSend, backlog>>

\* Closes the fence if it was the one sent, then the connection.
Close ==
    /\ server = "close"
    /\ open' = IF toSend = fence THEN open \ {fence} ELSE open
    /\ client' = Nobody /\ fence' = NoFd /\ toSend' = NoFd
    /\ server' = "accept"
    /\ UNCHANGED <<fenceFd, frame, handedOutBuffer, backlog, presenterVars>>
-----------------------------------------------------------------------------
\* The presenters.
Connect(p) ==
    /\ presenter[p] = "idle" /\ Len(backlog) < Backlog
    /\ server \notin {"none", "killed"}
    /\ presenter' = [presenter EXCEPT ![p] = "waiting"]
    /\ backlog' = Append(backlog, p)
    /\ UNCHANGED <<fenceVars, serverVars, hasBuffer, answered, lastFence>>

Leave(p) ==
    /\ presenter[p] # "gone"
    /\ presenter' = [presenter EXCEPT ![p] = "gone"]
    /\ UNCHANGED <<fenceVars, serverVars, backlog, hasBuffer, answered, lastFence>>
-----------------------------------------------------------------------------
Serving == Accept \/ TakeFence \/ Choose \/ Send \/ Close

Next == Publish \/ Serving \/ AcceptFails \/ (\E p \in Presenters : Connect(p) \/ Leave(p))

\* The server thread runs; nobody has to render, ask or leave, nor accept() to fail.
Spec == Init /\ [][Next]_vars
FairSpec == Spec /\ WF_vars(Serving)
-----------------------------------------------------------------------------
TypeOK ==
    /\ fenceFd \in Fence \union {NoFd} /\ frame \in 0 .. MaxFence
    /\ open \subseteq Fence
    /\ handedOutBuffer \in BOOLEAN
    /\ server \in {"accept", "take", "choose", "send", "close", "ended", "killed",
                   "none"}
    /\ client \in Presenters \union {Nobody}
    /\ fence \in Fence \union {NoFd}
    /\ toSend \in Fence \union {NoFd, Payload}
    /\ server \in {"take", "choose", "send", "close"} => client # Nobody
    /\ server \in {"send", "close"} => toSend # NoFd
    /\ backlog \in Seq(Presenters)
    /\ presenter \in [Presenters -> {"idle", "waiting", "gone"}]
    /\ hasBuffer \subseteq Presenters /\ answered \subseteq Presenters
    /\ lastFence \in 0 .. MaxFence

(***************************************************************************)
(* A descriptor has one owner: the fence kept and the fence in the server's*)
(* hands are two, and both are open.  So setFence() can close neither what *)
(* is being sent nor a number the kernel has given to somebody else since. *)
(***************************************************************************)
OneOwner ==
    /\ fenceFd # NoFd => fenceFd \in open
    /\ fence # NoFd => fence \in open /\ fence # fenceFd

\* Descriptors do not pile up with the frames or the requests: over all of its
\* life the simulator loses one at most, the fence taken for the first request.
LosesAtMostOne == \A f, g \in open \ {fenceFd, fence} : f = g

\* No fence goes out twice, or after a newer one went out to anybody: who waits for
\* the fence he was given waits for the newest frame given away so far.
FencesForward == server = "send" /\ toSend # Payload => toSend > lastFence

\* A presenter that asks and stays is answered, if the thread lives.
Answered ==
    \A p \in Presenters :
        presenter[p] = "waiting" ~>
            presenter[p] # "waiting" \/ server \in {"ended", "killed"}

\* The comment over FdServer: the descriptor of the dmabuf goes to each presenter
\* once, and sendFd's: the first request gets it, the later ones the fence.
BufferPerPresenter == answered \subseteq hasBuffer
=============================================================================
