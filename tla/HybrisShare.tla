---------------------------- MODULE HybrisShare ----------------------------
(***************************************************************************)
(* A native buffer of libhybris that two processes share.  One of them     *)
(* creates it and hands its description out over a socket; the others      *)
(* restore the buffer from the description and draw into it.               *)
(*                                                                         *)
(* Three programs hand one out: tools/hybshare.c and tools/hybgl.c serve   *)
(* one client, wait until it says that it has drawn, and look whether its  *)
(* pattern is there; tools/hybprovider.c serves simulators one after the   *)
(* other and looks once a second.  The client of hybshare draws with the   *)
(* processor, that of hybgl with the GPU, which works on its own time; a   *)
(* simulator is a client of hybprovider (module EGLWindow).                *)
(***************************************************************************)
EXTENDS Integers, FiniteSets

CONSTANTS
    Programs,       \* of "share", "gl", "provider"
    Clients,        \* processes or windows that want the buffer
    Nobody          \* none of them

ASSUME ProgramsAssumption == Programs \subseteq {"share", "gl", "provider"}
ASSUME NobodyAssumption == Nobody \notin Clients

VARIABLES
    program,        \* the program that hands out the buffer
    server,         \* how far it is
    accepted,       \* the client whose connection it holds, or Nobody
    clients,        \* how far each client is
    answered,       \* did a client acknowledge?
    gpu,            \* has the GPU got work left to do?
    buffer,         \* what the memory holds of the pattern: "none", "part", "whole"
    verdict         \* what the server says of it

shareVars == <<program, server, accepted, clients, answered, gpu, buffer, verdict>>

ShareInit ==
    /\ program \in Programs
    /\ server = "start" /\ accepted = Nobody
    /\ clients = [c \in Clients |-> "out"]
    /\ answered = FALSE /\ gpu = FALSE /\ buffer = "none" /\ verdict = "none"
-----------------------------------------------------------------------------
(***************************************************************************)
(* Handing the buffer out.                                                 *)
(***************************************************************************)
\* run_server of hybshare, up to accept().  Before it the EGL entry points are loaded,
\* the buffer is created and its description is checked to fit; any of it may fail.
Listen ==
    /\ server = "start" /\ program # "provider"
    /\ server' \in {"listening", "failed"}
    /\ UNCHANGED <<program, accepted, clients, answered, gpu, buffer, verdict>>

\* The same in main of hybprovider.
ProviderListen ==
    /\ server = "start" /\ program = "provider"
    /\ server' \in {"listening", "failed"}
    /\ UNCHANGED <<program, accepted, clients, answered, gpu, buffer, verdict>>

\* accept() and send_desc() of hybshare and hybgl: one client only.
SendDesc(c) ==
    /\ server = "listening" /\ program # "provider" /\ clients[c] = "connected"
    /\ \/ /\ server' = "sent" /\ accepted' = c
          /\ clients' = [clients EXCEPT ![c] = "described"]
       \/ server' = "failed" /\ UNCHANGED <<accepted, clients>>
    /\ UNCHANGED <<program, answered, gpu, buffer, verdict>>

\* One round of the loop of hybprovider that finds a simulator waiting: the connection
\* of the one before is closed, which that one never looks at.
ProviderAccept(c) ==
    /\ server = "listening" /\ program = "provider" /\ clients[c] = "connected"
    /\ accepted' = c
    /\ clients' = [clients EXCEPT ![c] = "described"]
    /\ UNCHANGED <<program, server, answered, gpu, buffer, verdict>>

\* What the pattern looks like to the server.
Look == IF buffer = "whole" THEN "shared" ELSE "apart"

Gone(c) == clients[c] \in {"failed", "closed"}

\* The end of run_server of hybshare.  It does not look whether a client answered or
\* hung up.  The memory may refuse to be locked.
ShareLook ==
    /\ server = "sent" /\ program = "share"
    /\ answered \/ Gone(accepted)
    /\ \/ server' = "ended" /\ verdict' = Look
       \/ server' = "failed" /\ UNCHANGED verdict
    /\ accepted' = Nobody
    /\ UNCHANGED <<program, clients, answered, gpu, buffer>>

\* That of hybgl: a client that hung up is no answer.
GlLook ==
    /\ server = "sent" /\ program = "gl"
    /\ \/ answered /\ server' = "ended" /\ verdict' = Look
       \/ (answered \/ Gone(accepted)) /\ server' = "failed" /\ UNCHANGED verdict
    /\ accepted' = Nobody
    /\ UNCHANGED <<program, clients, answered, gpu, buffer>>

\* hybprovider looks at the centre and the corner whenever its second is over.
ProviderLook ==
    /\ server = "listening" /\ program = "provider"
    /\ verdict' = Look
    /\ UNCHANGED <<program, server, accepted, clients, answered, gpu, buffer>>

\* SIGINT.  Those that wait for a description see the connection closed.
ProviderEnds ==
    /\ server = "listening" /\ program = "provider"
    /\ server' = "ended" /\ accepted' = Nobody
    /\ UNCHANGED <<program, clients, answered, gpu, buffer, verdict>>
-----------------------------------------------------------------------------
(***************************************************************************)
(* Restoring it and drawing.                                               *)
(***************************************************************************)
Becomes(c, place) == clients' = [clients EXCEPT ![c] = place]

\* socket() and connect() of run_client, on whose success the queue of the listening
\* socket decides.
ConnectClient(c) ==
    /\ clients[c] = "out" /\ program # "provider" /\ server # "start"
    /\ Becomes(c, IF server \in {"listening", "sent"} THEN "connected" ELSE "failed")
    /\ UNCHANGED <<program, server, accepted, answered, gpu, buffer, verdict>>

\* recv_desc() and the remote buffer, which the driver may refuse to make or to lock.
Restore(c) ==
    /\ clients[c] = "described" /\ program # "provider"
    /\ \E place \in {"mapped", "failed"} : Becomes(c, place)
    /\ UNCHANGED <<program, server, accepted, answered, gpu, buffer, verdict>>

\* The server ended without having accepted this client.
HungUp(c) ==
    /\ clients[c] = "connected" /\ program # "provider" /\ server \in {"ended", "failed"}
    /\ Becomes(c, "failed")
    /\ UNCHANGED <<program, server, accepted, answered, gpu, buffer, verdict>>

\* The loop of hybshare that writes the pattern.
Paint(c) ==
    /\ clients[c] = "mapped" /\ program = "share"
    /\ buffer' = IF buffer = "none" THEN "part" ELSE "whole"
    /\ Becomes(c, IF buffer = "none" THEN "mapped" ELSE "drawn")
    /\ UNCHANGED <<program, server, accepted, answered, gpu, verdict>>

\* make_context of hybgl, the image and the framebuffer around it.
MakeContext(c) ==
    /\ clients[c] = "mapped" /\ program = "gl"
    /\ \E place \in {"attached", "failed"} : Becomes(c, place)
    /\ UNCHANGED <<program, server, accepted, answered, gpu, buffer, verdict>>

\* Clearing twice, which the GPU is told.
Clear(c) ==
    /\ clients[c] = "attached"
    /\ gpu' = TRUE
    /\ Becomes(c, "finishing")
    /\ UNCHANGED <<program, server, accepted, answered, buffer, verdict>>

GpuDraws ==
    /\ gpu
    /\ buffer' = IF buffer = "none" THEN "part" ELSE "whole"
    /\ gpu' = (buffer = "none")
    /\ UNCHANGED <<program, server, accepted, clients, answered, verdict>>

\* Faulty: glFlush, which does not wait.
FinishAtOnce(c) ==
    /\ clients[c] = "finishing"
    /\ Becomes(c, "drawn")
    /\ UNCHANGED <<program, server, accepted, answered, gpu, buffer, verdict>>

\* glFinish
Finish(c) ==
    /\ clients[c] = "finishing" /\ ~gpu
    /\ Becomes(c, "drawn")
    /\ UNCHANGED <<program, server, accepted, answered, gpu, buffer, verdict>>

\* The byte that says so; a second later the client ends.
Acknowledge(c) ==
    /\ clients[c] = "drawn"
    /\ answered' = TRUE
    /\ Becomes(c, "closed")
    /\ UNCHANGED <<program, server, accepted, gpu, buffer, verdict>>

ShareServer ==
    \/ Listen \/ ProviderListen \/ ShareLook \/ GlLook \/ ProviderLook \/ ProviderEnds
    \/ \E c \in Clients : SendDesc(c) \/ ProviderAccept(c)

ShareClient(c) ==
    \/ ConnectClient(c) \/ Restore(c) \/ HungUp(c) \/ Paint(c) \/ MakeContext(c)
    \/ Clear(c) \/ Finish(c) \/ Acknowledge(c)

ShareNext == ShareServer \/ GpuDraws \/ \E c \in Clients : ShareClient(c)
-----------------------------------------------------------------------------
\* "ERFOLG" (hybshare.c:187, hybgl.c:252) or "Muster stimmt nicht" is said after the client
\* has finished drawing; hybshare says the latter also of a client that failed.
VerdictIsRight ==
    (server = "ended" /\ program # "provider") =>
        IF answered THEN verdict = "shared"
        ELSE program = "share" /\ verdict = "apart"
=============================================================================
