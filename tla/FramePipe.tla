------------------------------ MODULE FramePipe ------------------------------
(***************************************************************************)
(* What the double-buffered renderer promises, without its threads: frames *)
(* come out in the order they were put in, none twice and none missing     *)
(* while the pipe is open, and at most Capacity of them are inside.  Only  *)
(* a pipe that is closed (threading is being stopped) may drop frames.     *)
(***************************************************************************)
EXTENDS Naturals, Sequences

CONSTANT Capacity

VARIABLES
    inside,     \* the frames put in and not yet out, oldest first
    newest,     \* the newest frame ever put in
    shown,      \* the newest frame that came out
    open        \* may frames be dropped?

pipeVars == <<inside, newest, shown, open>>

Init == inside = << >> /\ newest = 0 /\ shown = 0 /\ open = TRUE

Put == /\ Len(inside) < Capacity
       /\ newest' = newest + 1
       /\ inside' = Append(inside, newest')
       /\ UNCHANGED <<shown, open>>

Get == /\ inside # << >>
       /\ shown' = Head(inside)
       /\ inside' = Tail(inside)
       /\ UNCHANGED <<newest, open>>

\* A frame put in and taken out in one go, by a thread that does both.
Through == /\ inside = << >>
           /\ newest' = newest + 1
           /\ shown' = newest'
           /\ UNCHANGED <<inside, open>>

Close == open /\ open' = FALSE /\ UNCHANGED <<inside, newest, shown>>

\* Reopening starts empty: whatever was still inside is dropped with it.
Reopen == ~open /\ open' = TRUE /\ inside' = << >> /\ UNCHANGED <<newest, shown>>

\* The oldest frame is given up; its SceneView is not seen again until Reopen.
Drop == /\ ~open
        /\ inside # << >>
        /\ inside' = Tail(inside)
        /\ UNCHANGED <<newest, shown, open>>

Next == Put \/ Get \/ Through \/ Close \/ Reopen \/ Drop

Spec == Init /\ [][Next]_pipeVars
=============================================================================
