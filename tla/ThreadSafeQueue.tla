--------------------------- MODULE ThreadSafeQueue ---------------------------
(***************************************************************************)
(* Renderer::ThreadSafeQueue of osg/Renderer.cpp: the blocking queue that  *)
(* hands SceneViews between the cull and the draw thread.  Every method    *)
(* holds _mutex from its first to its last statement, so one method call   *)
(* is one step; only _cond.wait gives the mutex up.  A queue is a value:   *)
(*   items     _queue, front first                                         *)
(*   released  _isReleased                                                 *)
(*   waiting   the threads asleep in _cond.wait                            *)
(* The operators below give the queue after a call, and the module that    *)
(* owns the queue variable makes the step of it.                           *)
(***************************************************************************)
EXTENDS Naturals, Sequences

\* The queues over the items S and the threads T.
QueueOf(S, T) == [items : Seq(S), released : BOOLEAN, waiting : SUBSET T]

\* The constructor.
NewQueue == [items |-> << >>, released |-> FALSE, waiting |-> {}]

\* Faulty: a release() without the broadcast.
ReleaseSilently(q) == [q EXCEPT !.released = TRUE]

\* release(): whoever sleeps, or comes later, may go on without an item.
Release(q) == [q EXCEPT !.released = TRUE, !.waiting = {}]

\* Faulty: a reset() that leaves the items in.
ResetFlagOnly(q) == [q EXCEPT !.released = FALSE]

\* reset(): empties the queue; it wakes nobody.
Reset(q) == [items |-> << >>, released |-> FALSE, waiting |-> q.waiting]

\* Faulty: push_front instead of push_back.
AddInFront(q, sv) == [items |-> <<sv>> \o q.items, released |-> TRUE, waiting |-> {}]

\* Faulty: an add() without the broadcast.
AddSilently(q, sv) ==
    [items |-> Append(q.items, sv), released |-> TRUE, waiting |-> q.waiting]

\* add(sv)
Add(q, sv) == [items |-> Append(q.items, sv), released |-> TRUE, waiting |-> {}]

(***************************************************************************)
(* takeFront(), by the three ways round its loop.  A thread asleep takes   *)
(* none of them until it is woken.                                         *)
(***************************************************************************)
CanTake(q, t) == t \notin q.waiting /\ q.released /\ q.items # << >>
GivesNull(q, t) == t \notin q.waiting /\ q.released /\ q.items = << >>
MustWait(q, t) == t \notin q.waiting /\ ~q.released

\* The queue after a takeFront that returned Head(q.items): the last item out
\* puts the release back.
Taken(q) == [q EXCEPT !.items = Tail(@), !.released = Tail(q.items) # << >>]

\* The queue after _cond.wait put t to sleep, and after t woke up unbidden.
Asleep(q, t) == [q EXCEPT !.waiting = @ \union {t}]
Awake(q, t) == [q EXCEPT !.waiting = @ \ {t}]

\* The items of a queue as a set.
Items(q) == {q.items[i] : i \in 1 .. Len(q.items)}

\* No item is in the queue twice.
Distinct(q) == \A i, j \in 1 .. Len(q.items) : q.items[i] = q.items[j] => i = j
=============================================================================
