----------------------------- MODULE RequestQueue -----------------------------
(***************************************************************************)
(* The queue of messages every layer keeps for the layers above it          *)
(* (queue.js): two FIFOs, the one for priority messages served first.       *)
(***************************************************************************)
EXTENDS Naturals, Sequences

EmptyQueue == [priority |-> <<>>, normal |-> <<>>]

Enqueue(q, m, priority) ==
  IF priority THEN [q EXCEPT !.priority = Append(@, m)]
              ELSE [q EXCEPT !.normal = Append(@, m)]

HasRequest(q) == q.priority # <<>> \/ q.normal # <<>>

(* The next message, for a queue that has one.                              *)
Peek(q) == IF q.priority # <<>> THEN Head(q.priority) ELSE Head(q.normal)

(* Faulty form of Dequeue: the queue is emptied.                             *)
DequeueAll(q) == EmptyQueue

Dequeue(q) ==
  IF q.priority # <<>> THEN [q EXCEPT !.priority = Tail(@)]
                       ELSE [q EXCEPT !.normal = Tail(@)]

(* Messages of one priority enqueued in turn, and the first n served.         *)
EnqueueAll(q, ms, priority) ==
  IF priority THEN [q EXCEPT !.priority = @ \o ms] ELSE [q EXCEPT !.normal = @ \o ms]

Foremost(q, n) == SubSeq(q.priority \o q.normal, 1, n)

WithoutForemost(q, n) ==
  LET later == IF n > Len(q.priority) THEN n - Len(q.priority) ELSE 0
  IN  [priority |-> SubSeq(q.priority, n + 1, Len(q.priority)),
       normal |-> SubSeq(q.normal, later + 1, Len(q.normal))]

Queued(q) == {q.priority[i] : i \in DOMAIN q.priority}
             \cup {q.normal[i] : i \in DOMAIN q.normal}

Queue(M) == [priority : Seq(M), normal : Seq(M)]
=============================================================================
