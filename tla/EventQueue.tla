----------------------------- MODULE EventQueue -----------------------------
(***************************************************************************)
(* What the ring buffer promises the two sides that share it: a bounded    *)
(* first-in first-out queue.  The producer never waits, an event for which *)
(* there is no room is lost, and no event in the queue is altered,         *)
(* overtaken or taken twice.                                               *)
(***************************************************************************)
EXTENDS Naturals, Sequences

CONSTANTS Events, Capacity

VARIABLE queue

Init == queue = <<>>

\* Some event of Events is appended; it is read off the new queue, so that
\* Events need not be enumerated.
Put == /\ Len(queue) < Capacity
       /\ Len(queue') = Len(queue) + 1
       /\ LET e == queue'[Len(queue) + 1]
          IN  e \in Events /\ queue' = Append(queue, e)

Get == queue # <<>> /\ queue' = Tail(queue)

Spec == Init /\ [][Put \/ Get]_queue
=============================================================================
