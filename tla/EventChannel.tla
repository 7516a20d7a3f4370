----------------------------- MODULE EventChannel -----------------------------
(***************************************************************************)
(* What EeScheduler promises the host threads that call postEvent(): each  *)
(* event is handled once, and events are handled in the order in which     *)
(* they were posted.                                                       *)
(***************************************************************************)
EXTENDS Sequences

CONSTANT Events

VARIABLE queue  \* events that were posted and not handled yet, oldest first

Init == queue = <<>>

Post(event) == queue' = Append(queue, event)

Handle == queue # <<>> /\ queue' = Tail(queue)

Next == Handle \/ \E event \in Events : Post(event)

Spec == Init /\ [][Next]_queue

===============================================================================
