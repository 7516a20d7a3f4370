------------------------------ MODULE MCGuestHeap -------------------------------
(* Constants for model checking GuestHeap. *)
EXTENDS GuestHeap

\* One stack size per thread.
StackSizes == [t \in Threads |-> 2]
================================================================================
