------------------------------- MODULE QueueOps --------------------------------
(***************************************************************************)
(* Two operators on the queues of the kernel, defined by counting instead  *)
(* of recursion so that their properties can be proved (QueueOps_proofs).  *)
(***************************************************************************)
EXTENDS Integers, Sequences, FiniteSets, SequencesExt

\* The elements of a finite set of integers in increasing order (std::sort on
\* a vector of thread ids).
InOrder(S) ==
    [k \in 1 .. Cardinality(S) |-> CHOOSE x \in S : Cardinality({y \in S : y <= x}) = k]

\* The elements of the sequence s that are in S, in the order of s.
Filter(s, S) ==
    LET places == InOrder({i \in DOMAIN s : s[i] \in S})
    IN  [k \in DOMAIN places |-> s[places[k]]]
================================================================================
