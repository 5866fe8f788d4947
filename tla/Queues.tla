------------------------------- MODULE Queues -------------------------------
(* What the relay store and the nonces of a device do with their VecDeques. *)
EXTENDS Integers, Sequences, FiniteSets

(***************************************************************************)
(* VecDeque::retain: the entries of q at the positions in keep, in order.  *)
(* The k-th of them is the one with k positions of keep up to its own.     *)
(***************************************************************************)
Retain(q, keep) ==
    [k \in 1..Cardinality(keep) |->
        q[CHOOSE i \in keep : Cardinality({j \in keep : j <= i}) = k]]

=============================================================================
