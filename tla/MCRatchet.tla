------------------------------ MODULE MCRatchet ------------------------------
(* A ratchet of five counters: two jumps of the receiver exceed MAX_SKIP.   *)
EXTENDS Ratchet

=============================================================================
