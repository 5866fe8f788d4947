---------------------------- MODULE MCRequestAuth ----------------------------
(* Three requests signed for the middle of the first six ticks and one for   *)
(* their start, which is also sent with a wrong signature; as in auth.rs     *)
(* NONCE_TTL is MAX_CLOCK_SKEW_MS and spans more than a rate window.  The    *)
(* clocks run until no timestamp is in time.                                 *)
EXTENDS RequestAuth, TLC

CONSTANTS d1, n1, n2, n3, n4

Request(n, timestamp) == [device |-> d1, nonce |-> n, timestamp |-> timestamp, sound |-> TRUE]

MCRequests ==
    {Request(n1, 0), Request(n2, 3), Request(n3, 3), Request(n4, 3),
     [Request(n1, 0) EXCEPT !.sound = FALSE]}

Symmetry == Permutations(Handlers) \cup Permutations({n2, n3, n4})
=============================================================================
