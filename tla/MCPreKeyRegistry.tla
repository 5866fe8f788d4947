-------------------------- MODULE MCPreKeyRegistry --------------------------
(***************************************************************************)
(* Bob publishes two generations, of which the second may offer again a    *)
(* key of the first; alice publishes one, and one publication does not     *)
(* validate.  Both devices claim, also their own keys.                     *)
(***************************************************************************)
EXTENDS PreKeyRegistry, TLC

CONSTANTS alice, bob, k1, k2, x1, x2, x3, r0, r1, r2

Pub(device, generation, issuedAt, expiresAt, opks) ==
    [device |-> device, generation |-> generation, issuedAt |-> issuedAt,
     expiresAt |-> expiresAt, opks |-> opks, authentic |-> TRUE]

MCPublications ==
    { Pub(bob, 1, 0, 2, (k1 :> x1) @@ (k2 :> x2)),
      Pub(bob, 2, 1, 3, (k1 :> x1)),
      Pub(bob, 2, 1, 2, (k1 :> x3)),
      Pub(alice, 1, 0, 2, (k2 :> x3)),
      [Pub(bob, 3, 0, 1, (k1 :> x3)) EXCEPT !.authentic = FALSE] }

=============================================================================
