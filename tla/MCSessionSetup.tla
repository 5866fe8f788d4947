--------------------------- MODULE MCSessionSetup ---------------------------
(* Three key ids and three generated keys: the grace set of one fills, an    *)
(* init outlives its signed prekey, two inits ask for the same one-time      *)
(* prekey, and ids come back.  One bundle or init may be altered with        *)
(* effect.  Ephemeral keys are interchangeable, and so are the ids that are  *)
(* not the first.                                                            *)
EXTENDS SessionSetup, TLC

Symmetry == Permutations(Ephemerals) \cup Permutations(KeyIds \ {FirstKeyId})
=============================================================================
