-------------------------- MODULE MCDurableReceiver --------------------------
(* Two saves may overlap; two packets, the first of which may be late; two   *)
(* generations, crashes and a corrupted file.                                *)
EXTENDS DurableReceiver, TLC

MCPayloads == R!Snapshots

Symmetry == Permutations(Writers)
=============================================================================
