------------------------- MODULE MCEncryptedJournal -------------------------
(***************************************************************************)
(* One caller of save, two plaintexts, two generations and a crash.        *)
(***************************************************************************)
EXTENDS EncryptedJournal

CONSTANTS w1, p1, p2

=============================================================================
