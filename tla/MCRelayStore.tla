---------------------------- MODULE MCRelayStore ----------------------------
(***************************************************************************)
(* A small relay: one mailbox close to its own limit, a second one that    *)
(* shares the global limits, an identifier used by two senders and for two *)
(* recipients, messages of different sizes, one dated ahead of the clock   *)
(* and one that valid_message refuses.                                     *)
(***************************************************************************)
EXTENDS RelayStore

CONSTANTS alice, bob, i1, i2, i3

Msg(id, from, to, size, sentAt) ==
    [id |-> id, sender |-> from, recipient |-> to, size |-> size,
     sentAt |-> sentAt, wellFormed |-> TRUE]

MCMessages ==
    { Msg(i1, alice, bob, 1, 0),
      Msg(i1, bob, bob, 2, 1),
      Msg(i2, alice, bob, 2, 2),
      Msg(i3, alice, bob, 1, 1),
      Msg(i1, bob, alice, 2, 0),
      [Msg(i2, bob, alice, 1, 1) EXCEPT !.wellFormed = FALSE] }

=============================================================================
