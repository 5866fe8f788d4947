----------------------------- MODULE MCGateway ------------------------------
(***************************************************************************)
(* Bob's device reconnects while messages for it are being pushed.  The    *)
(* runs choose how many connections, requests and messages take part.      *)
(***************************************************************************)
EXTENDS Gateway

CONSTANTS alice, bob, i1, i2, c1, c2, r1

Msg(id, from, to) ==
    [id |-> id, sender |-> from, recipient |-> to, size |-> 1,
     sentAt |-> 0, wellFormed |-> TRUE]

m1 == Msg(i1, alice, bob)
m2 == Msg(i2, bob, bob)

OneMessage  == {m1}
TwoSenders  == {m1, m2}

MCDeviceOf == [c \in Conns |-> bob]

=============================================================================
