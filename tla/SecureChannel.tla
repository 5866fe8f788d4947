---------------------------- MODULE SecureChannel ----------------------------
(***************************************************************************)
(* What one direction of a ratcheted conversation promises the receiving   *)
(* application, whatever the network does: every counter carries at most   *)
(* one body, a body reaches the application under the counter it was sent  *)
(* with, and at most once in a history of the receiver.  Restoring the     *)
(* receiver's last checkpoint restores the history it was taken in.        *)
(***************************************************************************)
EXTENDS Sequences

CONSTANTS Counters, Bodies, NoCheckpoint

VARIABLES
    sent,           \* the packets sent: [counter, body]
    delivered,      \* delivered[c]: the bodies given to the application under c
    checkpoint      \* delivered at the last save, or NoCheckpoint

vars == <<sent, delivered, checkpoint>>

Init ==
    /\ sent = {}
    /\ delivered = [c \in Counters |-> <<>>]
    /\ checkpoint = NoCheckpoint

Send(c, b) ==
    /\ \A p \in sent : p.counter # c
    /\ sent' = sent \cup {[counter |-> c, body |-> b]}
    /\ UNCHANGED <<delivered, checkpoint>>

Deliver(p) ==
    /\ delivered[p.counter] = <<>>
    /\ delivered' = [delivered EXCEPT ![p.counter] = <<p.body>>]
    /\ UNCHANGED <<sent, checkpoint>>

Save ==
    /\ checkpoint' = delivered
    /\ UNCHANGED <<sent, delivered>>

Restore ==
    /\ checkpoint # NoCheckpoint
    /\ delivered' = checkpoint
    /\ UNCHANGED <<sent, checkpoint>>

Next ==
    \/ \E p \in sent : Deliver(p)
    \/ Save
    \/ Restore
    \/ \E c \in Counters, b \in Bodies : Send(c, b)

Spec == Init /\ [][Next]_vars
=============================================================================
