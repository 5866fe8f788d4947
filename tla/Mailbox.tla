------------------------------- MODULE Mailbox -------------------------------
(***************************************************************************)
(* What the gateway promises about delivery, whatever its locks, channels  *)
(* and queues do: a message that was posted is held for its recipient and  *)
(* announced to at most one connection of that device; a connection        *)
(* collects what is held once; and it writes only what was announced to it *)
(* or collected by it.  Anything announced may still be dropped, and a     *)
(* held message may be acknowledged or expire.                             *)
(***************************************************************************)
EXTENDS Integers

CONSTANTS
    Messages,   \* records with the device that is their recipient
    Conns,      \* connections
    DeviceOf    \* the device of a connection

VARIABLES
    held,       \* the messages held
    posts,      \* posts[m]: how often m was taken in
    notices,    \* notices[m]: how many of these are still to be announced
    fresh,      \* the connections that have not collected, nor given up
    feed,       \* feed[c][m]: how often c has m to write
    written     \* written[c][m]: how often c wrote m

mailbox == <<held, posts, notices, fresh, feed, written>>

For(d) == {m \in Messages : m.recipient = d}

\* Messages of device d that are held may go, by an ack or by expiry.
Kept(d) == {kept \in SUBSET held : held \ For(d) \subseteq kept}

Post(m) ==
    /\ posts' = [posts EXCEPT ![m] = @ + 1]
    /\ notices' = [notices EXCEPT ![m] = @ + 1]
    /\ \E kept \in Kept(m.recipient) : m \notin kept /\ held' = kept \cup {m}
    /\ UNCHANGED <<fresh, written, feed>>

Remove(d) ==
    /\ UNCHANGED <<posts, fresh, written, notices, feed>>
    /\ held' \in Kept(d)

Announce(m) ==
    /\ notices[m] > 0
    /\ UNCHANGED <<posts, fresh, written, held>>
    /\ notices' = [notices EXCEPT ![m] = @ - 1]
    /\ \/ UNCHANGED feed
       \/ \E c \in Conns :
            /\ DeviceOf[c] = m.recipient
            /\ feed' = [feed EXCEPT ![c][m] = @ + 1]

Collect(c) ==
    /\ c \in fresh
    /\ fresh' = fresh \ {c}
    /\ UNCHANGED <<posts, written, notices>>
    /\ held' \in Kept(DeviceOf[c])
    /\ feed' = [feed EXCEPT ![c] =
                  [m \in Messages |-> @[m] + IF m \in held' \cap For(DeviceOf[c]) THEN 1 ELSE 0]]

GiveUp(c) ==
    /\ c \in fresh
    /\ fresh' = fresh \ {c}
    /\ UNCHANGED <<posts, written, notices, held, feed>>

Write(c, m) ==
    /\ written' = [written EXCEPT ![c][m] = @ + 1]
    /\ feed[c][m] > 0
    /\ feed' = [feed EXCEPT ![c][m] = @ - 1]
    /\ UNCHANGED <<posts, fresh, notices, held>>

\* A full queue, a duplicate that is filtered out, a connection that ends.
Lose(c) ==
    /\ UNCHANGED <<posts, written, fresh, notices, held>>
    /\ \A m \in Messages : feed'[c][m] <= feed[c][m] /\ feed'[c][m] \in Nat
    /\ feed' = [feed EXCEPT ![c] = [m \in Messages |-> feed'[c][m]]]

MailboxInit ==
    /\ held = {}
    /\ posts = [m \in Messages |-> 0]
    /\ notices = posts
    /\ fresh = Conns
    /\ feed = [c \in Conns |-> posts]
    /\ written = feed

MailboxNext ==
    \/ \E m \in Messages :
        Post(m) \/ Announce(m) \/ Remove(m.recipient) \/ \E c \in Conns : Write(c, m)
    \/ \E c \in Conns : Collect(c) \/ GiveUp(c) \/ Lose(c)

MailboxSpec == MailboxInit /\ [][MailboxNext]_mailbox

-----------------------------------------------------------------------------
(* What follows from it *)

\* A connection never writes a message more than once beyond the times it was
\* posted: one live copy for each post, and one from its backlog.
AtMostOneExtraCopy ==
    \A c \in Conns, m \in Messages : written[c][m] <= posts[m] + 1

\* A message is written to connections of its recipient only.
OnlyToRecipient ==
    \A c \in Conns, m \in Messages : written[c][m] > 0 => m.recipient = DeviceOf[c]
==============================================================================
