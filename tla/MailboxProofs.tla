---------------------------- MODULE MailboxProofs ----------------------------
(***************************************************************************)
(* What the mailbox's promise means for a connection, for any number of    *)
(* messages, posts and connections.  GatewayProofs shows that the gateway  *)
(* implements Mailbox, and inherits both theorems there.                   *)
(***************************************************************************)
EXTENDS Mailbox, TLAPS

Types ==
    /\ posts \in [Messages -> Nat] /\ notices \in [Messages -> Nat]
    /\ fresh \subseteq Conns
    /\ feed \in [Conns -> [Messages -> Nat]]
    /\ written \in [Conns -> [Messages -> Nat]]

Backlog(c) == IF c \in fresh THEN 0 ELSE 1

\* Every copy a connection wrote or has to write comes from a notice that is
\* spent, or is the one of its backlog.
Balance ==
    \A c \in Conns, m \in Messages :
        written[c][m] + feed[c][m] + notices[m] <= posts[m] + Backlog(c)

Addressed ==
    \A c \in Conns, m \in Messages :
        written[c][m] > 0 \/ feed[c][m] > 0 => m.recipient = DeviceOf[c]

MailboxInv == Types /\ Balance /\ Addressed

-----------------------------------------------------------------------------
LEMMA InitInv == MailboxInit => MailboxInv
BY DEF MailboxInit, MailboxInv, Types, Balance, Addressed, Backlog

LEMMA PostInv ==
    ASSUME MailboxInv, NEW m \in Messages, Post(m)
    PROVE  MailboxInv'
<1>1. Types'
  BY DEF MailboxInv, Types, Post
<1>2. Balance'
  <2> SUFFICES ASSUME NEW c \in Conns, NEW n \in Messages
               PROVE  (written[c][n] + feed[c][n] + notices[n] <= posts[n] + Backlog(c))'
    BY DEF Balance
  <2>1. written[c][n] + feed[c][n] + notices[n] <= posts[n] + Backlog(c)
    BY DEF MailboxInv, Balance
  <2>2. notices'[n] - notices[n] = posts'[n] - posts[n]
    BY DEF MailboxInv, Types, Post
  <2> QED
    BY <1>1, <2>1, <2>2 DEF MailboxInv, Types, Post, Backlog
<1>3. Addressed'
  BY DEF MailboxInv, Addressed, Post
<1> QED
  BY <1>1, <1>2, <1>3 DEF MailboxInv

LEMMA AnnounceInv ==
    ASSUME MailboxInv, NEW m \in Messages, Announce(m)
    PROVE  MailboxInv'
<1>1. CASE UNCHANGED feed
  BY <1>1 DEF MailboxInv, Types, Balance, Addressed, Backlog, Announce
<1>2. ASSUME NEW c \in Conns, DeviceOf[c] = m.recipient,
             feed' = [feed EXCEPT ![c][m] = @ + 1]
      PROVE  MailboxInv'
  <2>1. Types'
    BY <1>2 DEF MailboxInv, Types, Announce
  <2>2. Balance'
    <3> SUFFICES ASSUME NEW b \in Conns, NEW n \in Messages
                 PROVE  (written[b][n] + feed[b][n] + notices[n] <= posts[n] + Backlog(b))'
      BY DEF Balance
    <3>1. written[b][n] + feed[b][n] + notices[n] <= posts[n] + Backlog(b)
      BY DEF MailboxInv, Balance
    <3>2. feed'[b][n] = IF b = c /\ n = m THEN feed[b][n] + 1 ELSE feed[b][n]
      BY <1>2 DEF MailboxInv, Types
    <3>3. notices'[n] = IF n = m THEN notices[n] - 1 ELSE notices[n]
      BY DEF MailboxInv, Types, Announce
    <3> QED
      BY <3>1, <3>2, <3>3, <2>1 DEF MailboxInv, Types, Announce, Backlog
  <2>3. Addressed'
    BY <1>2 DEF MailboxInv, Types, Addressed, Announce
  <2> QED
    BY <2>1, <2>2, <2>3 DEF MailboxInv
<1> QED
  BY <1>1, <1>2 DEF Announce

LEMMA CollectInv ==
    ASSUME MailboxInv, NEW c \in Conns, Collect(c)
    PROVE  MailboxInv'
<1>1. Types'
  BY DEF MailboxInv, Types, Collect
<1>2. ASSUME NEW b \in Conns, NEW m \in Messages
      PROVE  /\ feed'[b][m] = IF b = c
                 THEN feed[b][m] + IF m \in held' \cap For(DeviceOf[c]) THEN 1 ELSE 0
                 ELSE feed[b][m]
             /\ Backlog(b)' = IF b = c THEN 1 ELSE Backlog(b)
  BY <1>2 DEF MailboxInv, Types, Collect, Backlog
<1>3. Balance'
  <2> SUFFICES ASSUME NEW b \in Conns, NEW m \in Messages
               PROVE  (written[b][m] + feed[b][m] + notices[m] <= posts[m] + Backlog(b))'
    BY DEF Balance
  <2>1. written[b][m] + feed[b][m] + notices[m] <= posts[m] + Backlog(b)
    BY DEF MailboxInv, Balance
  <2>2. b = c => Backlog(b) = 0
    BY DEF Collect, Backlog
  <2>3. UNCHANGED <<written, notices, posts>>
    BY DEF Collect
  <2> QED
    BY <1>2, <2>1, <2>2, <2>3 DEF MailboxInv, Types, Backlog
<1>4. Addressed'
  <2> SUFFICES ASSUME NEW b \in Conns, NEW m \in Messages,
                      written'[b][m] > 0 \/ feed'[b][m] > 0
               PROVE  m.recipient = DeviceOf[b]
    BY DEF Addressed
  <2>1. CASE b = c /\ m \in For(DeviceOf[c])
    BY <2>1 DEF For
  <2>2. CASE ~(b = c /\ m \in For(DeviceOf[c]))
    BY <1>2, <2>2 DEF MailboxInv, Types, Addressed, Collect
  <2> QED
    BY <2>1, <2>2
<1> QED
  BY <1>1, <1>3, <1>4 DEF MailboxInv

LEMMA GiveUpInv ==
    ASSUME MailboxInv, NEW c \in Conns, GiveUp(c)
    PROVE  MailboxInv'
BY DEF MailboxInv, Types, Balance, Addressed, Backlog, GiveUp

LEMMA WriteInv ==
    ASSUME MailboxInv, NEW c \in Conns, NEW m \in Messages, Write(c, m)
    PROVE  MailboxInv'
<1>1. Types'
  BY DEF MailboxInv, Types, Write
<1>2. ASSUME NEW b \in Conns, NEW n \in Messages
      PROVE  /\ written'[b][n] + feed'[b][n] = written[b][n] + feed[b][n]
             /\ written'[b][n] > 0 \/ feed'[b][n] > 0 => written[b][n] > 0 \/ feed[b][n] > 0
  BY <1>2 DEF MailboxInv, Types, Write
<1>3. Balance'
  <2> SUFFICES ASSUME NEW b \in Conns, NEW n \in Messages
               PROVE  (written[b][n] + feed[b][n] + notices[n] <= posts[n] + Backlog(b))'
    BY DEF Balance
  <2> QED
    BY <1>2 DEF MailboxInv, Types, Balance, Write, Backlog
<1>4. Addressed'
  BY <1>2 DEF MailboxInv, Addressed
<1> QED
  BY <1>1, <1>3, <1>4 DEF MailboxInv

LEMMA LoseInv ==
    ASSUME MailboxInv, NEW c \in Conns, Lose(c)
    PROVE  MailboxInv'
<1>1. Types'
  <2>1. [m \in Messages |-> feed'[c][m]] \in [Messages -> Nat]
    BY DEF Lose
  <2>2. feed' \in [Conns -> [Messages -> Nat]]
    BY <2>1 DEF MailboxInv, Types, Lose
  <2> QED
    BY <2>2 DEF MailboxInv, Types, Lose
<1>2. ASSUME NEW b \in Conns, NEW m \in Messages
      PROVE  feed'[b][m] <= feed[b][m]
  BY <1>1, <1>2 DEF MailboxInv, Types, Lose
<1>3. Balance'
  <2> SUFFICES ASSUME NEW b \in Conns, NEW m \in Messages
               PROVE  (written[b][m] + feed[b][m] + notices[m] <= posts[m] + Backlog(b))'
    BY DEF Balance
  <2> QED
    BY <1>1, <1>2 DEF MailboxInv, Types, Balance, Lose, Backlog
<1>4. Addressed'
  BY <1>1, <1>2 DEF MailboxInv, Types, Addressed, Lose
<1> QED
  BY <1>1, <1>3, <1>4 DEF MailboxInv

LEMMA NextInv == MailboxInv /\ [MailboxNext]_mailbox => MailboxInv'
<1> SUFFICES ASSUME MailboxInv, [MailboxNext]_mailbox
             PROVE  MailboxInv'
  OBVIOUS
<1>1. ASSUME NEW m \in Messages, Remove(m.recipient)
      PROVE  MailboxInv'
  BY <1>1 DEF Remove, MailboxInv, Types, Balance, Addressed, Backlog
<1>2. CASE UNCHANGED mailbox
  BY <1>2 DEF mailbox, MailboxInv, Types, Balance, Addressed, Backlog
<1> QED
  BY <1>1, <1>2, PostInv, AnnounceInv, CollectInv, GiveUpInv, WriteInv, LoseInv
     DEF MailboxNext

\* The inductive invariant of the promise.
THEOREM MailboxInvariant == MailboxSpec => []MailboxInv
BY InitInv, NextInv, PTL DEF MailboxSpec

\* A connection writes a message at most once for each time it was taken in,
\* and once more from its backlog: what websocket_session's delivered_ids,
\* pending and channel leave, however tasks interleave.
THEOREM MailboxAtMostOneExtraCopy == MailboxSpec => []AtMostOneExtraCopy
<1>1. MailboxInv => AtMostOneExtraCopy
  BY DEF MailboxInv, Types, Balance, AtMostOneExtraCopy, Backlog
<1> QED
  BY <1>1, MailboxInvariant, PTL

\* Only connections of the recipient's device write a message, whichever entry
\* of the registry try_send and activate went through.
THEOREM MailboxOnlyToRecipient == MailboxSpec => []OnlyToRecipient
<1>1. MailboxInv => OnlyToRecipient
  BY DEF MailboxInv, Types, Addressed, OnlyToRecipient
<1> QED
  BY <1>1, MailboxInvariant, PTL
==============================================================================
