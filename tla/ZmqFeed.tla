------------------------------- MODULE ZmqFeed -------------------------------
(***************************************************************************)
(* The feed of btc-watcher: a node publishes transactions and blocks, each     *)
(* topic numbered from 0, and the listener forwards what its sequence tracker  *)
(* takes to be new. A publisher drops what it cannot send, however much that   *)
(* is; the numbers wrap around; a node that restarts begins again, with the    *)
(* socket kept or not.                                                         *)
(* The two topics have endpoints of their own, so a message arrives once.      *)
(***************************************************************************)
EXTENDS Integers, Sequences

CONSTANTS
  ZmqTopic,
  SeqMax,                        \* u32::MAX
  ResetThreshold, WrapMargin,    \* RESET_THRESHOLD, u32::MAX - WRAP_AROUND_THRESHOLD
  WireLength,                    \* bound: messages under way
  NodeStarts                     \* bound: times the node starts

ASSUME ZmqAssumption ==
  /\ {SeqMax, ResetThreshold, WrapMargin, WireLength, NodeStarts} \subseteq Nat
  /\ ResetThreshold < SeqMax - WrapMargin /\ WrapMargin > 0
  /\ ResetThreshold > 0 /\ 2 * ResetThreshold <= SeqMax

VARIABLES
  zqNode,       \* per topic the number of the next message
  zqStarts,     \* times the node was started
  zqSocket,     \* the node's start at which the listener connected, Unconnected before
  zqWire,
  zqDropped,    \* per topic: numbers of this start dropped since the last message that
                \* was sent, counted up to ResetThreshold
  zqLast,       \* tx_sequence, block_sequence
  zqRefused     \* per topic: the node's start that refusals are counted of, how many there
                \* were since the last message that was forwarded, and whether one of
                \* them came after a gap of ResetThreshold numbers or more (no longer
                \* counted then)

zmqVars == <<zqNode, zqStarts, zqSocket, zqWire, zqDropped, zqLast, zqRefused>>

Unheard == -1
Unconnected == 0
Up == zqSocket # Unconnected
NoneRefused(start) == [start |-> start, count |-> 0, lost |-> FALSE]

ZmqInit ==
  /\ zqNode \in [ZmqTopic -> {0, SeqMax - 1}] /\ zqStarts = 1
  /\ zqSocket = Unconnected /\ zqWire = <<>>
  /\ zqDropped = [t \in ZmqTopic |-> 0]
  /\ zqLast = [t \in ZmqTopic |-> Unheard]
  /\ zqRefused = [t \in ZmqTopic |-> NoneRefused(1)]

\* connect_and_listen: every connection has a tracker of its own
Connect ==
  /\ ~Up /\ zqSocket' = zqStarts
  /\ zqRefused' = [t \in ZmqTopic |-> NoneRefused(zqStarts)]
  /\ UNCHANGED <<zqNode, zqStarts, zqWire, zqDropped, zqLast>>

\* An error of recv, or nothing for HEARTBEAT_TIMEOUT: the tracker is gone with the socket
Disconnect ==
  /\ Up /\ zqSocket' = Unconnected /\ zqWire' = <<>>
  /\ zqLast' = [t \in ZmqTopic |-> Unheard]
  /\ zqDropped' = [t \in ZmqTopic |-> 0]
  /\ zqRefused' = [t \in ZmqTopic |-> NoneRefused(1)]
  /\ UNCHANGED <<zqNode, zqStarts>>

\* The publisher numbers what it drops: what its queue has no room for, and what it has to
\* say while nobody is subscribed. A message carries whether the gap before it is long.
Publish(t) ==
  /\ zqNode' = [zqNode EXCEPT ![t] = (@ + 1) % (SeqMax + 1)]
  /\ \/ ~Up /\ UNCHANGED <<zqWire, zqDropped>>
     \/ /\ Up /\ Len(zqWire) < WireLength
        /\ zqWire' = Append(zqWire, [topic |-> t, seq |-> zqNode[t], start |-> zqStarts,
                                     lost |-> zqDropped[t] = ResetThreshold])
        /\ zqDropped' = [zqDropped EXCEPT ![t] = 0]
     \/ /\ Up /\ UNCHANGED zqWire
        /\ zqDropped' = [zqDropped EXCEPT ![t] = IF @ < ResetThreshold THEN @ + 1 ELSE @]
  /\ UNCHANGED <<zqStarts, zqSocket, zqLast, zqRefused>>

\* The socket reconnects by itself: poll_messages may go on with the tracker it has.
NodeRestarts ==
  /\ zqStarts < NodeStarts
  /\ zqStarts' = zqStarts + 1 /\ zqNode' = [t \in ZmqTopic |-> 0]
  /\ zqDropped' = [t \in ZmqTopic |-> 0]
  /\ UNCHANGED <<zqSocket, zqWire, zqLast, zqRefused>>

\* Mutants of IsSequenceValid: no rule for a reset, and one for the wrap-around only.
OnlyGreater(new, last) == last = Unheard \/ new > last
OnlyWrapAround(new, last) ==
  last = Unheard \/ new > last \/ (last > SeqMax - WrapMargin /\ new < ResetThreshold)

\* The wrap-around's rule is a case of the reset's.
IsSequenceValid(new, last) ==
  \/ last = Unheard \/ new > last
  \/ last > ResetThreshold /\ new < ResetThreshold
  \/ last > SeqMax - WrapMargin /\ new < ResetThreshold

\* What is counted of a topic after message m was refused, r before.
OneRefused(m, r) ==
  LET lost == m.lost \/ (m.start = r.start /\ r.lost)
  IN [start |-> m.start, lost |-> lost,
      count |-> IF lost THEN 0 ELSE 1 + IF m.start = r.start THEN r.count ELSE 0]

\* handle_message
HandleMessage ==
  /\ Up /\ zqWire # <<>>
  /\ zqWire' = Tail(zqWire)
  /\ LET m == Head(zqWire)
     IN \/ /\ IsSequenceValid(m.seq, zqLast[m.topic])
           /\ zqLast' = [zqLast EXCEPT ![m.topic] = m.seq]
           /\ zqRefused' = [zqRefused EXCEPT ![m.topic] = NoneRefused(m.start)]
        \/ /\ ~IsSequenceValid(m.seq, zqLast[m.topic])
           /\ zqRefused' = [zqRefused EXCEPT ![m.topic] = OneRefused(m, @)]
           /\ UNCHANGED zqLast
  /\ UNCHANGED <<zqNode, zqStarts, zqSocket, zqDropped>>

ZmqNext ==
  \/ Connect \/ Disconnect \/ NodeRestarts \/ HandleMessage
  \/ \E t \in ZmqTopic : Publish(t)

ZmqSpec == ZmqInit /\ [][ZmqNext]_zmqVars

(***************************************************************************)
(* Properties                                                              *)
(***************************************************************************)
\* As long as fewer than RESET_THRESHOLD numbers of a topic are dropped in a row, no message
\* of the node's start that the listener connected to is taken for a duplicate, wherever the
\* numbers wrap around, and a node that was restarted under a live socket is heard again
\* after RESET_THRESHOLD messages. Only what follows a longer gap - round the wrap-around, or
\* from a restart to the socket's reconnection - is refused for longer, until a message is
\* forwarded again (is_sequence_valid).
NodeIsHeard ==
  Up => \A t \in ZmqTopic :
    ~zqRefused[t].lost =>
      zqRefused[t].count <= IF zqRefused[t].start = zqSocket THEN 0 ELSE ResetThreshold + 1
=============================================================================
