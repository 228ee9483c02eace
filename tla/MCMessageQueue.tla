---------------------------- MODULE MCMessageQueue ----------------------------
(* Small instances of MessageQueue.                                         *)
EXTENDS MessageQueue

\* Two messages for one channel.
SameChannel == [i \in Items |-> CHOOSE c \in Channels : TRUE]
=============================================================================
