---------------------------- MODULE MCTopicStore ----------------------------
(***************************************************************************)
(* An instance of TopicStore for TLC: a topic of two batches, one that is  *)
(* trash and one of a full batch, whose last call has no messages left.    *)
(***************************************************************************)
EXTENDS TopicStore

ThreeTopics ==
    <<[size |-> 3, trash |-> FALSE], [size |-> 2, trash |-> TRUE], [size |-> 2, trash |-> FALSE]>>
=============================================================================
