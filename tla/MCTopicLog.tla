----------------------------- MODULE MCTopicLog -----------------------------
(* TopicLog for TLC: two publishers, two subscribers. *)
EXTENDS TopicLog

CONSTANTS p1, p2, s1, s2

TwoPublishers == {p1, p2}
TwoSubs == {s1, s2}
=============================================================================
