---------------------------- MODULE MCTaskQueue ----------------------------
(* Small instances of TaskQueue.  Chats "a" and "b" have no topics; the    *)
(* queue key "t1" is a topic of chat "t".                                  *)
EXTENDS TaskQueue

TopicKeys == {"t", "t1"}
TopicsOf == [k \in TopicKeys |-> "t"]
ChatKeys == {"a", "b"}
NoTopics == [k \in ChatKeys |-> k]

\* Two messages of one chat, or of one topic.
TwoDeliveries == {1, 2}
TwoMsgOf == <<"m1", "m2">>
Two == {"m1", "m2"}
TwoInA == [m \in Two |-> "a"]
TwoInTopic == [m \in Two |-> "t1"]

\* A burst of two in chat "a" and a message of chat "b".
ThreeDeliveries == {1, 2, 3}
ThreeMsgOf == <<"m1", "m2", "m3">>
Three == {"m1", "m2", "m3"}
BurstAndOther == [m \in Three |-> IF m = "m3" THEN "b" ELSE "a"]

\* Nothing left from before; or two stale messages of chat "a", next to the
\* deliveries of a direct message of that chat and a stale one of chat "b".
NoneLeft == << >>
TwoLeft == <<"s1", "s2">>
WithStale == {"m1", "s1", "s2", "s3"}
StaleMsgOf == <<"m1", "s3">>
StaleInAB == [m \in WithStale |-> IF m = "s3" THEN "b" ELSE "a"]
=============================================================================
