--------------------------- MODULE MCSyncListener ---------------------------
(* Three operations, two in a response, queues of one operation and one     *)
(* worker each, two in the lane of the kicks.                               *)
EXTENDS SyncListener

MCQueueSize == [l \in Lanes |-> 1]

MCWorkerCount == [[l \in Lanes |-> 1] EXCEPT !["kick"] = 2]
=============================================================================
