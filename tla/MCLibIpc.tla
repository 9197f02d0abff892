----------------------------- MODULE MCLibIpc -----------------------------
(***************************************************************************)
(* A small instance of LibIpc: three priorities whose queues hold 10       *)
(* messages, timeouts of 4 bits, and reported depths that are low, high,   *)
(* critical, and so deep that the utilization is truncated to a low one.   *)
(* A batch of two messages of size 2 may be sent only while it holds one.  *)
(* Clients build the names of a vehicle and a log topic, one that is       *)
(* refused after it is built (safety) and one that is never built; they    *)
(* write down a topic of their own, a reserved one, one with an empty      *)
(* segment, and two at and over the limit of the length.                   *)
(***************************************************************************)
EXTENDS LibIpc

MCDefaultConfig ==
  [p \in Priority |-> [timeout_ms |-> 4 + 3 * p, max_queue_depth |-> 10]]

MCCustomConfig ==
  [timeout_ms : {0, 1, 15}, max_queue_depth : {0, 20}]

MCQueueDepth == {1, 8, 16, 19, 27}

MCRequest == {<<1, 0, 0>>, <<3, 2, 1>>, <<4, 0, 0>>, <<3, 4, 0>>}

MCLongTopic == {<<"application", "vehicle", "of 64">>}
MCOverlongTopic == {<<"application", "vehicle", "of 65">>}

MCLiteral ==
  {<<"application", "vehicle", "control">>, <<"kernel", "vehicle", "control">>,
   <<"application", "", "control">>} \cup MCLongTopic \cup MCOverlongTopic

MCRefusal == {{}, Predefined}

MCBatchSize == {<<1, 2>>, <<2, 2>>}
=============================================================================
