------------------------------ MODULE LibIpc ------------------------------
(***************************************************************************)
(* The library of lib/libipc in one process: its topics and handles, with  *)
(* the batches they send, and its adaptive priorities.  The calls may come *)
(* in any order.  Neither of the two parts reads the state of the other,   *)
(* so that a behaviour follows one of them, which may be either.           *)
(***************************************************************************)
EXTENDS IpcBatch, IpcPriority

VARIABLE part     \* the part that is followed

vars == <<part, pubsubVars, batchVars, qosVars>>

\* One type invariant.
TypeOK ==
  /\ part \in {"messages", "priorities"}
  /\ PubSubTypeOK /\ BatchTypeOK /\ QosTypeOK

Init ==
  /\ part \in {"messages", "priorities"}
  /\ PubSubInit /\ BatchInit /\ QosInit

Messages ==
  /\ part = "messages"
  /\ \/ PubSubNext /\ UNCHANGED batchVars
     \/ BatchNext
  /\ UNCHANGED <<part, qosVars>>

Priorities ==
  /\ part = "priorities"
  /\ QosNext
  /\ UNCHANGED <<part, pubsubVars, batchVars>>

Next == Messages \/ Priorities

Spec == Init /\ [][Next]_vars
=============================================================================
