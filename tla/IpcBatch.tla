----------------------------- MODULE IpcBatch -----------------------------
(***************************************************************************)
(* A client of lib/libipc that sends messages in batches: one batch of     *)
(* ipc_batch.c, sent by the publisher handle of IpcPubSub.                 *)
(*                                                                         *)
(* A message is the number of its call to ipc_batch_add_message.  The      *)
(* counters of the batch, which only statistics read, are left out, and so *)
(* is ipc_receive_batch, which reports the failure of                      *)
(* ipc_subscriber_receive.  added, start and published are history.        *)
(***************************************************************************)
EXTENDS IpcPubSub, SequencesExt

CONSTANTS
  BatchSize,        \* the pairs <<message_size, max_messages>> of batches
  MaxMessageSize,   \* IPC_MAX_MESSAGE_SIZE
  MaxAdded,         \* bound on the messages offered to batches
  MaxPublished      \* bound on the publications

ASSUME BatchAssumption ==
  /\ BatchSize \subseteq (Nat \ {0}) \X (Nat \ {0})
  /\ MaxMessageSize \in Nat \ {0} /\ MaxAdded \in Nat /\ MaxPublished \in Nat

VARIABLES
  batch,        \* the batch handle: its sizes and its messages
  added,        \* the messages offered so far
  start,        \* added when the batch was created or last cleared
  published     \* the messages of each publication

batchVars == <<batch, added, start, published>>

NoBatch == [exists |-> FALSE, message_size |-> 1, max_messages |-> 0,
            messages |-> << >>]

BatchTypeOK ==
  /\ added \in 0 .. MaxAdded
  /\ start \in 0 .. added
  /\ batch \in [exists : BOOLEAN, message_size : Nat \ {0}, max_messages : Nat,
                messages : Seq(1 .. MaxAdded)]
  /\ Len(batch.messages) <= batch.max_messages
  /\ published \in Seq(Seq(1 .. MaxAdded))
-----------------------------------------------------------------------------
\* A faulty batch that takes one message too many.
WithMessageTooMany(b, m) ==
  IF Len(b.messages) > b.max_messages
  THEN b ELSE [b EXCEPT !.messages = Append(@, m)]

\* ipc_batch_add_message
WithMessage(b, m) ==
  IF Len(b.messages) >= b.max_messages
  THEN b ELSE [b EXCEPT !.messages = Append(@, m)]

\* A faulty clear that only forgets the last message.
ClearedLast(b) ==
  IF b.messages = << >> THEN b ELSE [b EXCEPT !.messages = Front(@)]

\* ipc_batch_clear
Cleared(b) == [b EXCEPT !.messages = << >>]
-----------------------------------------------------------------------------
BatchInit ==
  /\ batch = NoBatch
  /\ added = 0 /\ start = 0
  /\ published = << >>

\* ipc_create_batch
CreateBatch(size, max) ==
  /\ ~batch.exists
  /\ batch' = [exists |-> TRUE, message_size |-> size, max_messages |-> max,
               messages |-> << >>]
  /\ start' = added
  /\ UNCHANGED <<pubsubVars, added, published>>

\* ipc_batch_add_message
AddMessage ==
  /\ batch.exists
  /\ added < MaxAdded
  /\ added' = added + 1
  /\ batch' = WithMessage(batch, added + 1)
  /\ UNCHANGED <<pubsubVars, start, published>>

\* ipc_publish passes a message of size bytes on to the kernel.
Publishable(size) ==
  /\ publisher # NoTopic
  /\ size \in 1 .. MaxMessageSize

\* ipc_send_batch of a batch that ipc_publish and the kernel accept; the batch
\* keeps its messages.  A refusal, which may come at any time, changes nothing.
SendBatch ==
  /\ batch.exists
  /\ batch.messages # << >>
  /\ Publishable(Len(batch.messages) * batch.message_size)
  /\ Len(published) < MaxPublished
  /\ published' = Append(published, batch.messages)
  /\ UNCHANGED <<pubsubVars, batch, added, start>>

\* ipc_batch_clear
ClearBatch ==
  /\ batch.exists
  /\ batch' = Cleared(batch)
  /\ start' = added
  /\ UNCHANGED <<pubsubVars, added, published>>

\* ipc_destroy_batch
DestroyBatch ==
  /\ batch.exists
  /\ batch' = NoBatch
  /\ start' = added
  /\ UNCHANGED <<pubsubVars, added, published>>

BatchNext ==
  \/ \E b \in BatchSize : CreateBatch(b[1], b[2])
  \/ AddMessage \/ SendBatch \/ ClearBatch \/ DestroyBatch
-----------------------------------------------------------------------------
(* A batch holds exactly the first messages added since it was created or  *)
(* cleared, as many as it has room for (ipc_batch.c:89): a full batch      *)
(* refuses messages, and sending, which takes nothing out, makes no room.  *)
BatchHoldsFirst ==
  batch.messages =
    [i \in 1 .. Min({added - start, batch.max_messages}) |-> start + i]

(* Messages are repeated only by sending a batch again, and then from its  *)
(* first message on (ipc_batch.c:133): of two publications, the earlier is *)
(* a beginning of the later, or the later has only newer messages.         *)
ResendsExtend ==
  \A i, j \in 1 .. Len(published) :
    i < j => \/ IsPrefix(published[i], published[j])
             \/ Last(published[i]) < Head(published[j])
=============================================================================
