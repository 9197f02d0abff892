----------------------------- MODULE LogClient -----------------------------
(***************************************************************************)
(* The logging client of lib/logging/log_client.c: log_client_init,        *)
(* log_client_send_entry and log_client_cleanup, with the early ring that  *)
(* keeps entries while no publisher is available.                          *)
(*                                                                         *)
(* An entry is the number of the call that created it, so that entries are *)
(* distinct and ordered; what is in one is the subject of LogEntry.  topic *)
(* is what ipc_publish has accepted, in that order; ipc_create_publisher   *)
(* and ipc_publish may fail, as their return values allow.  fallback and   *)
(* cleared are history variables: the entries stored in the early ring     *)
(* since it was last cleared, and the last entry sent before that.         *)
(***************************************************************************)
EXTENDS Integers, Sequences

CONSTANTS
  Capacity,   \* EARLY_LOG_BUFFER_CAPACITY
  MaxSends    \* bound on the calls of log_client_send_entry

ASSUME CapacityAssumption == Capacity \in Nat \ {0}
ASSUME SendsAssumption == MaxSends \in Nat

Slot == 0 .. Capacity - 1
Sent == 1 .. MaxSends
Empty == 0                    \* the content of a slot cleared by memset

VARIABLES
  publisher,   \* g_log_publisher is not NULL
  early,       \* g_early_log_buffer
  sent,        \* entries created so far
  topic,       \* entries accepted by ipc_publish, oldest first
  fallback,    \* entries stored in the early ring since it was cleared
  cleared      \* the value of sent when the early ring was last cleared

vars == <<publisher, early, sent, topic, fallback, cleared>>

RingType ==
  [initialized : BOOLEAN, entries : [Slot -> Sent \cup {Empty}],
   write_index : Slot, read_index : Slot, count : 0 .. Capacity]

\* One type invariant.
TypeOK ==
  /\ publisher \in BOOLEAN
  /\ early \in RingType
  /\ sent \in 0 .. MaxSends
  /\ topic \in Seq(Sent)
  /\ fallback \in Seq(Sent)
  /\ cleared \in 0 .. sent

Kept(ring) ==
  [i \in 1 .. ring.count |-> ring.entries[(ring.read_index + i - 1) % Capacity]]
-----------------------------------------------------------------------------
Cleared ==
  [initialized |-> FALSE, entries |-> [s \in Slot |-> Empty],
   write_index |-> 0, read_index |-> 0, count |-> 0]

\* A faulty early_log_buffer_init without the memset.
EarlyInitKeeps(ring) == [ring EXCEPT !.initialized = TRUE]

\* early_log_buffer_init
EarlyInit(ring) == [Cleared EXCEPT !.initialized = TRUE]

\* A faulty store that never finds the ring full.
StoredUnbounded(ring, e) ==
  [ring EXCEPT
     !.entries = [ring.entries EXCEPT ![ring.write_index] = e],
     !.write_index = (@ + 1) % Capacity,
     !.count = @ + 1]

\* A faulty store that does not advance the read index when it overwrites.
StoredKeepsRead(ring, e) ==
  [ring EXCEPT
     !.entries = [ring.entries EXCEPT ![ring.write_index] = e],
     !.write_index = (@ + 1) % Capacity,
     !.count = IF @ < Capacity THEN @ + 1 ELSE @]

\* early_log_buffer_store into an initialized ring.
Stored(ring, e) ==
  LET full == ring.count >= Capacity
  IN  [ring EXCEPT
         !.entries = [ring.entries EXCEPT ![ring.write_index] = e],
         !.write_index = (@ + 1) % Capacity,
         !.read_index = IF full THEN (@ + 1) % Capacity ELSE @,
         !.count = IF full THEN @ ELSE @ + 1]

\* early_log_buffer_flush after n entries: all of them, or those before the
\* publication that failed.
Flushed(ring, n) ==
  [ring EXCEPT !.read_index = (@ + n) % Capacity, !.count = @ - n]
-----------------------------------------------------------------------------
Init ==
  /\ publisher = FALSE
  /\ early = Cleared
  /\ sent = 0
  /\ topic = << >>
  /\ fallback = << >>
  /\ cleared = 0

\* log_client_init with a publisher already there: the ring is cleared first.
InitAgain ==
  /\ publisher
  /\ early' = EarlyInit(early)
  /\ fallback' = << >>
  /\ cleared' = sent
  /\ UNCHANGED <<publisher, sent, topic>>

\* log_client_init when ipc_create_publisher returns NULL.
InitWithoutPublisher ==
  /\ ~publisher
  /\ early' = EarlyInit(early)
  /\ fallback' = << >>
  /\ cleared' = sent
  /\ UNCHANGED <<publisher, sent, topic>>

\* log_client_init with a new publisher: clear the ring, then flush it.
InitAndFlush ==
  /\ ~publisher
  /\ publisher' = TRUE
  /\ LET ring == EarlyInit(early)
     IN  \E n \in 0 .. ring.count :
           /\ early' = Flushed(ring, n)
           /\ topic' = topic \o SubSeq(Kept(ring), 1, n)
  /\ fallback' = << >>
  /\ cleared' = sent
  /\ UNCHANGED sent

\* A faulty send that keeps a copy of what it published.
PublishAndStore(e) ==
  /\ publisher
  /\ topic' = Append(topic, e)
  /\ early' = Stored(early, e)
  /\ fallback' = Append(fallback, e)

\* send_log_entry_pubsub, the publication succeeds.
Publish(e) ==
  /\ publisher
  /\ topic' = Append(topic, e)
  /\ UNCHANGED <<early, fallback>>

\* send_log_entry_pubsub without a publisher or with a failed publication:
\* the entry goes to the early ring, which refuses it before the first init.
Fallback(e) ==
  /\ IF early.initialized
     THEN early' = Stored(early, e) /\ fallback' = Append(fallback, e)
     ELSE UNCHANGED <<early, fallback>>
  /\ UNCHANGED topic

\* log_client_send_entry with valid parameters.
SendEntry ==
  /\ sent < MaxSends
  /\ sent' = sent + 1
  /\ Publish(sent + 1) \/ Fallback(sent + 1)
  /\ UNCHANGED <<publisher, cleared>>

\* log_client_cleanup
Cleanup ==
  /\ publisher
  /\ publisher' = FALSE
  /\ UNCHANGED <<early, sent, topic, fallback, cleared>>

Next ==
  \/ InitAgain
  \/ InitWithoutPublisher
  \/ InitAndFlush
  \/ SendEntry
  \/ Cleanup

Spec == Init /\ [][Next]_vars
-----------------------------------------------------------------------------
Held(e) == \E i \in 1 .. early.count : Kept(early)[i] = e
Published(e) == \E i \in 1 .. Len(topic) : topic[i] = e

(* An entry has one place: whatever fails, and however often the client is *)
(* cleaned up and initialized again, no entry is published twice, and none *)
(* is published and still waits in the early ring (log_client.c:182-190    *)
(* return at once after a publication, 105-106 advance after each one).    *)
OnePlace ==
  /\ \A i, j \in 1 .. Len(topic) : topic[i] = topic[j] => i = j
  /\ \A e \in Sent : ~(Held(e) /\ Published(e))

(* Entries are published in the order in which they were created.  The     *)
(* early ring cannot disturb it: entries kept across a failure would come  *)
(* out after later ones, but log_client_init clears them first             *)
(* (log_client.c:124).                                                     *)
PublishedInOrder ==
  \A i, j \in 1 .. Len(topic) : i < j => topic[i] < topic[j]

(* The early ring holds the newest entries that fell back to it since it   *)
(* was cleared, oldest first, as many as fit (log_client.c:68-78).         *)
KeepsNewest ==
  /\ early.count = IF Len(fallback) < Capacity THEN Len(fallback) ELSE Capacity
  /\ Kept(early) =
       SubSeq(fallback, Len(fallback) - early.count + 1, Len(fallback))

(* log_client.c:142 "Flush any early logs now that IPC is available": when *)
(* log_client_init gets a publisher, the entries in the ring are published.*)
EarlyLogsFlushed ==
  [][~publisher /\ publisher' =>
       \A e \in Sent : Held(e) => Published(e)']_vars
=============================================================================
