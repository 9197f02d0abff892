----------------------------- MODULE LogBuffer -----------------------------
(***************************************************************************)
(* The binary log ring of lib/logging/log_core.c: the global log_buffer_t, *)
(* its initialization, log_record_binary_safe / log_buffer_put_safe and    *)
(* log_buffer_get_safe, with the integrity checksum that every operation   *)
(* verifies first and recomputes last.                                     *)
(*                                                                         *)
(* An entry is a value; of its 20 bytes only their sum matters, through    *)
(* the constant operator SlotSum: the sum of all the bytes of the entries  *)
(* array, the slots that hold consumed entries included, because nothing   *)
(* ever clears a slot.  The code computes the sum in 32 bits               *)
(* (log_calculate_buffer_checksum) and stores it in a uint16_t             *)
(* (log_buffer_t.safety_checksum); ChecksumMod is 2^16 in the code.        *)
(***************************************************************************)
EXTENDS Integers, Sequences

CONSTANTS
  Entry,         \* the entries that callers record
  Blank,         \* the content of a slot zeroed by memset
  Capacity,      \* LOG_BUFFER_CAPACITY
  ChecksumMod,   \* number of values of safety_checksum
  SlotSum(_)     \* byte sum of the entries array

Slot == 0 .. Capacity - 1
Slots == [Slot -> Entry \cup {Blank}]

\* The index fields and buffer_size fit in one byte each, so that a field
\* contributes its own value to the byte sum.
ASSUME CapacityAssumption == Capacity \in 1 .. 255
ASSUME ModAssumption == ChecksumMod \in Nat \ {0}
ASSUME BlankAssumption == Blank \notin Entry
ASSUME SlotSumAssumption == \A s \in Slots : SlotSum(s) \in Nat

VARIABLES
  initialized,   \* g_log_system_initialized
  buffer,        \* g_log_buffer
  out            \* the entry that log_buffer_get_safe copied out last

vars == <<initialized, buffer, out>>

BufferType ==
  [entries : Slots, write_index : Slot, read_index : Slot,
   entry_count : 0 .. Capacity, safety_checksum : 0 .. ChecksumMod - 1]

\* One type invariant; the checksum field holds 16 bits.
TypeOK ==
  /\ initialized \in BOOLEAN
  /\ buffer \in BufferType
  /\ out \in Entry \cup {Blank}
-----------------------------------------------------------------------------
(* log_calculate_buffer_checksum: every byte before safety_checksum.  The  *)
(* last summand is buffer_size.                                            *)
BufferSum(b) ==
  SlotSum(b.entries) + b.write_index + b.read_index + b.entry_count + Capacity

\* log_verify_buffer_integrity: the 16-bit field against the 32-bit sum.
Verify(b) ==
  IF \/ b.write_index >= Capacity
     \/ b.read_index >= Capacity
  THEN "INDEX_OOB"
  ELSE IF \/ b.safety_checksum # BufferSum(b)
          \/ b.entry_count > Capacity
  THEN "DATA_CORRUPT"
  ELSE "OK"

\* The assignment of the 32-bit sum to the uint16_t field.
Sealing(b) == [b EXCEPT !.safety_checksum = BufferSum(b) % ChecksumMod]

Zeroed ==
  [entries |-> [i \in Slot |-> Blank], write_index |-> 0, read_index |-> 0,
   entry_count |-> 0, safety_checksum |-> 0]

\* A faulty put whose write index does not wrap.
StoredNoWrap(b, e) ==
  Sealing([entries |-> [b.entries EXCEPT ![b.write_index] = e],
           write_index |-> b.write_index + 1,
           read_index |-> b.read_index,
           entry_count |-> IF b.entry_count < Capacity THEN b.entry_count + 1
                                                       ELSE b.entry_count,
           safety_checksum |-> b.safety_checksum])

\* A faulty put that leaves the read index on the slot it overwrites.
StoredKeepsRead(b, e) ==
  Sealing([entries |-> [b.entries EXCEPT ![b.write_index] = e],
           write_index |-> (b.write_index + 1) % Capacity,
           read_index |-> b.read_index,
           entry_count |-> IF b.entry_count < Capacity THEN b.entry_count + 1
                                                       ELSE b.entry_count,
           safety_checksum |-> b.safety_checksum])

\* log_buffer_put_safe after its checks: store, advance, overwrite when full.
Stored(b, e) ==
  LET full == b.entry_count >= Capacity
  IN  Sealing(
        [entries |-> [b.entries EXCEPT ![b.write_index] = e],
         write_index |-> (b.write_index + 1) % Capacity,
         read_index |-> IF full THEN (b.read_index + 1) % Capacity
                                ELSE b.read_index,
         entry_count |-> IF full THEN b.entry_count ELSE b.entry_count + 1,
         safety_checksum |-> b.safety_checksum])

\* A faulty get that does not renew the checksum.
TakenUnsealed(b) == [b EXCEPT !.read_index  = (@ + 1) % Capacity,
                              !.entry_count = @ - 1]

\* log_buffer_get_safe after its checks; the slot keeps its bytes.
Taken(b) ==
  Sealing([b EXCEPT !.read_index  = (@ + 1) % Capacity,
                    !.entry_count = @ - 1])

\* A faulty put that does not verify the buffer first.
PutOnUnverified(b, e) == Stored(b, e)

\* log_buffer_put_safe: refused, or stored (and possibly reported corrupt).
PutOn(b, e) == IF Verify(b) = "OK" THEN Stored(b, e) ELSE b
-----------------------------------------------------------------------------
Init ==
  /\ initialized = FALSE
  /\ buffer = Zeroed
  /\ out = Blank

\* log_system_init_safe
SystemInit ==
  /\ initialized' = TRUE
  /\ buffer' = Sealing(Zeroed)
  /\ UNCHANGED out

\* log_buffer_init, applied to the buffer that get_global_log_buffer returns:
\* the checksum field stays zero.
BufferInit ==
  /\ initialized
  /\ buffer' = Zeroed
  /\ UNCHANGED <<initialized, out>>

\* log_record_binary_safe with valid parameters.
Record(e) ==
  /\ initialized' = TRUE
  /\ buffer' = PutOn(IF initialized THEN buffer ELSE Sealing(Zeroed), e)
  /\ UNCHANGED out

\* log_record_binary_safe with a level, tag or message id out of range: the
\* lazy initialization comes before the parameter checks.
RecordInvalid ==
  /\ ~initialized
  /\ SystemInit

\* log_buffer_get_safe on the global buffer; a corrupt or empty buffer is
\* left alone.
Get ==
  /\ initialized
  /\ Verify(buffer) = "OK"
  /\ buffer.entry_count # 0
  /\ out' = buffer.entries[buffer.read_index]
  /\ buffer' = Taken(buffer)
  /\ UNCHANGED initialized

Next ==
  \/ SystemInit
  \/ BufferInit
  \/ \E e \in Entry : Record(e)
  \/ RecordInvalid
  \/ Get

Spec == Init /\ [][Next]_vars
-----------------------------------------------------------------------------
Intact == Verify(buffer) = "OK"

(* The three indices agree: the next write goes right after the newest     *)
(* entry kept, whichever mix of overwriting puts and gets came before      *)
(* (log_core.c:317-324 and 375-376 maintain them separately).              *)
RingConsistent ==
  buffer.write_index = (buffer.read_index + buffer.entry_count) % Capacity

(* The integrity check reports corruption for two reasons only: the byte   *)
(* sum no longer fits the 16-bit field (log_core.c:327 stores it, line 135 *)
(* compares it), or the buffer was set up by log_buffer_init, which leaves *)
(* the field zero (line 524).  No order of operations forgets to renew it. *)
SealedOnlyByOverflow ==
  initialized => \/ Intact
                 \/ BufferSum(buffer) >= ChecksumMod
                 \/ buffer = Zeroed

(* Reading never turns an intact ring into one that refuses everything:    *)
(* a get that succeeds (log_core.c:375-379) leaves a checksum that fits.   *)
GetNeverSeals == [][Get => Verify(buffer') = "OK"]_vars

(* Once the check has failed, nothing but a new initialization changes the *)
(* ring: no put or get works on a buffer reported corrupt, so an entry     *)
(* whose put was reported as failed is never delivered (log_core.c:331).   *)
SealedStays ==
  [][initialized /\ ~Intact =>
       buffer' \in {buffer, Zeroed, Sealing(Zeroed)} /\ UNCHANGED out]_vars

(* The ring implements the overwriting queue: entries come out oldest      *)
(* first, each once, and only the oldest ones are ever displaced.          *)
Contents ==
  [i \in 1 .. buffer.entry_count |->
     buffer.entries[(buffer.read_index + i - 1) % Capacity]]

Queue == INSTANCE OverwriteQueue
           WITH queue <- Contents, sealed <- ~Intact, NoEntry <- Blank

ImplementsQueue == Queue!Spec

(* tests/log_test.c:91 "Verify we can still retrieve entries": after any   *)
(* number of records the ring that holds entries delivers one.             *)
StillRetrievable ==
  initialized /\ buffer.entry_count > 0 => Intact
=============================================================================
