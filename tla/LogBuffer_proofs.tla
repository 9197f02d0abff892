-------------------------- MODULE LogBuffer_proofs --------------------------
(***************************************************************************)
(* Proofs about the binary log ring, for every capacity up to 255, every   *)
(* set of entries, every byte-sum function and every width of the checksum *)
(* field.                                                                  *)
(***************************************************************************)
EXTENDS LogBuffer, TLAPS

USE CapacityAssumption, ModAssumption

(* The byte sum of a well-typed ring is a number, whatever its entries.    *)
LEMMA SumNat ==
  ASSUME NEW b, b.entries \in Slots, b.write_index \in Slot,
         b.read_index \in Slot, b.entry_count \in 0 .. Capacity
  PROVE  BufferSum(b) \in Nat
BY SlotSumAssumption DEF BufferSum, Slot

(* Writing the checksum field of a well-typed ring gives a well-typed ring *)
(* and leaves the other fields, hence the byte sum, alone.                 *)
LEMMA SealingType ==
  ASSUME NEW b \in [entries : Slots, write_index : Slot, read_index : Slot,
                    entry_count : 0 .. Capacity, safety_checksum : Int]
  PROVE  /\ Sealing(b) \in BufferType
         /\ BufferSum(Sealing(b)) = BufferSum(b)
         /\ Sealing(b).safety_checksum = BufferSum(b) % ChecksumMod
         /\ Sealing(b).entries = b.entries
         /\ Sealing(b).write_index = b.write_index
         /\ Sealing(b).read_index = b.read_index
         /\ Sealing(b).entry_count = b.entry_count
<1>1. BufferSum(b) \in Nat
  BY SumNat
<1>2. BufferSum(b) % ChecksumMod \in 0 .. ChecksumMod - 1
  BY <1>1
<1> QED
  BY <1>1, <1>2 DEF Sealing, BufferType, BufferSum

(* A zeroed ring is well typed.                                            *)
LEMMA ZeroedType == Zeroed \in BufferType
BY DEF Zeroed, BufferType, Slots, Slot

(* An index taken modulo the capacity is a slot.                           *)
LEMMA ModSlot == \A n \in Nat : n % Capacity \in Slot
BY DEF Slot

(* Storing an entry keeps the ring well typed.                             *)
LEMMA StoredType ==
  ASSUME NEW b \in BufferType, NEW e \in Entry
  PROVE  Stored(b, e) \in BufferType
<1> DEFINE full == b.entry_count >= Capacity
           entries == [b.entries EXCEPT ![b.write_index] = e]
           write == (b.write_index + 1) % Capacity
           read == IF full THEN (b.read_index + 1) % Capacity
                           ELSE b.read_index
           count == IF full THEN b.entry_count ELSE b.entry_count + 1
           c == [entries |-> entries, write_index |-> write,
                 read_index |-> read, entry_count |-> count,
                 safety_checksum |-> b.safety_checksum]
<1>1. entries \in Slots
  BY DEF BufferType, Slots
<1>2. write \in Slot /\ read \in Slot
  BY ModSlot DEF BufferType, Slot
<1>3. count \in 0 .. Capacity /\ b.safety_checksum \in Int
  BY DEF BufferType
<1>4. c \in [entries : Slots, write_index : Slot, read_index : Slot,
             entry_count : 0 .. Capacity, safety_checksum : Int]
  <2> HIDE DEF entries, write, read, count
  <2> QED
    BY <1>1, <1>2, <1>3
<1>5. Stored(b, e) = Sealing(c)
  BY DEF Stored
<1> QED
  <2> HIDE DEF c
  <2> QED
    BY <1>4, <1>5, SealingType

(* Taking an entry from a non-empty ring keeps it well typed.              *)
LEMMA TakenType ==
  ASSUME NEW b \in BufferType, b.entry_count # 0
  PROVE  Taken(b) \in BufferType
<1> DEFINE c == [b EXCEPT !.read_index  = (@ + 1) % Capacity,
                          !.entry_count = @ - 1]
<1>1. c \in [entries : Slots, write_index : Slot, read_index : Slot,
             entry_count : 0 .. Capacity, safety_checksum : Int]
  <2>1. (b.read_index + 1) % Capacity \in Slot
    BY ModSlot DEF BufferType, Slot
  <2>2. b.entry_count - 1 \in 0 .. Capacity /\ b.safety_checksum \in Int
    BY DEF BufferType
  <2> QED
    BY <2>1, <2>2 DEF BufferType
<1>2. Sealing(c) \in BufferType
  BY <1>1, SealingType
<1> QED
  BY <1>2 DEF Taken

(* Each operation of log_core.c leaves the ring well typed: the indices    *)
(* stay inside the array and the checksum inside its 16 bits.              *)
THEOREM TypeCorrect == Spec => []TypeOK
<1>1. Init => TypeOK
  BY ZeroedType DEF Init, TypeOK
<1>2. TypeOK /\ [Next]_vars => TypeOK'
  <2> SUFFICES ASSUME TypeOK, [Next]_vars PROVE TypeOK'
    OBVIOUS
  <2>0. Sealing(Zeroed) \in BufferType
    BY ZeroedType, SealingType DEF BufferType
  <2>1. CASE SystemInit
    BY <2>0, <2>1 DEF SystemInit, TypeOK
  <2>2. CASE BufferInit
    BY ZeroedType, <2>2 DEF BufferInit, TypeOK
  <2>3. ASSUME NEW e \in Entry, Record(e) PROVE TypeOK'
    <3> DEFINE b == IF initialized THEN buffer ELSE Sealing(Zeroed)
    <3>1. b \in BufferType
      BY <2>0 DEF TypeOK
    <3>2. PutOn(b, e) \in BufferType
      BY <3>1, StoredType DEF PutOn
    <3> QED
      BY <2>3, <3>2 DEF Record, TypeOK
  <2>4. CASE RecordInvalid
    BY <2>0, <2>4 DEF RecordInvalid, SystemInit, TypeOK
  <2>5. CASE Get
    <3>1. buffer' \in BufferType
      BY <2>5, TakenType DEF Get, TypeOK
    <3>2. out' \in Entry \cup {Blank}
      BY <2>5 DEF Get, TypeOK, BufferType, Slots
    <3> QED
      BY <2>5, <3>1, <3>2 DEF Get, TypeOK
  <2>6. CASE UNCHANGED vars
    BY <2>6 DEF vars, TypeOK
  <2> QED
    BY <2>1, <2>2, <2>3, <2>4, <2>5, <2>6 DEF Next
<1> QED
  BY <1>1, <1>2, PTL DEF Spec
-----------------------------------------------------------------------------
(* Below twice the capacity, the modulo wraps at most once.                *)
LEMMA ModOnce ==
  ASSUME NEW a \in 0 .. 2 * Capacity - 1
  PROVE  a % Capacity = IF a < Capacity THEN a ELSE a - Capacity
<1>1. Capacity \in Nat \ {0}
  OBVIOUS
<1>2. CASE a < Capacity
  BY <1>1, <1>2
<1>3. CASE a >= Capacity
  <2>1. a % Capacity = (a - Capacity) % Capacity
    BY <1>1, <1>3
  <2> QED
    BY <1>1, <1>3, <2>1
<1> QED
  BY <1>2, <1>3

(* Index arithmetic of a put: the slot after the newest entry, when the    *)
(* ring grows and when the read index gives way.                           *)
LEMMA PutArithmetic ==
  ASSUME NEW r \in Slot, NEW k \in 0 .. Capacity, NEW w \in Slot,
         w = (r + k) % Capacity
  PROVE  /\ k < Capacity => (w + 1) % Capacity = (r + (k + 1)) % Capacity
         /\ k = Capacity =>
              (w + 1) % Capacity = (((r + 1) % Capacity) + k) % Capacity
<1>1. Capacity \in Nat \ {0} /\ r \in 0 .. Capacity - 1
                            /\ w \in 0 .. Capacity - 1
  BY DEF Slot
<1>2. w = IF r + k < Capacity THEN r + k ELSE r + k - Capacity
  BY <1>1, ModOnce
<1>3. (w + 1) % Capacity = IF w + 1 < Capacity THEN w + 1 ELSE 0
  BY <1>1, ModOnce
<1>4. ASSUME k < Capacity
      PROVE  (w + 1) % Capacity = (r + (k + 1)) % Capacity
  <2>1. (r + (k + 1)) % Capacity =
          IF r + (k + 1) < Capacity THEN r + (k + 1)
                                    ELSE r + (k + 1) - Capacity
    BY <1>1, <1>4, ModOnce
  <2> QED
    BY <1>1, <1>2, <1>3, <1>4, <2>1
<1>5. ASSUME k = Capacity
      PROVE  (w + 1) % Capacity = (((r + 1) % Capacity) + k) % Capacity
  <2>1. (r + 1) % Capacity = IF r + 1 < Capacity THEN r + 1 ELSE 0
    BY <1>1, ModOnce
  <2>2. ((r + 1) % Capacity) + k \in 0 .. 2 * Capacity - 1
    BY <1>1, <1>5, <2>1
  <2>3. (((r + 1) % Capacity) + k) % Capacity = (r + 1) % Capacity
    BY <1>1, <1>5, <2>1, <2>2, ModOnce
  <2> QED
    BY <1>1, <1>2, <1>3, <1>5, <2>1, <2>3
<1> QED
  BY <1>4, <1>5

(* Index arithmetic of a get: the read index and the count move in         *)
(* opposite directions.                                                    *)
LEMMA GetArithmetic ==
  ASSUME NEW r \in Slot, NEW k \in 1 .. Capacity
  PROVE  (r + k) % Capacity = (((r + 1) % Capacity) + (k - 1)) % Capacity
<1>1. Capacity \in Nat \ {0} /\ r \in 0 .. Capacity - 1
  BY DEF Slot
<1>2. (r + k) % Capacity =
        IF r + k < Capacity THEN r + k ELSE r + k - Capacity
  BY <1>1, ModOnce
<1>3. (r + 1) % Capacity = IF r + 1 < Capacity THEN r + 1 ELSE 0
  BY <1>1, ModOnce
<1>4. (((r + 1) % Capacity) + (k - 1)) % Capacity =
        IF ((r + 1) % Capacity) + (k - 1) < Capacity
        THEN ((r + 1) % Capacity) + (k - 1)
        ELSE ((r + 1) % Capacity) + (k - 1) - Capacity
  BY <1>1, <1>3, ModOnce
<1> QED
  BY <1>1, <1>2, <1>3, <1>4

(* Advancing an index never adds more than one to it.                      *)
LEMMA NextIndex ==
  ASSUME NEW r \in Slot
  PROVE  (r + 1) % Capacity <= r + 1
BY ModOnce DEF Slot

\* The ring property of one buffer value.
Ring(b) == b.write_index = (b.read_index + b.entry_count) % Capacity

(* Storing keeps the write index right after the newest entry.             *)
LEMMA StoredRing ==
  ASSUME NEW b \in BufferType, NEW e \in Entry, Ring(b)
  PROVE  Ring(Stored(b, e))
<1>1. /\ b.read_index \in Slot /\ b.write_index \in Slot
      /\ b.entry_count \in 0 .. Capacity
  BY DEF BufferType
<1>2. CASE b.entry_count >= Capacity
  <2>1. /\ Stored(b, e).write_index = (b.write_index + 1) % Capacity
        /\ Stored(b, e).read_index = (b.read_index + 1) % Capacity
        /\ Stored(b, e).entry_count = b.entry_count
    BY <1>2 DEF Stored, Sealing
  <2>2. b.entry_count = Capacity
    BY <1>1, <1>2
  <2> QED
    BY <1>1, <2>1, <2>2, PutArithmetic DEF Ring
<1>3. CASE ~(b.entry_count >= Capacity)
  <2>1. /\ Stored(b, e).write_index = (b.write_index + 1) % Capacity
        /\ Stored(b, e).read_index = b.read_index
        /\ Stored(b, e).entry_count = b.entry_count + 1
    BY <1>3 DEF Stored, Sealing
  <2>2. b.entry_count < Capacity
    BY <1>1, <1>3
  <2> QED
    BY <1>1, <2>1, <2>2, PutArithmetic DEF Ring
<1> QED
  BY <1>2, <1>3

(* What a get changes: the read index and the count, and the checksum.     *)
LEMMA TakenFields ==
  ASSUME NEW b \in BufferType
  PROVE  /\ Taken(b).entries = b.entries
         /\ Taken(b).write_index = b.write_index
         /\ Taken(b).read_index = (b.read_index + 1) % Capacity
         /\ Taken(b).entry_count = b.entry_count - 1
         /\ Taken(b).safety_checksum = BufferSum(Taken(b)) % ChecksumMod
BY DEF Taken, Sealing, BufferType, BufferSum

(* Taking keeps the ring property.                                         *)
LEMMA TakenRing ==
  ASSUME NEW b \in BufferType, b.entry_count # 0, Ring(b)
  PROVE  Ring(Taken(b))
<1>1. b.read_index \in Slot /\ b.entry_count \in 1 .. Capacity
  BY DEF BufferType
<1> QED
  BY <1>1, TakenFields, GetArithmetic DEF Ring

(* The zeroed ring, sealed or not, has its three indices at zero.          *)
LEMMA ZeroedRing == Ring(Zeroed) /\ Ring(Sealing(Zeroed))
<1>1. /\ Sealing(Zeroed).write_index = 0
      /\ Sealing(Zeroed).read_index = 0
      /\ Sealing(Zeroed).entry_count = 0
  BY DEF Sealing, Zeroed
<1>2. 0 % Capacity = 0
  BY ModOnce
<1> QED
  BY <1>1, <1>2 DEF Ring, Zeroed
-----------------------------------------------------------------------------
\* The checksum clause of one buffer value: fitting, overflown or never set.
Sound(b) ==
  \/ b.safety_checksum = BufferSum(b)
  \/ BufferSum(b) >= ChecksumMod
  \/ b = Zeroed

\* The inductive invariant: the properties below refer to each other's types.
IInv == TypeOK /\ Ring(buffer) /\ (initialized => Sound(buffer))

(* Recomputing the checksum makes it fit unless the byte sum overflows.    *)
LEMMA SealingSound ==
  ASSUME NEW b \in BufferType, b.safety_checksum = BufferSum(b) % ChecksumMod
  PROVE  Sound(b)
<1>1. BufferSum(b) \in Nat
  BY SumNat DEF BufferType
<1>2. BufferSum(b) < ChecksumMod => BufferSum(b) % ChecksumMod = BufferSum(b)
  BY <1>1
<1> QED
  BY <1>1, <1>2 DEF Sound

(* After a put the checksum is the truncated byte sum.                     *)
LEMMA StoredChecksum ==
  ASSUME NEW b \in BufferType, NEW e \in Entry
  PROVE  Stored(b, e).safety_checksum =
           BufferSum(Stored(b, e)) % ChecksumMod
BY DEF Stored, Sealing, BufferSum

(* So it is after log_system_init_safe.                                    *)
LEMMA ZeroedChecksum ==
  Sealing(Zeroed).safety_checksum = BufferSum(Sealing(Zeroed)) % ChecksumMod
BY DEF Sealing, BufferSum, Zeroed

(* A well-typed ring verifies exactly when its field equals the byte sum.  *)
LEMMA VerifyMeaning ==
  ASSUME NEW b \in BufferType
  PROVE  Verify(b) = "OK" <=> b.safety_checksum = BufferSum(b)
<1>1. /\ ~(b.write_index >= Capacity)
      /\ ~(b.read_index >= Capacity)
      /\ ~(b.entry_count > Capacity)
  BY DEF BufferType, Slot
<1> QED
  BY <1>1 DEF Verify

(* IInv holds initially and every operation preserves it.                  *)
LEMMA Inductive == Spec => []IInv
<1>1. Init => IInv
  BY ZeroedType, ZeroedRing DEF Init, IInv, TypeOK
<1>2. IInv /\ TypeOK' /\ [Next]_vars => IInv'
  <2> SUFFICES ASSUME IInv, TypeOK', [Next]_vars
               PROVE  Ring(buffer') /\ (initialized' => Sound(buffer'))
    BY DEF IInv, Ring, Sound
  <2>0. /\ Sealing(Zeroed) \in BufferType
        /\ Ring(Sealing(Zeroed)) /\ Sound(Sealing(Zeroed))
    <3>1. Sealing(Zeroed) \in BufferType
      BY ZeroedType, SealingType DEF BufferType
    <3> QED
      BY <3>1, ZeroedRing, ZeroedChecksum, SealingSound
  <2>1. CASE SystemInit
    BY <2>0, <2>1 DEF SystemInit
  <2>2. CASE BufferInit
    BY <2>2, ZeroedRing DEF BufferInit, Sound
  <2>3. ASSUME NEW e \in Entry, Record(e)
        PROVE  Ring(buffer') /\ (initialized' => Sound(buffer'))
    <3> DEFINE b == IF initialized THEN buffer ELSE Sealing(Zeroed)
    <3>1. b \in BufferType /\ Ring(b) /\ Sound(b)
      BY <2>0 DEF IInv, TypeOK
    <3>2. buffer' = PutOn(b, e)
      BY <2>3 DEF Record
    <3> HIDE DEF b
    <3>3. CASE Verify(b) = "OK"
      <4>1. buffer' = Stored(b, e)
        BY <3>2, <3>3 DEF PutOn
      <4>2. Sound(Stored(b, e))
        BY <3>1, StoredType, StoredChecksum, SealingSound
      <4> QED
        BY <3>1, <4>1, <4>2, StoredRing
    <3>4. CASE Verify(b) # "OK"
      BY <3>1, <3>2, <3>4 DEF PutOn
    <3> QED
      BY <3>3, <3>4
  <2>4. CASE RecordInvalid
    BY <2>0, <2>4 DEF RecordInvalid, SystemInit
  <2>5. CASE Get
    <3>1. /\ buffer \in BufferType /\ Ring(buffer)
          /\ buffer.entry_count # 0 /\ buffer' = Taken(buffer)
      BY <2>5 DEF Get, IInv, TypeOK
    <3>2. Sound(Taken(buffer))
      BY <3>1, TakenType, TakenFields, SealingSound
    <3> QED
      BY <3>1, <3>2, TakenRing
  <2>6. CASE UNCHANGED vars
    BY <2>6 DEF vars, IInv
  <2> QED
    BY <2>1, <2>2, <2>3, <2>4, <2>5, <2>6 DEF Next
<1> QED
  BY <1>1, <1>2, TypeCorrect, PTL DEF Spec

(* The write index always follows the newest entry kept.                   *)
THEOREM IndicesAgree == Spec => []RingConsistent
<1>1. IInv => RingConsistent
  BY DEF IInv, Ring, RingConsistent
<1> QED
  BY <1>1, Inductive, PTL

(* The integrity check fails only when the byte sum outgrew the field or   *)
(* when log_buffer_init left it zero.                                      *)
THEOREM CorruptionMeansOverflow == Spec => []SealedOnlyByOverflow
<1>1. IInv => SealedOnlyByOverflow
  BY VerifyMeaning DEF IInv, TypeOK, Sound, SealedOnlyByOverflow, Intact
<1> QED
  BY <1>1, Inductive, PTL

(* A successful get lowers the byte sum, so that the renewed checksum      *)
(* still fits its field.                                                   *)
LEMMA GetVerifies ==
  ASSUME IInv, IInv', Get
  PROVE  Verify(buffer') = "OK"
<1>1. /\ buffer \in BufferType /\ buffer' = Taken(buffer)
      /\ buffer' \in BufferType
      /\ buffer.safety_checksum = BufferSum(buffer)
  BY VerifyMeaning DEF IInv, TypeOK, Get
<1>2. BufferSum(buffer) \in Nat /\ BufferSum(buffer') \in Nat
  BY <1>1, SumNat DEF BufferType
<1>3. BufferSum(buffer') <= BufferSum(buffer)
  <2>1. /\ buffer.read_index \in Slot /\ buffer.write_index \in Slot
        /\ buffer.entry_count \in 1 .. Capacity
        /\ SlotSum(buffer.entries) \in Nat
    BY <1>1, SlotSumAssumption DEF Get, BufferType
  <2>2. (buffer.read_index + 1) % Capacity <= buffer.read_index + 1
    BY <2>1, NextIndex
  <2>3. (buffer.read_index + 1) % Capacity \in Nat
    BY <2>1, ModSlot DEF Slot
  <2> QED
    BY <1>1, <2>1, <2>2, <2>3, TakenFields DEF BufferSum, Slot
<1>4. BufferSum(buffer) < ChecksumMod
  BY <1>1 DEF BufferType
<1>5. buffer'.safety_checksum = BufferSum(buffer') % ChecksumMod
  BY <1>1, TakenFields
<1>6. buffer'.safety_checksum = BufferSum(buffer')
  BY <1>2, <1>3, <1>4, <1>5
<1> QED
  BY <1>1, <1>6, VerifyMeaning

(* Reading leaves an intact ring intact.                                   *)
THEOREM ReadingIsSafe == Spec => GetNeverSeals
<1>1. IInv /\ IInv' /\ [Next]_vars => [Get => Verify(buffer') = "OK"]_vars
  BY GetVerifies DEF vars
<1> QED
  BY <1>1, Inductive, PTL DEF Spec, GetNeverSeals

(* A ring reported corrupt stays as it is until it is initialized again.   *)
THEOREM CorruptionIsFinal == Spec => SealedStays
<1>1. [Next]_vars =>
        [initialized /\ ~Intact =>
           buffer' \in {buffer, Zeroed, Sealing(Zeroed)}
             /\ UNCHANGED out]_vars
  <2> SUFFICES ASSUME Next, initialized, ~Intact
               PROVE  buffer' \in {buffer, Zeroed, Sealing(Zeroed)}
                        /\ UNCHANGED out
    BY DEF vars
  <2> QED
    BY DEF Next, SystemInit, BufferInit, Record, RecordInvalid, Get, PutOn,
           Intact
<1> QED
  BY <1>1, PTL DEF Spec, SealedStays
-----------------------------------------------------------------------------
\* The queue that a ring holds: its entries from the read index on.
Kept(b) ==
  [i \in 1 .. b.entry_count |-> b.entries[(b.read_index + i - 1) % Capacity]]

(* The slots of the entries kept are slots of the array, and what they     *)
(* hold is a sequence as long as the count.                                *)
LEMMA KeptSeq ==
  ASSUME NEW b \in BufferType
  PROVE  /\ Kept(b) \in Seq(Entry \cup {Blank})
         /\ Len(Kept(b)) = b.entry_count
<1>1. b.entry_count \in Nat /\ b.entry_count <= Capacity
  BY DEF BufferType
<1>2. ASSUME NEW i \in 1 .. b.entry_count
      PROVE  b.entries[(b.read_index + i - 1) % Capacity] \in Entry \cup {Blank}
  <2>1. b.read_index + i - 1 \in Nat
    BY <1>1 DEF BufferType, Slot
  <2>2. (b.read_index + i - 1) % Capacity \in Slot
    BY <2>1, ModSlot
  <2> QED
    BY <2>2 DEF BufferType, Slots
<1> QED
  BY <1>1, <1>2 DEF Kept

(* The i-th entry after the oldest is the one that becomes the i-th when   *)
(* the read index moves.                                                   *)
LEMMA Shifted ==
  ASSUME NEW r \in Slot, NEW i \in 1 .. Capacity
  PROVE  (((r + 1) % Capacity) + i - 1) % Capacity = (r + (i + 1) - 1) % Capacity
<1>1. r \in Nat /\ i \in Nat /\ (r + 1) % Capacity \in Nat
  BY ModSlot DEF Slot
<1>2. /\ ((r + 1) % Capacity) + i - 1 = ((r + 1) % Capacity) + (i - 1)
      /\ r + (i + 1) - 1 = r + i
  BY <1>1
<1> QED
  BY <1>2, GetArithmetic

(* The slot of an entry that stays is not the one that is written.         *)
LEMMA OtherSlot ==
  ASSUME NEW r \in Slot, NEW k \in 0 .. Capacity, NEW i \in 1 .. k,
         k - (i - 1) < Capacity
  PROVE  (r + i - 1) % Capacity # (r + k) % Capacity
<1>1. Capacity \in Nat \ {0} /\ r \in 0 .. Capacity - 1
  BY DEF Slot
<1> DEFINE a == r + i - 1
           c == r + k
<1>2. a \in 0 .. 2 * Capacity - 1 /\ c \in 0 .. 2 * Capacity - 1
  BY <1>1
<1>3. a < c /\ c < a + Capacity
  BY <1>1
<1> HIDE DEF a, c
<1>4. a % Capacity = IF a < Capacity THEN a ELSE a - Capacity
  BY <1>2, ModOnce
<1>5. c % Capacity = IF c < Capacity THEN c ELSE c - Capacity
  BY <1>2, ModOnce
<1>6. a % Capacity # c % Capacity
  BY <1>1, <1>2, <1>3, <1>4, <1>5
<1> QED
  BY <1>6 DEF a, c

(* What a put changes.                                                     *)
LEMMA StoredFields ==
  ASSUME NEW b \in BufferType, NEW e \in Entry
  PROVE  /\ Stored(b, e).entries = [b.entries EXCEPT ![b.write_index] = e]
         /\ Stored(b, e).read_index = IF b.entry_count >= Capacity
                                      THEN (b.read_index + 1) % Capacity
                                      ELSE b.read_index
         /\ Stored(b, e).entry_count = IF b.entry_count >= Capacity
                                       THEN b.entry_count
                                       ELSE b.entry_count + 1
BY DEF Stored, Sealing

(* A put appends to the queue, and displaces the oldest entry of a full    *)
(* one.                                                                    *)
LEMMA StoredKept ==
  ASSUME NEW b \in BufferType, NEW e \in Entry, Ring(b)
  PROVE  Kept(Stored(b, e)) =
           Append(IF Len(Kept(b)) = Capacity THEN Tail(Kept(b)) ELSE Kept(b), e)
<1> DEFINE s == Stored(b, e)
           k == b.entry_count
           r == b.read_index
           q == IF Len(Kept(b)) = Capacity THEN Tail(Kept(b)) ELSE Kept(b)
<1>1. /\ r \in Slot /\ k \in 0 .. Capacity /\ b.write_index \in Slot
      /\ b.entries \in [Slot -> Entry \cup {Blank}]
      /\ b.write_index = (r + k) % Capacity
  BY DEF BufferType, Slots, Ring
<1>2. /\ s.entries = [b.entries EXCEPT ![b.write_index] = e]
      /\ s.read_index = IF k >= Capacity THEN (r + 1) % Capacity ELSE r
      /\ s.entry_count = IF k >= Capacity THEN k ELSE k + 1
  BY StoredFields
<1>3. s \in BufferType
  BY StoredType
<1>4. /\ Kept(b) \in Seq(Entry \cup {Blank}) /\ Len(Kept(b)) = k
      /\ Kept(s) \in Seq(Entry \cup {Blank}) /\ Len(Kept(s)) = s.entry_count
  BY <1>3, KeptSeq
<1>5. \A i \in 1 .. k : Kept(b)[i] = b.entries[(r + i - 1) % Capacity]
  BY DEF Kept
<1>6. \A i \in 1 .. s.entry_count :
        Kept(s)[i] = s.entries[(s.read_index + i - 1) % Capacity]
  BY DEF Kept
<1>7. q \in Seq(Entry \cup {Blank}) /\ Append(q, e) \in Seq(Entry \cup {Blank})
  <2>1. q \in Seq(Entry \cup {Blank})
    <3>1. CASE k = Capacity
      <4>1. Kept(b) # << >>
        BY <1>4, <3>1
      <4> QED
        BY <1>4, <3>1, <4>1
    <3> QED
      BY <1>4, <3>1
  <2> QED
    BY <2>1
<1> HIDE DEF s, k, r
<1>8. CASE k = Capacity
  <2>1. /\ s.read_index = (r + 1) % Capacity /\ s.entry_count = Capacity
        /\ q = Tail(Kept(b)) /\ Len(q) = Capacity - 1
    <3>1. s.read_index = (r + 1) % Capacity /\ s.entry_count = Capacity
      BY <1>2, <1>8
    <3>2. q = Tail(Kept(b))
      BY <1>4, <1>8
    <3>3. Kept(b) # << >>
      BY <1>4, <1>8
    <3>4. Len(Tail(Kept(b))) = Capacity - 1
      BY <1>4, <1>8, <3>3
    <3> HIDE DEF q
    <3> QED
      BY <3>1, <3>2, <3>4
  <2>2. ASSUME NEW i \in 1 .. Capacity
        PROVE  Kept(s)[i] = Append(q, e)[i]
    <3>1. Kept(s)[i] = s.entries[(r + (i + 1) - 1) % Capacity]
      BY <1>1, <1>6, <2>1, Shifted
    <3>2. CASE i = Capacity
      <4>1. r + (i + 1) - 1 = r + k
        BY <1>1, <1>8, <3>2 DEF Slot
      <4>2. Kept(s)[i] = e
        BY <1>1, <1>2, <3>1, <4>1
      <4>3. Append(q, e)[i] = e
        BY <1>7, <2>1, <3>2
      <4> QED
        BY <4>2, <4>3
    <3>3. CASE i # Capacity
      <4>1. /\ i \in 1 .. Capacity - 1
            /\ i + 1 \in 1 .. k /\ k - ((i + 1) - 1) < Capacity
        BY <1>8, <3>3
      <4>2. (r + (i + 1) - 1) % Capacity # b.write_index
        <5> DEFINE j == i + 1
        <5>1. j \in 1 .. k /\ k - (j - 1) < Capacity
          BY <4>1
        <5> HIDE DEF j
        <5>2. (r + j - 1) % Capacity # (r + k) % Capacity
          BY <1>1, <5>1, OtherSlot
        <5> QED
          BY <1>1, <5>2 DEF j
      <4>3. (r + (i + 1) - 1) % Capacity \in Slot
        <5>1. r + (i + 1) - 1 \in Nat
          BY <1>1 DEF Slot
        <5> QED
          BY <5>1, ModSlot
      <4>4. Kept(s)[i] = b.entries[(r + (i + 1) - 1) % Capacity]
        BY <1>1, <1>2, <3>1, <4>2, <4>3
      <4>5. Kept(b)[i + 1] = b.entries[(r + (i + 1) - 1) % Capacity]
        BY <1>5, <4>1
      <4>6. Append(q, e)[i] = Kept(b)[i + 1]
        <5>1. q[i] = Kept(b)[i + 1]
          BY <1>4, <1>8, <2>1, <4>1
        <5>2. Append(q, e)[i] = q[i]
          BY <1>7, <2>1, <4>1
        <5> QED
          BY <5>1, <5>2
      <4> QED
        BY <4>4, <4>5, <4>6
    <3> QED
      BY <3>2, <3>3
  <2>3. Len(Kept(s)) = Capacity /\ Len(Append(q, e)) = Capacity
    BY <1>4, <1>7, <2>1
  <2> HIDE DEF q
  <2>4. Kept(s) = Append(q, e)
    BY <1>4, <1>7, <2>2, <2>3
  <2> QED
    BY <2>4 DEF q, s
<1>9. CASE k # Capacity
  <2>1. /\ s.read_index = r /\ s.entry_count = k + 1 /\ k < Capacity
        /\ q = Kept(b) /\ Len(q) = k
    BY <1>1, <1>2, <1>4, <1>9
  <2>2. ASSUME NEW i \in 1 .. k + 1
        PROVE  Kept(s)[i] = Append(q, e)[i]
    <3>1. Kept(s)[i] = s.entries[(r + i - 1) % Capacity]
      BY <1>6, <2>1
    <3>2. CASE i = k + 1
      <4>1. r + i - 1 = r + k
        BY <1>1, <3>2 DEF Slot
      <4>2. Kept(s)[i] = e
        BY <1>1, <1>2, <3>1, <4>1
      <4>3. Append(q, e)[i] = e
        BY <1>7, <2>1, <3>2
      <4> QED
        BY <4>2, <4>3
    <3>3. CASE i # k + 1
      <4>1. i \in 1 .. k /\ k - (i - 1) < Capacity
        BY <1>1, <2>1, <3>3
      <4>2. (r + i - 1) % Capacity # b.write_index
        BY <1>1, <4>1, OtherSlot
      <4>3. (r + i - 1) % Capacity \in Slot
        <5>1. r + i - 1 \in Nat
          BY <1>1 DEF Slot
        <5> QED
          BY <5>1, ModSlot
      <4>4. Kept(s)[i] = b.entries[(r + i - 1) % Capacity]
        BY <1>1, <1>2, <3>1, <4>2, <4>3
      <4>5. Append(q, e)[i] = Kept(b)[i]
        BY <1>7, <2>1, <4>1
      <4> QED
        BY <1>5, <4>1, <4>4, <4>5
    <3> QED
      BY <3>2, <3>3
  <2>3. Len(Kept(s)) = k + 1 /\ Len(Append(q, e)) = k + 1
    BY <1>4, <1>7, <2>1
  <2> HIDE DEF q
  <2>4. Kept(s) = Append(q, e)
    BY <1>4, <1>7, <2>2, <2>3
  <2> QED
    BY <2>4 DEF q, s
<1> QED
  BY <1>8, <1>9

(* A get delivers the head of the queue and leaves its tail.               *)
LEMMA TakenKept ==
  ASSUME NEW b \in BufferType, b.entry_count # 0
  PROVE  /\ Kept(b) # << >>
         /\ b.entries[b.read_index] = Head(Kept(b))
         /\ Kept(Taken(b)) = Tail(Kept(b))
<1> DEFINE s == Taken(b)
           k == b.entry_count
           r == b.read_index
<1>1. r \in Slot /\ k \in 1 .. Capacity
  BY DEF BufferType
<1>2. /\ s.entries = b.entries /\ s.read_index = (r + 1) % Capacity
      /\ s.entry_count = k - 1
  BY TakenFields
<1>3. s \in BufferType
  BY TakenType
<1>4. /\ Kept(b) \in Seq(Entry \cup {Blank}) /\ Len(Kept(b)) = k
      /\ Kept(s) \in Seq(Entry \cup {Blank}) /\ Len(Kept(s)) = k - 1
  BY <1>2, <1>3, KeptSeq
<1>5. \A i \in 1 .. k : Kept(b)[i] = b.entries[(r + i - 1) % Capacity]
  BY DEF Kept
<1>6. \A i \in 1 .. k - 1 :
        Kept(s)[i] = b.entries[(((r + 1) % Capacity) + i - 1) % Capacity]
  BY <1>2 DEF Kept
<1> HIDE DEF s, k, r
<1>7. Kept(b) # << >>
  BY <1>1, <1>4
<1>8. b.entries[r] = Head(Kept(b))
  <2>1. (r + 1 - 1) % Capacity = r
    <3>1. r + 1 - 1 = r /\ r < Capacity /\ r \in 0 .. 2 * Capacity - 1
      BY <1>1 DEF Slot
    <3> QED
      BY <3>1, ModOnce
  <2>2. Head(Kept(b)) = Kept(b)[1]
    BY <1>4, <1>7
  <2> QED
    BY <1>1, <1>5, <2>1, <2>2
<1>9. Kept(s) = Tail(Kept(b))
  <2>1. Tail(Kept(b)) \in Seq(Entry \cup {Blank}) /\ Len(Tail(Kept(b))) = k - 1
    BY <1>4, <1>7
  <2>2. ASSUME NEW i \in 1 .. k - 1
        PROVE  Kept(s)[i] = Tail(Kept(b))[i]
    <3>1. i \in 1 .. Capacity /\ i + 1 \in 1 .. k
      BY <1>1
    <3>2. Kept(s)[i] = b.entries[(r + (i + 1) - 1) % Capacity]
      BY <1>1, <1>6, <3>1, Shifted
    <3>3. Kept(b)[i + 1] = b.entries[(r + (i + 1) - 1) % Capacity]
      BY <1>5, <3>1
    <3>4. Tail(Kept(b))[i] = Kept(b)[i + 1]
      BY <1>4, <1>7, <2>1
    <3> QED
      BY <3>2, <3>3, <3>4
  <2> QED
    BY <1>4, <2>1, <2>2
<1> QED
  BY <1>7, <1>8, <1>9 DEF s, r

(* A ring that was zeroed keeps nothing.                                   *)
LEMMA ZeroedKept == Kept(Zeroed) = << >> /\ Kept(Sealing(Zeroed)) = << >>
<1>1. /\ Zeroed \in BufferType /\ Zeroed.entry_count = 0
      /\ Sealing(Zeroed) \in BufferType /\ Sealing(Zeroed).entry_count = 0
  <2>1. Zeroed.entry_count = 0
    BY DEF Zeroed
  <2> QED
    BY <2>1, ZeroedType, SealingType DEF BufferType
<1>2. /\ Kept(Zeroed) \in Seq(Entry \cup {Blank}) /\ Len(Kept(Zeroed)) = 0
      /\ Kept(Sealing(Zeroed)) \in Seq(Entry \cup {Blank})
      /\ Len(Kept(Sealing(Zeroed))) = 0
  BY <1>1, KeptSeq
<1> QED
  BY <1>2

(* The ring implements the overwriting queue: each operation of log_core.c *)
(* is an operation of the queue or leaves it alone, for every capacity,    *)
(* entry set and checksum width.                                           *)
THEOREM RingIsQueue == Spec => ImplementsQueue
<1>1. Init => Queue!Init
  BY ZeroedKept DEF Init, Queue!Init, Contents, Kept
<1>2. IInv /\ IInv' /\ [Next]_vars => [Queue!Next]_(Queue!vars)
  <2> SUFFICES ASSUME IInv, IInv', [Next]_vars
               PROVE  [Queue!Next]_(Queue!vars)
    OBVIOUS
  <2>1. Contents = Kept(buffer) /\ Contents' = Kept(buffer')
    BY DEF Contents, Kept
  <2>2. (~Intact) \in BOOLEAN /\ (~Intact)' \in BOOLEAN
    BY DEF Intact
  <2>3. ASSUME Contents' = << >>, UNCHANGED out PROVE Queue!Next
    BY <2>2, <2>3 DEF Queue!Next, Queue!Reset
  <2>4. CASE SystemInit
    BY <2>1, <2>3, <2>4, ZeroedKept DEF SystemInit
  <2>5. CASE BufferInit
    BY <2>1, <2>3, <2>5, ZeroedKept DEF BufferInit
  <2>6. CASE RecordInvalid
    BY <2>1, <2>3, <2>6, ZeroedKept DEF RecordInvalid, SystemInit
  <2>7. ASSUME NEW e \in Entry, Record(e)
        PROVE  [Queue!Next]_(Queue!vars)
    <3>1. CASE initialized /\ Intact
      <4>1. buffer' = Stored(buffer, e) /\ UNCHANGED out
        BY <2>7, <3>1 DEF Record, PutOn, Intact
      <4>2. Kept(buffer') = Append(IF Len(Kept(buffer)) = Capacity
                                   THEN Tail(Kept(buffer)) ELSE Kept(buffer), e)
        BY <4>1, StoredKept DEF IInv, TypeOK
      <4>3. Queue!Put(e)
        BY <2>1, <2>2, <3>1, <4>1, <4>2 DEF Queue!Put
      <4> QED
        BY <4>3 DEF Queue!Next
    <3>2. CASE initialized /\ ~Intact
      <4>1. buffer' = buffer /\ UNCHANGED out
        BY <2>7, <3>2 DEF Record, PutOn, Intact
      <4> QED
        BY <4>1 DEF Queue!vars, Contents, Intact
    <3>3. CASE ~initialized /\ Verify(Sealing(Zeroed)) = "OK"
      <4>1. buffer' = Stored(Sealing(Zeroed), e) /\ UNCHANGED out
        BY <2>7, <3>3 DEF Record, PutOn
      <4>2. Sealing(Zeroed) \in BufferType
        BY ZeroedType, SealingType DEF BufferType
      <4>3. Kept(buffer') = Append(<< >>, e)
        BY <4>1, <4>2, StoredKept, ZeroedRing, ZeroedKept
      <4>4. Queue!ResetPut(e)
        BY <2>1, <2>2, <4>1, <4>3 DEF Queue!ResetPut
      <4> QED
        BY <4>4 DEF Queue!Next
    <3>4. CASE ~initialized /\ Verify(Sealing(Zeroed)) # "OK"
      <4>1. buffer' = Sealing(Zeroed) /\ UNCHANGED out
        BY <2>7, <3>4 DEF Record, PutOn
      <4> QED
        BY <2>1, <2>3, <4>1, ZeroedKept
    <3> QED
      BY <3>1, <3>2, <3>3, <3>4
  <2>8. CASE Get
    <3>1. /\ buffer \in BufferType /\ buffer.entry_count # 0
          /\ buffer' = Taken(buffer) /\ out' = buffer.entries[buffer.read_index]
          /\ Intact
      BY <2>8 DEF Get, IInv, TypeOK, Intact
    <3>2. Intact'
      BY <2>8, GetVerifies DEF Intact
    <3>3. /\ Contents # << >> /\ out' = Head(Contents)
          /\ Contents' = Tail(Contents)
      BY <2>1, <3>1, TakenKept
    <3>4. Queue!Get
      BY <3>1, <3>2, <3>3 DEF Queue!Get
    <3> QED
      BY <3>4 DEF Queue!Next
  <2>9. CASE UNCHANGED vars
    BY <2>9 DEF vars, Queue!vars, Contents, Intact
  <2> QED
    BY <2>4, <2>5, <2>6, <2>7, <2>8, <2>9 DEF Next
<1> QED
  BY <1>1, <1>2, Inductive, PTL DEF Spec, ImplementsQueue, Queue!Spec
=============================================================================
