------------------------ MODULE KernelWatchdog_proofs ------------------------
(***************************************************************************)
(* Proofs about the logging client and the kernel watchdog that logs       *)
(* through it, for every capacity of the early ring, every number of       *)
(* entries and components, and any failures of the publication.            *)
(***************************************************************************)
EXTENDS KernelWatchdog, TLAPS

USE CapacityAssumption, SendsAssumption

(* Below twice the capacity an index wraps around at most once.            *)
LEMMA Wraps ==
  ASSUME NEW a \in 0 .. 2 * Capacity - 1
  PROVE  a % Capacity = IF a < Capacity THEN a ELSE a - Capacity
<1>1. CASE a < Capacity
  BY <1>1
<1>2. CASE a >= Capacity
  <2>1. a = Capacity + (a - Capacity) /\ a - Capacity \in 0 .. Capacity - 1
    BY <1>2
  <2> QED
    BY <2>1
<1> QED
  BY <1>1, <1>2
-----------------------------------------------------------------------------
(* The early ring r holds the newest of the entries f, oldest first, and   *)
(* its write index is behind them.                                         *)
Holds(r, f) ==
  /\ r.write_index = (r.read_index + r.count) % Capacity
  /\ r.count = IF Len(f) < Capacity THEN Len(f) ELSE Capacity
  /\ \A i \in 1 .. r.count :
       r.entries[(r.read_index + i - 1) % Capacity] = f[Len(f) - r.count + i]

(* What early_log_buffer_init leaves.                                      *)
LEMMA ClearedRing ==
  ASSUME NEW r
  PROVE  /\ EarlyInit(r) \in RingType /\ EarlyInit(r).count = 0
         /\ EarlyInit(r).read_index = 0
         /\ Holds(EarlyInit(r), << >>)
         /\ Cleared \in RingType /\ Holds(Cleared, << >>)
<1>1. 0 \in Slot /\ (0 + 0) % Capacity = 0
  BY Wraps DEF Slot
<1>2. Cleared \in RingType /\ Cleared.count = 0 /\ Cleared.read_index = 0
                           /\ Cleared.write_index = 0
  BY <1>1 DEF Cleared, RingType
<1>3. /\ EarlyInit(r) \in RingType /\ EarlyInit(r).count = 0
      /\ EarlyInit(r).read_index = 0 /\ EarlyInit(r).write_index = 0
  BY <1>2 DEF EarlyInit, RingType
<1> QED
  BY <1>1, <1>2, <1>3 DEF Holds

(* The slots of a ring: those of the entries are different from the one    *)
(* that is written next, unless the ring is full.                          *)
LEMMA Slots ==
  ASSUME NEW r \in Slot, NEW k \in 0 .. Capacity
  PROVE  /\ (r + k) % Capacity \in Slot
         /\ (r + 1) % Capacity \in Slot
         /\ \A i \in 1 .. k :
              /\ (r + i - 1) % Capacity \in Slot
              /\ k < Capacity => (r + i - 1) % Capacity # (r + k) % Capacity
         /\ k = Capacity => (r + k) % Capacity = r
         /\ (((r + k) % Capacity) + 1) % Capacity =
              IF k < Capacity THEN (r + (k + 1)) % Capacity
                              ELSE (((r + 1) % Capacity) + k) % Capacity
         /\ \A i \in 1 .. Capacity :
              (((r + 1) % Capacity) + i - 1) % Capacity = (r + i) % Capacity
<1>1. r \in 0 .. Capacity - 1
  BY DEF Slot
<1>2. (r + k) % Capacity = IF r + k < Capacity THEN r + k ELSE r + k - Capacity
  BY <1>1, Wraps
<1>3. (r + 1) % Capacity = IF r + 1 < Capacity THEN r + 1 ELSE 0
  BY <1>1, Wraps
<1>4. ASSUME NEW i \in 1 .. Capacity
      PROVE  /\ (r + i - 1) % Capacity =
                  IF r + i - 1 < Capacity THEN r + i - 1 ELSE r + i - 1 - Capacity
             /\ (r + i) % Capacity =
                  IF r + i < Capacity THEN r + i ELSE r + i - Capacity
             /\ (((r + 1) % Capacity) + i - 1) % Capacity = (r + i) % Capacity
  <2>1. r + i - 1 \in 0 .. 2 * Capacity - 1 /\ r + i \in 0 .. 2 * Capacity - 1
    BY <1>1
  <2>2. (r + i - 1) % Capacity =
          IF r + i - 1 < Capacity THEN r + i - 1 ELSE r + i - 1 - Capacity
    BY <1>1, <2>1, Wraps
  <2>3. (r + i) % Capacity = IF r + i < Capacity THEN r + i ELSE r + i - Capacity
    BY <1>1, <2>1, Wraps
  <2>4. CASE r + 1 < Capacity
    BY <2>4, <1>3, <1>1
  <2>5. CASE r + 1 = Capacity
    <3>1. ((r + 1) % Capacity) + i - 1 = i - 1
      BY <2>5, <1>3
    <3>2. (i - 1) % Capacity = i - 1
      BY Wraps
    <3>3. (r + i) % Capacity = i - 1
      BY <2>3, <2>5, <1>1
    <3> QED
      BY <2>2, <2>3, <3>1, <3>2, <3>3
  <2> QED
    BY <1>1, <2>2, <2>3, <2>4, <2>5
<1>5. \A i \in 1 .. k : /\ (r + i - 1) % Capacity \in Slot
                        /\ k < Capacity => (r + i - 1) % Capacity # (r + k) % Capacity
  BY <1>1, <1>2, <1>4 DEF Slot
<1>6. (((r + k) % Capacity) + 1) % Capacity =
        IF k < Capacity THEN (r + (k + 1)) % Capacity
                        ELSE (((r + 1) % Capacity) + k) % Capacity
  <2>1. CASE k < Capacity
    <3>1. (r + (k + 1)) % Capacity =
            IF r + k + 1 < Capacity THEN r + k + 1 ELSE r + k + 1 - Capacity
      BY <1>1, <2>1, Wraps
    <3>2. (((r + k) % Capacity) + 1) % Capacity =
            IF ((r + k) % Capacity) + 1 < Capacity THEN ((r + k) % Capacity) + 1
                                                   ELSE 0
      BY <1>1, <1>2, <2>1, Wraps
    <3> QED
      BY <1>1, <1>2, <2>1, <3>1, <3>2
  <2>2. CASE k = Capacity
    <3>1. (r + k) % Capacity = r
      BY <1>1, <1>2, <2>2
    <3>2. (((r + 1) % Capacity) + k) % Capacity = (r + 1) % Capacity
      BY <1>1, <1>3, <2>2, Wraps
    <3> QED
      BY <3>1, <3>2, <2>2
  <2> QED
    BY <2>1, <2>2
<1>7. /\ (r + k) % Capacity \in Slot
      /\ (r + 1) % Capacity \in Slot
      /\ k = Capacity => (r + k) % Capacity = r
  BY <1>1, <1>2, <1>3 DEF Slot
<1> QED
  BY <1>4, <1>5, <1>6, <1>7

(* early_log_buffer_store: the ring then holds the newest of one entry     *)
(* more, whether it was full or not.                                       *)
LEMMA StoredRing ==
  ASSUME NEW r \in RingType, NEW f \in Seq(Sent), NEW e \in Sent, Holds(r, f)
  PROVE  Stored(r, e) \in RingType /\ Holds(Stored(r, e), Append(f, e))
<1> DEFINE full == r.count >= Capacity
           entries == [r.entries EXCEPT ![r.write_index] = e]
           read == IF full THEN (r.read_index + 1) % Capacity ELSE r.read_index
           count == IF full THEN r.count ELSE r.count + 1
           g == Append(f, e)
<1>1. /\ Stored(r, e).initialized = r.initialized
      /\ Stored(r, e).entries = entries
      /\ Stored(r, e).write_index = (r.write_index + 1) % Capacity
      /\ Stored(r, e).read_index = read
      /\ Stored(r, e).count = count
  BY DEF Stored, RingType
<1>2. /\ r.read_index \in Slot /\ r.write_index \in Slot /\ r.count \in 0 .. Capacity
      /\ r.entries \in [Slot -> Sent \cup {Empty}] /\ r.initialized \in BOOLEAN
      /\ r.write_index = (r.read_index + r.count) % Capacity
  BY DEF RingType, Holds
<1>3. count \in 0 .. Capacity
  BY <1>2
<1>4. read \in Slot /\ (r.write_index + 1) % Capacity \in Slot
  BY <1>2, Slots
<1>5. entries \in [Slot -> Sent \cup {Empty}]
  BY <1>2
<1>6. Stored(r, e) \in RingType
  BY <1>2, <1>3, <1>4, <1>5 DEF Stored, RingType
<1>7. Len(g) = Len(f) + 1 /\ g[Len(f) + 1] = e /\ \A i \in 1 .. Len(f) : g[i] = f[i]
  OBVIOUS
<1>8. r.count = (IF Len(f) < Capacity THEN Len(f) ELSE Capacity) /\ Len(f) \in Nat
  BY DEF Holds
<1>9. \A j \in 1 .. r.count :
        r.entries[(r.read_index + j - 1) % Capacity] = f[Len(f) - r.count + j]
  BY DEF Holds
<1>10. r.read_index \in 0 .. Capacity - 1
  BY <1>2 DEF Slot
<1>11. ASSUME ~full
       PROVE  /\ (r.write_index + 1) % Capacity = (read + count) % Capacity
              /\ count = IF Len(g) < Capacity THEN Len(g) ELSE Capacity
              /\ \A i \in 1 .. count :
                   entries[(read + i - 1) % Capacity] = g[Len(g) - count + i]
  <2>1. read = r.read_index /\ count = r.count + 1 /\ r.count < Capacity
        /\ Len(f) = r.count
    BY <1>2, <1>8, <1>11
  <2> HIDE DEF full, read, count, g
  <2>2. (r.write_index + 1) % Capacity = (r.read_index + (r.count + 1)) % Capacity
    <3>1. (((r.read_index + r.count) % Capacity) + 1) % Capacity =
            IF r.count < Capacity
            THEN (r.read_index + (r.count + 1)) % Capacity
            ELSE (((r.read_index + 1) % Capacity) + r.count) % Capacity
      BY <1>2, Slots
    <3> QED
      BY <1>2, <2>1, <3>1
  <2>3. ASSUME NEW i \in 1 .. r.count + 1
        PROVE  entries[(r.read_index + i - 1) % Capacity] = g[i]
    <3>1. CASE i \in 1 .. r.count
      <4>1. /\ (r.read_index + i - 1) % Capacity # r.write_index
            /\ (r.read_index + i - 1) % Capacity \in Slot
        <5>1. \A j \in 1 .. r.count :
                /\ (r.read_index + j - 1) % Capacity \in Slot
                /\ r.count < Capacity =>
                     (r.read_index + j - 1) % Capacity
                       # (r.read_index + r.count) % Capacity
          BY <1>2, Slots
        <5> QED
          BY <1>2, <2>1, <3>1, <5>1
      <4>2. entries[(r.read_index + i - 1) % Capacity]
              = r.entries[(r.read_index + i - 1) % Capacity]
        BY <1>2, <4>1
      <4>3. Len(f) - r.count + i = i
        BY <2>1
      <4> QED
        BY <1>7, <1>9, <2>1, <3>1, <4>2, <4>3
    <3>2. CASE i = r.count + 1
      <4>1. r.read_index + i - 1 = r.read_index + r.count
        BY <1>2, <1>10, <3>2
      <4> QED
        BY <1>2, <1>7, <2>1, <3>2, <4>1
    <3> QED
      BY <1>2, <3>1, <3>2
  <2>4. \A i \in 1 .. count : Len(g) - count + i = i
    BY <1>2, <1>7, <2>1
  <2> HIDE DEF entries
  <2> QED
    BY <1>2, <1>7, <2>1, <2>2, <2>3, <2>4
<1>12. ASSUME full
       PROVE  /\ (r.write_index + 1) % Capacity = (read + count) % Capacity
              /\ count = IF Len(g) < Capacity THEN Len(g) ELSE Capacity
              /\ \A i \in 1 .. count :
                   entries[(read + i - 1) % Capacity] = g[Len(g) - count + i]
  <2>1. /\ read = (r.read_index + 1) % Capacity /\ count = Capacity
        /\ r.count = Capacity /\ Len(f) >= Capacity
    BY <1>2, <1>8, <1>12
  <2> HIDE DEF full, read, count, g
  <2>2. (r.write_index + 1) % Capacity = (read + count) % Capacity
    BY <1>2, <2>1, Slots
  <2>3. r.write_index = r.read_index
    BY <1>2, <2>1, Slots
  <2>4. ASSUME NEW i \in 1 .. Capacity
        PROVE  entries[(r.read_index + i) % Capacity] = g[Len(f) + 1 - Capacity + i]
    <3>1. (r.read_index + i) % Capacity =
            IF r.read_index + i < Capacity THEN r.read_index + i
                                           ELSE r.read_index + i - Capacity
      BY <1>10, Wraps
    <3>2. CASE i < Capacity
      <4>1. /\ (r.read_index + i) % Capacity # r.write_index
            /\ (r.read_index + i) % Capacity \in Slot
        BY <1>10, <2>3, <3>1, <3>2 DEF Slot
      <4>2. entries[(r.read_index + i) % Capacity]
              = r.entries[(r.read_index + i) % Capacity]
        BY <1>2, <4>1
      <4>3. i + 1 \in 1 .. r.count /\ r.read_index + (i + 1) - 1 = r.read_index + i
        BY <1>10, <2>1, <3>2
      <4>4. r.entries[(r.read_index + i) % Capacity] = f[Len(f) - r.count + (i + 1)]
        BY <1>9, <4>3
      <4>5. /\ Len(f) - r.count + (i + 1) = Len(f) + 1 - Capacity + i
            /\ Len(f) + 1 - Capacity + i \in 1 .. Len(f)
        <5>1. Len(f) \in Nat /\ Len(f) >= Capacity /\ r.count = Capacity
              /\ Capacity \in Nat /\ i \in Nat
          BY <1>8, <2>1
        <5> QED
          BY <5>1, <3>2
      <4> QED
        BY <1>7, <4>2, <4>4, <4>5
    <3>3. CASE i = Capacity
      <4>1. (r.read_index + i) % Capacity = r.write_index
        BY <1>10, <2>3, <3>1, <3>3
      <4>2. Len(f) + 1 - Capacity + i = Len(f) + 1
        BY <1>8, <3>3
      <4> QED
        BY <1>2, <1>7, <4>1, <4>2
    <3> QED
      BY <3>2, <3>3
  <2>5. \A i \in 1 .. Capacity :
          (((r.read_index + 1) % Capacity) + i - 1) % Capacity
            = (r.read_index + i) % Capacity
    BY <1>2, Slots
  <2>6. \A i \in 1 .. Capacity : Len(g) - Capacity + i = Len(f) + 1 - Capacity + i
    BY <1>7, <1>8
  <2>7. count = IF Len(g) < Capacity THEN Len(g) ELSE Capacity
    BY <1>7, <1>8, <2>1
  <2> HIDE DEF entries
  <2> QED
    BY <2>1, <2>2, <2>4, <2>5, <2>6, <2>7
<1> QED
  <2> HIDE DEF entries, read, count, g, full
  <2>1. Append(f, e) = g
    BY DEF g
  <2> QED
    BY <1>1, <1>6, <1>11, <1>12, <2>1 DEF Holds
-----------------------------------------------------------------------------
(* A flush of a ring that was just cleared publishes nothing.              *)
LEMMA FlushOfCleared ==
  ASSUME NEW r, NEW t \in Seq(Sent), NEW n \in 0 .. EarlyInit(r).count
  PROVE  /\ Flushed(EarlyInit(r), n) \in RingType
         /\ Holds(Flushed(EarlyInit(r), n), << >>)
         /\ t \o SubSeq(Kept(EarlyInit(r)), 1, n) = t
<1>1. /\ EarlyInit(r) \in RingType /\ EarlyInit(r).count = 0
      /\ EarlyInit(r).read_index = 0 /\ EarlyInit(r).write_index = 0
  BY ClearedRing, Wraps DEF Holds
<1>2. n = 0
  BY <1>1
<1>3. 0 \in Slot /\ (0 + 0) % Capacity = 0
  BY Wraps DEF Slot
<1>4. /\ Flushed(EarlyInit(r), n) \in RingType
      /\ Flushed(EarlyInit(r), n).count = 0
      /\ Flushed(EarlyInit(r), n).read_index = 0
      /\ Flushed(EarlyInit(r), n).write_index = 0
  BY <1>1, <1>2, <1>3 DEF Flushed, RingType
<1>5. SubSeq(Kept(EarlyInit(r)), 1, n) = << >>
  BY <1>1, <1>2 DEF Kept
<1>6. Holds(Flushed(EarlyInit(r), n), << >>)
  BY <1>3, <1>4 DEF Holds
<1>7. t \o << >> = t
  OBVIOUS
<1> QED
  BY <1>4, <1>5, <1>6, <1>7

(* The inductive invariant of the client: the early ring holds the newest  *)
(* entries that fell back to it; what was published and what fell back are *)
(* entries sent so far, different from one another, and what was published *)
(* is in order.                                                            *)
Disjoint(t, f) == \A i \in 1 .. Len(t), j \in 1 .. Len(f) : t[i] # f[j]
UpTo(q, n) == \A i \in 1 .. Len(q) : q[i] <= n
Increasing(t) == \A i, j \in 1 .. Len(t) : i < j => t[i] < t[j]

ClientInv ==
  /\ TypeOK
  /\ Holds(early, fallback)
  /\ UpTo(topic, sent) /\ UpTo(fallback, sent)
  /\ Increasing(topic)
  /\ Disjoint(topic, fallback)

(* Appending the next entry to what was published or to what fell back.    *)
LEMMA NextEntry ==
  ASSUME NEW t \in Seq(Sent), NEW f \in Seq(Sent), NEW n \in Nat, n + 1 \in Sent,
         UpTo(t, n), UpTo(f, n), Increasing(t), Disjoint(t, f)
  PROVE  /\ Append(t, n + 1) \in Seq(Sent) /\ Append(f, n + 1) \in Seq(Sent)
         /\ UpTo(t, n + 1) /\ UpTo(f, n + 1)
         /\ UpTo(Append(t, n + 1), n + 1) /\ UpTo(Append(f, n + 1), n + 1)
         /\ Increasing(Append(t, n + 1))
         /\ Disjoint(Append(t, n + 1), f) /\ Disjoint(t, Append(f, n + 1))
<1>1. /\ \A i \in 1 .. Len(t) : t[i] \in Int /\ t[i] <= n
      /\ \A i \in 1 .. Len(f) : f[i] \in Int /\ f[i] <= n
  BY DEF UpTo, Sent
<1> DEFINE t1 == Append(t, n + 1)
           f1 == Append(f, n + 1)
<1>2. /\ Len(t1) = Len(t) + 1 /\ t1[Len(t) + 1] = n + 1
      /\ \A i \in 1 .. Len(t) : t1[i] = t[i]
  OBVIOUS
<1>3. /\ Len(f1) = Len(f) + 1 /\ f1[Len(f) + 1] = n + 1
      /\ \A i \in 1 .. Len(f) : f1[i] = f[i]
  OBVIOUS
<1>4. Len(t) \in Nat /\ Len(f) \in Nat
  OBVIOUS
<1>5. t1 \in Seq(Sent) /\ f1 \in Seq(Sent)
  OBVIOUS
<1> HIDE DEF t1, f1
<1>6. UpTo(t, n + 1) /\ UpTo(f, n + 1)
  BY <1>1 DEF UpTo
<1>7. UpTo(t1, n + 1)
  BY <1>1, <1>2, <1>4 DEF UpTo
<1>8. UpTo(f1, n + 1)
  BY <1>1, <1>3, <1>4 DEF UpTo
<1>9. Increasing(t1)
  <2>1. \A i, j \in 1 .. Len(t) : i < j => t[i] < t[j]
    BY DEF Increasing
  <2> SUFFICES ASSUME NEW i \in 1 .. Len(t1), NEW j \in 1 .. Len(t1), i < j
               PROVE  t1[i] < t1[j]
    BY DEF Increasing
  <2>2. i \in 1 .. Len(t)
    BY <1>2, <1>4
  <2>3. CASE j \in 1 .. Len(t)
    BY <1>2, <2>1, <2>2, <2>3
  <2>4. CASE j = Len(t) + 1
    BY <1>1, <1>2, <2>2, <2>4
  <2> QED
    BY <1>2, <1>4, <2>3, <2>4
<1>10. Disjoint(t1, f)
  <2> SUFFICES ASSUME NEW i \in 1 .. Len(t1), NEW j \in 1 .. Len(f)
               PROVE  t1[i] # f[j]
    BY DEF Disjoint
  <2>1. CASE i \in 1 .. Len(t)
    <3>1. t[i] # f[j]
      BY <2>1 DEF Disjoint
    <3> QED
      BY <1>2, <2>1, <3>1
  <2>2. CASE i = Len(t) + 1
    BY <1>1, <1>2, <2>2
  <2> QED
    BY <1>2, <1>4, <2>1, <2>2
<1>11. Disjoint(t, f1)
  <2> SUFFICES ASSUME NEW i \in 1 .. Len(t), NEW j \in 1 .. Len(f1)
               PROVE  t[i] # f1[j]
    BY DEF Disjoint
  <2>1. CASE j \in 1 .. Len(f)
    <3>1. t[i] # f[j]
      BY <2>1 DEF Disjoint
    <3> QED
      BY <1>3, <2>1, <3>1
  <2>2. CASE j = Len(f) + 1
    BY <1>1, <1>3, <2>2
  <2> QED
    BY <1>3, <1>4, <2>1, <2>2
<1> QED
  BY <1>5, <1>6, <1>7, <1>8, <1>9, <1>10, <1>11, Zenon DEF t1, f1

(* log_client_send_entry, whoever calls it, preserves the invariant.       *)
LEMMA SendEntryInv ==
  ASSUME ClientInv, SendEntry
  PROVE  ClientInv'
<1>1. sent \in Nat /\ sent + 1 \in Sent /\ sent' = sent + 1 /\ sent' \in 0 .. MaxSends
  BY DEF ClientInv, TypeOK, SendEntry, Sent
<1>2. publisher' \in BOOLEAN /\ cleared' \in 0 .. sent'
  BY <1>1 DEF ClientInv, TypeOK, SendEntry
<1>3. topic \in Seq(Sent) /\ fallback \in Seq(Sent) /\ early \in RingType
  BY DEF ClientInv, TypeOK
<1>4. /\ Append(topic, sent + 1) \in Seq(Sent) /\ Append(fallback, sent + 1) \in Seq(Sent)
      /\ UpTo(topic, sent + 1) /\ UpTo(fallback, sent + 1)
      /\ UpTo(Append(topic, sent + 1), sent + 1)
      /\ UpTo(Append(fallback, sent + 1), sent + 1)
      /\ Increasing(Append(topic, sent + 1))
      /\ Disjoint(Append(topic, sent + 1), fallback)
      /\ Disjoint(topic, Append(fallback, sent + 1))
  BY <1>1, <1>3, NextEntry DEF ClientInv
<1>5. CASE Publish(sent + 1)
  <2>1. topic' = Append(topic, sent + 1) /\ early' = early /\ fallback' = fallback
    BY <1>5 DEF Publish
  <2> QED
    BY <1>1, <1>2, <1>3, <1>4, <2>1 DEF ClientInv, TypeOK
<1>6. CASE Fallback(sent + 1)
  <2>1. CASE early.initialized
    <3>1. /\ topic' = topic /\ early' = Stored(early, sent + 1)
          /\ fallback' = Append(fallback, sent + 1)
      BY <1>6, <2>1 DEF Fallback
    <3>2. early' \in RingType /\ Holds(early', fallback')
      BY <1>1, <1>3, <3>1, StoredRing DEF ClientInv
    <3> QED
      BY <1>1, <1>2, <1>3, <1>4, <3>1, <3>2 DEF ClientInv, TypeOK
  <2>2. CASE ~early.initialized
    <3>1. topic' = topic /\ early' = early /\ fallback' = fallback
      BY <1>6, <2>2 DEF Fallback
    <3> QED
      BY <1>1, <1>2, <1>3, <1>4, <3>1 DEF ClientInv, TypeOK
  <2> QED
    BY <2>1, <2>2
<1> QED
  BY <1>5, <1>6 DEF SendEntry

(* Every step of the client preserves its invariant.                       *)
LEMMA ClientStep ==
  ASSUME ClientInv, Next
  PROVE  ClientInv'
<1>0. topic \in Seq(Sent) /\ sent \in 0 .. MaxSends /\ << >> \in Seq(Sent)
  BY DEF ClientInv, TypeOK
<1>1. ASSUME early' \in RingType, Holds(early', << >>), fallback' = << >>,
             cleared' = sent, sent' = sent, topic' = topic, publisher' \in BOOLEAN
      PROVE  ClientInv'
  <2>1. UpTo(<< >>, sent) /\ Disjoint(topic, << >>)
    BY DEF UpTo, Disjoint
  <2> QED
    BY <1>0, <1>1, <2>1 DEF ClientInv, TypeOK
<1>2. CASE InitAgain \/ InitWithoutPublisher
  BY <1>1, <1>2, ClearedRing DEF InitAgain, InitWithoutPublisher, ClientInv, TypeOK
<1>3. CASE InitAndFlush
  <2>1. PICK n \in 0 .. EarlyInit(early).count :
          /\ early' = Flushed(EarlyInit(early), n)
          /\ topic' = topic \o SubSeq(Kept(EarlyInit(early)), 1, n)
    BY <1>3 DEF InitAndFlush
  <2>2. /\ early' \in RingType /\ Holds(early', << >>) /\ topic' = topic
    BY <1>0, <2>1, FlushOfCleared
  <2> QED
    BY <1>1, <1>3, <2>2 DEF InitAndFlush
<1>4. CASE SendEntry
  BY <1>4, SendEntryInv
<1>5. CASE Cleanup
  BY <1>5 DEF Cleanup, ClientInv, TypeOK
<1> QED
  BY <1>2, <1>3, <1>4, <1>5 DEF Next

WatchdogInv ==
  /\ ClientInv
  /\ initialized \in BOOLEAN
  /\ components \in Seq(Component)
  /\ Len(components) <= MaxComponents

(* Replacing an element of a sequence by another one changes no types.     *)
LEMMA ReplacedType ==
  ASSUME NEW S, NEW c \in Seq(S), NEW k, NEW x, k \in 1 .. Len(c) => x \in S
  PROVE  [c EXCEPT ![k] = x] \in Seq(S) /\ Len([c EXCEPT ![k] = x]) = Len(c)
<1>1. CASE k \in 1 .. Len(c)
  BY <1>1
<1>2. CASE k \notin 1 .. Len(c)
  <2>1. [c EXCEPT ![k] = x] = c
    BY <1>2
  <2> QED
    BY <2>1
<1> QED
  BY <1>1, <1>2

(* Replacing one field of a record of this shape, whatever the fields hold. *)
LEMMA FieldReplaced ==
  ASSUME NEW A, NEW B, NEW C, NEW D,
         NEW p \in [level : A, timeout_ms : B, state : C, alarm : D],
         NEW x \in C, NEW y \in D
  PROVE  /\ [p EXCEPT !.state = x] \in [level : A, timeout_ms : B, state : C, alarm : D]
         /\ [p EXCEPT !.alarm = y] \in [level : A, timeout_ms : B, state : C, alarm : D]
         /\ [p EXCEPT !.alarm = y].alarm = y
  OBVIOUS

(* Marking a component changes no types.                                   *)
LEMMA MarkedComponent ==
  ASSUME NEW p \in Component, NEW a \in 0 .. MaxSends
  PROVE  /\ [p EXCEPT !.state = "TRIGGERED"] \in Component
         /\ [p EXCEPT !.alarm = a] \in Component
         /\ [p EXCEPT !.alarm = a].alarm = a
<1> DEFINE B0 == 10 .. 10000
           C0 == {"DISABLED", "TRIGGERED"}
<1>1. Component = [level : WatchdogLevel, timeout_ms : B0, state : C0, alarm : 0 .. MaxSends]
  BY DEF Component
<1>2. "TRIGGERED" \in C0
  OBVIOUS
<1> HIDE DEF B0, C0
<1> QED
  BY <1>1, <1>2, FieldReplaced

(* Marking a place of the registry, whichever it is, changes no types.     *)
LEMMA MarkedType ==
  ASSUME NEW c \in Seq(Component), NEW k, NEW a \in 0 .. MaxSends
  PROVE  LET d == [c EXCEPT ![k].state = "TRIGGERED", ![k].alarm = a]
         IN  /\ d \in Seq(Component) /\ Len(d) = Len(c)
             /\ k \in 1 .. Len(c) => d[k].alarm = a
             /\ \A i \in 1 .. Len(c) : i # k => d[i] = c[i]
<1> DEFINE x == [c[k] EXCEPT !.state = "TRIGGERED"]
           b == [c EXCEPT ![k] = x]
           y == [b[k] EXCEPT !.alarm = a]
           d == [b EXCEPT ![k] = y]
<1>1. k \in 1 .. Len(c) => x \in Component
  <2>1. k \in 1 .. Len(c) => c[k] \in Component
    OBVIOUS
  <2> QED
    BY <2>1, MarkedComponent, Zenon
<1>2. b \in Seq(Component) /\ Len(b) = Len(c)
  <2> HIDE DEF x
  <2> QED
    BY <1>1, ReplacedType
<1>3. k \in 1 .. Len(b) => y \in Component
  <2> HIDE DEF b
  <2> QED
    <3>1. k \in 1 .. Len(b) => b[k] \in Component
      BY <1>2
    <3> QED
      BY <3>1, MarkedComponent, Zenon
<1>4. d \in Seq(Component) /\ Len(d) = Len(c)
  <2> HIDE DEF b, y
  <2> QED
    BY <1>2, <1>3, ReplacedType
<1>5. ASSUME k \in 1 .. Len(c) PROVE d[k].alarm = a
  <2>1. b[k] \in Component
    <3> HIDE DEF b
    <3> QED
      BY <1>2, <1>5
  <2>2. y.alarm = a
    <3> HIDE DEF b
    <3> QED
      BY <2>1, MarkedComponent
  <2>3. d[k] = y
    <3> HIDE DEF b, y
    <3> QED
      BY <1>2, <1>5
  <2> HIDE DEF d, y
  <2> QED
    BY <2>2, <2>3
<1>6. ASSUME NEW i \in 1 .. Len(c), i # k PROVE d[i] = c[i]
  <2>1. b[i] = c[i]
    <3> HIDE DEF x
    <3> QED
      BY <1>6
  <2>2. d[i] = b[i]
    <3> HIDE DEF b, y
    <3> QED
      BY <1>2, <1>6
  <2> QED
    BY <2>1, <2>2, Zenon
<1> QED
  BY <1>4, <1>5, <1>6, Zenon

(* The inductive invariant holds in every state of the watchdog and the    *)
(* client together.                                                        *)
THEOREM WatchdogInvariant == WatchdogSpec => []WatchdogInv
<1>1. WatchdogInit => WatchdogInv
  <2> SUFFICES ASSUME WatchdogInit PROVE WatchdogInv
    OBVIOUS
  <2>1. early \in RingType /\ Holds(early, fallback)
    BY ClearedRing DEF WatchdogInit, Init
  <2>2. /\ << >> \in Seq(Sent) /\ << >> \in Seq(Component)
        /\ Len(<< >>) = 0
    OBVIOUS
  <2>3. UpTo(topic, sent) /\ UpTo(fallback, sent)
    BY <2>2 DEF WatchdogInit, Init, UpTo
  <2>4. Increasing(topic) /\ Disjoint(topic, fallback)
    BY <2>2 DEF WatchdogInit, Init, Increasing, Disjoint
  <2> QED
    <3>1. publisher \in BOOLEAN /\ initialized \in BOOLEAN
      BY DEF WatchdogInit, Init
    <3>2. sent \in 0 .. MaxSends /\ cleared \in 0 .. sent
      BY DEF WatchdogInit, Init
    <3>3. topic \in Seq(Sent) /\ fallback \in Seq(Sent) /\ components \in Seq(Component)
      BY <2>2 DEF WatchdogInit, Init
    <3>4. Len(components) <= MaxComponents
      BY <2>2, WatchdogAssumption DEF WatchdogInit
    <3> QED
      BY <2>1, <2>3, <2>4, <3>1, <3>2, <3>3, <3>4 DEF WatchdogInv, ClientInv, TypeOK
<1>2. WatchdogInv /\ [WatchdogNext]_<<vars, watchdogVars>> => WatchdogInv'
  <2> SUFFICES ASSUME WatchdogInv, [WatchdogNext]_<<vars, watchdogVars>>
               PROVE  WatchdogInv'
    OBVIOUS
  <2>0. ClientInv
    BY DEF WatchdogInv
  <2>1. CASE Next /\ UNCHANGED watchdogVars
    BY <2>0, <2>1, ClientStep DEF WatchdogInv, watchdogVars
  <2>2. CASE InitWatchdog
    <3>1. ClientInv'
      BY <2>0, <2>2 DEF InitWatchdog, vars, ClientInv, TypeOK
    <3>2. components' \in Seq(Component) /\ Len(components') <= MaxComponents
      BY <2>2, WatchdogAssumption DEF InitWatchdog
    <3> QED
      BY <2>2, <3>1, <3>2 DEF InitWatchdog, WatchdogInv
  <2>3. ASSUME NEW level \in WatchdogLevel, NEW timeout_ms \in Timeout,
               Register(level, timeout_ms)
        PROVE  WatchdogInv'
    <3> DEFINE c == [level |-> level, timeout_ms |-> timeout_ms,
                     state |-> "DISABLED", alarm |-> 0]
    <3>1. c \in Component
      BY <2>3 DEF Register, Component
    <3>2. components' = Append(components, c) /\ Len(components) < MaxComponents
      BY <2>3 DEF Register
    <3>3. ClientInv'
      BY <2>0, <2>3, SendEntryInv DEF Register
    <3>4. components' \in Seq(Component) /\ Len(components') <= MaxComponents
      <4> HIDE DEF c
      <4> QED
        BY <3>1, <3>2, WatchdogAssumption DEF WatchdogInv
    <3>5. initialized' \in BOOLEAN
      BY <2>3 DEF Register, WatchdogInv
    <3> QED
      BY <3>3, <3>4, <3>5 DEF WatchdogInv
  <2>4. ASSUME NEW level \in WatchdogLevel, TimeoutHandler(level)
        PROVE  WatchdogInv'
    <3>1. sent + 1 \in 0 .. MaxSends
      BY <2>4 DEF TimeoutHandler, SendEntry, WatchdogInv, ClientInv, TypeOK
    <3>2. components' \in Seq(Component) /\ Len(components') = Len(components)
      <4>1. components' = [components EXCEPT ![FirstOf(level)].state = "TRIGGERED",
                                             ![FirstOf(level)].alarm = sent + 1]
        BY <2>4 DEF TimeoutHandler
      <4> QED
        BY <3>1, <4>1, MarkedType DEF WatchdogInv
    <3>3. ClientInv'
      BY <2>0, <2>4, SendEntryInv DEF TimeoutHandler
    <3>4. initialized' \in BOOLEAN
      BY <2>4 DEF TimeoutHandler, WatchdogInv
    <3> QED
      BY <3>2, <3>3, <3>4 DEF WatchdogInv
  <2>5. CASE UNCHANGED <<vars, watchdogVars>>
    BY <2>5 DEF vars, watchdogVars, WatchdogInv, ClientInv, TypeOK
  <2> QED
    BY <2>1, <2>2, <2>3, <2>4, <2>5 DEF WatchdogNext
<1> QED
  BY <1>1, <1>2, PTL DEF WatchdogSpec
-----------------------------------------------------------------------------
(* The state of the client and of the registry keeps its types: the        *)
(* indices stay inside the early ring (log_client.c:68-78), and the        *)
(* registry inside its array (watchdog.c:95).                              *)
THEOREM WatchdogTypeCorrect == WatchdogSpec => []WatchdogTypeOK
<1>1. WatchdogInv => WatchdogTypeOK
  BY DEF WatchdogInv, ClientInv, WatchdogTypeOK
<1> QED
  BY <1>1, WatchdogInvariant, PTL

(* Entries are published in the order of the calls (log_client.c:124,      *)
(* 179-190), for any number of entries and failures.                       *)
THEOREM OrderKept == WatchdogSpec => []PublishedInOrder
<1>1. WatchdogInv => PublishedInOrder
  BY DEF WatchdogInv, ClientInv, PublishedInOrder, Increasing
<1> QED
  BY <1>1, WatchdogInvariant, PTL

(* The last k elements of a sequence.                                      *)
LEMMA NewestPart ==
  ASSUME NEW f \in Seq(Sent), NEW k \in 0 .. Len(f)
  PROVE  SubSeq(f, Len(f) - k + 1, Len(f)) = [i \in 1 .. k |-> f[Len(f) - k + i]]
<1> DEFINE n == Len(f)
           m == n - k + 1
<1>1. n \in Nat /\ m \in 1 .. n + 1 /\ n - m + 1 = k
  OBVIOUS
<1>2. SubSeq(f, m, n) = [i \in 1 .. (1 + n - m) |-> f[i + m - 1]]
  <2> HIDE DEF m
  <2> QED
    BY <1>1
<1>3. 1 + n - m = k /\ \A i \in 1 .. k : i + m - 1 = n - k + i
  BY <1>1
<1> QED
  <2> HIDE DEF m, n
  <2>1. SubSeq(f, m, n) = [i \in 1 .. k |-> f[n - k + i]]
    BY <1>2, <1>3
  <2> QED
    BY <2>1 DEF m, n

(* The early ring holds the newest entries that fell back to it, for any   *)
(* capacity (log_client.c:68-78).                                          *)
THEOREM NewestKept == WatchdogSpec => []KeepsNewest
<1>1. WatchdogInv => KeepsNewest
  <2> SUFFICES ASSUME WatchdogInv PROVE KeepsNewest
    OBVIOUS
  <2>1. /\ early.count \in 0 .. Capacity /\ fallback \in Seq(Sent)
        /\ early.count = IF Len(fallback) < Capacity THEN Len(fallback) ELSE Capacity
        /\ \A i \in 1 .. early.count :
             early.entries[(early.read_index + i - 1) % Capacity]
               = fallback[Len(fallback) - early.count + i]
    BY DEF WatchdogInv, ClientInv, TypeOK, RingType, Holds
  <2> DEFINE newest == SubSeq(fallback, Len(fallback) - early.count + 1, Len(fallback))
  <2>2. newest = [i \in 1 .. early.count |-> fallback[Len(fallback) - early.count + i]]
    <3>1. Len(fallback) \in Nat /\ early.count <= Len(fallback)
      BY <2>1
    <3> QED
      <4>1. fallback \in Seq(Sent) /\ early.count \in 0 .. Len(fallback)
        BY <2>1, <3>1
      <4> QED
        BY <4>1, NewestPart
  <2>3. Kept(early) = newest
    <3> HIDE DEF newest
    <3> QED
      BY <2>1, <2>2 DEF Kept
  <2> QED
    BY <2>1, <2>3 DEF KeepsNewest
<1> QED
  BY <1>1, WatchdogInvariant, PTL

(* No entry is published twice, and none is published and kept             *)
(* (log_client.c:182-190).                                                 *)
THEOREM OnlyOnePlace == WatchdogSpec => []OnePlace
<1>1. WatchdogInv => OnePlace
  <2> SUFFICES ASSUME WatchdogInv PROVE OnePlace
    OBVIOUS
  <2>1. \A i, j \in 1 .. Len(topic) : topic[i] = topic[j] => i = j
    <3>1. \A i \in 1 .. Len(topic) : topic[i] \in Int
      BY DEF WatchdogInv, ClientInv, TypeOK, Sent
    <3> QED
      BY <3>1 DEF WatchdogInv, ClientInv, Increasing
  <2>2. ASSUME NEW e \in Sent, Held(e), Published(e) PROVE FALSE
    <3>1. PICK i \in 1 .. early.count : Kept(early)[i] = e
      BY <2>2 DEF Held
    <3>2. PICK j \in 1 .. Len(topic) : topic[j] = e
      BY <2>2 DEF Published
    <3>3. e = fallback[Len(fallback) - early.count + i]
      BY <3>1 DEF Kept, WatchdogInv, ClientInv, Holds
    <3>4. Len(fallback) - early.count + i \in 1 .. Len(fallback)
      BY DEF WatchdogInv, ClientInv, TypeOK, RingType, Holds
    <3> QED
      BY <3>2, <3>3, <3>4 DEF WatchdogInv, ClientInv, Disjoint
  <2> QED
    BY <2>1, <2>2 DEF OnePlace
<1> QED
  BY <1>1, WatchdogInvariant, PTL
-----------------------------------------------------------------------------
(* Nothing sent is forgotten: an entry was published, or fell back to the  *)
(* early ring since it was cleared, or is older than that, or the ring was *)
(* never initialized.  A component that triggered has an entry.            *)
In(q, e) == \E i \in 1 .. Len(q) : q[i] = e

AlarmInv ==
  /\ \A e \in 1 .. sent :
       In(topic, e) \/ In(fallback, e) \/ e <= cleared \/ ~early.initialized
  /\ \A i \in 1 .. Len(components) :
       components[i].state = "TRIGGERED" => components[i].alarm \in 1 .. sent

(* What was in a sequence still is in it when an entry is appended.        *)
LEMMA StaysIn ==
  ASSUME NEW q \in Seq(Sent), NEW x \in Sent
  PROVE  In(Append(q, x), x) /\ \A e : In(q, e) => In(Append(q, x), e)
<1>1. /\ Len(q) \in Nat /\ Len(Append(q, x)) = Len(q) + 1
      /\ Append(q, x)[Len(q) + 1] = x
      /\ \A i \in 1 .. Len(q) : Append(q, x)[i] = q[i]
  OBVIOUS
<1> QED
  BY <1>1 DEF In

(* log_client_send_entry accounts for the entry it sends and for all       *)
(* earlier ones.                                                           *)
LEMMA SendAccounts ==
  ASSUME ClientInv, SendEntry,
         \A e \in 1 .. sent :
           In(topic, e) \/ In(fallback, e) \/ e <= cleared \/ ~early.initialized
  PROVE  \A e \in 1 .. sent' :
           In(topic', e) \/ In(fallback', e) \/ e <= cleared' \/ ~early'.initialized
<1>1. /\ sent \in Nat /\ sent + 1 \in Sent /\ sent' = sent + 1 /\ cleared' = cleared
      /\ topic \in Seq(Sent) /\ fallback \in Seq(Sent) /\ early \in RingType
  BY DEF ClientInv, TypeOK, SendEntry, Sent
<1> SUFFICES ASSUME NEW e \in 1 .. sent + 1
             PROVE  \/ In(topic', e) \/ In(fallback', e) \/ e <= cleared
                    \/ ~early'.initialized
  BY <1>1
<1>2. e \in 1 .. sent \/ e = sent + 1
  BY <1>1
<1>3. CASE Publish(sent + 1)
  <2>1. topic' = Append(topic, sent + 1) /\ fallback' = fallback /\ early' = early
    BY <1>3 DEF Publish
  <2> QED
    BY <1>1, <1>2, <2>1, StaysIn
<1>4. CASE Fallback(sent + 1)
  <2>1. CASE early.initialized
    <3>1. topic' = topic /\ fallback' = Append(fallback, sent + 1)
      BY <1>4, <2>1 DEF Fallback
    <3> QED
      BY <1>1, <1>2, <2>1, <3>1, StaysIn
  <2>2. CASE ~early.initialized
    BY <1>4, <2>2 DEF Fallback
  <2> QED
    BY <2>1, <2>2
<1> QED
  BY <1>3, <1>4 DEF SendEntry

(* Every step of the watchdog and the client keeps the account.            *)
LEMMA AlarmStep ==
  ASSUME WatchdogInv, WatchdogInv', AlarmInv, [WatchdogNext]_<<vars, watchdogVars>>
  PROVE  AlarmInv'
<1>0. /\ ClientInv /\ topic \in Seq(Sent) /\ sent \in Nat
      /\ components \in Seq(Component)
  BY DEF WatchdogInv, ClientInv, TypeOK
<1>1. CASE Next /\ UNCHANGED watchdogVars
  <2>1. components' = components
    BY <1>1 DEF watchdogVars
  <2>2. CASE InitAgain \/ InitWithoutPublisher \/ InitAndFlush
    <3>1. cleared' = sent /\ sent' = sent
      BY <2>2 DEF InitAgain, InitWithoutPublisher, InitAndFlush
    <3> QED
      BY <1>0, <2>1, <3>1 DEF AlarmInv
  <2>3. CASE SendEntry
    <3>1. sent' = sent + 1
      BY <2>3 DEF SendEntry
    <3>2. \A e \in 1 .. sent' :
            \/ In(topic', e) \/ In(fallback', e) \/ e <= cleared'
            \/ ~early'.initialized
      BY <1>0, <2>3, SendAccounts DEF AlarmInv
    <3>3. \A i \in 1 .. Len(components') :
            components'[i].state = "TRIGGERED" => components'[i].alarm \in 1 .. sent'
      BY <1>0, <2>1, <3>1 DEF AlarmInv
    <3> QED
      BY <3>2, <3>3 DEF AlarmInv
  <2>4. CASE Cleanup
    BY <2>1, <2>4 DEF Cleanup, AlarmInv
  <2> QED
    BY <1>1, <2>2, <2>3, <2>4 DEF Next
<1>2. CASE InitWatchdog
  <2>1. Len(components') = 0 /\ UNCHANGED vars
    BY <1>2 DEF InitWatchdog
  <2> QED
    BY <2>1 DEF vars, AlarmInv
<1>3. ASSUME NEW level \in WatchdogLevel, NEW timeout_ms \in Timeout,
             Register(level, timeout_ms)
      PROVE  AlarmInv'
  <2> DEFINE c == [level |-> level, timeout_ms |-> timeout_ms,
                   state |-> "DISABLED", alarm |-> 0]
  <2>1. SendEntry /\ sent' = sent + 1 /\ components' = Append(components, c)
    BY <1>3 DEF Register, SendEntry
  <2>2. c.state # "TRIGGERED"
    OBVIOUS
  <2> HIDE DEF c
  <2>3. \A e \in 1 .. sent' :
          In(topic', e) \/ In(fallback', e) \/ e <= cleared' \/ ~early'.initialized
    BY <1>0, <2>1, SendAccounts DEF AlarmInv
  <2>4. \A i \in 1 .. Len(components') :
          components'[i].state = "TRIGGERED" => components'[i].alarm \in 1 .. sent'
    <3>1. /\ Len(components) \in Nat /\ Len(components') = Len(components) + 1
          /\ components'[Len(components) + 1] = c
          /\ \A i \in 1 .. Len(components) : components'[i] = components[i]
      <4>1. c \in Component
        BY <1>3 DEF Register, Component, c
      <4> QED
        BY <1>0, <2>1, <4>1
    <3> QED
      BY <1>0, <2>1, <2>2, <3>1 DEF AlarmInv
  <2> QED
    BY <2>3, <2>4 DEF AlarmInv
<1>4. ASSUME NEW level \in WatchdogLevel, TimeoutHandler(level)
      PROVE  AlarmInv'
  <2>1. SendEntry /\ sent' = sent + 1
    BY <1>4 DEF TimeoutHandler, SendEntry
  <2>2. components' = [components EXCEPT ![FirstOf(level)].state = "TRIGGERED",
                                         ![FirstOf(level)].alarm = sent + 1]
    BY <1>4 DEF TimeoutHandler
  <2>3. \A e \in 1 .. sent' :
          In(topic', e) \/ In(fallback', e) \/ e <= cleared' \/ ~early'.initialized
    BY <1>0, <2>1, SendAccounts DEF AlarmInv
  <2>4. ASSUME NEW i \in 1 .. Len(components'), components'[i].state = "TRIGGERED"
        PROVE  components'[i].alarm \in 1 .. sent'
    <3>0. sent + 1 \in 0 .. MaxSends
      BY <1>4 DEF TimeoutHandler, SendEntry, WatchdogInv, ClientInv, TypeOK
    <3>1. /\ Len(components') = Len(components)
          /\ FirstOf(level) \in 1 .. Len(components) =>
               components'[FirstOf(level)].alarm = sent + 1
          /\ \A n \in 1 .. Len(components) :
               n # FirstOf(level) => components'[n] = components[n]
      <4> DEFINE k == FirstOf(level)
                 d == [components EXCEPT ![k].state = "TRIGGERED", ![k].alarm = sent + 1]
      <4>1. components' = d
        BY <2>2
      <4>2. /\ Len(d) = Len(components)
            /\ k \in 1 .. Len(components) => d[k].alarm = sent + 1
            /\ \A n \in 1 .. Len(components) : n # k => d[n] = components[n]
        <5> HIDE DEF k
        <5> QED
          BY <1>0, <3>0, MarkedType
      <4> HIDE DEF d
      <4> QED
        BY <4>1, <4>2, Zenon
    <3>2. CASE i = FirstOf(level)
      <4>1. components'[i].alarm = sent + 1
        BY <3>1, <3>2, Zenon
      <4> QED
        BY <1>0, <2>1, <4>1
    <3>3. CASE i # FirstOf(level)
      <4>1. components'[i] = components[i] /\ i \in 1 .. Len(components)
        BY <3>1, <3>3, Zenon
      <4> QED
        BY <1>0, <2>1, <2>4, <4>1 DEF AlarmInv
    <3> QED
      BY <3>2, <3>3
  <2> QED
    BY <2>3, <2>4 DEF AlarmInv
<1>5. CASE UNCHANGED <<vars, watchdogVars>>
  BY <1>5 DEF vars, watchdogVars, AlarmInv
<1> QED
  BY <1>1, <1>2, <1>3, <1>4, <1>5 DEF WatchdogNext

(* A timeout leaves a trace (watchdog.c:151-154, log_client.c:179-190):    *)
(* for any capacities, components and failures, the entry of the last      *)
(* timeout of a component is published, kept, or displaced.                *)
THEOREM TimeoutsLeaveTraces == WatchdogSpec => []AlarmTraceable
<1>1. WatchdogInit => AlarmInv
  <2> SUFFICES ASSUME WatchdogInit PROVE AlarmInv
    OBVIOUS
  <2>1. sent = 0 /\ Len(components) = 0
    BY DEF WatchdogInit, Init
  <2> QED
    BY <2>1 DEF AlarmInv
<1>2. WatchdogInv /\ WatchdogInv' /\ AlarmInv
        /\ [WatchdogNext]_<<vars, watchdogVars>> => AlarmInv'
  BY AlarmStep
<1>3. WatchdogInv /\ AlarmInv => AlarmTraceable
  <2> SUFFICES ASSUME WatchdogInv, AlarmInv, NEW i \in DOMAIN components,
                      components[i].state = "TRIGGERED",
                      NEW e, e = components[i].alarm
               PROVE  Published(e) \/ Held(e) \/ (e > 0 /\ Displaced(e))
    BY DEF AlarmTraceable
  <2>1. e \in 1 .. sent /\ sent \in Nat
    <3>1. i \in 1 .. Len(components) /\ sent \in Nat
      BY DEF WatchdogInv, ClientInv, TypeOK
    <3> QED
      BY <3>1 DEF AlarmInv
  <2>2. CASE In(topic, e)
    BY <2>2 DEF In, Published
  <2>3. CASE In(fallback, e)
    <3>1. PICK k \in 1 .. Len(fallback) : fallback[k] = e
      BY <2>3 DEF In
    <3>2. /\ Len(fallback) \in Nat /\ early.count \in 0 .. Capacity
          /\ early.count = IF Len(fallback) < Capacity THEN Len(fallback) ELSE Capacity
          /\ \A j \in 1 .. early.count :
               early.entries[(early.read_index + j - 1) % Capacity]
                 = fallback[Len(fallback) - early.count + j]
      <4>1. fallback \in Seq(Sent) /\ early.count \in 0 .. Capacity
        BY DEF WatchdogInv, ClientInv, TypeOK, RingType
      <4>2. Holds(early, fallback)
        BY DEF WatchdogInv, ClientInv
      <4>3. Len(fallback) \in Nat
        BY <4>1
      <4> QED
        BY <4>1, <4>2, <4>3, Zenon DEF Holds
    <3>3. CASE k <= Len(fallback) - Capacity
      BY <2>1, <3>1, <3>2, <3>3 DEF Displaced
    <3>4. CASE k > Len(fallback) - Capacity
      <4> DEFINE j == k - (Len(fallback) - early.count)
      <4>1. j \in 1 .. early.count /\ Len(fallback) - early.count + j = k
        <5> DEFINE n == Len(fallback)
                   m == early.count
        <5>1. /\ n \in Nat /\ m \in Nat /\ k \in 1 .. n /\ k > n - Capacity
              /\ m = IF n < Capacity THEN n ELSE Capacity
          BY <3>2, <3>4
        <5> HIDE DEF n, m
        <5>2. k - (n - m) \in 1 .. m /\ n - m + (k - (n - m)) = k
          BY <5>1
        <5> QED
          BY <5>2 DEF n, m
      <4> HIDE DEF j
      <4>2. Kept(early)[j] = e
        BY <3>1, <3>2, <4>1 DEF Kept
      <4> QED
        BY <4>1, <4>2 DEF Held
    <3> QED
      BY <3>1, <3>2, <3>3, <3>4
  <2>4. CASE e <= cleared \/ ~early.initialized
    BY <2>1, <2>4 DEF Displaced
  <2> QED
    BY <2>1, <2>2, <2>3, <2>4 DEF AlarmInv
<1> QED
  BY <1>1, <1>2, <1>3, WatchdogInvariant, PTL DEF WatchdogSpec
=============================================================================
