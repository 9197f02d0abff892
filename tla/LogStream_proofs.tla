-------------------------- MODULE LogStream_proofs --------------------------
(***************************************************************************)
(* Proofs about the entries of LogStream and their readers, for any number *)
(* of entries, damages, levels, filters and command lines.                 *)
(*                                                                         *)
(* The medium may only touch entries that neither reader has, so that what *)
(* a reader once found in an entry stays true of it.  The inductive        *)
(* invariant states for each reader what it has concluded from the entries *)
(* it has read, in terms of the stream as it is now: what it refused, what *)
(* it kept, and what it printed.                                           *)
(*                                                                         *)
(* The folds over command lines and databases, and the sum over the        *)
(* buffers, are computed by functions on the subsets of a finite set.      *)
(* That such a function exists, and what holds of all its values, follows  *)
(* from the absence of a smallest counterexample.                          *)
(***************************************************************************)
EXTENDS LogStream, FiniteSetTheorems, TLAPS

\* The entries among the first n of s that do not verify.
BadIn(s, n) == {m \in 1 .. n : ~VerifyIntegrity(s[m])}

\* The fields in which two entries differ.
Differ(e, o) == {f \in Field \cup {"checksum"} : e[f] # o[f]}
-----------------------------------------------------------------------------
(* Membership in an interval from 0, without its elements.                 *)
LEMMA IntervalMember ==
  ASSUME NEW n \in Nat, NEW x
  PROVE  x \in 0 .. n <=> x \in Nat /\ x <= n
OBVIOUS

(* Membership in a byte, without its 256 elements.                         *)
LEMMA ByteMember == \A x : x \in Byte <=> x \in Nat /\ x <= 255
<1>1. 255 \in Nat
  OBVIOUS
<1> QED
  BY <1>1, IntervalMember, Zenon DEF Byte

(* The sum of the bytes of an entry is far below the modulus of the        *)
(* checksum.                                                               *)
LEMMA SumFits ==
  ASSUME NEW l \in Byte, NEW t \in Byte, NEW m \in Byte, NEW d \in Byte
  PROVE  /\ (l + t + m + d) % ChecksumMod = l + t + m + d
         /\ l + t + m + d \in 0 .. ChecksumMod - 1
<1>1. /\ l \in Nat /\ t \in Nat /\ m \in Nat /\ d \in Nat
      /\ l <= 255 /\ t <= 255 /\ m <= 255 /\ d <= 255
  BY ByteMember
<1>2. l + t + m + d \in Nat /\ l + t + m + d <= 1020
  BY <1>1
<1>3. ChecksumMod \in Nat /\ ChecksumMod > 1020
  BY EntryAssumption
<1>4. l + t + m + d \in 0 .. ChecksumMod - 1
  BY <1>2, <1>3
<1>5. \A x \in 0 .. ChecksumMod - 1 : x % ChecksumMod = x
  BY <1>3
<1> QED
  BY <1>4, <1>5

(* log_create_entry makes an entry that verifies.                          *)
LEMMA CreatedVerifies ==
  ASSUME NEW l \in Byte, NEW t \in Byte, NEW m \in Byte, NEW d \in Byte
  PROVE  /\ Created(l, t, m, d) \in Entry
         /\ VerifyIntegrity(Created(l, t, m, d))
         /\ Created(l, t, m, d).level = l
         /\ Created(l, t, m, d).tag_id = t
         /\ Created(l, t, m, d).message_id = m
<1> DEFINE e == [level |-> l, tag_id |-> t, message_id |-> m, data |-> d,
                 checksum |-> l + t + m + d]
<1>1. (l + t + m + d) % ChecksumMod = l + t + m + d /\ l + t + m + d \in 0 .. ChecksumMod - 1
  BY SumFits
<1>2. Created(l, t, m, d) = e
  BY <1>1 DEF Created, Checksum
<1>3. e \in Entry
  BY <1>1 DEF Entry
<1>4. VerifyIntegrity(e)
  BY <1>1 DEF VerifyIntegrity, Checksum
<1> QED
  BY <1>2, <1>3, <1>4

(* Two entries that verify do not differ in one field only.                *)
LEMMA OneFieldShows ==
  ASSUME NEW e \in Entry, NEW o \in Entry,
         VerifyIntegrity(e), VerifyIntegrity(o),
         NEW g, Differ(e, o) = {g}
  PROVE  FALSE
<1>1. /\ e.level \in Byte /\ e.tag_id \in Byte /\ e.message_id \in Byte
      /\ e.data \in Byte
      /\ o.level \in Byte /\ o.tag_id \in Byte /\ o.message_id \in Byte
      /\ o.data \in Byte
  BY DEF Entry
<1>2. /\ e.checksum = e.level + e.tag_id + e.message_id + e.data
      /\ o.checksum = o.level + o.tag_id + o.message_id + o.data
  BY <1>1, SumFits DEF VerifyIntegrity, Checksum
<1>3. g \in {"level", "tag_id", "message_id", "data", "checksum"}
  BY DEF Differ, Field
<1>4. \A f \in {"level", "tag_id", "message_id", "data", "checksum"} :
        e[f] # o[f] <=> f = g
  BY DEF Differ, Field
<1>5. /\ e.level # o.level <=> "level" = g
      /\ e.tag_id # o.tag_id <=> "tag_id" = g
      /\ e.message_id # o.message_id <=> "message_id" = g
      /\ e.data # o.data <=> "data" = g
      /\ e.checksum # o.checksum <=> "checksum" = g
  BY <1>4
<1>6. /\ e.level \in Nat /\ e.tag_id \in Nat /\ e.message_id \in Nat
      /\ e.data \in Nat
      /\ o.level \in Nat /\ o.tag_id \in Nat /\ o.message_id \in Nat
      /\ o.data \in Nat
  BY <1>1, ByteMember
<1>7. CASE g = "level"
  BY <1>2, <1>5, <1>6, <1>7
<1>8. CASE g = "tag_id"
  BY <1>2, <1>5, <1>6, <1>8
<1>9. CASE g = "message_id"
  BY <1>2, <1>5, <1>6, <1>9
<1>10. CASE g = "data"
  BY <1>2, <1>5, <1>6, <1>10
<1>11. CASE g = "checksum"
  BY <1>2, <1>5, <1>11
<1> QED
  BY <1>3, <1>7, <1>8, <1>9, <1>10, <1>11

(* Two entries differ in finitely many fields.                             *)
LEMMA DifferFinite ==
  ASSUME NEW e, NEW o
  PROVE  IsFiniteSet(Differ(e, o))
<1>1. IsFiniteSet({"level"})
  BY FS_Singleton
<1>2. IsFiniteSet({"level"} \cup {"tag_id"})
  BY <1>1, FS_AddElement
<1>3. IsFiniteSet(({"level"} \cup {"tag_id"}) \cup {"message_id"})
  BY <1>2, FS_AddElement
<1>4. IsFiniteSet((({"level"} \cup {"tag_id"}) \cup {"message_id"})
                  \cup {"data"})
  BY <1>3, FS_AddElement
<1>5. IsFiniteSet(((({"level"} \cup {"tag_id"}) \cup {"message_id"})
                  \cup {"data"}) \cup {"checksum"})
  BY <1>4, FS_AddElement
<1>6. Differ(e, o) \in SUBSET (((({"level"} \cup {"tag_id"})
                  \cup {"message_id"}) \cup {"data"}) \cup {"checksum"})
  BY DEF Differ, Field
<1> QED
  BY <1>5, <1>6, FS_Subset

(* The readers' conclusions about the first n entries do not depend on the *)
(* others.                                                                 *)
LEMMA BadPrefix ==
  ASSUME NEW s, NEW t, NEW n \in Nat, \A m \in 1 .. n : s[m] = t[m]
  PROVE  BadIn(s, n) = BadIn(t, n)
BY DEF BadIn

(* One entry more adds itself to the bad ones or changes nothing.          *)
LEMMA BadNext ==
  ASSUME NEW s, NEW n \in Nat
  PROVE  /\ IsFiniteSet(BadIn(s, n))
         /\ Cardinality(BadIn(s, n)) \in Nat
         /\ VerifyIntegrity(s[n + 1]) => BadIn(s, n + 1) = BadIn(s, n)
         /\ ~VerifyIntegrity(s[n + 1]) =>
              /\ BadIn(s, n + 1) = BadIn(s, n) \cup {n + 1}
              /\ Cardinality(BadIn(s, n + 1)) = Cardinality(BadIn(s, n)) + 1
<1>1. IsFiniteSet(BadIn(s, n)) /\ n + 1 \notin BadIn(s, n)
  <2>1. IsFiniteSet(1 .. n)
    BY FS_Interval
  <2>2. BadIn(s, n) \in SUBSET (1 .. n)
    BY DEF BadIn
  <2>3. n + 1 \notin 1 .. n
    OBVIOUS
  <2> QED
    BY <2>1, <2>2, <2>3, FS_Subset
<1>2. 1 .. n + 1 = (1 .. n) \cup {n + 1}
  OBVIOUS
<1>3. VerifyIntegrity(s[n + 1]) => BadIn(s, n + 1) = BadIn(s, n)
  BY <1>2 DEF BadIn
<1>4. ~VerifyIntegrity(s[n + 1]) => BadIn(s, n + 1) = BadIn(s, n) \cup {n + 1}
  BY <1>2 DEF BadIn
<1> QED
  BY <1>1, <1>3, <1>4, FS_AddElement, FS_CardinalityType

(* A changed byte leaves an entry.                                         *)
LEMMA FieldChange ==
  ASSUME NEW e \in Entry, NEW f \in Field, NEW v \in Byte
  PROVE  [e EXCEPT ![f] = v] \in Entry
<1>1. CASE f = "level"
  BY <1>1 DEF Entry
<1>2. CASE f = "tag_id"
  BY <1>2 DEF Entry
<1>3. CASE f = "message_id"
  BY <1>3 DEF Entry
<1>4. CASE f = "data"
  BY <1>4 DEF Entry
<1> QED
  BY <1>1, <1>2, <1>3, <1>4 DEF Field

(* A changed checksum leaves an entry.                                     *)
LEMMA ChecksumChange ==
  ASSUME NEW e \in Entry, NEW v \in 0 .. ChecksumMod - 1
  PROVE  [e EXCEPT !["checksum"] = v] \in Entry
BY DEF Entry

(* The lower byte of a checksum field may take any value.                  *)
LEMMA LowerByte ==
  ASSUME NEW c \in 0 .. ChecksumMod - 1, NEW v \in Byte
  PROVE  c - (c % 256) + v \in 0 .. ChecksumMod - 1
<1>1. v \in Nat /\ v <= 255
  BY ByteMember
<1>2. ChecksumMod \in Nat /\ ChecksumMod % 256 = 0
  BY EntryAssumption
<1>3. PICK q \in Int : ChecksumMod = 256 * q
  BY <1>2
<1>4. PICK k \in Int : c - (c % 256) = 256 * k
  OBVIOUS
<1>5. c \in Int /\ c >= 0 /\ c < ChecksumMod /\ c % 256 \in 0 .. 255
  BY <1>2
<1>6. k < q /\ k >= 0
  BY <1>3, <1>4, <1>5
<1> QED
  BY <1>1, <1>3, <1>4, <1>6
-----------------------------------------------------------------------------
\* What the service has concluded from the first a entries of s.
ServiceKnows(s, b, r, a) ==
  /\ b \in [Level -> [size : Nat, entries : Seq(Nat)]]
  /\ \A l \in Level : \A k \in 1 .. Len(b[l].entries) :
       /\ b[l].entries[k] \in 1 .. a
       /\ VerifyIntegrity(s[b[l].entries[k]])
  /\ r = BadIn(s, a)

\* What the parser has concluded from the first n entries of s.
ParserKnows(s, o, p, st, n) ==
  /\ \E S : p \in Seq(S)
  /\ \A k \in 1 .. Len(p) : /\ p[k].entry \in 1 .. n
                            /\ VerifyIntegrity(s[p[k].entry])
  /\ st.corrupted = Cardinality(BadIn(s, n))
  /\ (\A i \in 1 .. n : Differ(s[i], o[i]) = {}) =>
       st = [total |-> n, valid |-> n, corrupted |-> 0, unknown |-> 0]

\* What log_create_entry makes.
Sound(e) ==
  VerifyIntegrity(e) /\ InRange(e.level, e.tag_id, e.message_id)

StreamTyped ==
  /\ original \in Seq(Entry) /\ stream \in Seq(Entry)
  /\ Len(original) = Len(stream)
  /\ \A i \in 1 .. Len(original) : Sound(original[i])
  /\ arrivals \in Nat /\ arrivals <= Len(stream)
  /\ position \in Nat /\ position <= Len(stream)
  /\ phase = "start" => position = 0

\* The inductive invariant
StreamInv ==
  /\ StreamTyped
  /\ ServiceKnows(stream, buffers, refused, arrivals)
  /\ ParserKnows(stream, original, printed, stats, position)

(* What the service knows depends on the entries it has got only.          *)
LEMMA ServicePrefix ==
  ASSUME NEW s, NEW t, NEW b, NEW r, NEW a \in Nat,
         ServiceKnows(s, b, r, a), \A m \in 1 .. a : s[m] = t[m]
  PROVE  ServiceKnows(t, b, r, a)
BY BadPrefix DEF ServiceKnows

(* What the parser knows depends on the entries it has read only.          *)
LEMMA ParserPrefix ==
  ASSUME NEW s, NEW t, NEW o, NEW q, NEW p, NEW st, NEW n \in Nat,
         ParserKnows(s, o, p, st, n),
         \A m \in 1 .. n : s[m] = t[m] /\ o[m] = q[m]
  PROVE  ParserKnows(t, q, p, st, n)
BY BadPrefix DEF ParserKnows
-----------------------------------------------------------------------------
(* The invariant holds of the empty stream.                                *)
LEMMA StreamInitial == Init => StreamInv
<1> SUFFICES ASSUME Init PROVE StreamInv
  OBVIOUS
<1>1. \A s : BadIn(s, 0) = {}
  BY DEF BadIn
<1>2. StreamTyped
  BY DEF Init, ServiceInit, ParserInit, StreamTyped
<1>3. ServiceKnows(stream, buffers, refused, arrivals)
  BY <1>1 DEF Init, ServiceInit, ServiceKnows
<1>4. ParserKnows(stream, original, printed, stats, position)
  <2>1. /\ printed = << >> /\ position = 0
        /\ stats = [total |-> 0, valid |-> 0, corrupted |-> 0, unknown |-> 0]
    BY DEF Init, ParserInit, NoStats
  <2>2. printed \in Seq({})
    BY <2>1
  <2> QED
    BY <1>1, <2>1, <2>2, FS_EmptySet DEF ParserKnows
<1> QED
  BY <1>2, <1>3, <1>4 DEF StreamInv

(* Only entries that neither reader has are touched.                       *)
LEMMA MediumStep ==
  ASSUME StreamInv, NEW i \in DOMAIN stream, Underway(i), NEW e \in Entry,
         stream' = [stream EXCEPT ![i] = e],
         UNCHANGED <<original, serviceVars, parserVars>>
  PROVE  StreamInv'
<1>1. StreamTyped'
  BY DEF StreamInv, StreamTyped, serviceVars, parserVars
<1>2. /\ arrivals \in Nat /\ position \in Nat
      /\ \A m \in 1 .. arrivals : stream[m] = stream'[m]
      /\ \A m \in 1 .. position : stream[m] = stream'[m]
  BY DEF StreamInv, StreamTyped, Underway
<1>3. ServiceKnows(stream, buffers, refused, arrivals)'
  BY <1>2, ServicePrefix DEF StreamInv, serviceVars
<1>4. ParserKnows(stream, original, printed, stats, position)'
  BY <1>2, ParserPrefix DEF StreamInv, parserVars
<1> QED
  BY <1>1, <1>3, <1>4 DEF StreamInv

(* log_create_entry preserves the invariant.                               *)
LEMMA CreateStep ==
  ASSUME StreamInv, NEW r \in Request, CreateEntry(r)
  PROVE  StreamInv'
<1> DEFINE e == Created(r.level, r.tag_id, r.message_id, r.data)
<1>1. e \in Entry /\ Sound(e)
  <2>1. /\ r.level \in Byte /\ r.tag_id \in Byte /\ r.message_id \in Byte
        /\ r.data \in Byte
    BY StreamAssumption
  <2>2. InRange(r.level, r.tag_id, r.message_id)
    BY DEF CreateEntry
  <2>3. ASSUME NEW l \in Byte, NEW t \in Byte, NEW m \in Byte, NEW d \in Byte,
               InRange(l, t, m)
        PROVE  Created(l, t, m, d) \in Entry /\ Sound(Created(l, t, m, d))
    BY <2>3, CreatedVerifies DEF Sound
  <2> QED
    BY <2>1, <2>2, <2>3
<1>2. /\ original' = Append(original, e) /\ stream' = Append(stream, e)
      /\ UNCHANGED <<serviceVars, parserVars>>
  BY DEF CreateEntry
<1> HIDE DEF e
<1>3. /\ original \in Seq(Entry) /\ stream \in Seq(Entry)
      /\ Len(original) = Len(stream)
      /\ arrivals \in Nat /\ arrivals <= Len(stream)
      /\ position \in Nat /\ position <= Len(stream)
  BY DEF StreamInv, StreamTyped
<1>4. StreamTyped'
  BY <1>1, <1>2, <1>3 DEF StreamInv, StreamTyped, serviceVars, parserVars
<1>5. /\ \A m \in 1 .. arrivals : stream[m] = stream'[m]
      /\ \A m \in 1 .. position : /\ stream[m] = stream'[m]
                                  /\ original[m] = original'[m]
  BY <1>1, <1>2, <1>3
<1>6. ServiceKnows(stream, buffers, refused, arrivals)'
  BY <1>2, <1>3, <1>5, ServicePrefix DEF StreamInv, serviceVars
<1>7. ParserKnows(stream, original, printed, stats, position)'
  BY <1>2, <1>3, <1>5, ParserPrefix DEF StreamInv, parserVars
<1> QED
  BY <1>4, <1>6, <1>7 DEF StreamInv

(* A byte changed on the way preserves the invariant.                      *)
LEMMA ChangeStep ==
  ASSUME StreamInv, NEW i \in DOMAIN stream, NEW f \in Field \cup {"checksum"},
         NEW v \in DamagedByte, ChangeByte(i, f, v)
  PROVE  StreamInv'
<1>1. stream[i] \in Entry /\ v \in Byte
  BY StreamAssumption DEF StreamInv, StreamTyped
<1>2. CASE f = "checksum"
  <2> DEFINE c == stream[i]["checksum"] - (stream[i]["checksum"] % 256) + v
  <2>1. stream[i]["checksum"] \in 0 .. ChecksumMod - 1
    BY <1>1 DEF Entry
  <2>2. c \in 0 .. ChecksumMod - 1
    BY <1>1, <2>1, LowerByte
  <2>3. stream' = [stream EXCEPT ![i] = [stream[i] EXCEPT !["checksum"] = c]]
    BY <1>2 DEF ChangeByte
  <2> HIDE DEF c
  <2>4. [stream[i] EXCEPT !["checksum"] = c] \in Entry
    BY <1>1, <2>2, ChecksumChange
  <2> QED
    BY <2>3, <2>4, MediumStep DEF ChangeByte
<1>3. CASE f \in Field
  <2>1. f # "checksum"
    BY <1>3 DEF Field
  <2>2. stream' = [stream EXCEPT ![i] = [stream[i] EXCEPT ![f] = v]]
    BY <2>1 DEF ChangeByte
  <2>3. [stream[i] EXCEPT ![f] = v] \in Entry
    BY <1>1, <1>3, FieldChange
  <2> QED
    BY <2>2, <2>3, MediumStep DEF ChangeByte
<1> QED
  BY <1>2, <1>3

(* Two bytes that change places preserve the invariant.                    *)
LEMMA SwapStep ==
  ASSUME StreamInv, NEW i \in DOMAIN stream, NEW f \in Field, NEW g \in Field,
         SwapBytes(i, f, g)
  PROVE  StreamInv'
<1>1. stream[i] \in Entry
  BY DEF StreamInv, StreamTyped
<1>2. \A h \in Field : stream[i][h] \in Byte
  BY <1>1 DEF Entry, Field
<1> DEFINE e == [[stream[i] EXCEPT ![f] = stream[i][g]]
                   EXCEPT ![g] = stream[i][f]]
<1>3. stream' = [stream EXCEPT ![i] = e]
  BY DEF SwapBytes, StreamInv, StreamTyped
<1>4. e \in Entry
  BY <1>1, <1>2, FieldChange
<1> HIDE DEF e
<1> QED
  BY <1>3, <1>4, MediumStep DEF SwapBytes

(* logger_service_init preserves the invariant.                            *)
LEMMA InitServiceStep ==
  ASSUME StreamInv, InitService, UNCHANGED <<original, stream, parserVars>>
  PROVE  StreamInv'
<1>1. StreamTyped'
  BY DEF StreamInv, StreamTyped, InitService, parserVars
<1>2. buffers' \in [Level -> [size : Nat, entries : Seq(Nat)]]
  BY ServiceAssumption DEF InitService
<1>3. ServiceKnows(stream, buffers, refused, arrivals)'
  BY <1>2 DEF StreamInv, ServiceKnows, InitService
<1>4. ParserKnows(stream, original, printed, stats, position)'
  BY DEF StreamInv, parserVars
<1> QED
  BY <1>1, <1>3, <1>4 DEF StreamInv

(* A buffer that takes an entry takes it at its end or not at all.         *)
LEMMA PutEntry ==
  ASSUME NEW b \in [size : Nat, entries : Seq(Nat)], NEW n \in Nat
  PROVE  /\ Put(b, n) \in [size : Nat, entries : Seq(Nat)]
         /\ \A k \in 1 .. Len(Put(b, n).entries) :
              \/ Put(b, n).entries[k] = n
              \/ /\ k \in 1 .. Len(b.entries)
                 /\ Put(b, n).entries[k] = b.entries[k]
<1>1. CASE Len(b.entries) >= b.size
  BY <1>1 DEF Put
<1>2. CASE ~(Len(b.entries) >= b.size)
  <2>1. Put(b, n) = [b EXCEPT !.entries = Append(b.entries, n)]
    BY <1>2 DEF Put
  <2>2. /\ b.entries \in Seq(Nat) /\ Append(b.entries, n) \in Seq(Nat)
        /\ Len(Append(b.entries, n)) = Len(b.entries) + 1
        /\ Append(b.entries, n)[Len(b.entries) + 1] = n
        /\ \A k \in 1 .. Len(b.entries) : Append(b.entries, n)[k] = b.entries[k]
    OBVIOUS
  <2>3. Put(b, n).entries = Append(b.entries, n) /\ Put(b, n).size = b.size
    BY <2>1
  <2>4. Put(b, n) \in [size : Nat, entries : Seq(Nat)]
    BY <2>1, <2>2
  <2>5. \A k \in 1 .. Len(b.entries) + 1 :
          k = Len(b.entries) + 1 \/ k \in 1 .. Len(b.entries)
    BY <2>2
  <2> QED
    BY <2>2, <2>3, <2>4, <2>5
<1> QED
  BY <1>1, <1>2

(* logger_service_process_message preserves the invariant.                 *)
LEMMA ProcessStep ==
  ASSUME StreamInv, arrivals < Len(stream), Process(stream[arrivals + 1]),
         UNCHANGED <<original, stream, parserVars>>
  PROVE  StreamInv'
<1>1. arrivals \in Nat /\ arrivals' = arrivals + 1
  BY DEF StreamInv, StreamTyped, Process
<1>2. StreamTyped'
  BY <1>1 DEF StreamInv, StreamTyped, parserVars
<1>3. ParserKnows(stream, original, printed, stats, position)'
  BY DEF StreamInv, parserVars
<1> DEFINE n == arrivals + 1
<1>4. /\ buffers \in [Level -> [size : Nat, entries : Seq(Nat)]]
      /\ \A l \in Level : \A k \in 1 .. Len(buffers[l].entries) :
           /\ buffers[l].entries[k] \in 1 .. n
           /\ VerifyIntegrity(stream[buffers[l].entries[k]])
      /\ refused = BadIn(stream, arrivals)
  BY <1>1 DEF StreamInv, ServiceKnows
<1>5. CASE VerifyIntegrity(stream[n])
  <2>1. refused' = BadIn(stream, n)
    BY <1>1, <1>4, <1>5, BadNext DEF Process
  <2>2. CASE stream[n].level \in Level
    <3> DEFINE m == stream[n].level
    <3>1. buffers' = [buffers EXCEPT ![m] = Put(buffers[m], n)]
      BY <1>5, <2>2 DEF Process
    <3>2. m \in Level /\ n \in Nat /\ n \in 1 .. n
      BY <1>1, <2>2
    <3> HIDE DEF m, n
    <3>3. /\ Put(buffers[m], n) \in [size : Nat, entries : Seq(Nat)]
          /\ \A k \in 1 .. Len(Put(buffers[m], n).entries) :
               \/ Put(buffers[m], n).entries[k] = n
               \/ /\ k \in 1 .. Len(buffers[m].entries)
                  /\ Put(buffers[m], n).entries[k] = buffers[m].entries[k]
      BY <1>4, <3>2, PutEntry
    <3>4. buffers' \in [Level -> [size : Nat, entries : Seq(Nat)]]
      BY <1>4, <3>1, <3>3
    <3>5. \A k \in 1 .. Len(buffers'[m].entries) :
            /\ buffers'[m].entries[k] \in 1 .. n
            /\ VerifyIntegrity(stream[buffers'[m].entries[k]])
      BY <1>4, <1>5, <3>1, <3>2, <3>3
    <3>6. \A l \in Level \ {m} : buffers'[l] = buffers[l]
      BY <1>4, <3>1
    <3>7. \A l \in Level : \A k \in 1 .. Len(buffers'[l].entries) :
            /\ buffers'[l].entries[k] \in 1 .. n
            /\ VerifyIntegrity(stream[buffers'[l].entries[k]])
      BY <1>4, <3>5, <3>6
    <3>8. ServiceKnows(stream, buffers', refused', n)
      BY <2>1, <3>4, <3>7 DEF ServiceKnows
    <3> QED
      BY <1>1, <1>2, <1>3, <3>8 DEF StreamInv, n
  <2>3. CASE stream[n].level \notin Level
    <3>1. buffers' = buffers
      BY <1>5, <2>3 DEF Process
    <3> HIDE DEF n
    <3>2. ServiceKnows(stream, buffers', refused', n)
      BY <1>4, <2>1, <3>1 DEF ServiceKnows
    <3> QED
      BY <1>1, <1>2, <1>3, <3>2 DEF StreamInv, n
  <2> QED
    BY <2>2, <2>3
<1>6. CASE ~VerifyIntegrity(stream[n])
  <2>1. refused' = BadIn(stream, n) /\ buffers' = buffers
    BY <1>1, <1>4, <1>6, BadNext DEF Process
  <2> HIDE DEF n
  <2>2. ServiceKnows(stream, buffers', refused', n)
    BY <1>4, <2>1 DEF ServiceKnows
  <2> QED
    BY <1>1, <1>2, <1>3, <2>2 DEF StreamInv, n
<1> QED
  BY <1>5, <1>6

(* The other steps of the service leave what it knows alone.               *)
LEMMA StatusStep ==
  ASSUME StreamInv, GetStatus, UNCHANGED <<original, stream, parserVars>>
  PROVE  StreamInv'
<1>1. StreamTyped'
  BY DEF StreamInv, StreamTyped, GetStatus, parserVars
<1> QED
  BY <1>1 DEF StreamInv, GetStatus, parserVars

(* The parser's own loop over the bytes decides like the logging library,  *)
(* and it accepts what log_create_entry makes.                             *)
LEMMA VerdictFacts ==
  ASSUME NEW e \in Entry
  PROVE  /\ Verdict(e) = "corrupted" <=> ~VerifyIntegrity(e)
         /\ Valid(e) => VerifyIntegrity(e)
         /\ Sound(e) => Verdict(e) = "known"
<1>1. ParserChecksum(e) = Checksum(e)
  BY DEF ParserChecksum, Checksum
<1>2. VerifyIntegrity(e) <=> ParserChecksum(e) = e.checksum
  BY <1>1 DEF VerifyIntegrity
<1>3. ~VerifyIntegrity(e) => Verdict(e) = "corrupted"
  BY <1>2 DEF Verdict
<1>4. VerifyIntegrity(e) => Verdict(e) \in {"bad_level", "unknown_tag", "known"}
  BY <1>2 DEF Verdict
<1>5. e.level \in Nat /\ e.tag_id \in Nat
  BY ByteMember DEF Entry
<1>6. Sound(e) => /\ ParserChecksum(e) = e.checksum
                  /\ ~(e.level >= LevelCount) /\ ~(e.tag_id >= TagCount)
  <2>1. LevelCount \in Nat /\ TagCount \in Nat
    BY EntryAssumption, ByteMember
  <2> QED
    BY <1>2, <1>5, <2>1 DEF Sound, InRange
<1>7. Sound(e) => Verdict(e) = "known"
  BY <1>6 DEF Verdict
<1>8. Valid(e) => Verdict(e) # "corrupted"
  BY DEF Valid
<1> QED
  BY <1>3, <1>4, <1>7, <1>8

(* Entries without a difference are equal as far as anyone looks.          *)
LEMMA SameSound ==
  ASSUME NEW e \in Entry, NEW o \in Entry, Sound(o), Differ(e, o) = {}
  PROVE  Sound(e)
<1>1. /\ e["level"] = o["level"] /\ e["tag_id"] = o["tag_id"]
      /\ e["message_id"] = o["message_id"] /\ e["data"] = o["data"]
      /\ e["checksum"] = o["checksum"]
  BY DEF Differ, Field
<1> QED
  BY <1>1 DEF Sound, VerifyIntegrity, Checksum

(* What is in a sequence after an element is appended.                     *)
LEMMA AppendAny ==
  ASSUME NEW S, NEW s \in Seq(S), NEW x
  PROVE  /\ Append(s, x) \in Seq(S \cup {x})
         /\ Len(Append(s, x)) = Len(s) + 1
         /\ Append(s, x)[Len(s) + 1] = x
         /\ \A k \in 1 .. Len(s) : Append(s, x)[k] = s[k]
         /\ \A k \in 1 .. Len(s) + 1 : k = Len(s) + 1 \/ k \in 1 .. Len(s)
<1>1. s \in Seq(S \cup {x})
  OBVIOUS
<1> QED
  BY <1>1

(* An entry read by the parser preserves the invariant.                    *)
LEMMA ReadStep ==
  ASSUME StreamInv, position < Len(stream), ReadEntry(stream[position + 1]),
         UNCHANGED <<original, stream, serviceVars>>
  PROVE  StreamInv'
<1> DEFINE n == position + 1
<1> DEFINE e == stream[n]
<1>1. /\ position \in Nat /\ n \in Nat /\ n \in 1 .. Len(stream)
      /\ position' = n /\ phase = "reading" /\ phase' = phase
      /\ e \in Entry /\ original[n] \in Entry /\ Sound(original[n])
  BY DEF StreamInv, StreamTyped, ReadEntry
<1>2. StreamTyped'
  BY <1>1 DEF StreamInv, StreamTyped, serviceVars
<1>3. ServiceKnows(stream, buffers, refused, arrivals)'
  BY DEF StreamInv, serviceVars
<1>4. /\ Verdict(e) = "corrupted" <=> ~VerifyIntegrity(e)
      /\ Valid(e) => VerifyIntegrity(e)
      /\ Sound(e) => Verdict(e) = "known"
  BY <1>1, VerdictFacts
<1>5. stats' = [total     |-> stats.total + 1,
                valid     |-> stats.valid + (IF Valid(e) THEN 1 ELSE 0),
                corrupted |-> stats.corrupted
                                + (IF Verdict(e) = "corrupted" THEN 1 ELSE 0),
                unknown   |-> stats.unknown
                                + (IF Verdict(e) = "unknown_tag" THEN 1 ELSE 0)]
  BY DEF ReadEntry
<1>6. \/ printed' = printed
      \/ /\ printed' = Append(printed, Line(options, n, e))
         /\ Valid(e)
  BY DEF ReadEntry
<1>7. ParserKnows(stream, original, printed, stats, position)
  BY DEF StreamInv
<1> HIDE DEF n, e
<1>8. stats'.corrupted = Cardinality(BadIn(stream, n))
  <2>1. stats.corrupted = Cardinality(BadIn(stream, position))
    BY <1>7 DEF ParserKnows
  <2>2. /\ Cardinality(BadIn(stream, position)) \in Nat
        /\ VerifyIntegrity(e) => BadIn(stream, n) = BadIn(stream, position)
        /\ ~VerifyIntegrity(e) => Cardinality(BadIn(stream, n)) =
                                    Cardinality(BadIn(stream, position)) + 1
    BY <1>1, BadNext DEF n, e
  <2>3. stats'.corrupted = stats.corrupted
                             + (IF Verdict(e) = "corrupted" THEN 1 ELSE 0)
    BY <1>5
  <2>4. CASE VerifyIntegrity(e)
    BY <1>4, <2>1, <2>2, <2>3, <2>4
  <2>5. CASE ~VerifyIntegrity(e)
    BY <1>4, <2>1, <2>2, <2>3, <2>5
  <2> QED
    BY <2>4, <2>5
<1>9. ASSUME \A i \in 1 .. n : Differ(stream[i], original[i]) = {}
      PROVE  stats' = [total |-> n, valid |-> n, corrupted |-> 0, unknown |-> 0]
  <2>1. stats = [total |-> position, valid |-> position,
                 corrupted |-> 0, unknown |-> 0]
    <3>1. \A i \in 1 .. position : i \in 1 .. n
      BY <1>1 DEF n
    <3>2. \A i \in 1 .. position : Differ(stream[i], original[i]) = {}
      BY <1>9, <3>1
    <3> QED
      BY <1>7, <3>2, Zenon DEF ParserKnows
  <2>2. n \in 1 .. n
    BY <1>1 DEF n
  <2>3. Sound(e)
    BY <1>1, <1>9, <2>2, SameSound DEF e
  <2>4. Verdict(e) = "known"
    BY <1>4, <2>3
  <2>5. Valid(e)
    BY <2>4 DEF Valid
  <2> QED
    BY <1>1, <1>5, <2>1, <2>4, <2>5 DEF n
<1>10. /\ \E S : printed' \in Seq(S)
       /\ \A k \in 1 .. Len(printed') :
            /\ printed'[k].entry \in 1 .. n
            /\ VerifyIntegrity(stream[printed'[k].entry])
  <2>1. /\ \E S : printed \in Seq(S)
        /\ \A k \in 1 .. Len(printed) :
             /\ printed[k].entry \in 1 .. n
             /\ VerifyIntegrity(stream[printed[k].entry])
    BY <1>1, <1>7 DEF ParserKnows, n
  <2>2. CASE printed' = printed
    BY <2>1, <2>2
  <2>3. CASE printed' = Append(printed, Line(options, n, e)) /\ Valid(e)
    <3>1. Line(options, n, e).entry = n /\ n \in 1 .. n
      BY <1>1 DEF Line, n
    <3>2. PICK S : printed \in Seq(S)
      BY <2>1
    <3>3. VerifyIntegrity(stream[n])
      BY <1>4, <2>3 DEF e
    <3> DEFINE x == Line(options, n, e)
    <3> HIDE DEF x
    <3>4. /\ printed' \in Seq(S \cup {x})
          /\ Len(printed') = Len(printed) + 1
          /\ printed'[Len(printed) + 1] = x
          /\ \A k \in 1 .. Len(printed) : printed'[k] = printed[k]
          /\ \A k \in 1 .. Len(printed) + 1 :
               k = Len(printed) + 1 \/ k \in 1 .. Len(printed)
      BY <2>3, <3>2, AppendAny DEF x
    <3>5. x.entry = n
      BY <3>1 DEF x
    <3> QED
      BY <2>1, <3>1, <3>3, <3>4, <3>5
  <2> QED
    BY <1>6, <2>2, <2>3
<1>11. ParserKnows(stream, original, printed', stats', n)
  BY <1>8, <1>9, <1>10 DEF ParserKnows
<1> QED
  BY <1>1, <1>2, <1>3, <1>11 DEF StreamInv

(* The parser starts to read, or ends: it knows what it knew.              *)
LEMMA OtherParserStep ==
  ASSUME StreamInv, GiveUp \/ Open \/ Finish,
         UNCHANGED <<original, stream, serviceVars>>
  PROVE  StreamInv'
<1>1. position' = position /\ printed' = printed
  BY DEF GiveUp, Open, Finish
<1>2. StreamTyped'
  BY <1>1 DEF StreamInv, StreamTyped, serviceVars, GiveUp, Open, Finish
<1>3. ServiceKnows(stream, buffers, refused, arrivals)'
  BY DEF StreamInv, serviceVars
<1>4. CASE stats' = stats
  BY <1>1, <1>2, <1>3, <1>4 DEF StreamInv
<1>5. CASE Open
  <2>1. /\ position = 0
        /\ stats' = [total |-> 0, valid |-> 0, corrupted |-> 0, unknown |-> 0]
    BY <1>5 DEF Open, NoStats, StreamInv, StreamTyped
  <2>2. BadIn(stream, 0) = {}
    BY DEF BadIn
  <2>3. ParserKnows(stream, original, printed, stats', position)
    BY <2>1, <2>2, FS_EmptySet DEF StreamInv, ParserKnows
  <2> QED
    BY <1>1, <1>2, <1>3, <2>3 DEF StreamInv
<1> QED
  BY <1>4, <1>5 DEF GiveUp, Finish

(* The inductive invariant holds in every state.                           *)
LEMMA StreamInvariant == Spec => []StreamInv
<1>1. StreamInv /\ [Next]_vars => StreamInv'
  <2> SUFFICES ASSUME StreamInv, [Next]_vars PROVE StreamInv'
    OBVIOUS
  <2>1. ASSUME NEW r \in Request, CreateEntry(r) PROVE StreamInv'
    BY <2>1, CreateStep
  <2>2. ASSUME NEW i \in DOMAIN stream, NEW f \in Field \cup {"checksum"},
               NEW v \in DamagedByte, ChangeByte(i, f, v)
        PROVE  StreamInv'
    BY <2>2, ChangeStep
  <2>3. ASSUME NEW i \in DOMAIN stream, NEW f \in Field, NEW g \in Field,
               SwapBytes(i, f, g)
        PROVE  StreamInv'
    BY <2>3, SwapStep
  <2>4. CASE Service
    BY <2>4, InitServiceStep, ProcessStep, StatusStep DEF Service
  <2>5. CASE Parser
    BY <2>5, ReadStep, OtherParserStep DEF Parser
  <2>6. CASE UNCHANGED vars
    BY <2>6 DEF vars, serviceVars, parserVars, StreamInv, StreamTyped
  <2> QED
    BY <2>1, <2>2, <2>3, <2>4, <2>5, <2>6 DEF Next
<1> QED
  BY <1>1, StreamInitial, PTL DEF Spec
-----------------------------------------------------------------------------
(* An entry of which one byte was changed on its way is neither stored by  *)
(* the service (logger_service.c:307) nor printed by the parser            *)
(* (log_parser.c:208), however many entries and damages there are.         *)
THEOREM DamageIsDetected == Spec => []OneByteDetected
<1>1. StreamInv => OneByteDetected
  <2> SUFFICES ASSUME StreamInv, NEW i \in DOMAIN stream,
                      Cardinality(Altered(i)) = 1, i \in Stored \cup Printed
               PROVE  FALSE
    BY DEF OneByteDetected
  <2>1. VerifyIntegrity(stream[i])
    <3>1. CASE i \in Stored
      <4>1. PICK l \in Level : i \in Range(buffers[l].entries)
        BY <3>1 DEF Stored
      <4>2. buffers[l].entries \in Seq(Nat)
        BY DEF StreamInv, ServiceKnows
      <4>3. PICK k \in 1 .. Len(buffers[l].entries) :
              buffers[l].entries[k] = i
        BY <4>1, <4>2 DEF Range
      <4> QED
        BY <4>3 DEF StreamInv, ServiceKnows
    <3>2. CASE i \in Printed
      <4>1. DOMAIN printed = 1 .. Len(printed)
        BY DEF StreamInv, ParserKnows
      <4>2. PICK k \in 1 .. Len(printed) : printed[k].entry = i
        BY <3>2, <4>1 DEF Printed
      <4> QED
        BY <4>2 DEF StreamInv, ParserKnows
    <3> QED
      BY <3>1, <3>2
  <2>2. /\ stream[i] \in Entry /\ original[i] \in Entry
        /\ VerifyIntegrity(original[i])
    BY DEF StreamInv, StreamTyped, Sound
  <2>3. Altered(i) = Differ(stream[i], original[i])
    BY DEF Altered, Differ
  <2>4. PICK g : Differ(stream[i], original[i]) = {g}
    BY <2>3, DifferFinite, FS_Singleton
  <2> QED
    BY <2>1, <2>2, <2>4, OneFieldShows
<1> QED
  BY <1>1, StreamInvariant, PTL

(* The parser counts as corrupted exactly what the service refuses, with   *)
(* checksum loops of their own (log_parser.c:200-211, log_core.c:424).     *)
THEOREM ReadersAgree == Spec => []SameVerdict
<1>1. StreamInv => SameVerdict
  <2> SUFFICES ASSUME StreamInv, position <= arrivals
               PROVE  stats.corrupted = Cardinality(refused \cap 1 .. position)
    BY DEF SameVerdict
  <2>1. arrivals \in Nat /\ position \in Nat
    BY DEF StreamInv, StreamTyped
  <2>2. refused \cap 1 .. position = BadIn(stream, position)
    BY <2>1 DEF StreamInv, ServiceKnows, BadIn
  <2> QED
    BY <2>2 DEF StreamInv, ParserKnows
<1> QED
  BY <1>1, StreamInvariant, PTL

(* The parser accepts every undamaged entry that log_create_entry makes    *)
(* (log_core.c:575-577, log_parser.c:214-220).                             *)
THEOREM CreatedIsAccepted == Spec => []CreatedAccepted
<1>1. StreamInv => CreatedAccepted
  <2>1. \A i : Altered(i) = Differ(stream[i], original[i])
    BY DEF Altered, Differ
  <2> QED
    BY <2>1 DEF StreamInv, ParserKnows, CreatedAccepted
<1> QED
  BY <1>1, StreamInvariant, PTL
-----------------------------------------------------------------------------
\* Entry n of s is one that level l keeps if it has room.
SoundFor(s, n, l) == VerifyIntegrity(s[n]) /\ s[n].level = l

\* e holds the first of these among the entries after from, up to a: a gap
\* is only at the end, and only when e has no room.
FirstKept(s, e, size, from, a, l) ==
  /\ \A i, j \in 1 .. Len(e) : i < j => e[i] < e[j]
  /\ \A i \in 1 .. Len(e) : e[i] \in from + 1 .. a /\ SoundFor(s, e[i], l)
  /\ \A n \in from + 1 .. a :
       SoundFor(s, n, l) =>
         \/ \E i \in 1 .. Len(e) : e[i] = n
         \/ Len(e) >= size /\ \A i \in 1 .. Len(e) : e[i] < n

\* A buffer, of any size
LevelBuffer == [size : Nat, entries : Seq(Nat)]

\* The inductive invariant of the buffers, next to StreamInv
KeepInv ==
  /\ buffers \in [Level -> LevelBuffer]
  /\ since \in Nat /\ arrivals \in Nat /\ since <= arrivals
  /\ \A l \in Level :
       /\ Len(buffers[l].entries) <= buffers[l].size
       /\ FirstKept(stream, buffers[l].entries, buffers[l].size, since,
                    arrivals, l)

(* The buffers are empty before the first arrival.                         *)
LEMMA KeepInitial == Init => KeepInv
<1> SUFFICES ASSUME Init PROVE KeepInv
  OBVIOUS
<1>1. /\ buffers = [l \in Level |-> [size |-> 0, entries |-> << >>]]
      /\ arrivals = 0 /\ since = 0
  BY DEF Init, ServiceInit
<1>2. buffers \in [Level -> LevelBuffer]
  BY <1>1 DEF LevelBuffer
<1>3. ASSUME NEW l \in Level
      PROVE  /\ Len(buffers[l].entries) <= buffers[l].size
             /\ FirstKept(stream, buffers[l].entries, buffers[l].size, since,
                          arrivals, l)
  <2>1. buffers[l].size = 0 /\ Len(buffers[l].entries) = 0
    BY <1>1
  <2> QED
    BY <1>1, <2>1 DEF FirstKept
<1> QED
  BY <1>1, <1>2, <1>3 DEF KeepInv

(* What a level has kept depends on the entries that have arrived only.    *)
LEMMA KeptPrefix ==
  ASSUME NEW s, NEW t, NEW e \in Seq(Nat), NEW size \in Nat, NEW from \in Nat,
         NEW a \in Nat, NEW l, FirstKept(s, e, size, from, a, l),
         \A m \in 1 .. a : s[m] = t[m]
  PROVE  FirstKept(t, e, size, from, a, l)
<1>1. \A n \in from + 1 .. a : SoundFor(s, n, l) <=> SoundFor(t, n, l)
  BY DEF SoundFor
<1> QED
  BY <1>1 DEF FirstKept

(* An arrival that is not for the level leaves no gap in it.               *)
LEMMA KeptOther ==
  ASSUME NEW s, NEW e \in Seq(Nat), NEW size \in Nat, NEW from \in Nat,
         NEW a \in Nat, NEW l, FirstKept(s, e, size, from, a, l),
         ~SoundFor(s, a + 1, l)
  PROVE  FirstKept(s, e, size, from, a + 1, l)
<1>1. \A n \in from + 1 .. a + 1 : n # a + 1 => n \in from + 1 .. a
  OBVIOUS
<1>2. \A n \in from + 1 .. a : n \in from + 1 .. a + 1
  OBVIOUS
<1> QED
  BY <1>1, <1>2 DEF FirstKept

(* An arrival for the level comes last, or finds it full.                  *)
LEMMA KeptNext ==
  ASSUME NEW s, NEW b \in LevelBuffer, NEW from \in Nat, NEW a \in Nat,
         from <= a, NEW l, Len(b.entries) <= b.size,
         FirstKept(s, b.entries, b.size, from, a, l), SoundFor(s, a + 1, l)
  PROVE  LET c == Put(b, a + 1)
         IN  /\ c \in LevelBuffer /\ c.size = b.size
             /\ Len(c.entries) <= c.size
             /\ FirstKept(s, c.entries, c.size, from, a + 1, l)
<1> DEFINE e == b.entries
<1>1. e \in Seq(Nat) /\ b.size \in Nat /\ Len(e) \in Nat
  BY DEF LevelBuffer
<1>2. /\ \A n \in from + 1 .. a + 1 : n # a + 1 => n \in from + 1 .. a
      /\ \A n \in from + 1 .. a : n \in from + 1 .. a + 1 /\ n < a + 1
      /\ a + 1 \in from + 1 .. a + 1 /\ a + 1 \in Nat
  OBVIOUS
<1>3. CASE Len(e) >= b.size
  <2>1. Put(b, a + 1) = b
    BY <1>3 DEF Put
  <2>2. FirstKept(s, e, b.size, from, a + 1, l)
    <3>1. \A i \in 1 .. Len(e) : e[i] < a + 1 /\ e[i] \in from + 1 .. a + 1
      BY <1>2 DEF FirstKept
    <3> HIDE DEF e
    <3> QED
      BY <1>2, <1>3, <3>1 DEF FirstKept, e
  <2> QED
    BY <2>1, <2>2
<1>4. CASE ~(Len(e) >= b.size)
  <2> DEFINE f == Append(e, a + 1)
  <2>1. Put(b, a + 1) = [b EXCEPT !.entries = f]
    BY <1>4 DEF Put
  <2>2. /\ f \in Seq(Nat) /\ Len(f) = Len(e) + 1
        /\ f[Len(e) + 1] = a + 1
        /\ \A k \in 1 .. Len(e) : f[k] = e[k] /\ k \in 1 .. Len(f)
        /\ \A k \in 1 .. Len(f) : k = Len(e) + 1 \/ k \in 1 .. Len(e)
        /\ Len(e) + 1 \in 1 .. Len(f)
    <3> HIDE DEF e
    <3> QED
      BY <1>1, <1>2
  <2> HIDE DEF e, f
  <2>3. /\ Put(b, a + 1) \in LevelBuffer /\ Put(b, a + 1).size = b.size
        /\ Put(b, a + 1).entries = f
    BY <2>1, <2>2 DEF LevelBuffer
  <2>4. /\ \A i, j \in 1 .. Len(e) : i < j => e[i] < e[j]
        /\ \A i \in 1 .. Len(e) :
             e[i] \in from + 1 .. a /\ SoundFor(s, e[i], l)
        /\ \A n \in from + 1 .. a :
             SoundFor(s, n, l) => \E i \in 1 .. Len(e) : e[i] = n
    BY <1>4 DEF FirstKept, e
  <2>5. \A i, j \in 1 .. Len(f) : i < j => f[i] < f[j]
    <3> SUFFICES ASSUME NEW i \in 1 .. Len(f), NEW j \in 1 .. Len(f), i < j
                 PROVE  f[i] < f[j]
      OBVIOUS
    <3>1. i \in 1 .. Len(e)
      BY <1>1, <2>2
    <3>2. CASE j \in 1 .. Len(e)
      BY <2>2, <2>4, <3>1, <3>2
    <3>3. CASE j = Len(e) + 1
      BY <1>2, <2>2, <2>4, <3>1, <3>3
    <3> QED
      BY <2>2, <3>2, <3>3
  <2>6. \A i \in 1 .. Len(f) :
          f[i] \in from + 1 .. a + 1 /\ SoundFor(s, f[i], l)
    BY <1>2, <2>2, <2>4
  <2>7. \A n \in from + 1 .. a + 1 :
          SoundFor(s, n, l) => \E i \in 1 .. Len(f) : f[i] = n
    BY <1>2, <2>2, <2>4
  <2>8. FirstKept(s, f, b.size, from, a + 1, l)
    BY <2>5, <2>6, <2>7 DEF FirstKept
  <2>9. Len(f) <= b.size
    BY <1>1, <1>4, <2>2
  <2> QED
    BY <2>3, <2>8, <2>9
<1> QED
  BY <1>3, <1>4

(* Every step preserves it.                                                *)
LEMMA KeepStep == StreamInv /\ KeepInv /\ [Next]_vars => KeepInv'
<1> SUFFICES ASSUME StreamInv, KeepInv, [Next]_vars PROVE KeepInv'
  OBVIOUS
<1>1. /\ buffers \in [Level -> LevelBuffer]
      /\ since \in Nat /\ arrivals \in Nat /\ since <= arrivals
      /\ stream \in Seq(Entry) /\ arrivals <= Len(stream)
  BY DEF KeepInv, StreamInv, StreamTyped
<1>2. \A l \in Level : buffers[l].entries \in Seq(Nat) /\ buffers[l].size \in Nat
  BY <1>1 DEF LevelBuffer
<1>3. ASSUME UNCHANGED serviceVars, \A m \in 1 .. arrivals : stream[m] = stream'[m]
      PROVE  KeepInv'
  BY <1>1, <1>2, <1>3, KeptPrefix DEF KeepInv, serviceVars
<1>4. ASSUME NEW r \in Request, CreateEntry(r) PROVE KeepInv'
  <2>1. PICK e : stream' = Append(stream, e)
    BY <1>4 DEF CreateEntry
  <2>2. \A m \in 1 .. Len(stream) : stream[m] = stream'[m]
    BY <1>1, <2>1, AppendAny
  <2>3. \A m \in 1 .. arrivals : m \in 1 .. Len(stream)
    BY <1>1
  <2> QED
    BY <1>3, <1>4, <2>2, <2>3 DEF CreateEntry
<1>5. ASSUME NEW i \in DOMAIN stream, NEW f, NEW v, ChangeByte(i, f, v)
      PROVE  KeepInv'
  <2>1. \A m \in 1 .. arrivals : m # i
    BY <1>1, <1>5 DEF ChangeByte, Underway
  <2>2. \A m \in DOMAIN stream : m # i => stream'[m] = stream[m]
    BY <1>5 DEF ChangeByte
  <2>3. \A m \in 1 .. arrivals : m \in DOMAIN stream
    BY <1>1
  <2> QED
    BY <1>3, <1>5, <2>1, <2>2, <2>3 DEF ChangeByte
<1>6. ASSUME NEW i \in DOMAIN stream, NEW f, NEW g, SwapBytes(i, f, g)
      PROVE  KeepInv'
  <2>1. \A m \in 1 .. arrivals : m # i
    BY <1>1, <1>6 DEF SwapBytes, Underway
  <2>2. \A m \in DOMAIN stream : m # i => stream'[m] = stream[m]
    BY <1>6 DEF SwapBytes
  <2>3. \A m \in 1 .. arrivals : m \in DOMAIN stream
    BY <1>1
  <2> QED
    BY <1>3, <1>6, <2>1, <2>2, <2>3 DEF SwapBytes
<1>7. CASE Service
  <2>1. stream' = stream
    BY <1>7 DEF Service
  <2>2. CASE InitService
    <3>1. /\ buffers' = [l \in Level |-> [size |-> Capacity, entries |-> << >>]]
          /\ since' = arrivals /\ arrivals' = arrivals
      BY <2>2 DEF InitService
    <3>2. Capacity \in Nat
      BY ServiceAssumption
    <3>3. buffers' \in [Level -> LevelBuffer]
      BY <3>1, <3>2 DEF LevelBuffer
    <3>4. ASSUME NEW l \in Level
          PROVE  /\ Len(buffers'[l].entries) <= buffers'[l].size
                 /\ FirstKept(stream', buffers'[l].entries, buffers'[l].size,
                              since', arrivals', l)
      <4>1. Len(buffers'[l].entries) = 0 /\ buffers'[l].size = Capacity
        BY <3>1
      <4>2. arrivals + 1 .. arrivals = {}
        BY <1>1
      <4> QED
        BY <3>1, <3>2, <4>1, <4>2 DEF FirstKept
    <3> QED
      BY <1>1, <3>1, <3>3, <3>4 DEF KeepInv
  <2>3. CASE arrivals < Len(stream) /\ Process(stream[arrivals + 1])
    <3> DEFINE a == arrivals
    <3>1. arrivals' = a + 1 /\ since' = since
      BY <2>3 DEF Process
    <3>2. ASSUME NEW l \in Level
          PROVE  buffers'[l] = IF SoundFor(stream, a + 1, l)
                               THEN Put(buffers[l], a + 1) ELSE buffers[l]
      BY <1>1, <2>3 DEF Process, SoundFor
    <3>3. \E c : buffers' = [l \in Level |-> c[l]]
      BY <1>1, <2>3 DEF Process
    <3>4. ASSUME NEW l \in Level
          PROVE  /\ buffers'[l] \in LevelBuffer
                 /\ Len(buffers'[l].entries) <= buffers'[l].size
                 /\ FirstKept(stream, buffers'[l].entries, buffers'[l].size,
                              since, a + 1, l)
      <4>1. /\ buffers[l] \in LevelBuffer
            /\ Len(buffers[l].entries) <= buffers[l].size
            /\ FirstKept(stream, buffers[l].entries, buffers[l].size, since,
                         a, l)
        BY DEF KeepInv
      <4>2. CASE SoundFor(stream, a + 1, l)
        BY <1>1, <3>2, <4>1, <4>2, KeptNext
      <4>3. CASE ~SoundFor(stream, a + 1, l)
        BY <1>1, <1>2, <3>2, <4>1, <4>3, KeptOther
      <4> QED
        BY <4>2, <4>3
    <3>5. buffers' \in [Level -> LevelBuffer]
      BY <3>3, <3>4
    <3> QED
      BY <1>1, <2>1, <3>1, <3>4, <3>5 DEF KeepInv
  <2>4. CASE GetStatus
    BY <2>1, <2>4 DEF GetStatus, KeepInv
  <2> QED
    BY <1>7, <2>2, <2>3, <2>4 DEF Service
<1>8. CASE Parser
  BY <1>3, <1>8 DEF Parser
<1>9. CASE UNCHANGED vars
  BY <1>3, <1>9 DEF vars
<1> QED
  BY <1>4, <1>5, <1>6, <1>7, <1>8, <1>9 DEF Next

(* A level keeps sound entries of its own in the order of their arrival,   *)
(* and loses one only for want of room and never from between two others   *)
(* (logger_service.c:127-141), for any number of levels, any capacity and  *)
(* any damages on the way.                                                 *)
THEOREM NoGaps == Spec => []KeptWithoutGaps
<1>1. KeepInv => KeptWithoutGaps
  <2> SUFFICES ASSUME KeepInv, NEW l \in Level
               PROVE  LET kept == buffers[l].entries
                      IN  /\ \A i, j \in DOMAIN kept : i < j => kept[i] < kept[j]
                          /\ Range(kept) \subseteq SoundSince(l)
                          /\ \A n \in SoundSince(l) \ Range(kept) :
                               /\ Len(kept) = buffers[l].size
                               /\ \/ \A m \in Range(kept) : m < n
                                  \/ \A m \in Range(kept) : m > n
    BY DEF KeptWithoutGaps
  <2> DEFINE kept == buffers[l].entries
             sound == {n \in since + 1 .. arrivals : SoundFor(stream, n, l)}
  <2>1. /\ kept \in Seq(Nat) /\ Len(kept) <= buffers[l].size
        /\ Len(kept) \in Nat /\ buffers[l].size \in Nat
        /\ FirstKept(stream, kept, buffers[l].size, since, arrivals, l)
    BY DEF KeepInv, LevelBuffer
  <2>2. DOMAIN kept = 1 .. Len(kept) /\ Range(kept) = {kept[i] : i \in 1 .. Len(kept)}
    BY <2>1 DEF Range
  <2>3. \A i, j \in DOMAIN kept : i < j => kept[i] < kept[j]
    BY <2>1, <2>2 DEF FirstKept
  <2>4. Range(kept) \subseteq sound
    BY <2>1, <2>2 DEF FirstKept
  <2>5. \A n \in sound \ Range(kept) :
          Len(kept) >= buffers[l].size /\ \A m \in Range(kept) : m < n
    BY <2>1, <2>2 DEF FirstKept
  <2>6. sound = SoundSince(l)
    BY DEF SoundFor, SoundSince
  <2>7. Len(kept) >= buffers[l].size => Len(kept) = buffers[l].size
    BY <2>1
  <2> HIDE DEF kept, sound
  <2> QED
    BY <2>3, <2>4, <2>5, <2>6, <2>7 DEF kept
<1> QED
  BY <1>1, KeepInitial, KeepStep, StreamInvariant, PTL DEF Spec
-----------------------------------------------------------------------------
(* The folds of the community modules, over finite sets: each induction is *)
(* in the form that a nonempty collection has a smallest member.           *)

(* The smallest of a set of natural numbers.                               *)
LEMMA LeastNumber ==
  ASSUME NEW T \in SUBSET Nat, T # {}
  PROVE  \E n \in T : \A m \in T : n <= m
<1>1. PICK n \in T : \A m \in T : ~(<<m, n>> \in OpToRel(<, Nat))
  BY WFMin, NatLessThanWellFounded, Zenon
<1>2. \A m \in T : ~(m < n)
  BY <1>1 DEF OpToRel
<1> QED
  BY <1>2

(* The operator Min of a nonempty set of numbers gives one of them.        *)
LEMMA LeastIndex ==
  ASSUME NEW T \in SUBSET Nat, T # {}
  PROVE  Min(T) \in T
BY LeastNumber DEF Min

(* So does Max of a nonempty set of numbers that are bounded.              *)
LEMMA GreatestIndex ==
  ASSUME NEW n \in Nat, NEW T \in SUBSET (1 .. n), T # {}
  PROVE  Max(T) \in T
<1> DEFINE R == {n - x : x \in T}
<1>1. R \in SUBSET Nat /\ R # {}
  <2>1. \A x \in T : n - x \in Nat
    OBVIOUS
  <2>2. PICK x \in T : TRUE
    OBVIOUS
  <2>3. n - x \in R
    OBVIOUS
  <2>4. R \subseteq Nat
    BY <2>1
  <2> QED
    BY <2>3, <2>4
<1>2. PICK m \in R : \A k \in R : m <= k
  BY <1>1, LeastNumber
<1>3. PICK x \in T : m = n - x
  OBVIOUS
<1>4. ASSUME NEW y \in T PROVE x >= y
  <2>1. n - x <= n - y
    BY <1>2, <1>3
  <2>2. x \in Nat /\ y \in Nat
    OBVIOUS
  <2> QED
    BY <2>1, <2>2
<1> QED
  BY <1>4 DEF Max

(* A collection with the empty set, and with every set of which it has all *)
(* that remain when one element is taken out, has all subsets.             *)
LEMMA AllSubsets ==
  ASSUME NEW S, IsFiniteSet(S), NEW Q, {} \in Q,
         \A s \in SUBSET S : s # {} /\ (\A x \in s : (s \ {x}) \in Q) => s \in Q
  PROVE  \A s \in SUBSET S : s \in Q
<1> DEFINE C == {s \in SUBSET S : s \notin Q}
<1> SUFFICES ASSUME C # {} PROVE FALSE
  OBVIOUS
<1>1. C \in SUBSET FiniteSubsetsOf(S)
  BY FS_Subset DEF FiniteSubsetsOf
<1>2. IsWellFoundedOn(StrictSubsetOrdering(S), FiniteSubsetsOf(S))
  BY FS_StrictSubsetOrderingWellFounded
<1>3. PICK s \in C : \A t \in C : ~(<<t, s>> \in StrictSubsetOrdering(S))
  <2> HIDE DEF C
  <2> QED
    BY <1>1, <1>2, WFMin, Zenon
<1>4. s \in SUBSET S /\ s # {} /\ s \notin Q
  BY <1>3
<1>5. ASSUME NEW x \in s PROVE (s \ {x}) \in Q
  <2>1. s \ {x} \in SUBSET S /\ s \ {x} \subseteq s /\ s \ {x} # s
    BY <1>4
  <2>2. s \ {x} \notin C
    <3> HIDE DEF C
    <3> QED
      BY <1>3, <1>4, <2>1 DEF StrictSubsetOrdering
  <2> QED
    BY <2>1, <2>2
<1> QED
  BY <1>4, <1>5

\* pick takes an element from every set but the empty one.
Picks(pick, S) == \A s \in SUBSET S : s # {} => pick[s] \in s

\* g computes a fold over the subsets of S: base for the empty set, and one
\* step with the element picked from any other.
Folds(g, S, base, pick, step) ==
  \A s \in SUBSET S :
    g[s] = IF s = {} THEN base ELSE step[pick[s]][g[s \ {pick[s]}]]

(* There is such a function: one that is right for the sets of at most n   *)
(* elements gives one for n + 1.                                           *)
LEMMA FoldExists ==
  ASSUME NEW S, IsFiniteSet(S), NEW V, NEW base \in V,
         NEW step \in [S -> [V -> V]],
         NEW pick, Picks(pick, S)
  PROVE  \E g \in [SUBSET S -> V] : Folds(g, S, base, pick, step)
<1> DEFINE Value(g, s) == IF s = {} THEN base
                          ELSE step[pick[s]][g[s \ {pick[s]}]]
           UpTo(g, n) == \A s \in SUBSET S : Cardinality(s) <= n => g[s] = Value(g, s)
           Bad == {n \in Nat : ~\E g \in [SUBSET S -> V] : UpTo(g, n)}
<1>1. \A s \in SUBSET S : /\ Cardinality(s) \in Nat
                          /\ Cardinality(s) <= Cardinality(S)
                          /\ Cardinality(s) = 0 <=> s = {}
  BY FS_Subset, FS_CardinalityType, FS_EmptySet
<1>2. ASSUME NEW s \in SUBSET S, s # {}
      PROVE  /\ pick[s] \in s /\ pick[s] \in S /\ s \ {pick[s]} \in SUBSET S
             /\ Cardinality(s \ {pick[s]}) = Cardinality(s) - 1
  <2>1. pick[s] \in s /\ IsFiniteSet(s)
    BY <1>2, FS_Subset DEF Picks
  <2>2. \A x \in s : Cardinality(s \ {x}) = Cardinality(s) - 1
    BY <2>1, FS_RemoveElement
  <2> QED
    BY <2>1, <2>2
<1>3. Bad = {}
  <2> SUFFICES ASSUME Bad # {} PROVE FALSE
    OBVIOUS
  <2>1. PICK n \in Bad : \A m \in Bad : n <= m
    BY LeastNumber
  <2>2. n # 0
    <3>1. UpTo([s \in SUBSET S |-> base], 0)
      BY <1>1
    <3>2. [s \in SUBSET S |-> base] \in [SUBSET S -> V]
      OBVIOUS
    <3>3. \A m \in Bad : ~\E g \in [SUBSET S -> V] : UpTo(g, m)
      OBVIOUS
    <3> HIDE DEF UpTo, Bad
    <3>4. 0 \notin Bad
      BY <3>1, <3>2, <3>3, Zenon
    <3> QED
      BY <2>1, <3>4
  <2>3. PICK g \in [SUBSET S -> V] : UpTo(g, n - 1)
    <3> HIDE DEF UpTo
    <3>1. n \in Nat
      OBVIOUS
    <3>2. n - 1 \in Nat /\ n - 1 \notin Bad
      <4> HIDE DEF Bad
      <4> QED
        BY <2>1, <2>2, <3>1
    <3> QED
      BY <3>2
  <2> DEFINE h == [s \in SUBSET S |-> IF s # {} /\ Cardinality(s) = n
                                      THEN step[pick[s]][g[s \ {pick[s]}]]
                                      ELSE g[s]]
  <2>4. h \in [SUBSET S -> V]
    BY <1>2
  <2>5. ASSUME NEW s \in SUBSET S, Cardinality(s) <= n
        PROVE  h[s] = Value(h, s)
    <3>1. CASE s = {}
      <4>1. Cardinality(s) <= n - 1
        BY <1>1, <2>1, <2>2, <3>1
      <4>2. g[s] = base
        BY <2>3, <3>1, <4>1
      <4> QED
        BY <3>1, <4>2
    <3>2. CASE s # {}
      <4>1. h[s \ {pick[s]}] = g[s \ {pick[s]}]
        BY <1>1, <1>2, <2>5, <3>2
      <4>2. CASE Cardinality(s) = n
        BY <3>2, <4>1, <4>2
      <4>3. CASE Cardinality(s) <= n - 1
        <5>1. h[s] = g[s]
          BY <1>1, <2>1, <4>3
        <5>2. g[s] = step[pick[s]][g[s \ {pick[s]}]]
          BY <2>3, <3>2, <4>3
        <5>3. h[s] = step[pick[s]][h[s \ {pick[s]}]]
          BY <4>1, <5>1, <5>2, Zenon
        <5> QED
          BY <3>2, <5>3, Zenon
      <4>4. Cardinality(s) = n \/ Cardinality(s) <= n - 1
        <5>1. n \in Nat /\ Cardinality(s) \in Nat
          BY <1>1
        <5> QED
          BY <2>5, <5>1
      <4> QED
        BY <4>2, <4>3, <4>4
    <3> QED
      BY <3>1, <3>2
  <2>6. UpTo(h, n)
    BY <2>5
  <2> QED
    BY <2>1, <2>4, <2>6
<1>4. PICK g \in [SUBSET S -> V] : UpTo(g, Cardinality(S))
  <2>1. Cardinality(S) \in Nat
    BY FS_CardinalityType
  <2> QED
    BY <1>3, <2>1
<1>5. \A s \in SUBSET S : g[s] = Value(g, s)
  BY <1>1, <1>4
<1> QED
  BY <1>5 DEF Folds
-----------------------------------------------------------------------------
\* What main may make of its arguments
Filter == [tag_id : Range(FilterTag), min_level : Range(FilterLevel)]
OptionsRecord ==
  [help : BOOLEAN, files : 0 .. 2, filters : Seq(Filter),
   format : {"text", "json", "csv", "binary"},
   color : {"never", "minimal", "always"},
   style : {"smart", "fixed", "minimal", "verbose"}]
OptionsType == {o \in OptionsRecord : Len(o.filters) <= MaxFilters}

(* One argument more leaves options; a full array of filters takes none.   *)
LEMMA ArgumentTyped ==
  ASSUME NEW o \in OptionsType, NEW a \in Argument
  PROVE  WithArgument(o, a) \in OptionsType
<1>1. /\ o \in OptionsRecord /\ o.filters \in Seq(Filter)
      /\ Len(o.filters) \in Nat /\ Len(o.filters) <= MaxFilters
      /\ MaxFilters \in Nat
  BY ParserAssumption DEF OptionsType, OptionsRecord
<1>2. \A x \in 0 .. 2 : (IF x < 2 THEN x + 1 ELSE x) \in 0 .. 2
  OBVIOUS
<1>3. WithArgument(o, a) = o => WithArgument(o, a) \in OptionsType
  OBVIOUS
<1>4. [o EXCEPT !.help = TRUE] \in OptionsType
  BY DEF OptionsType, OptionsRecord
<1>5. [o EXCEPT !.format = FormatOf(a.value)] \in OptionsType
  BY DEF OptionsType, OptionsRecord, FormatOf
<1>6. [o EXCEPT !.color = ColorOf(a.value)] \in OptionsType
  BY DEF OptionsType, OptionsRecord, ColorOf
<1>7. [o EXCEPT !.style = StyleOf(a.value)] \in OptionsType
  BY DEF OptionsType, OptionsRecord, StyleOf
<1>8. ASSUME Len(o.filters) < MaxFilters
      PROVE  [o EXCEPT !.filters = WithFilter(@, a.value)] \in OptionsType
  <2> DEFINE f == WithFilter(o.filters, a.value)
  <2>1. f \in Seq(Filter) /\ Len(f) <= MaxFilters
    <3>1. CASE f = o.filters
      BY <1>1, <3>1
    <3>2. CASE /\ a.value.tag \in DOMAIN FilterTag
               /\ a.value.level \in DOMAIN FilterLevel
      <4> DEFINE x == [tag_id |-> FilterTag[a.value.tag],
                       min_level |-> FilterLevel[a.value.level]]
      <4>1. x \in Filter
        BY <3>2 DEF Filter, Range
      <4>2. f = Append(o.filters, x)
        BY <3>2 DEF WithFilter
      <4> HIDE DEF x, f
      <4> QED
        BY <1>1, <1>8, <4>1, <4>2
    <3> QED
      BY <3>1, <3>2 DEF WithFilter
  <2> HIDE DEF f
  <2>2. [o EXCEPT !.filters = f] \in OptionsRecord
    BY <1>1, <2>1 DEF OptionsRecord
  <2>3. [o EXCEPT !.filters = f].filters = f
    BY <1>1 DEF OptionsRecord
  <2> QED
    BY <2>1, <2>2, <2>3 DEF OptionsType, f
<1>9. [o EXCEPT !.files = IF @ < 2 THEN @ + 1 ELSE @] \in OptionsType
  BY <1>2 DEF OptionsType, OptionsRecord
<1> QED
  BY <1>3, <1>4, <1>5, <1>6, <1>7, <1>8, <1>9, Zenon DEF WithArgument

\* How a fold over a sequence picks its next index: the last one.
LastOf(D) == [s \in (SUBSET D) \ {{}} |-> Max(s)]

(* Of a sequence, that is one of them.                                     *)
LEMMA LastPicked ==
  ASSUME NEW S, NEW q \in Seq(S)
  PROVE  /\ IsFiniteSet(DOMAIN q) /\ Picks(LastOf(DOMAIN q), DOMAIN q)
         /\ \A s \in (SUBSET DOMAIN q) \ {{}} :
              LastOf(DOMAIN q)[s] = Max(s) /\ Max(s) \in s
<1>1. DOMAIN q = 1 .. Len(q) /\ Len(q) \in Nat
  OBVIOUS
<1>2. IsFiniteSet(1 .. Len(q))
  BY <1>1, FS_Interval
<1>3. \A s \in (SUBSET DOMAIN q) \ {{}} : Max(s) \in s
  BY <1>1, GreatestIndex
<1> QED
  BY <1>1, <1>2, <1>3 DEF LastOf, Picks

(* Whatever the command line, main makes options of it.                    *)
LEMMA ParsedTyped ==
  ASSUME NEW argv \in Seq(Argument)
  PROVE  Parsed(argv) \in OptionsType
<1> DEFINE D == DOMAIN argv
           Rec(g) == g = [s \in SUBSET D |->
                            IF s = {} THEN DefaultOptions
                            ELSE WithArgument(g[s \ {Max(s)}], argv[Max(s)])]
           step == [i \in D |-> [o \in OptionsType |-> WithArgument(o, argv[i])]]
<1>1. DefaultOptions \in OptionsType
  BY ParserAssumption DEF DefaultOptions, OptionsType, OptionsRecord
<1>2. \A i \in D : argv[i] \in Argument
  OBVIOUS
<1>3. step \in [D -> [OptionsType -> OptionsType]]
  BY <1>2, ArgumentTyped
<1>4. /\ IsFiniteSet(D) /\ Picks(LastOf(D), D)
      /\ \A s \in (SUBSET D) \ {{}} : LastOf(D)[s] = Max(s) /\ Max(s) \in s
  BY LastPicked
<1>5. \E g : Rec(g)
  <2> HIDE DEF D, step
  <2>1. PICK g \in [SUBSET D -> OptionsType] :
          Folds(g, D, DefaultOptions, LastOf(D), step)
    BY <1>1, <1>3, <1>4, FoldExists
  <2>2. ASSUME NEW s \in SUBSET D
        PROVE  g[s] = IF s = {} THEN DefaultOptions
                      ELSE WithArgument(g[s \ {Max(s)}], argv[Max(s)])
    <3>1. CASE s = {}
      BY <2>1, <3>1 DEF Folds
    <3>2. CASE s # {}
      <4>1. Max(s) \in D /\ s \ {Max(s)} \in SUBSET D /\ LastOf(D)[s] = Max(s)
        BY <1>4, <3>2
      <4>2. g[s] = step[Max(s)][g[s \ {Max(s)}]]
        BY <2>1, <3>2, <4>1 DEF Folds
      <4>3. g[s \ {Max(s)}] \in OptionsType
        BY <4>1
      <4> QED
        BY <3>2, <4>1, <4>2, <4>3 DEF step
    <3> QED
      BY <3>1, <3>2
  <2>3. g = [s \in SUBSET D |->
               IF s = {} THEN DefaultOptions
               ELSE WithArgument(g[s \ {Max(s)}], argv[Max(s)])]
    BY <2>2
  <2> QED
    BY <2>3
<1>6. PICK g : Rec(g) /\ Parsed(argv) = g[D]
  BY <1>5 DEF Parsed, FoldLeft, MapThenFoldSet
<1>7. \A s \in SUBSET D : g[s] \in OptionsType
  <2> DEFINE Q == {s \in SUBSET D : g[s] \in OptionsType}
  <2>1. {} \in Q
    BY <1>1, <1>6
  <2> SUFFICES \A s \in SUBSET D : s \in Q
    OBVIOUS
  <2>2. ASSUME NEW s \in SUBSET D, s # {}, \A x \in s : (s \ {x}) \in Q
        PROVE  s \in Q
    <3>1. Max(s) \in s /\ Max(s) \in D
      BY <1>4, <2>2
    <3>2. g[s] = WithArgument(g[s \ {Max(s)}], argv[Max(s)])
      BY <1>6, <2>2
    <3>3. g[s \ {Max(s)}] \in OptionsType
      BY <2>2, <3>1
    <3> QED
      BY <1>2, <3>1, <3>2, <3>3, ArgumentTyped
  <2> HIDE DEF Q, D
  <2> QED
    BY <1>4, <2>1, <2>2, AllSubsets
<1> QED
  BY <1>6, <1>7

\* The lines of a database that scan
Pairs(file) == {line \in Range(file) : line.kind = "pair"}

(* Loading a database keeps those lines and no others.                     *)
LEMMA LoadedTyped ==
  ASSUME NEW file \in Seq(DatabaseLine)
  PROVE  Loaded(file) \in Seq(Pairs(file))
<1> DEFINE D == DOMAIN file
           V == Seq(Pairs(file))
           Rec(g) == g = [s \in SUBSET D |->
                            IF s = {} THEN << >>
                            ELSE WithLine(g[s \ {Max(s)}], file[Max(s)])]
           step == [i \in D |-> [db \in V |-> WithLine(db, file[i])]]
<1>1. << >> \in V
  OBVIOUS
<1>2. ASSUME NEW db \in V, NEW i \in D PROVE WithLine(db, file[i]) \in V
  <2>1. file[i] \in Range(file)
    BY DEF Range
  <2>2. CASE file[i].kind = "pair"
    <3>1. file[i] \in Pairs(file)
      BY <2>1, <2>2 DEF Pairs
    <3> QED
      BY <2>2, <3>1 DEF WithLine
  <2>3. CASE file[i].kind # "pair"
    BY <2>3 DEF WithLine
  <2> QED
    BY <2>2, <2>3
<1> HIDE DEF V
<1>3. step \in [D -> [V -> V]]
  BY <1>2
<1>4. /\ IsFiniteSet(D) /\ Picks(LastOf(D), D)
      /\ \A s \in (SUBSET D) \ {{}} : LastOf(D)[s] = Max(s) /\ Max(s) \in s
  BY LastPicked
<1>5. \E g : Rec(g)
  <2> HIDE DEF D, step
  <2>1. PICK g \in [SUBSET D -> V] : Folds(g, D, << >>, LastOf(D), step)
    BY <1>1, <1>3, <1>4, FoldExists
  <2>2. ASSUME NEW s \in SUBSET D
        PROVE  g[s] = IF s = {} THEN << >>
                      ELSE WithLine(g[s \ {Max(s)}], file[Max(s)])
    <3>1. CASE s = {}
      BY <2>1, <3>1 DEF Folds
    <3>2. CASE s # {}
      <4>1. Max(s) \in D /\ s \ {Max(s)} \in SUBSET D /\ LastOf(D)[s] = Max(s)
        BY <1>4, <3>2
      <4>2. g[s] = step[Max(s)][g[s \ {Max(s)}]]
        BY <2>1, <3>2, <4>1 DEF Folds
      <4>3. g[s \ {Max(s)}] \in V
        BY <4>1
      <4> QED
        BY <3>2, <4>1, <4>2, <4>3 DEF step
    <3> QED
      BY <3>1, <3>2
  <2>3. g = [s \in SUBSET D |->
               IF s = {} THEN << >>
               ELSE WithLine(g[s \ {Max(s)}], file[Max(s)])]
    BY <2>2
  <2> QED
    BY <2>3
<1>6. PICK g : Rec(g) /\ Loaded(file) = g[D]
  BY <1>5 DEF Loaded, FoldLeft, MapThenFoldSet
<1>7. \A s \in SUBSET D : g[s] \in V
  <2> DEFINE Q == {s \in SUBSET D : g[s] \in V}
  <2>1. {} \in Q
    BY <1>1, <1>6
  <2> SUFFICES \A s \in SUBSET D : s \in Q
    OBVIOUS
  <2>2. ASSUME NEW s \in SUBSET D, s # {}, \A x \in s : (s \ {x}) \in Q
        PROVE  s \in Q
    <3>1. Max(s) \in s /\ Max(s) \in D
      BY <1>4, <2>2
    <3>2. g[s] = WithLine(g[s \ {Max(s)}], file[Max(s)])
      BY <1>6, <2>2
    <3>3. g[s \ {Max(s)}] \in V
      BY <2>2, <3>1
    <3> QED
      BY <1>2, <3>1, <3>2, <3>3
  <2> HIDE DEF Q, D
  <2> QED
    BY <1>4, <2>1, <2>2, AllSubsets
<1> QED
  BY <1>6, <1>7 DEF V

(* A name that is looked up is in the database, or it is the default.      *)
LEMMA LookUpTyped ==
  ASSUME NEW file, NEW db \in Seq(Pairs(file)), NEW id, NEW default
  PROVE  LookUp(db, id, default) \in Names(file, default)
<1> DEFINE I == {i \in 1 .. Len(db) : db[i].id = id}
<1>1. SelectInSeq(db, LAMBDA pair : pair.id = id) = IF I # {} THEN Min(I) ELSE 0
  BY DEF SelectInSeq
<1>2. CASE I = {}
  BY <1>1, <1>2 DEF LookUp, Names
<1>3. CASE I # {}
  <2>1. Min(I) \in I
    <3>1. I \in SUBSET Nat
      OBVIOUS
    <3> HIDE DEF I
    <3> QED
      BY <1>3, <3>1, LeastIndex
  <2>2. Min(I) \in 1 .. Len(db) /\ Min(I) # 0
    BY <2>1
  <2>3. LookUp(db, id, default) = db[Min(I)].text
    BY <1>1, <1>3, <2>2 DEF LookUp
  <2>4. db[Min(I)] \in Pairs(file)
    BY <2>2
  <2> QED
    BY <2>3, <2>4 DEF Names, Pairs
<1> QED
  BY <1>2, <1>3
-----------------------------------------------------------------------------
(* The sum of at most c entries per level.                                 *)
LEMMA SumBound ==
  ASSUME NEW S, IsFiniteSet(S), NEW c \in Nat, NEW w \in [S -> 0 .. c]
  PROVE  SumFunction(w) \in 0 .. Cardinality(S) * c
<1> DEFINE First(s) == CHOOSE x \in s : TRUE
           first == [s \in (SUBSET S) \ {{}} |-> First(s)]
           Rec(g) == g = [s \in SUBSET S |->
                            IF s = {} THEN 0
                            ELSE w[First(s)] + g[s \ {First(s)}]]
           step == [x \in S |-> [n \in Nat |-> w[x] + n]]
<1>1. \A x \in S : w[x] \in Nat /\ w[x] <= c
  OBVIOUS
<1>2. step \in [S -> [Nat -> Nat]]
  BY <1>1
<1>3. \A s \in SUBSET S : s # {} => First(s) \in s /\ first[s] = First(s)
  OBVIOUS
<1>4. Picks(first, S)
  BY <1>3 DEF Picks
<1>5. DOMAIN w = S
  OBVIOUS
<1>6. \E g : Rec(g)
  <2> HIDE DEF First, first, step
  <2>1. PICK g \in [SUBSET S -> Nat] : Folds(g, S, 0, first, step)
    BY <1>2, <1>4, FoldExists
  <2>2. ASSUME NEW s \in SUBSET S
        PROVE  g[s] = IF s = {} THEN 0 ELSE w[First(s)] + g[s \ {First(s)}]
    <3>1. CASE s = {}
      BY <2>1, <3>1 DEF Folds
    <3>2. CASE s # {}
      <4>1. First(s) \in S /\ s \ {First(s)} \in SUBSET S /\ first[s] = First(s)
        BY <1>3, <3>2
      <4>2. g[s] = step[First(s)][g[s \ {First(s)}]]
        BY <2>1, <3>2, <4>1 DEF Folds
      <4>3. g[s \ {First(s)}] \in Nat
        BY <4>1
      <4> QED
        BY <3>2, <4>1, <4>2, <4>3 DEF step
    <3> QED
      BY <3>1, <3>2
  <2>3. g = [s \in SUBSET S |->
               IF s = {} THEN 0 ELSE w[First(s)] + g[s \ {First(s)}]]
    BY <2>2
  <2> QED
    BY <2>3
<1>7. PICK g : Rec(g) /\ SumFunction(w) = g[S]
  <2>1. SumFunction(w) = SumFunctionOnSet(w, S)
    BY <1>5 DEF SumFunction
  <2>2. \E g : Rec(g) /\ SumFunctionOnSet(w, S) = g[S]
    BY <1>6 DEF SumFunctionOnSet, FoldFunctionOnSet, MapThenFoldSet
  <2> HIDE DEF Rec
  <2> QED
    BY <2>1, <2>2, Zenon
<1>8. \A s \in SUBSET S : g[s] \in Nat /\ g[s] <= Cardinality(s) * c
  <2> DEFINE Q == {s \in SUBSET S : g[s] \in Nat /\ g[s] <= Cardinality(s) * c}
  <2>1. {} \in Q
    <3>1. g[{}] = 0 /\ Cardinality({}) = 0
      BY <1>7, FS_EmptySet
    <3> QED
      BY <3>1
  <2> SUFFICES \A s \in SUBSET S : s \in Q
    OBVIOUS
  <2>2. ASSUME NEW s \in SUBSET S, s # {}, \A x \in s : (s \ {x}) \in Q
        PROVE  s \in Q
    <3> DEFINE x == First(s)
    <3>1. x \in s /\ x \in S /\ w[x] \in Nat /\ w[x] <= c
      BY <1>1, <1>3, <2>2
    <3>2. g[s] = w[x] + g[s \ {x}]
      BY <1>7, <2>2
    <3>3. g[s \ {x}] \in Nat /\ g[s \ {x}] <= Cardinality(s \ {x}) * c
      BY <2>2, <3>1
    <3> HIDE DEF First, x
    <3>4. /\ Cardinality(s) \in Nat
          /\ Cardinality(s \ {x}) = Cardinality(s) - 1
      BY <3>1, FS_Subset, FS_RemoveElement, FS_CardinalityType
    <3>5. (Cardinality(s) - 1) * c + c = Cardinality(s) * c
      BY <3>4
    <3>6. (Cardinality(s) - 1) * c \in Int /\ Cardinality(s) * c \in Int
      BY <3>4
    <3>7. g[s] \in Nat /\ g[s] <= Cardinality(s) * c
      <4> DEFINE m == (Cardinality(s) - 1) * c
                 p == Cardinality(s) * c
      <4>1. m \in Int /\ p \in Int /\ m + c = p
        BY <3>5, <3>6
      <4>2. g[s \ {x}] <= m
        BY <3>3, <3>4
      <4> HIDE DEF m, p
      <4>3. g[s] \in Nat /\ g[s] <= p
        BY <3>1, <3>2, <3>3, <4>1, <4>2
      <4> QED
        BY <4>3 DEF p
    <3> QED
      BY <3>7
  <2> HIDE DEF Q
  <2> QED
    BY <2>1, <2>2, AllSubsets
<1> QED
  <2>1. Cardinality(S) \in Nat
    BY FS_CardinalityType
  <2>2. Cardinality(S) * c \in Nat
    BY <2>1
  <2>3. SumFunction(w) \in Nat /\ SumFunction(w) <= Cardinality(S) * c
    <3>1. S \in SUBSET S
      OBVIOUS
    <3>2. SumFunction(w) = g[S]
      BY <1>7
    <3> QED
      BY <1>8, <3>1, <3>2, Zenon
  <2> QED
    BY <2>2, <2>3
-----------------------------------------------------------------------------
\* A line of the output
LineType ==
  [entry : Nat, tag : Names(TagFile, "UNKNOWN"),
   message : Names(FormatFile, "Unknown message"), red : BOOLEAN]

StatsType == [total : Nat, valid : Nat, corrupted : Nat, unknown : Nat]

\* The inductive invariant of the parser, next to StreamInv
ParserInv ==
  /\ options \in OptionsType
  /\ phase \in {"start", "reading", "ended"}
  /\ tag_db \in Seq(Pairs(TagFile)) /\ format_db \in Seq(Pairs(FormatFile))
  /\ stats \in StatsType
  /\ position \in Nat
  /\ printed \in Seq(LineType)

\* The inductive invariant of the service, next to KeepInv
ServiceInv ==
  /\ \A l \in Level : buffers[l].size \in {0, Capacity}
  /\ running \in BOOLEAN
  /\ last_status \in [entry_count : 0 .. ServiceLevelCount * Capacity,
                      dropped_count : {0}]

(* A line is well typed, whatever entry it is about.                       *)
LEMMA LineTyped ==
  ASSUME ParserInv, NEW n \in Nat, NEW e
  PROVE  Line(options, n, e) \in LineType
<1>1. /\ LookUp(tag_db, e.tag_id, "UNKNOWN") \in Names(TagFile, "UNKNOWN")
      /\ LookUp(format_db, e.message_id, "Unknown message")
           \in Names(FormatFile, "Unknown message")
  BY LookUpTyped DEF ParserInv
<1> QED
  BY <1>1 DEF Line, LineType

(* The parser starts with options and nothing else.                        *)
LEMMA ParserInitial == Init => ParserInv
<1> SUFFICES ASSUME Init PROVE ParserInv
  OBVIOUS
<1>1. PICK argv \in CommandLine : options = Parsed(argv)
  BY DEF Init, ParserInit
<1>2. options \in OptionsType
  BY <1>1, ParsedTyped, ParserAssumption
<1>3. /\ tag_db = << >> /\ format_db = << >> /\ printed = << >>
      /\ phase = "start" /\ position = 0 /\ stats = NoStats
  BY DEF Init, ParserInit
<1>4. << >> \in Seq(Pairs(TagFile)) /\ << >> \in Seq(Pairs(FormatFile))
  OBVIOUS
<1>5. << >> \in Seq(LineType) /\ NoStats \in StatsType
  BY DEF NoStats, StatsType
<1> QED
  BY <1>2, <1>3, <1>4, <1>5 DEF ParserInv

(* Every step keeps the types of the parser.                               *)
LEMMA ParserStep == ParserInv /\ [Next]_vars => ParserInv'
<1> SUFFICES ASSUME ParserInv, [Next]_vars PROVE ParserInv'
  OBVIOUS
<1>1. CASE UNCHANGED parserVars
  BY <1>1 DEF parserVars, ParserInv
<1>2. CASE GiveUp \/ Finish
  BY <1>2 DEF GiveUp, Finish, ParserInv
<1>3. CASE Open
  <2>1. /\ tag_db' \in Seq(Pairs(TagFile)) /\ format_db' \in Seq(Pairs(FormatFile))
        /\ stats' \in StatsType /\ phase' = "reading"
    BY <1>3, LoadedTyped, ParserAssumption DEF Open, NoStats, StatsType
  <2> QED
    BY <1>3, <2>1 DEF Open, ParserInv
<1>4. ASSUME NEW e, ReadEntry(e) PROVE ParserInv'
  <2>1. position' = position + 1 /\ position \in Nat /\ position + 1 \in Nat
    BY <1>4 DEF ReadEntry, ParserInv
  <2>2. stats' \in StatsType
    <3>1. /\ stats.total \in Nat /\ stats.valid \in Nat
          /\ stats.corrupted \in Nat /\ stats.unknown \in Nat
      BY DEF ParserInv, StatsType
    <3>2. /\ (IF Valid(e) THEN 1 ELSE 0) \in Nat
          /\ (IF Verdict(e) = "corrupted" THEN 1 ELSE 0) \in Nat
          /\ (IF Verdict(e) = "unknown_tag" THEN 1 ELSE 0) \in Nat
      OBVIOUS
    <3> QED
      BY <1>4, <3>1, <3>2 DEF ReadEntry, StatsType
  <2>3. printed' \in Seq(LineType)
    <3>1. printed \in Seq(LineType) /\ Line(options, position + 1, e) \in LineType
      BY <2>1, LineTyped DEF ParserInv
    <3>2. \/ printed' = printed
          \/ printed' = Append(printed, Line(options, position + 1, e))
      BY <1>4 DEF ReadEntry
    <3> QED
      BY <3>1, <3>2
  <2> QED
    BY <1>4, <2>1, <2>2, <2>3 DEF ReadEntry, ParserInv
<1> QED
  BY <1>1, <1>2, <1>3, <1>4
     DEF Next, CreateEntry, ChangeByte, SwapBytes, Service, Parser, vars

(* The service starts with buffers of size 0.                              *)
LEMMA ServiceInitial == Init => ServiceInv
<1> SUFFICES ASSUME Init PROVE ServiceInv
  OBVIOUS
<1>1. ServiceLevelCount * Capacity \in Nat
  BY ServiceAssumption
<1>2. 0 \in 0 .. ServiceLevelCount * Capacity
  BY <1>1
<1> QED
  BY <1>2 DEF Init, ServiceInit, ServiceInv

(* The status counts at most the capacity of every level.                  *)
LEMMA StatusBound ==
  ASSUME KeepInv, ServiceInv
  PROVE  TotalEntries \in 0 .. ServiceLevelCount * Capacity
<1> DEFINE w == [l \in Level |-> Len(buffers[l].entries)]
<1>1. w \in [Level -> 0 .. Capacity]
  <2> SUFFICES ASSUME NEW l \in Level
               PROVE  Len(buffers[l].entries) \in 0 .. Capacity
    OBVIOUS
  <2>1. /\ Len(buffers[l].entries) \in Nat
        /\ Len(buffers[l].entries) <= buffers[l].size
        /\ buffers[l].size \in {0, Capacity} /\ Capacity \in Nat
    BY ServiceAssumption DEF KeepInv, LevelBuffer, ServiceInv
  <2> QED
    BY <2>1
<1>2. IsFiniteSet(Level) /\ Cardinality(Level) = ServiceLevelCount
  <2>1. ServiceLevelCount \in Nat \ {0} /\ ServiceLevelCount - 1 \in Int
    BY ServiceAssumption
  <2> DEFINE m == ServiceLevelCount - 1
  <2>2. m \in Int /\ ~(0 > m) /\ m - 0 + 1 = ServiceLevelCount
    BY <2>1
  <2> HIDE DEF m
  <2>3. IsFiniteSet(0 .. m) /\ Cardinality(0 .. m) = m - 0 + 1
    BY <2>2, FS_Interval
  <2> QED
    BY <2>2, <2>3 DEF Level, m
<1>3. Capacity \in Nat
  BY ServiceAssumption
<1> HIDE DEF w
<1>4. SumFunction(w) \in 0 .. Cardinality(Level) * Capacity
  BY <1>1, <1>2, <1>3, SumBound
<1> QED
  BY <1>2, <1>4 DEF TotalEntries, w

(* Every step keeps the types of the service.                              *)
LEMMA ServiceStep ==
  KeepInv /\ ServiceInv /\ [Next]_vars => ServiceInv'
<1> SUFFICES ASSUME KeepInv, ServiceInv, [Next]_vars PROVE ServiceInv'
  OBVIOUS
<1>1. CASE UNCHANGED serviceVars
  BY <1>1 DEF serviceVars, ServiceInv
<1>2. CASE InitService
  <2>1. \A l \in Level : buffers'[l].size = Capacity
    BY <1>2 DEF InitService
  <2> QED
    BY <1>2, <2>1 DEF InitService, ServiceInv
<1>3. ASSUME NEW e, Process(e) PROVE ServiceInv'
  <2>1. UNCHANGED <<running, last_status>>
    BY <1>3 DEF Process
  <2>2. ASSUME NEW l \in Level PROVE buffers'[l].size = buffers[l].size
    <3>1. buffers \in [Level -> LevelBuffer]
      BY DEF KeepInv
    <3>2. \/ buffers'[l] = buffers[l]
          \/ buffers'[l] = Put(buffers[l], arrivals + 1)
      BY <1>3, <3>1 DEF Process
    <3>3. \A n : Put(buffers[l], n).size = buffers[l].size
      BY <3>1 DEF Put, LevelBuffer
    <3> QED
      BY <3>2, <3>3
  <2> QED
    BY <2>1, <2>2 DEF ServiceInv
<1>4. CASE GetStatus
  <2>1. last_status' = [entry_count |-> TotalEntries, dropped_count |-> 0]
    BY <1>4 DEF GetStatus
  <2>2. last_status' \in [entry_count : 0 .. ServiceLevelCount * Capacity,
                          dropped_count : {0}]
    BY <2>1, StatusBound
  <2> QED
    BY <1>4, <2>2 DEF GetStatus, ServiceInv
<1> QED
  BY <1>1, <1>2, <1>3, <1>4
     DEF Next, CreateEntry, ChangeByte, SwapBytes, Service, Parser, vars

\* Together they are inductive.
ReadersInv == StreamInv /\ KeepInv /\ ParserInv /\ ServiceInv

(* What the readers know and keep holds in every state.                    *)
LEMMA ReadersInvariant == Spec => []ReadersInv
<1>1. Init => ReadersInv
  BY StreamInitial, KeepInitial, ParserInitial, ServiceInitial DEF ReadersInv
<1>2. ReadersInv /\ [Next]_vars => KeepInv' /\ ParserInv' /\ ServiceInv'
  BY KeepStep, ParserStep, ServiceStep DEF ReadersInv
<1>3. ReadersInv <=> StreamInv /\ KeepInv /\ ParserInv /\ ServiceInv
  BY DEF ReadersInv
<1> QED
  BY <1>1, <1>2, <1>3, StreamInvariant, PTL DEF Spec

(* The entries, the buffers with their capacities, the status, and all     *)
(* that the parser makes of its arguments, databases and file keep their   *)
(* types: at most MaxFilters filters (main.c:185), no buffer beyond its    *)
(* size (logger_service.c:132), no status above the sum of the capacities  *)
(* (logger_service.c:368), and no name in the output but those of the      *)
(* databases and the two defaults (log_parser.c:231-253).                  *)
THEOREM StreamTypeCorrect == Spec => []TypeOK
<1>1. ReadersInv => TypeOK
  <2> SUFFICES ASSUME StreamInv, KeepInv, ParserInv, ServiceInv PROVE TypeOK
    BY DEF ReadersInv
  <2>1. /\ original \in Seq(Entry) /\ stream \in Seq(Entry)
        /\ Len(original) = Len(stream)
        /\ arrivals <= Len(stream) /\ position <= Len(stream)
    BY DEF StreamInv, StreamTyped
  <2>2. ServiceTypeOK
    <3>1. buffers \in [Level -> [size : {0, Capacity}, entries : Seq(Nat)]]
      <4>1. buffers \in [Level -> LevelBuffer]
        BY DEF KeepInv
      <4>2. ASSUME NEW l \in Level
            PROVE  buffers[l] \in [size : {0, Capacity}, entries : Seq(Nat)]
        BY <4>1 DEF LevelBuffer, ServiceInv
      <4> QED
        BY <4>1, <4>2
    <3>2. refused \subseteq 1 .. arrivals
      BY DEF StreamInv, ServiceKnows, BadIn
    <3>3. since \in 0 .. arrivals /\ arrivals \in Nat
      BY DEF KeepInv
    <3>4. /\ \A l \in Level : Len(buffers[l].entries) <= buffers[l].size
          /\ running \in BOOLEAN
          /\ last_status \in [entry_count : 0 .. ServiceLevelCount * Capacity,
                              dropped_count : {0}]
      BY DEF KeepInv, ServiceInv
    <3> QED
      BY <3>1, <3>2, <3>3, <3>4 DEF ServiceTypeOK
  <2>3. ParserTypeOK
    <3>1. /\ tag_db \in Seq(Range(TagFile))
          /\ format_db \in Seq(Range(FormatFile))
      <4>1. /\ Pairs(TagFile) \subseteq Range(TagFile)
            /\ Pairs(FormatFile) \subseteq Range(FormatFile)
        BY DEF Pairs
      <4> QED
        BY <4>1 DEF ParserInv
    <3>2. options \in OptionsRecord /\ Len(options.filters) <= MaxFilters
      BY DEF ParserInv, OptionsType
    <3> QED
      BY <3>1, <3>2 DEF ParserInv, ParserTypeOK, OptionsRecord, Filter,
                        StatsType, LineType
  <2> QED
    BY <2>1, <2>2, <2>3 DEF TypeOK
<1> QED
  BY <1>1, ReadersInvariant, PTL
-----------------------------------------------------------------------------
\* What the loop of the parser selects: a valid entry with the tag of a filter
\* and a level not below the filter's, or any entry without a filter.
Wanted(o, e) ==
  /\ VerifyIntegrity(e) /\ e.level < LevelCount
  /\ \/ /\ o.filters = << >>
        /\ o.format = "text" \/ o.color # "minimal" \/ o.style # "smart"
     \/ \E i \in DOMAIN o.filters :
          /\ e.tag_id = o.filters[i].tag_id
          /\ e.level \in o.filters[i].min_level .. LevelCount - 1

\* p are the lines for the wanted entries among the first n of s, in order.
Selected(s, o, p, n) ==
  /\ \A i, j \in 1 .. Len(p) : i < j => p[i].entry < p[j].entry
  /\ \A i \in 1 .. Len(p) : p[i].entry \in 1 .. n /\ Wanted(o, s[p[i].entry])
  /\ \A m \in 1 .. n : Wanted(o, s[m]) => \E i \in 1 .. Len(p) : p[i].entry = m

OutputInv == Selected(stream, options, printed, position)

(* The levels of filters are numbers.                                      *)
LEMMA FilterLevels == Range(FilterLevel) \subseteq Nat
BY DEF Range, FilterLevel

(* The loop of the parser prints exactly the wanted entries: its checks of *)
(* the entry and its two kinds of loop agree with the filters.             *)
LEMMA PrintsWanted ==
  ASSUME NEW o \in OptionsType, NEW e \in Entry
  PROVE  Valid(e) /\ Prints(o, e) <=> Wanted(o, e)
<1>1. /\ o.filters \in Seq(Filter)
      /\ \A i \in DOMAIN o.filters : o.filters[i].min_level \in Nat
  <2>1. o.filters \in Seq(Filter)
    BY DEF OptionsType, OptionsRecord
  <2>2. ASSUME NEW i \in DOMAIN o.filters
        PROVE  o.filters[i].min_level \in Nat
    <3>1. o.filters[i] \in Filter
      BY <2>1
    <3>2. o.filters[i].min_level \in Range(FilterLevel)
      BY <3>1 DEF Filter
    <3> QED
      BY <3>2, FilterLevels
  <2> QED
    BY <2>1, <2>2
<1>2. e.level \in Nat /\ LevelCount \in Nat
  BY EntryAssumption, ByteMember DEF Entry
<1>3. Valid(e) <=> VerifyIntegrity(e) /\ e.level < LevelCount
  <2>1. VerifyIntegrity(e) <=> ParserChecksum(e) = e.checksum
    BY DEF VerifyIntegrity, ParserChecksum, Checksum
  <2>2. e.level < LevelCount <=> ~(e.level >= LevelCount)
    BY <1>2
  <2>3. CASE ParserChecksum(e) # e.checksum
    BY <2>1, <2>3 DEF Valid, Verdict
  <2>4. CASE ParserChecksum(e) = e.checksum /\ e.level >= LevelCount
    <3>1. Verdict(e) = "bad_level"
      BY <2>2, <2>4 DEF Verdict
    <3> QED
      BY <2>2, <2>4, <3>1 DEF Valid
  <2>5. CASE ParserChecksum(e) = e.checksum /\ ~(e.level >= LevelCount)
    <3>1. Verdict(e) \in {"unknown_tag", "known"}
      BY <2>5 DEF Verdict
    <3> QED
      BY <2>1, <2>2, <2>5, <3>1 DEF Valid
  <2> QED
    BY <2>3, <2>4, <2>5
<1>4. ASSUME e.level < LevelCount, NEW i \in DOMAIN o.filters
      PROVE  e.level >= o.filters[i].min_level <=>
               e.level \in o.filters[i].min_level .. LevelCount - 1
  BY <1>1, <1>2, <1>4
<1>5. ASSUME e.level < LevelCount
      PROVE  Prints(o, e) <=>
               \/ /\ o.filters = << >>
                  /\ o.format = "text" \/ o.color # "minimal" \/ o.style # "smart"
               \/ \E i \in DOMAIN o.filters :
                    /\ e.tag_id = o.filters[i].tag_id
                    /\ e.level \in o.filters[i].min_level .. LevelCount - 1
  <2>1. CASE o.filters = << >>
    <3>1. DOMAIN o.filters = {}
      BY <2>1
    <3> QED
      BY <2>1, <3>1 DEF Prints, Extended, Passes
  <2>2. CASE o.filters # << >>
    <3>1. Prints(o, e) <=> \E i \in DOMAIN o.filters :
                              /\ o.filters[i].tag_id = e.tag_id
                              /\ e.level >= o.filters[i].min_level
      BY <2>2 DEF Prints, Extended, Passes
    <3> QED
      BY <1>4, <1>5, <2>2, <3>1
  <2> QED
    BY <2>1, <2>2
<1> QED
  BY <1>3, <1>5 DEF Wanted

(* What was selected depends on the entries that were read only.           *)
LEMMA SelectedPrefix ==
  ASSUME NEW s, NEW t, NEW o, NEW p, NEW n \in Nat, Selected(s, o, p, n),
         \A m \in 1 .. n : s[m] = t[m]
  PROVE  Selected(t, o, p, n)
BY DEF Selected

(* One entry more is selected or not.                                      *)
LEMMA SelectedNext ==
  ASSUME NEW S, NEW s, NEW o, NEW p \in Seq(S), NEW n \in Nat, NEW x,
         Selected(s, o, p, n), x.entry = n + 1
  PROVE  /\ Wanted(o, s[n + 1]) => Selected(s, o, Append(p, x), n + 1)
         /\ ~Wanted(o, s[n + 1]) => Selected(s, o, p, n + 1)
<1>1. /\ \A m \in 1 .. n + 1 : m # n + 1 => m \in 1 .. n
      /\ \A m \in 1 .. n : m \in 1 .. n + 1 /\ m < n + 1
      /\ n + 1 \in 1 .. n + 1 /\ Len(p) \in Nat
  OBVIOUS
<1>2. ~Wanted(o, s[n + 1]) => Selected(s, o, p, n + 1)
  BY <1>1 DEF Selected
<1>3. ASSUME Wanted(o, s[n + 1])
      PROVE  Selected(s, o, Append(p, x), n + 1)
  <2> DEFINE q == Append(p, x)
  <2>1. /\ Len(q) = Len(p) + 1 /\ q[Len(p) + 1] = x
        /\ \A k \in 1 .. Len(p) : q[k] = p[k] /\ k \in 1 .. Len(q)
        /\ \A k \in 1 .. Len(q) : k = Len(p) + 1 \/ k \in 1 .. Len(p)
        /\ Len(p) + 1 \in 1 .. Len(q)
    BY <1>1, AppendAny
  <2> HIDE DEF q
  <2>2. \A i, j \in 1 .. Len(q) : i < j => q[i].entry < q[j].entry
    <3> SUFFICES ASSUME NEW i \in 1 .. Len(q), NEW j \in 1 .. Len(q), i < j
                 PROVE  q[i].entry < q[j].entry
      OBVIOUS
    <3>1. i \in 1 .. Len(p)
      BY <1>1, <2>1
    <3>2. CASE j \in 1 .. Len(p)
      BY <2>1, <3>1, <3>2 DEF Selected
    <3>3. CASE j = Len(p) + 1
      BY <1>1, <2>1, <3>1, <3>3 DEF Selected
    <3> QED
      BY <2>1, <3>2, <3>3
  <2>3. \A i \in 1 .. Len(q) :
          q[i].entry \in 1 .. n + 1 /\ Wanted(o, s[q[i].entry])
    BY <1>1, <1>3, <2>1 DEF Selected
  <2>4. \A m \in 1 .. n + 1 :
          Wanted(o, s[m]) => \E i \in 1 .. Len(q) : q[i].entry = m
    BY <1>1, <2>1 DEF Selected
  <2> QED
    BY <2>2, <2>3, <2>4 DEF Selected, q
<1> QED
  BY <1>2, <1>3

(* Every step preserves the selection.                                     *)
LEMMA OutputStep == ReadersInv /\ OutputInv /\ [Next]_vars => OutputInv'
<1> SUFFICES ASSUME ReadersInv, OutputInv, [Next]_vars PROVE OutputInv'
  OBVIOUS
<1>1. /\ stream \in Seq(Entry) /\ position \in Nat /\ position <= Len(stream)
      /\ options \in OptionsType /\ printed \in Seq(LineType)
  BY DEF ReadersInv, StreamInv, StreamTyped, ParserInv
<1>2. ASSUME UNCHANGED <<options, position, printed>>,
             \A m \in 1 .. position : stream[m] = stream'[m]
      PROVE  OutputInv'
  BY <1>1, <1>2, SelectedPrefix DEF OutputInv
<1>3. ASSUME NEW r \in Request, CreateEntry(r) PROVE OutputInv'
  <2>1. PICK e : stream' = Append(stream, e)
    BY <1>3 DEF CreateEntry
  <2>2. \A m \in 1 .. Len(stream) : stream[m] = stream'[m]
    BY <1>1, <2>1, AppendAny
  <2>3. \A m \in 1 .. position : m \in 1 .. Len(stream)
    BY <1>1
  <2> QED
    BY <1>2, <1>3, <2>2, <2>3 DEF CreateEntry, parserVars
<1>4. ASSUME NEW i \in DOMAIN stream, NEW f, NEW v, ChangeByte(i, f, v)
      PROVE  OutputInv'
  <2>1. \A m \in 1 .. position : m # i /\ m \in DOMAIN stream
    BY <1>1, <1>4 DEF ChangeByte, Underway
  <2>2. \A m \in DOMAIN stream : m # i => stream'[m] = stream[m]
    BY <1>4 DEF ChangeByte
  <2> QED
    BY <1>2, <1>4, <2>1, <2>2 DEF ChangeByte, parserVars
<1>5. ASSUME NEW i \in DOMAIN stream, NEW f, NEW g, SwapBytes(i, f, g)
      PROVE  OutputInv'
  <2>1. \A m \in 1 .. position : m # i /\ m \in DOMAIN stream
    BY <1>1, <1>5 DEF SwapBytes, Underway
  <2>2. \A m \in DOMAIN stream : m # i => stream'[m] = stream[m]
    BY <1>5 DEF SwapBytes
  <2> QED
    BY <1>2, <1>5, <2>1, <2>2 DEF SwapBytes, parserVars
<1>6. CASE Service
  BY <1>2, <1>6 DEF Service, parserVars
<1>7. CASE Parser
  <2>1. stream' = stream
    BY <1>7 DEF Parser
  <2>2. CASE GiveUp \/ Open \/ Finish
    BY <1>2, <2>1, <2>2 DEF GiveUp, Open, Finish
  <2>3. CASE position < Len(stream) /\ ReadEntry(stream[position + 1])
    <3> DEFINE n == position + 1
               e == stream[n]
               x == Line(options, n, e)
    <3>1. e \in Entry
      BY <1>1, <2>3
    <3>2. x.entry = n
      BY DEF Line
    <3>3. /\ position' = n /\ options' = options
          /\ printed' = IF Valid(e) /\ Prints(options, e)
                        THEN Append(printed, x) ELSE printed
      BY <2>3 DEF ReadEntry
    <3>4. printed' = IF Wanted(options, e) THEN Append(printed, x) ELSE printed
      BY <1>1, <3>1, <3>3, PrintsWanted
    <3> HIDE DEF e, x
    <3>5. Selected(stream, options, printed, position)
      BY DEF OutputInv
    <3>6. Selected(stream, options, printed', n)
      BY <1>1, <3>2, <3>4, <3>5, SelectedNext DEF e
    <3> QED
      BY <2>1, <3>3, <3>6 DEF OutputInv
  <2> QED
    BY <1>7, <2>2, <2>3 DEF Parser
<1>8. CASE UNCHANGED vars
  BY <1>2, <1>8 DEF vars, parserVars
<1> QED
  BY <1>3, <1>4, <1>5, <1>6, <1>7, <1>8 DEF Next

(* The output is in the order of the file with each entry once, of valid   *)
(* entries and of the tags of the accepted filters only, and it has all    *)
(* the entries with the tag and the level of one of these                  *)
(* (log_parser.c:208-216, 611-621), for any command lines and databases.   *)
THEOREM OutputIsAsked == Spec => []OutputRespectsFilters
<1>1. Init => OutputInv
  BY DEF Init, ParserInit, OutputInv, Selected
<1>2. ReadersInv /\ OutputInv => OutputRespectsFilters
  <2> SUFFICES ASSUME ReadersInv, OutputInv PROVE OutputRespectsFilters
    OBVIOUS
  <2> DEFINE asked == Range(options.filters)
             valid == {n \in 1 .. position :
                         VerifyIntegrity(stream[n]) /\ stream[n].level < LevelCount}
  <2>1. /\ DOMAIN printed = 1 .. Len(printed)
        /\ options \in OptionsType
        /\ \A n \in 1 .. position : stream[n] \in Entry
    BY DEF ReadersInv, ParserInv, StreamInv, StreamTyped
  <2>2. \A i, j \in DOMAIN printed : i < j => printed[i].entry < printed[j].entry
    BY <2>1 DEF OutputInv, Selected
  <2>3. Printed = {n \in 1 .. position : Wanted(options, stream[n])}
    BY <2>1 DEF Printed, OutputInv, Selected
  <2>4. Printed \subseteq valid
    BY <2>3 DEF Wanted
  <2>5. asked = {options.filters[i] : i \in DOMAIN options.filters}
    BY DEF Range
  <2>6. asked # {} => options.filters # << >>
    BY <2>5
  <2>7. ASSUME asked # {}, NEW n \in valid
        PROVE  /\ n \in Printed => \E f \in asked : stream[n].tag_id = f.tag_id
               /\ (\E f \in asked : /\ stream[n].tag_id = f.tag_id
                                    /\ stream[n].level = f.min_level)
                    => n \in Printed
    <3>1. n \in Printed => \E f \in asked : stream[n].tag_id = f.tag_id
      BY <2>3, <2>5, <2>6, <2>7 DEF Wanted
    <3>2. ASSUME NEW i \in DOMAIN options.filters,
                 stream[n].tag_id = options.filters[i].tag_id,
                 stream[n].level = options.filters[i].min_level
          PROVE  n \in Printed
      <4>1. stream[n].level \in Nat /\ LevelCount \in Nat
        BY <2>1, EntryAssumption, ByteMember DEF Entry
      <4>2. stream[n].level \in options.filters[i].min_level .. LevelCount - 1
        BY <3>2, <4>1
      <4> QED
        BY <2>3, <3>2, <4>2 DEF Wanted
    <3> QED
      BY <2>5, <3>1, <3>2
  <2> HIDE DEF asked, valid
  <2> QED
    BY <2>2, <2>4, <2>7 DEF OutputRespectsFilters, asked, valid
<1> QED
  BY <1>1, <1>2, OutputStep, ReadersInvariant, PTL DEF Spec
=============================================================================
