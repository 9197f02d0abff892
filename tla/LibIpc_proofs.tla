--------------------------- MODULE LibIpc_proofs ---------------------------
(***************************************************************************)
(* Proofs about the messaging library, for any number of priorities, any   *)
(* configurations, loads and widths of the fields, for batches of any      *)
(* size, and for any names that clients write down or build.               *)
(***************************************************************************)
EXTENDS LibIpc, TLAPS

(* The greater and the smaller of two numbers.                             *)
LEMMA MaxOfTwo ==
  ASSUME NEW a \in Int, NEW b \in Int
  PROVE  Max({a, b}) = IF a >= b THEN a ELSE b
<1> DEFINE m == IF a >= b THEN a ELSE b
<1>1. m \in {a, b} /\ \A y \in {a, b} : m >= y
  OBVIOUS
<1>2. ASSUME NEW n \in {a, b}, \A y \in {a, b} : n >= y
      PROVE  n = m
  BY <1>1, <1>2
<1> QED
  BY <1>1, <1>2 DEF Max

(* The library operator Min, of two numbers.                               *)
LEMMA MinOfTwo ==
  ASSUME NEW a \in Int, NEW b \in Int
  PROVE  Min({a, b}) = IF a <= b THEN a ELSE b
<1> DEFINE m == IF a <= b THEN a ELSE b
<1>1. m \in {a, b} /\ \A y \in {a, b} : m <= y
  OBVIOUS
<1>2. ASSUME NEW n \in {a, b}, \A y \in {a, b} : n <= y
      PROVE  n = m
  BY <1>1, <1>2
<1> QED
  BY <1>1, <1>2 DEF Min
-----------------------------------------------------------------------------
(* Halving never exceeds what it halves, unless by the minimum.            *)
LEMMA HalvedBounds ==
  ASSUME NEW t \in 0 .. TimeoutMod - 1
  PROVE  /\ Halved(t) \in 1 .. TimeoutMod - 1
         /\ Halved(t) <= t \/ Halved(t) = MinTimeout
<1>1. /\ TimeoutMod \in Nat /\ MinTimeout \in Nat \ {0}
      /\ MinTimeout < TimeoutMod
  BY PriorityAssumption
<1>2. t \div 2 \in Nat /\ t \div 2 <= t
  BY <1>1
<1>3. Halved(t) = IF t \div 2 >= MinTimeout THEN t \div 2 ELSE MinTimeout
  BY <1>1, <1>2, MaxOfTwo DEF Halved
<1> QED
  BY <1>1, <1>2, <1>3

(* Adding below the modulus either adds or wraps around.                   *)
LEMMA StepWraps ==
  ASSUME NEW t \in 0 .. TimeoutMod - 1
  PROVE  /\ (t + TimeoutStep) % TimeoutMod \in 0 .. TimeoutMod - 1
         /\ t + TimeoutStep < TimeoutMod =>
              (t + TimeoutStep) % TimeoutMod = t + TimeoutStep
<1>1. /\ TimeoutMod \in Nat \ {0} /\ TimeoutStep \in Nat \ {0}
  BY PriorityAssumption
<1> QED
  BY <1>1

(* What a configuration that was just chosen satisfies.                    *)
LEMMA FreshConfig ==
  ASSUME NEW c \in Config, c.timeout_ms # 0, c.max_queue_depth # 0
  PROVE  /\ c.timeout_ms \in 1 .. TimeoutMod - 1
         /\ c.max_queue_depth > 0
         /\ c.timeout_ms <= Max({c.timeout_ms, MinTimeout})
<1>1. c.timeout_ms \in 1 .. TimeoutMod - 1 /\ c.max_queue_depth \in Nat \ {0}
  BY PriorityAssumption DEF Config
<1>2. MinTimeout \in Nat
  BY PriorityAssumption
<1> QED
  BY <1>1, <1>2, MaxOfTwo

\* The inductive invariant of the priorities: each part needs the types, and
\* none needs another part.
QosInv == QosTypeOK /\ TimeoutDrift /\ NeverZero

(* The invariant holds of the default configurations.                      *)
LEMMA QosInitial == QosInit => QosInv
<1> SUFFICES ASSUME QosInit PROVE QosInv
  OBVIOUS
<1>1. /\ priority \in Priority /\ config = DefaultConfig[priority]
      /\ base = config.timeout_ms /\ wrapped = FALSE
  BY DEF QosInit
<1>2. config \in Config /\ config.timeout_ms # 0 /\ config.max_queue_depth # 0
  BY <1>1, PriorityAssumption DEF Config
<1>3. /\ config.timeout_ms \in 1 .. TimeoutMod - 1
      /\ config.max_queue_depth > 0
      /\ config.timeout_ms <= Max({config.timeout_ms, MinTimeout})
  BY <1>2, FreshConfig
<1>4. TimeoutDrift
  <2>1. config.timeout_ms >= base
    BY <1>1, <1>3, PriorityAssumption
  <2>2. config.timeout_ms <= Max({base, MinTimeout})
    BY <1>1, <1>3
  <2> QED
    BY <2>1, <2>2 DEF TimeoutDrift
<1>5. QosTypeOK
  BY <1>1, <1>2, <1>3, Zenon DEF QosTypeOK
<1>6. NeverZero
  <2>1. config.timeout_ms # 0
    BY <1>2
  <2> QED
    BY <2>1 DEF NeverZero
<1> QED
  BY <1>4, <1>5, <1>6 DEF QosInv

(* Adjusting, resetting and setting preserve it.                           *)
LEMMA QosStep == QosInv /\ [QosNext]_qosVars => QosInv'
<1> SUFFICES ASSUME QosInv, [QosNext]_qosVars PROVE QosInv'
  OBVIOUS
<1> DEFINE t == config.timeout_ms
<1>1. /\ priority \in Priority /\ config \in Config
      /\ t \in 0 .. TimeoutMod - 1 /\ base \in 1 .. TimeoutMod - 1
      /\ config.max_queue_depth \in Nat \ {0}
      /\ TimeoutMod \in Nat /\ MinTimeout \in Nat \ {0}
  BY PriorityAssumption DEF QosInv, QosTypeOK, Config
<1>2. Max({base, MinTimeout}) = IF base >= MinTimeout THEN base ELSE MinTimeout
  BY <1>1, MaxOfTwo
<1>3. ASSUME NEW depth \in QueueDepth, Shorten(depth)
      PROVE  QosInv'
  <2>1. /\ config' = [config EXCEPT !.timeout_ms = Halved(t)]
        /\ UNCHANGED <<priority, base, wrapped>>
        /\ priority # Highest
    BY <1>3 DEF Shorten, GivesWay, Highest, Priority, QosInv, QosTypeOK
  <2>2. /\ config' \in Config /\ config'.timeout_ms = Halved(t)
        /\ config'.max_queue_depth = config.max_queue_depth
    BY <1>1, <2>1, HalvedBounds DEF Config
  <2>3. Halved(t) \in 1 .. TimeoutMod - 1 /\ (Halved(t) <= t \/ Halved(t) = MinTimeout)
    BY <1>1, HalvedBounds
  <2>4. TimeoutDrift'
    BY <1>1, <1>2, <2>1, <2>2, <2>3 DEF QosInv, TimeoutDrift
  <2> QED
    BY <1>1, <2>1, <2>2, <2>3, <2>4 DEF QosInv, QosTypeOK, NeverZero
<1>4. ASSUME NEW depth \in QueueDepth, Lengthen(depth)
      PROVE  QosInv'
  <2>1. /\ config' = [config EXCEPT !.timeout_ms = (t + TimeoutStep) % TimeoutMod]
        /\ wrapped' = (wrapped \/ t + TimeoutStep >= TimeoutMod)
        /\ UNCHANGED <<priority, base>>
        /\ priority # Lowest
    BY <1>4, PriorityAssumption DEF Lengthen, Lowest, Priority, QosInv, QosTypeOK
  <2>2. /\ config' \in Config
        /\ config'.timeout_ms = (t + TimeoutStep) % TimeoutMod
        /\ config'.max_queue_depth = config.max_queue_depth
    BY <1>1, <2>1, StepWraps DEF Config
  <2>3. CASE wrapped'
    BY <1>1, <2>1, <2>2, <2>3 DEF QosInv, QosTypeOK, TimeoutDrift, NeverZero
  <2>4. CASE ~wrapped'
    <3>1. t + TimeoutStep < TimeoutMod /\ ~wrapped
      <4>1. ~(t + TimeoutStep >= TimeoutMod) /\ ~wrapped
        BY <2>1, <2>4, Zenon
      <4> QED
        BY <1>1, <4>1, PriorityAssumption
    <3>2. config'.timeout_ms = t + TimeoutStep
      BY <1>1, <2>2, <3>1, StepWraps
    <3> QED
      BY <1>1, <2>1, <2>2, <2>4, <3>1, <3>2, PriorityAssumption
         DEF QosInv, QosTypeOK, TimeoutDrift, NeverZero
  <2> QED
    BY <2>3, <2>4
<1>5. ASSUME ResetConfig PROVE QosInv'
  <2>1. /\ priority' = priority /\ config' = DefaultConfig[priority]
        /\ base' = config'.timeout_ms /\ wrapped' = FALSE
    BY <1>5 DEF ResetConfig
  <2>2. /\ config' \in Config /\ config'.timeout_ms # 0
        /\ config'.max_queue_depth # 0
    BY <1>1, <2>1, PriorityAssumption DEF Config
  <2>3. /\ config'.timeout_ms \in 1 .. TimeoutMod - 1
        /\ config'.max_queue_depth > 0
        /\ config'.timeout_ms <= Max({config'.timeout_ms, MinTimeout})
    BY <2>2, FreshConfig
  <2>4. TimeoutDrift'
    <3>1. config'.timeout_ms >= base'
      BY <1>1, <2>1, <2>3
    <3>2. config'.timeout_ms <= Max({base', MinTimeout})
      BY <2>1, <2>3
    <3> QED
      BY <3>1, <3>2 DEF TimeoutDrift
  <2>5. QosTypeOK'
    BY <1>1, <2>1, <2>2, <2>3, Zenon DEF QosTypeOK
  <2>6. NeverZero'
    BY <2>2 DEF NeverZero
  <2> QED
    BY <2>4, <2>5, <2>6 DEF QosInv
<1>6. ASSUME NEW c \in CustomConfig, SetConfig(c) PROVE QosInv'
  <2>1. /\ priority' = priority
        /\ base' = config'.timeout_ms /\ wrapped' = FALSE
    BY <1>6 DEF SetConfig
  <2>2. /\ config' \in Config /\ config'.timeout_ms # 0
        /\ config'.max_queue_depth # 0
    BY <1>6, PriorityAssumption DEF SetConfig
  <2>3. /\ config'.timeout_ms \in 1 .. TimeoutMod - 1
        /\ config'.max_queue_depth > 0
        /\ config'.timeout_ms <= Max({config'.timeout_ms, MinTimeout})
    BY <2>2, FreshConfig
  <2>4. TimeoutDrift'
    <3>1. config'.timeout_ms >= base'
      BY <1>1, <2>1, <2>3
    <3>2. config'.timeout_ms <= Max({base', MinTimeout})
      BY <2>1, <2>3
    <3> QED
      BY <3>1, <3>2 DEF TimeoutDrift
  <2>5. QosTypeOK'
    BY <1>1, <2>1, <2>2, <2>3, Zenon DEF QosTypeOK
  <2>6. NeverZero'
    BY <2>2 DEF NeverZero
  <2> QED
    BY <2>4, <2>5, <2>6 DEF QosInv
<1>7. ASSUME UNCHANGED qosVars PROVE QosInv'
  BY <1>7 DEF qosVars, QosInv, QosTypeOK, TimeoutDrift, NeverZero
<1> QED
  BY <1>3, <1>4, <1>5, <1>6, <1>7 DEF QosNext, Adjust
-----------------------------------------------------------------------------
\* The inductive invariant of the batches.
BatchInv ==
  /\ added \in Nat /\ start \in Nat /\ start <= added
  /\ batch.max_messages \in Nat
  /\ batch.messages \in Seq(Nat)
  /\ BatchHoldsFirst

\* The first messages offered from one point on.
Run(from, to, room) ==
  [i \in 1 .. Min({to - from, room}) |-> from + i]

(* The length and the elements of a run.                                   *)
LEMMA RunSeq ==
  ASSUME NEW from \in Nat, NEW to \in Nat, from <= to, NEW room \in Nat
  PROVE  /\ Run(from, to, room) \in Seq(Nat)
         /\ Len(Run(from, to, room)) =
              IF to - from <= room THEN to - from ELSE room
         /\ \A i \in 1 .. Len(Run(from, to, room)) :
              Run(from, to, room)[i] = from + i
<1> DEFINE n == IF to - from <= room THEN to - from ELSE room
<1>1. n \in Nat /\ Min({to - from, room}) = n
  BY MinOfTwo
<1>2. Run(from, to, room) = [i \in 1 .. n |-> from + i]
  BY <1>1 DEF Run
<1> HIDE DEF n
<1>3. [i \in 1 .. n |-> from + i] \in Seq(Nat)
  BY <1>1
<1>4. Len([i \in 1 .. n |-> from + i]) = n
  BY <1>1, <1>3
<1> QED
  BY <1>2, <1>3, <1>4 DEF n

(* A message offered to a run extends it, or finds it full.                *)
LEMMA RunExtends ==
  ASSUME NEW from \in Nat, NEW to \in Nat, from <= to, NEW room \in Nat
  PROVE  Run(from, to + 1, room) =
           IF Len(Run(from, to, room)) >= room
           THEN Run(from, to, room)
           ELSE Append(Run(from, to, room), to + 1)
<1> DEFINE n == IF to - from <= room THEN to - from ELSE room
<1> DEFINE m == IF to + 1 - from <= room THEN to + 1 - from ELSE room
<1>1. /\ n \in Nat /\ m \in Nat
      /\ Min({to - from, room}) = n /\ Min({to + 1 - from, room}) = m
  BY MinOfTwo
<1>2. /\ Run(from, to, room) = [i \in 1 .. n |-> from + i]
      /\ Run(from, to + 1, room) = [i \in 1 .. m |-> from + i]
      /\ Run(from, to, room) \in Seq(Nat)
      /\ Len(Run(from, to, room)) = n
  <2>1. to + 1 \in Nat /\ from <= to + 1
    OBVIOUS
  <2>2. Run(from, to, room) = [i \in 1 .. n |-> from + i]
    BY <1>1 DEF Run
  <2>3. Run(from, to + 1, room) = [i \in 1 .. m |-> from + i]
    BY <1>1 DEF Run
  <2>4. Run(from, to, room) \in Seq(Nat) /\ Len(Run(from, to, room)) = n
    BY RunSeq
  <2> HIDE DEF n, m
  <2> QED
    BY <2>2, <2>3, <2>4
<1>3. CASE n >= room
  <2>1. m = n
    BY <1>3
  <2> HIDE DEF n, m
  <2> QED
    BY <1>1, <1>2, <1>3, <2>1
<1>4. CASE n < room
  <2>1. m = n + 1 /\ to + 1 = from + m
    BY <1>4
  <2>2. Append(Run(from, to, room), to + 1) = [i \in 1 .. m |-> from + i]
    BY <1>1, <1>2, <2>1
  <2>3. ~(Len(Run(from, to, room)) >= room)
    BY <1>1, <1>2, <1>4
  <2>4. Run(from, to + 1, room) = Append(Run(from, to, room), to + 1)
    BY <1>2, <2>2, Zenon
  <2> QED
    BY <2>3, <2>4, Zenon
<1> QED
  BY <1>1, <1>3, <1>4

(* A run that has just begun is empty.                                     *)
LEMMA RunEmpty ==
  ASSUME NEW from \in Nat, NEW room \in Nat
  PROVE  Run(from, from, room) = << >>
<1>1. Run(from, from, room) \in Seq(Nat) /\ Len(Run(from, from, room)) = 0
  BY RunSeq
<1> QED
  BY <1>1

(* The invariant holds before there is a batch.                            *)
LEMMA BatchInitial == BatchInit => BatchInv
<1> SUFFICES ASSUME BatchInit PROVE BatchInv
  OBVIOUS
<1>1. /\ batch.messages = << >> /\ batch.max_messages = 0
      /\ added = 0 /\ start = 0
  BY DEF BatchInit, NoBatch
<1>2. Run(start, added, batch.max_messages) = << >>
  BY <1>1, RunEmpty
<1> QED
  BY <1>1, <1>2 DEF BatchInv, BatchHoldsFirst, Run

(* Every operation on a batch preserves it.                                *)
LEMMA BatchStep == BatchInv /\ [BatchNext]_batchVars => BatchInv'
<1> SUFFICES ASSUME BatchInv, [BatchNext]_batchVars PROVE BatchInv'
  OBVIOUS
<1>1. /\ added \in Nat /\ start \in Nat /\ start <= added
      /\ batch.max_messages \in Nat /\ batch.messages \in Seq(Nat)
      /\ batch.messages = Run(start, added, batch.max_messages)
  BY DEF BatchInv, BatchHoldsFirst, Run
<1>2. ASSUME UNCHANGED <<batch, added, start>>
      PROVE  BatchInv'
  BY <1>2 DEF BatchInv, BatchHoldsFirst
<1>3. ASSUME batch'.messages = << >>, batch'.max_messages \in Nat,
             start' = added, added' = added
      PROVE  BatchInv'
  <2>1. Run(start', added', batch'.max_messages) = << >>
    BY <1>1, <1>3, RunEmpty
  <2> QED
    BY <1>1, <1>3, <2>1 DEF BatchInv, BatchHoldsFirst, Run
<1>4. ASSUME NEW b \in BatchSize, CreateBatch(b[1], b[2])
      PROVE  BatchInv'
  <2>1. b[2] \in Nat
    BY BatchAssumption
  <2> QED
    BY <1>3, <1>4, <2>1 DEF CreateBatch
<1>5. CASE ClearBatch
  <2>1. batch' = [batch EXCEPT !.messages = << >>]
    BY <1>5 DEF ClearBatch, Cleared
  <2> QED
    BY <1>1, <1>3, <1>5, <2>1 DEF ClearBatch
<1>6. CASE DestroyBatch
  BY <1>3, <1>6 DEF DestroyBatch, NoBatch
<1>7. CASE AddMessage
  <2>1. /\ added' = added + 1 /\ start' = start
        /\ batch' = WithMessage(batch, added + 1)
    BY <1>7 DEF AddMessage
  <2>2. /\ batch'.max_messages = batch.max_messages
        /\ batch'.messages = IF Len(batch.messages) >= batch.max_messages
                             THEN batch.messages
                             ELSE Append(batch.messages, added + 1)
    BY <2>1 DEF WithMessage
  <2>3. batch'.messages = Run(start', added', batch'.max_messages)
    BY <1>1, <2>1, <2>2, RunExtends
  <2>4. /\ added' \in Nat /\ start' \in Nat /\ start' <= added'
        /\ batch'.max_messages \in Nat
    BY <1>1, <2>1, <2>2
  <2>5. batch'.messages \in Seq(Nat)
    BY <2>3, <2>4, RunSeq
  <2> QED
    BY <2>3, <2>4, <2>5 DEF BatchInv, BatchHoldsFirst, Run
<1>8. CASE SendBatch \/ UNCHANGED batchVars
  <2>1. UNCHANGED <<batch, added, start>>
    BY <1>8 DEF SendBatch, batchVars
  <2> QED
    BY <1>2, <2>1
<1> QED
  BY <1>4, <1>5, <1>6, <1>7, <1>8 DEF BatchNext
-----------------------------------------------------------------------------
\* Consecutive messages, at least one.
IsRun(s) ==
  /\ s \in Seq(Nat) /\ Len(s) > 0
  /\ \A k \in 1 .. Len(s) : s[k] = s[1] + k - 1

\* What a publication is to a later one: a beginning of it, or older.
Before(s, t) ==
  \/ s[1] = t[1] /\ Len(s) <= Len(t)
  \/ s[Len(s)] < t[1]

\* What a publication is to a batch that began after message from and holds
\* n messages: a beginning of it, or older.
SentOf(s, from, n) ==
  \/ s[1] = from + 1 /\ Len(s) <= n
  \/ s[Len(s)] <= from

\* The inductive invariant of the publications
SentInv ==
  /\ published \in Seq(Seq(Nat))
  /\ \A i \in 1 .. Len(published) :
       IsRun(published[i]) /\ SentOf(published[i], start, Len(batch.messages))
  /\ \A i, j \in 1 .. Len(published) :
       i < j => Before(published[i], published[j])

(* Of two runs with the same first message the shorter is a prefix.        *)
LEMMA RunPrefix ==
  ASSUME NEW s, NEW t, IsRun(s), IsRun(t), Before(s, t)
  PROVE  IsPrefix(s, t) \/ Last(s) < Head(t)
<1>1. CASE s[Len(s)] < t[1]
  BY <1>1 DEF Last, IsRun
<1>2. CASE s[1] = t[1] /\ Len(s) <= Len(t)
  <2>1. /\ s \in Seq(Nat) /\ t \in Seq(Nat) /\ Len(s) \in Nat
        /\ Len(t) \in Nat
    BY DEF IsRun
  <2>2. ASSUME NEW k \in 1 .. Len(s) PROVE s[k] = t[k]
    <3>1. k \in 1 .. Len(t)
      BY <1>2, <2>1
    <3>2. s[k] = s[1] + k - 1 /\ t[k] = t[1] + k - 1
      BY <3>1 DEF IsRun
    <3> QED
      BY <1>2, <3>2
  <2>3. SubSeq(s, 1, Len(s)) = SubSeq(t, 1, Len(s))
    BY <1>2, <2>1, <2>2
  <2> QED
    BY <1>2, <2>3 DEF IsPrefix
<1> QED
  BY <1>1, <1>2 DEF Before

(* The messages of a batch are such a run, from the one after start on,    *)
(* and none of them is newer than the last one added.                      *)
LEMMA BatchRun ==
  ASSUME BatchInv
  PROVE  /\ Len(batch.messages) \in Nat
         /\ Len(batch.messages) <= added - start
         /\ Len(batch.messages) <= batch.max_messages
         /\ \A k \in 1 .. Len(batch.messages) : batch.messages[k] = start + k
         /\ batch.messages # << >> =>
              IsRun(batch.messages) /\ batch.messages[1] = start + 1
<1>1. /\ added \in Nat /\ start \in Nat /\ start <= added
      /\ batch.max_messages \in Nat /\ batch.messages \in Seq(Nat)
      /\ batch.messages = Run(start, added, batch.max_messages)
  BY DEF BatchInv, BatchHoldsFirst, Run
<1> DEFINE r == Run(start, added, batch.max_messages)
<1>2. /\ Len(r) = IF added - start <= batch.max_messages
                  THEN added - start ELSE batch.max_messages
      /\ \A k \in 1 .. Len(r) : r[k] = start + k
  BY <1>1, RunSeq
<1>3. /\ Len(batch.messages) =
           IF added - start <= batch.max_messages
           THEN added - start ELSE batch.max_messages
      /\ \A k \in 1 .. Len(batch.messages) : batch.messages[k] = start + k
  BY <1>1, <1>2, Zenon
<1>4. ASSUME batch.messages # << >>
      PROVE  IsRun(batch.messages) /\ batch.messages[1] = start + 1
  <2>1. Len(batch.messages) \in Nat /\ Len(batch.messages) > 0
    BY <1>1, <1>4
  <2>2. batch.messages[1] = start + 1
    BY <1>3, <2>1
  <2>3. \A k \in 1 .. Len(batch.messages) :
          batch.messages[k] = batch.messages[1] + k - 1
    BY <1>1, <1>3, <2>1, <2>2
  <2> QED
    BY <1>1, <2>1, <2>2, <2>3 DEF IsRun
<1>5. /\ Len(batch.messages) \in Nat
      /\ Len(batch.messages) <= added - start
      /\ Len(batch.messages) <= batch.max_messages
  BY <1>1, <1>3
<1> QED
  BY <1>3, <1>4, <1>5

(* What was sent of a batch is older than whatever follows it, and stays a *)
(* beginning of a batch that grows.                                        *)
LEMMA SentAges ==
  ASSUME NEW s, IsRun(s), NEW from \in Nat, NEW to \in Nat, NEW n \in Nat,
         n <= to - from, SentOf(s, from, n)
  PROVE  /\ SentOf(s, to, 0)
         /\ \A m \in Nat : n <= m => SentOf(s, from, m)
         /\ \A t : IsRun(t) /\ t[1] = from + 1 /\ Len(t) = n => Before(s, t)
<1>1. /\ s \in Seq(Nat) /\ Len(s) \in Nat /\ Len(s) > 0
      /\ s[Len(s)] = s[1] + Len(s) - 1 /\ s[1] \in Nat
  BY DEF IsRun
<1>2. SentOf(s, to, 0)
  BY <1>1 DEF SentOf
<1>3. ASSUME NEW m \in Nat, n <= m PROVE SentOf(s, from, m)
  BY <1>1, <1>3 DEF SentOf
<1>4. ASSUME NEW t, IsRun(t), t[1] = from + 1, Len(t) = n PROVE Before(s, t)
  BY <1>1, <1>4 DEF SentOf, Before
<1> QED
  BY <1>2, <1>3, <1>4

(* Every operation on a batch keeps its publications in order.             *)
LEMMA SentStep ==
  BatchInv /\ SentInv /\ [BatchNext]_batchVars => SentInv'
<1> SUFFICES ASSUME BatchInv, SentInv, [BatchNext]_batchVars
             PROVE  SentInv'
  OBVIOUS
<1> DEFINE n == Len(batch.messages)
<1>1. /\ added \in Nat /\ start \in Nat /\ n \in Nat /\ n <= added - start
      /\ batch.messages \in Seq(Nat) /\ published \in Seq(Seq(Nat))
  BY BatchRun DEF BatchInv, SentInv
<1>2. ASSUME published' = published,
             \A s : IsRun(s) /\ SentOf(s, start, n) =>
                      SentOf(s, start', Len(batch'.messages))
      PROVE  SentInv'
  BY <1>2 DEF SentInv
<1>3. ASSUME published' = published, start' = added,
             batch'.messages = << >>
      PROVE  SentInv'
  <2>1. Len(batch'.messages) = 0
    BY <1>3
  <2>2. ASSUME NEW s, IsRun(s), SentOf(s, start, n)
        PROVE  SentOf(s, added, 0)
    BY <1>1, <2>2, SentAges
  <2> QED
    BY <1>2, <1>3, <2>1, <2>2
<1>4. ASSUME NEW b \in BatchSize, CreateBatch(b[1], b[2]) PROVE SentInv'
  BY <1>3, <1>4 DEF CreateBatch
<1>5. CASE ClearBatch
  <2>1. batch'.messages = << >>
    BY <1>5 DEF ClearBatch, Cleared, BatchInv
  <2> QED
    BY <1>3, <1>5, <2>1 DEF ClearBatch
<1>6. CASE DestroyBatch
  BY <1>3, <1>6 DEF DestroyBatch, NoBatch
<1>7. CASE AddMessage
  <2>1. /\ published' = published /\ start' = start
        /\ Len(batch'.messages) \in Nat /\ n <= Len(batch'.messages)
    <3>1. /\ published' = published /\ start' = start
          /\ batch' = WithMessage(batch, added + 1)
      BY <1>7 DEF AddMessage
    <3>2. CASE batch' = batch
      BY <1>1, <3>1, <3>2
    <3>3. CASE batch' = [batch EXCEPT !.messages = Append(@, added + 1)]
      <4>1. batch'.messages = Append(batch.messages, added + 1)
        BY <3>3 DEF BatchInv
      <4>2. Len(batch'.messages) = n + 1
        BY <1>1, <4>1
      <4> QED
        BY <1>1, <3>1, <4>2
    <3> QED
      BY <3>1, <3>2, <3>3 DEF WithMessage
  <2>2. ASSUME NEW s, IsRun(s), SentOf(s, start, n)
        PROVE  SentOf(s, start, Len(batch'.messages))
    BY <1>1, <2>1, <2>2, SentAges
  <2> QED
    BY <1>2, <2>1, <2>2
<1>8. CASE SendBatch
  <2>1. /\ published' = Append(published, batch.messages)
        /\ batch' = batch /\ start' = start /\ batch.messages # << >>
    BY <1>8 DEF SendBatch
  <2>2. IsRun(batch.messages) /\ batch.messages[1] = start + 1
    BY <2>1, BatchRun
  <2>3. SentOf(batch.messages, start, n)
    BY <1>1, <2>2 DEF SentOf
  <2>4. /\ published' \in Seq(Seq(Nat))
        /\ Len(published') = Len(published) + 1 /\ Len(published) \in Nat
        /\ published'[Len(published')] = batch.messages
        /\ \A i \in 1 .. Len(published) : published'[i] = published[i]
    BY <1>1, <2>1
  <2>5. ASSUME NEW i \in 1 .. Len(published')
        PROVE  IsRun(published'[i]) /\ SentOf(published'[i], start, n)
    <3>1. CASE i = Len(published')
      BY <2>2, <2>3, <2>4, <3>1
    <3>2. CASE i # Len(published')
      <4>1. i \in 1 .. Len(published)
        BY <2>4, <3>2
      <4> QED
        BY <2>4, <4>1 DEF SentInv
    <3> QED
      BY <3>1, <3>2
  <2>6. ASSUME NEW i \in 1 .. Len(published'), NEW j \in 1 .. Len(published'),
               i < j
        PROVE  Before(published'[i], published'[j])
    <3>1. i \in 1 .. Len(published)
      BY <2>4, <2>6
    <3>2. CASE j = Len(published')
      <4>1. IsRun(published[i]) /\ SentOf(published[i], start, n)
        BY <3>1 DEF SentInv
      <4>2. Before(published[i], batch.messages)
        BY <1>1, <2>2, <4>1, SentAges
      <4> QED
        BY <2>4, <3>1, <3>2, <4>2
    <3>3. CASE j # Len(published')
      <4>1. j \in 1 .. Len(published)
        BY <2>4, <3>3
      <4> QED
        BY <2>4, <2>6, <3>1, <4>1 DEF SentInv
    <3> QED
      BY <3>2, <3>3
  <2> QED
    BY <2>1, <2>4, <2>5, <2>6 DEF SentInv
<1>9. CASE UNCHANGED batchVars
  BY <1>9 DEF batchVars, SentInv
<1> QED
  BY <1>4, <1>5, <1>6, <1>7, <1>8, <1>9 DEF BatchNext

(* A batch with other messages is a batch of the same size.                *)
LEMMA OtherMessages ==
  ASSUME NEW S,
         NEW b \in [exists : BOOLEAN, message_size : Nat \ {0},
                   max_messages : Nat, messages : Seq(S)],
         NEW m \in Seq(S)
  PROVE  LET c == [b EXCEPT !.messages = m]
         IN  /\ c \in [exists : BOOLEAN, message_size : Nat \ {0},
                       max_messages : Nat, messages : Seq(S)]
             /\ c.messages = m /\ c.max_messages = b.max_messages
OBVIOUS

(* A batch, and what is published of it, keeps its type.                   *)
LEMMA BatchTypeStep ==
  BatchTypeOK /\ BatchInv /\ [BatchNext]_batchVars => BatchTypeOK'
<1> SUFFICES ASSUME BatchTypeOK, BatchInv, BatchInv', [BatchNext]_batchVars
             PROVE  BatchTypeOK'
  BY BatchStep
<1>1. /\ added \in Nat /\ start \in Nat /\ start <= added
      /\ added <= MaxAdded /\ MaxAdded \in Nat
  BY BatchAssumption DEF BatchTypeOK, BatchInv
<1>2. << >> \in Seq(1 .. MaxAdded) /\ Len(<< >>) = 0
  OBVIOUS
<1>3. ASSUME NEW b \in BatchSize, CreateBatch(b[1], b[2])
      PROVE  BatchTypeOK'
  <2>1. b[1] \in Nat \ {0} /\ b[2] \in Nat \ {0}
    BY BatchAssumption
  <2> QED
    BY <1>1, <1>2, <1>3, <2>1 DEF CreateBatch, BatchTypeOK
<1>4. CASE AddMessage
  <2>1. /\ added' = added + 1 /\ added + 1 \in 1 .. MaxAdded
        /\ start' = start /\ published' = published
        /\ batch' = WithMessage(batch, added + 1)
    BY <1>1, <1>4 DEF AddMessage
  <2>2. /\ Len(batch.messages) \in Nat /\ batch.max_messages \in Nat
        /\ Len(batch.messages) <= batch.max_messages
        /\ batch.messages \in Seq(1 .. MaxAdded)
    BY DEF BatchTypeOK
  <2>3. CASE Len(batch.messages) >= batch.max_messages
    BY <1>1, <2>1, <2>3 DEF WithMessage, BatchTypeOK
  <2>4. CASE ~(Len(batch.messages) >= batch.max_messages)
    <3> DEFINE m == Append(batch.messages, added + 1)
    <3>1. m \in Seq(1 .. MaxAdded) /\ Len(m) <= batch.max_messages
      BY <2>1, <2>2, <2>4
    <3>2. batch' = [batch EXCEPT !.messages = m]
      BY <2>1, <2>4 DEF WithMessage
    <3> HIDE DEF m
    <3>3. /\ batch' \in [exists : BOOLEAN, message_size : Nat \ {0},
                         max_messages : Nat, messages : Seq(1 .. MaxAdded)]
          /\ Len(batch'.messages) <= batch'.max_messages
      BY <3>1, <3>2, OtherMessages DEF BatchTypeOK
    <3>4. added' \in 0 .. MaxAdded /\ start' \in 0 .. added'
      BY <1>1, <2>1
    <3> QED
      BY <2>1, <3>3, <3>4 DEF BatchTypeOK
  <2> QED
    BY <2>3, <2>4
<1>5. CASE SendBatch
  <2>1. published' \in Seq(Seq(1 .. MaxAdded))
    BY <1>5 DEF SendBatch, BatchTypeOK
  <2> QED
    BY <1>5, <2>1 DEF SendBatch, BatchTypeOK
<1>6. CASE ClearBatch
  <2>1. batch' = [batch EXCEPT !.messages = << >>]
    BY <1>6 DEF ClearBatch, Cleared
  <2>2. /\ batch' \in [exists : BOOLEAN, message_size : Nat \ {0},
                       max_messages : Nat, messages : Seq(1 .. MaxAdded)]
        /\ batch'.messages = << >> /\ batch'.max_messages \in Nat
    BY <1>2, <2>1, OtherMessages DEF BatchTypeOK
  <2>3. Len(batch'.messages) <= batch'.max_messages
    BY <1>2, <2>2
  <2>4. /\ added' \in 0 .. MaxAdded /\ start' \in 0 .. added'
        /\ published' = published
    BY <1>1, <1>6 DEF ClearBatch
  <2> QED
    BY <2>2, <2>3, <2>4 DEF BatchTypeOK
<1>7. CASE DestroyBatch
  BY <1>1, <1>2, <1>7 DEF DestroyBatch, NoBatch, BatchTypeOK
<1>8. CASE UNCHANGED batchVars
  BY <1>8 DEF batchVars, BatchTypeOK
<1> QED
  BY <1>3, <1>4, <1>5, <1>6, <1>7, <1>8 DEF BatchNext

(* The first state of a batch is well typed.                               *)
LEMMA BatchTypeInitial == BatchInit => BatchTypeOK
BY BatchAssumption DEF BatchInit, BatchTypeOK, NoBatch

(* What is published at first: nothing.                                    *)
LEMMA SentInitial == BatchInit => SentInv
BY DEF BatchInit, SentInv
-----------------------------------------------------------------------------
(* A name that passes the checks of the handles is one that the kernel may *)
(* know.                                                                   *)
LEMMA UsableIsAdmissible ==
  ASSUME NEW topic, Validate(topic) = "VALID"
  PROVE  Admissible(topic)
BY DEF Validate, WellFormed, Reserved, Admissible

(* The types and the names hold before the library is initialized.         *)
LEMMA PubSubInitial == PubSubInit => KnownAreValid /\ PubSubTypeOK
BY DEF PubSubInit, KnownAreValid, PubSubTypeOK, Text

(* Names come only from clients, from the buffer and from the tables.      *)
LEMMA NamesStep == PubSubTypeOK /\ [PubSubNext]_pubsubVars => PubSubTypeOK'
<1> SUFFICES ASSUME PubSubTypeOK, [PubSubNext]_pubsubVars
             PROVE  PubSubTypeOK'
  OBVIOUS
<1>1. Given \subseteq Name /\ Predefined \cup {TestTopic} \subseteq Name
  BY DEF Given, Name, PubSubTypeOK
<1>2. ASSUME NEW r \in Refusal, LibraryInit(r) PROVE PubSubTypeOK'
  BY <1>1, <1>2 DEF LibraryInit, PubSubTypeOK
<1>3. ASSUME NEW r \in Request, BuildTopic(r[1], r[2], r[3])
      PROVE  PubSubTypeOK'
  <2>1. topic_buffer' \in Text
    BY <1>3 DEF BuildTopic, Text
  <2> QED
    BY <1>3, <2>1 DEF BuildTopic, PubSubTypeOK
<1>4. ASSUME NEW topic \in Given, CreatePublisher(topic)
      PROVE  PubSubTypeOK'
  BY <1>1, <1>4 DEF CreatePublisher, PubSubTypeOK
<1>5. CASE DestroyPublisher
  BY <1>5 DEF DestroyPublisher, PubSubTypeOK
<1>6. ASSUME NEW s \in Subscriber, NEW topic \in Given,
             CreateSubscriber(s, topic)
      PROVE  PubSubTypeOK'
  BY <1>1, <1>6 DEF CreateSubscriber, PubSubTypeOK
<1>7. ASSUME NEW s \in Subscriber, DestroySubscriber(s) PROVE PubSubTypeOK'
  BY <1>7 DEF DestroySubscriber, PubSubTypeOK
<1>8. CASE UNCHANGED pubsubVars
  BY <1>8 DEF pubsubVars, PubSubTypeOK
<1> QED
  BY <1>2, <1>3, <1>4, <1>5, <1>6, <1>7, <1>8 DEF PubSubNext

(* Only valid names become known to the kernel.                            *)
LEMMA PubSubStep ==
  KnownAreValid /\ [PubSubNext]_pubsubVars => KnownAreValid'
<1> SUFFICES ASSUME KnownAreValid, [PubSubNext]_pubsubVars
             PROVE  KnownAreValid'
  OBVIOUS
<1>1. ASSUME NEW r \in Refusal, LibraryInit(r) PROVE KnownAreValid'
  <2>1. \A t \in Predefined \cup {TestTopic} :
          Validate(t) = "VALID" => Admissible(t)
    BY UsableIsAdmissible
  <2> QED
    BY <1>1, <2>1 DEF LibraryInit, KnownAreValid
<1>2. ASSUME NEW r \in Request, BuildTopic(r[1], r[2], r[3])
      PROVE  KnownAreValid'
  BY <1>2 DEF BuildTopic, KnownAreValid
<1>3. ASSUME NEW topic \in Given, CreatePublisher(topic)
      PROVE  KnownAreValid'
  BY <1>3, UsableIsAdmissible DEF CreatePublisher, Usable, KnownAreValid
<1>4. CASE DestroyPublisher
  BY <1>4 DEF DestroyPublisher, KnownAreValid
<1>5. ASSUME NEW s \in Subscriber, NEW topic \in Given,
             CreateSubscriber(s, topic)
      PROVE  KnownAreValid'
  BY <1>5, UsableIsAdmissible DEF CreateSubscriber, Usable, KnownAreValid
<1>6. ASSUME NEW s \in Subscriber, DestroySubscriber(s)
      PROVE  KnownAreValid'
  BY <1>6 DEF DestroySubscriber, KnownAreValid
<1>7. CASE UNCHANGED pubsubVars
  BY <1>7 DEF pubsubVars, KnownAreValid
<1> QED
  BY <1>1, <1>2, <1>3, <1>4, <1>5, <1>6, <1>7 DEF PubSubNext
-----------------------------------------------------------------------------
(* The tables of the names have eight, four and four entries.              *)
LEMMA TableSizes ==
  CategoryCount = 8 /\ SystemCount = 4 /\ LoggingCount = 4
BY DEF CategoryCount, SystemCount, LoggingCount, BaseString, SystemString,
       LoggingString

(* No two categories have the same first segment.                          *)
LEMMA BaseDistinct ==
  ASSUME NEW c \in 1 .. 8, NEW d \in 1 .. 8, BaseString[c] = BaseString[d]
  PROVE  c = d
BY DEF BaseString

(* ipc_get_topic_category undoes the choice of the first segment.          *)
LEMMA CategoryOfBase ==
  ASSUME NEW c \in 0 .. 7, NEW topic, topic[1] = BaseString[c + 1]
  PROVE  TopicCategory(topic) = c
<1>1. c + 1 \in 1 .. CategoryCount /\ BaseString[c + 1] = topic[1]
  BY TableSizes
<1>2. ASSUME NEW d \in 1 .. CategoryCount, BaseString[d] = topic[1]
      PROVE  d = c + 1
  BY <1>1, <1>2, TableSizes, BaseDistinct
<1>3. (CHOOSE d \in 1 .. CategoryCount : BaseString[d] = topic[1]) = c + 1
  BY <1>1, <1>2
<1>4. TopicCategory(topic) = (c + 1) - 1
  BY <1>1, <1>3, Zenon DEF TopicCategory
<1> QED
  BY <1>4

(* A first segment and two more make a name of three.                      *)
LEMMA Joined ==
  ASSUME NEW a, NEW b, NEW c
  PROVE  <<a>> \o <<b, c>> = <<a, b, c>>
<1> DEFINE S == {a, b, c}
           s == <<a>> \o <<b, c>>
           t == <<a, b, c>>
<1>1. a \in S /\ b \in S /\ c \in S
  OBVIOUS
<1>2. s \in Seq(S) /\ Len(s) = 3
  <2>1. <<a>> \in Seq(S) /\ <<b, c>> \in Seq(S)
    BY <1>1
  <2> QED
    BY <2>1
<1>3. t \in Seq(S) /\ Len(t) = 3
  BY <1>1
<1>4. \A i \in 1 .. 3 : s[i] = t[i]
  OBVIOUS
<1> HIDE DEF S, s, t
<1>5. s = t
  BY <1>2, <1>3, <1>4
<1> QED
  BY <1>5 DEF s, t

(* The texts that ipc_build_topic can write, one by one.                   *)
LEMMA TextCases ==
  ASSUME NEW c \in Nat, NEW s \in Nat, NEW l \in Nat, InTables(c, s, l)
  PROVE  /\ c \in 0 .. 7
         /\ TopicText(c, s, l)[1] = BaseString[c + 1]
         /\ c = 4 => TopicText(c, s, l)[1] = "safety"
         /\ TopicText(c, s, l) \in
              Predefined \cup {<<n, "status", "overall">> :
                                 n \in {"diagnostics", "power"}}
<1>1. c \in 0 .. 7
  BY TableSizes DEF InTables
<1>2. c = 0 => TopicText(c, s, l) = <<"vision", "camera", "frame">>
  BY Joined DEF TopicText, System, BaseString, FixedString
<1>3. c = 1 => TopicText(c, s, l) = <<"vehicle", "control", "command">>
  BY Joined DEF TopicText, System, BaseString, FixedString
<1>4. c = 2 => TopicText(c, s, l) = <<"ai", "inference", "result">>
  BY Joined DEF TopicText, System, BaseString, FixedString
<1>5. c = 4 => TopicText(c, s, l) = <<"safety", "status", "overall">>
  BY Joined DEF TopicText, System, BaseString, FixedString
<1>6. c = 5 => TopicText(c, s, l) = <<"communication", "can", "message">>
  BY Joined DEF TopicText, System, BaseString, FixedString
<1>7. c = 6 => TopicText(c, s, l) = <<"diagnostics", "status", "overall">>
  BY Joined DEF TopicText, System, BaseString, FixedString
<1>8. c = 7 => TopicText(c, s, l) = <<"power", "status", "overall">>
  BY Joined DEF TopicText, System, BaseString, FixedString
<1>9. ASSUME c = 3
      PROVE  \/ TopicText(c, s, l) \in
                  {<<"system", "logging", n>> :
                     n \in {"emergency", "error", "info", "debug"}}
             \/ TopicText(c, s, l) \in
                  {<<"system", n, "status">> :
                     n \in {"monitor", "diagnostic", "power"}}
  <2>1. s \in {0, 1, 2, 3} /\ (s = 2 => l \in {0, 1, 2, 3})
    BY <1>9, TableSizes DEF InTables, System, Logging
  <2>2. CASE s = 2
    <3>1. TopicText(c, s, l) = <<"system", "logging", LoggingString[l + 1]>>
      BY <1>9, <2>2 DEF TopicText, System, Logging, BaseString, SystemString
    <3>2. LoggingString[l + 1] \in {"emergency", "error", "info", "debug"}
      BY <2>1, <2>2 DEF LoggingString
    <3> QED
      BY <3>1, <3>2
  <2>3. CASE s # 2
    <3>1. TopicText(c, s, l) = <<"system", SystemString[s + 1], "status">>
      BY <1>9, <2>3 DEF TopicText, System, Logging, BaseString
    <3>2. SystemString[s + 1] \in {"monitor", "diagnostic", "power"}
      BY <2>1, <2>3 DEF SystemString
    <3> QED
      BY <3>1, <3>2
  <2> QED
    BY <2>2, <2>3
<1>10. TopicText(c, s, l)[1] = BaseString[c + 1]
  <2>1. CASE c = 3
    BY <2>1 DEF TopicText, System
  <2>2. CASE c # 3
    BY <1>1, <1>2, <1>3, <1>4, <1>5, <1>6, <1>7, <1>8, <2>2 DEF BaseString
  <2> QED
    BY <2>1, <2>2
<1>11. c \in {0, 1, 2, 3, 4, 5, 6, 7}
  BY <1>1
<1>12. TopicText(c, s, l) \in
         Predefined \cup {<<n, "status", "overall">> :
                            n \in {"diagnostics", "power"}}
  BY <1>2, <1>3, <1>4, <1>5, <1>6, <1>7, <1>8, <1>9, <1>11, Zenon
     DEF Predefined
<1> QED
  BY <1>1, <1>5, <1>10, <1>12
-----------------------------------------------------------------------------
(* Every name that is built for a category belongs to it, and is           *)
(* predefined or one of the two that are not.                              *)
LEMMA BuiltIsPredefined ==
  ASSUME NEW b \in BuiltTopic
  PROVE  /\ TopicCategory(b[2]) = b[1] /\ Validate(b[2]) = "VALID"
         /\ b[2] \in Predefined \cup {<<n, "status", "overall">> :
                                        n \in {"diagnostics", "power"}}
<1>1. PICK c \in 0 .. CategoryCount, s \in 0 .. SystemCount,
           l \in 0 .. LoggingCount :
        b = <<c, Build(c, s, l)>> /\ b[2] # NoTopic
  BY DEF BuiltTopic
<1>2. b[1] = c /\ b[2] = Build(c, s, l)
  BY <1>1
<1>3. b[2] = Buffered(c, s, l) /\ Validate(b[2]) = "VALID"
  BY <1>1, <1>2 DEF Build
<1>4. InTables(c, s, l)
  <2>1. Validate(EmptyTopic) # "VALID"
    BY DEF Validate
  <2> QED
    BY <1>3, <2>1 DEF Buffered
<1>5. b[2] = TopicText(c, s, l)
  BY <1>3, <1>4 DEF Buffered
<1>6. c \in Nat /\ s \in Nat /\ l \in Nat
  BY TableSizes
<1>7. /\ c \in 0 .. 7 /\ b[2][1] = BaseString[c + 1]
      /\ b[2] \in Predefined \cup {<<n, "status", "overall">> :
                                    n \in {"diagnostics", "power"}}
  BY <1>4, <1>5, <1>6, TextCases
<1> QED
  BY <1>2, <1>3, <1>7, CategoryOfBase
-----------------------------------------------------------------------------
\* The inductive invariant of the library
LibInv ==
  /\ part \in {"messages", "priorities"}
  /\ QosInv /\ BatchTypeOK /\ BatchInv /\ SentInv
  /\ PubSubTypeOK /\ KnownAreValid

(* A step of the library is one of each part, or leaves the part alone.    *)
LEMMA LibParts ==
  [Next]_vars => /\ [QosNext]_qosVars /\ [BatchNext]_batchVars
                 /\ [PubSubNext]_pubsubVars
BY DEF Next, Messages, Priorities, vars, BatchNext, CreateBatch,
       AddMessage, SendBatch, ClearBatch, DestroyBatch, pubsubVars,
       batchVars, qosVars

(* The conjunction of the invariants holds in every state.                 *)
LEMMA LibInvariant == Spec => []LibInv
<1>1. Init => LibInv
  BY QosInitial, BatchInitial, BatchTypeInitial, SentInitial, PubSubInitial
     DEF Init, LibInv
<1>2. LibInv /\ [Next]_vars => LibInv'
  <2> SUFFICES ASSUME LibInv, [Next]_vars PROVE LibInv'
    OBVIOUS
  <2>1. part' = part
    BY DEF Next, Messages, Priorities, vars
  <2> QED
    BY <2>1, LibParts, QosStep, BatchTypeStep, BatchStep, SentStep,
       PubSubStep, NamesStep DEF LibInv
<1> QED
  BY <1>1, <1>2, PTL DEF Spec

(* The configuration, the batch, the publications and the names keep their *)
(* types: no name comes from anywhere but clients, the buffer and the      *)
(* tables (ipc_pubsub.c:30-60), and no batch outgrows its size             *)
(* (ipc_batch.c:89).                                                       *)
THEOREM LibraryTypeCorrect == Spec => []TypeOK
<1>1. LibInv => TypeOK
  BY DEF LibInv, TypeOK, QosInv
<1> QED
  BY <1>1, LibInvariant, PTL

(* Publications repeat messages only by sending a batch again, from its    *)
(* first message on (ipc_batch.c:133), for any number of batches and       *)
(* publications and however they are cleared and recreated in between.     *)
THEOREM ResendsOnlyExtend == Spec => []ResendsExtend
<1>1. LibInv => ResendsExtend
  <2> SUFFICES ASSUME LibInv, NEW i \in 1 .. Len(published),
                      NEW j \in 1 .. Len(published), i < j
               PROVE  \/ IsPrefix(published[i], published[j])
                      \/ Last(published[i]) < Head(published[j])
    BY DEF ResendsExtend
  <2>1. /\ IsRun(published[i]) /\ IsRun(published[j])
        /\ Before(published[i], published[j])
    BY DEF LibInv, SentInv
  <2> QED
    BY <2>1, RunPrefix
<1> QED
  BY <1>1, LibInvariant, PTL

(* Once the predefined topics are registered, every name that              *)
(* ipc_build_topic returns is known, but for the two categories without a  *)
(* predefined topic, and belongs to the category it was built for          *)
(* (ipc_topics.c:90, 245): the tables agree, for any limits of the length. *)
THEOREM BuiltNamesAreKnown == Spec => []BuiltAreRegistered
<1>1. BuiltAreRegistered
  <2> SUFFICES ASSUME {t \in Predefined : Validate(t) = "VALID"} \subseteq known,
                      NEW b \in BuiltTopic
               PROVE  /\ TopicCategory(b[2]) = b[1]
                      /\ b[2] \in known \cup {<<n, "status", "overall">> :
                                                n \in {"diagnostics", "power"}}
    BY DEF BuiltAreRegistered
  <2> QED
    BY BuiltIsPredefined
<1> QED
  BY <1>1, PTL

(* Load moves the timeouts of the extreme priorities one way each          *)
(* (ipc_priority.c:77-90), for any configurations and reported depths.     *)
THEOREM ExtremesDrift == Spec => []TimeoutDrift
<1>1. LibInv => TimeoutDrift
  BY DEF LibInv, QosInv
<1> QED
  BY <1>1, LibInvariant, PTL

(* No timeout reaches zero without wrapping around (ipc_priority.c:79-90). *)
THEOREM TimeoutsPositive == Spec => []NeverZero
<1>1. LibInv => NeverZero
  BY DEF LibInv, QosInv
<1> QED
  BY <1>1, LibInvariant, PTL

(* A batch of any size holds the first messages added since it was created *)
(* or cleared (ipc_batch.c:89-99).                                         *)
THEOREM BatchIsRun == Spec => []BatchHoldsFirst
<1>1. LibInv => BatchHoldsFirst
  BY DEF LibInv, BatchInv
<1> QED
  BY <1>1, LibInvariant, PTL

(* No malformed or overlong name, and none of the namespace "kernel",      *)
(* reaches the kernel or a handle (ipc_pubsub.c:45, 183, 335), whatever    *)
(* names clients write down and whatever the buffer of ipc_build_topic     *)
(* holds by the time it is read.                                           *)
THEOREM OnlyValidTopics == Spec => []KnownAreValid
<1>1. LibInv => KnownAreValid
  BY DEF LibInv
<1> QED
  BY <1>1, LibInvariant, PTL
=============================================================================
