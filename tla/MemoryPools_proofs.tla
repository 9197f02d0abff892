------------------------- MODULE MemoryPools_proofs -------------------------
(***************************************************************************)
(* Proofs about the kernel allocator, for any number of pools, any block   *)
(* sizes and counts that fit the 16-bit counters, and any requests.        *)
(***************************************************************************)
EXTENDS MemoryPools, FiniteSetTheorems, TLAPS

(* The blocks of a pool are a finite set with BlockCount elements, of      *)
(* which block 0 is one.                                                   *)
LEMMA BlockFinite ==
  ASSUME NEW p \in Pool
  PROVE  /\ BlockCount[p] \in 1 .. CountMod - 1
         /\ IsFiniteSet(Block(p))
         /\ Cardinality(Block(p)) = BlockCount[p]
         /\ 0 \in Block(p)
<1>1. BlockCount[p] \in 1 .. CountMod - 1 /\ CountMod \in Nat
  BY PoolAssumption
<1> DEFINE m == BlockCount[p] - 1
<1>2. m \in Int /\ m >= 0 /\ BlockCount[p] = m - 0 + 1
  BY <1>1
<1>3. 0 \in Int /\ ~(0 > m)
  BY <1>2
<1> HIDE DEF m
<1>4. IsFiniteSet(0 .. m) /\ Cardinality(0 .. m) = m - 0 + 1
  BY <1>2, <1>3, FS_Interval
<1>5. Block(p) = 0 .. m /\ 0 \in 0 .. m
  BY <1>2 DEF Block, m
<1> QED
  BY <1>1, <1>2, <1>4, <1>5

(* A 16-bit counter stays one when it is changed modulo its range, or when *)
(* it is decremented from a value other than zero.                         *)
LEMMA Counter ==
  ASSUME NEW f \in [Pool -> 0 .. CountMod - 1], NEW p \in Pool
  PROVE  /\ [f EXCEPT ![p] = (@ + 1) % CountMod] \in [Pool -> 0 .. CountMod - 1]
         /\ [f EXCEPT ![p] = (@ - 1) % CountMod] \in [Pool -> 0 .. CountMod - 1]
         /\ f[p] # 0 =>
              [f EXCEPT ![p] = @ - 1] \in [Pool -> 0 .. CountMod - 1]
<1>1. f[p] \in 0 .. CountMod - 1 /\ CountMod \in Nat \ {0}
  BY PoolAssumption
<1>2. /\ (f[p] + 1) % CountMod \in 0 .. CountMod - 1
      /\ (f[p] - 1) % CountMod \in 0 .. CountMod - 1
      /\ f[p] # 0 => f[p] - 1 \in 0 .. CountMod - 1
  BY <1>1
<1> QED
  BY <1>2

(* The grants of a pool stay numbers when those of one block change.       *)
LEMMA Grants ==
  ASSUME NEW g, DOMAIN g = Pool, \A q \in Pool : g[q] \in [Block(q) -> Nat],
         NEW p \in Pool, NEW b \in Block(p)
  PROVE  LET up == [g EXCEPT ![p][b] = @ + 1]
             down == [g EXCEPT ![p][b] = @ - 1]
         IN  /\ \A q \in Pool : up[q] \in [Block(q) -> Nat]
             /\ DOMAIN up = Pool
             /\ g[p][b] > 0 =>
                  \A q \in Pool : down[q] \in [Block(q) -> Nat]
             /\ DOMAIN down = Pool
<1>1. g[p] \in [Block(p) -> Nat] /\ g[p][b] \in Nat
  OBVIOUS
<1>2. g[p][b] + 1 \in Nat /\ (g[p][b] > 0 => g[p][b] - 1 \in Nat)
  BY <1>1
<1>3. /\ [g[p] EXCEPT ![b] = @ + 1] \in [Block(p) -> Nat]
      /\ g[p][b] > 0 => [g[p] EXCEPT ![b] = @ - 1] \in [Block(p) -> Nat]
  BY <1>1, <1>2
<1> QED
  BY <1>3

(* The static state of the allocator is well typed.                        *)
LEMMA TypeInit == Init => TypeOK
<1> SUFFICES ASSUME Init PROVE TypeOK
  OBVIOUS
<1>1. 0 \in 0 .. CountMod - 1 /\ 0 \in 0 .. MaxStrays
  BY PoolAssumption, StraysAssumption
<1>2. \A p \in Pool : granted[p] \in [Block(p) -> Nat]
  BY DEF Init
<1> QED
  BY <1>1, <1>2 DEF Init, TypeOK

(* Every call keeps the bitmaps inside their pools and the counters inside *)
(* their 16 bits.                                                          *)
LEMMA TypeStep == TypeOK /\ [Next]_vars => TypeOK'
<1> SUFFICES ASSUME TypeOK, [Next]_vars PROVE TypeOK'
  OBVIOUS
<1>1. CASE MemoryInit
  <2>1. free_count' \in [Pool -> 0 .. CountMod - 1]
    BY <1>1, PoolAssumption DEF MemoryInit
  <2>2. 0 \in 0 .. CountMod - 1
    BY PoolAssumption
  <2> QED
    BY <1>1, <2>1, <2>2 DEF MemoryInit, TypeOK
<1>2. ASSUME NEW n \in Request, Alloc(n) PROVE TypeOK'
  <2>1. PICK p \in Pool : Usable(p) /\ PoolAlloc(p)
    BY <1>2 DEF Alloc
  <2>2. PICK b \in free_list[p] :
          /\ free_list' = [free_list EXCEPT ![p] = @ \ {b}]
          /\ free_count' = [free_count EXCEPT ![p] = @ - 1]
          /\ allocation_count' =
               [allocation_count EXCEPT ![p] = (@ + 1) % CountMod]
          /\ granted' = [granted EXCEPT ![p][b] = @ + 1]
    BY <2>1 DEF PoolAlloc
  <2>3. UNCHANGED <<initialized, clobbered, strays>>
    BY <1>2 DEF Alloc
  <2>4. free_count' \in [Pool -> 0 .. CountMod - 1]
    BY <2>1, <2>2, Counter DEF TypeOK, Usable
  <2>5. allocation_count' \in [Pool -> 0 .. CountMod - 1]
    BY <2>2, Counter DEF TypeOK
  <2>6. /\ \A q \in Pool : granted'[q] \in [Block(q) -> Nat]
        /\ DOMAIN granted' = Pool
    <3>1. b \in Block(p)
      BY DEF TypeOK
    <3> QED
      BY <2>2, <3>1, Grants DEF TypeOK
  <2> QED
    BY <2>2, <2>3, <2>4, <2>5, <2>6 DEF TypeOK
<1>3. ASSUME NEW p \in Pool, NEW b \in Block(p), Free(p, b) PROVE TypeOK'
  <2>1. /\ free_count' \in [Pool -> 0 .. CountMod - 1]
        /\ allocation_count' \in [Pool -> 0 .. CountMod - 1]
    BY <1>3, Counter DEF Free, PoolFree, TypeOK
  <2>2. /\ \A q \in Pool : granted'[q] \in [Block(q) -> Nat]
        /\ DOMAIN granted' = Pool
    BY <1>3, Grants DEF Free, TypeOK
  <2> QED
    BY <1>3, <2>1, <2>2 DEF Free, PoolFree, TypeOK
<1>4. ASSUME NEW p \in Pool, NEW b \in Block(p), StrayFree(p, b)
      PROVE  TypeOK'
  <2>1. /\ free_count' \in [Pool -> 0 .. CountMod - 1]
        /\ allocation_count' \in [Pool -> 0 .. CountMod - 1]
    BY <1>4, Counter DEF StrayFree, PoolFree, TypeOK
  <2>2. strays' \in 0 .. MaxStrays
    BY <1>4, StraysAssumption DEF StrayFree, TypeOK
  <2> QED
    BY <1>4, <2>1, <2>2 DEF StrayFree, PoolFree, TypeOK
<1>5. ASSUME NEW p \in Pool, WriteBlockZero(p) PROVE TypeOK'
  BY <1>5 DEF WriteBlockZero, TypeOK, counters
<1>6. CASE UNCHANGED vars
  BY <1>6 DEF vars, counters, TypeOK
<1> QED
  BY <1>1, <1>2, <1>3, <1>4, <1>5, <1>6 DEF Next

(* memory_pool_alloc and memory_pool_free keep the bitmap inside the pool  *)
(* and the counters inside their 16 bits.                                  *)
THEOREM TypeCorrect == Spec => []TypeOK
BY TypeInit, TypeStep, PTL DEF Spec

-----------------------------------------------------------------------------
(* What a step preserves, pool by pool: in a pool that nobody abused a     *)
(* block is either marked free or held once, and the counter is the size   *)
(* of the bitmap.  Before memory_init nothing is held and nothing is free. *)
Sound(p) ==
  Clean(p) =>
    /\ \A b \in Block(p) : IF b \in free_list[p] THEN granted[p][b] = 0
                                                ELSE granted[p][b] = 1
    /\ free_count[p] = Cardinality(free_list[p])

Fresh ==
  ~initialized =>
    /\ \A p \in Pool : free_list[p] = {} /\ free_count[p] = 0
    /\ \A p \in Pool : \A b \in Block(p) : granted[p][b] = 0

PoolInv == /\ TypeOK
           /\ Fresh
           /\ initialized => \A p \in Pool : Sound(p)

(* Marking a block of the bitmap free, or taken, changes its size by one,  *)
(* and the 16-bit addition of memory_pool_free does not wrap.              *)
LEMMA BitmapSize ==
  ASSUME NEW p \in Pool, NEW s \in SUBSET Block(p), NEW b \in Block(p)
  PROVE  /\ Cardinality(s) \in Nat
         /\ b \in s => Cardinality(s \ {b}) = Cardinality(s) - 1
         /\ b \notin s => /\ Cardinality(s \cup {b}) = Cardinality(s) + 1
                         /\ Cardinality(s \cup {b}) =
                              (Cardinality(s) + 1) % CountMod
<1>1. IsFiniteSet(s) /\ Cardinality(s) \in Nat
  BY BlockFinite, FS_Subset, FS_CardinalityType
<1>2. b \in s => Cardinality(s \ {b}) = Cardinality(s) - 1
  BY <1>1, FS_RemoveElement
<1>3. ASSUME b \notin s
      PROVE  /\ Cardinality(s \cup {b}) = Cardinality(s) + 1
             /\ Cardinality(s \cup {b}) = (Cardinality(s) + 1) % CountMod
  <2>1. Cardinality(s \cup {b}) = Cardinality(s) + 1
    BY <1>1, <1>3, FS_AddElement
  <2>2. s \cup {b} \subseteq Block(p)
    OBVIOUS
  <2>3. Cardinality(s \cup {b}) <= Cardinality(Block(p))
    BY <2>2, BlockFinite, FS_Subset
  <2>4. Cardinality(s) + 1 \in 0 .. CountMod - 1 /\ CountMod \in Nat \ {0}
    BY <1>1, <2>1, <2>3, BlockFinite, PoolAssumption
  <2>5. (Cardinality(s) + 1) % CountMod = Cardinality(s) + 1
    BY <2>4
  <2> QED
    BY <2>1, <2>5
<1> QED
  BY <1>1, <1>2, <1>3

(* Every call keeps every pool sound.                                      *)
LEMMA PoolInvStep == PoolInv /\ [Next]_vars => PoolInv'
<1> SUFFICES ASSUME PoolInv, [Next]_vars, TypeOK' PROVE PoolInv'
  BY TypeStep DEF PoolInv
<1> USE DEF PoolInv
<1>1. CASE MemoryInit
  <2>1. ASSUME NEW p \in Pool PROVE Sound(p)'
    <3>1. free_list'[p] = Block(p) /\ free_count'[p] = BlockCount[p]
      BY <1>1 DEF MemoryInit
    <3>2. \A b \in Block(p) : granted'[p][b] = 0
      BY <1>1 DEF MemoryInit, Fresh
    <3> QED
      BY <3>1, <3>2, BlockFinite DEF Sound
  <2> QED
    BY <1>1, <2>1 DEF MemoryInit, Fresh
<1>2. ASSUME NEW n \in Request, Alloc(n) PROVE PoolInv'
  <2>1. PICK p \in Pool : PoolAlloc(p)
    BY <1>2 DEF Alloc
  <2>2. PICK b \in free_list[p] :
          /\ free_list' = [free_list EXCEPT ![p] = @ \ {b}]
          /\ free_count' = [free_count EXCEPT ![p] = @ - 1]
          /\ granted' = [granted EXCEPT ![p][b] = @ + 1]
    BY <2>1 DEF PoolAlloc
  <2>3. /\ initialized /\ initialized' = initialized
        /\ clobbered' = clobbered /\ strays' = strays
    BY <1>2 DEF Alloc
  <2>4. b \in Block(p) /\ free_list[p] \in SUBSET Block(p)
    BY DEF TypeOK
  <2>5. ASSUME NEW q \in Pool, q # p PROVE Sound(q)'
    BY <2>2, <2>3, <2>5 DEF Sound, Clean, TypeOK
  <2>6. ASSUME Clean(p)' PROVE Sound(p)'
    <3>1. Clean(p)
      BY <2>3, <2>6 DEF Clean
    <3>2. /\ free_list'[p] = free_list[p] \ {b}
          /\ free_count'[p] = free_count[p] - 1
          /\ \A c \in Block(p) :
               granted'[p][c] = IF c = b THEN granted[p][c] + 1
                                         ELSE granted[p][c]
      BY <2>2, <2>4 DEF TypeOK
    <3>3. Cardinality(free_list'[p]) = Cardinality(free_list[p]) - 1
      BY <2>4, <3>2, BitmapSize
    <3> QED
      BY <2>3, <3>1, <3>2, <3>3 DEF Sound
  <2> QED
    BY <2>3, <2>5, <2>6 DEF Fresh, Sound
<1>3. ASSUME NEW p \in Pool, NEW b \in Block(p), Free(p, b) PROVE PoolInv'
  <2>1. /\ free_list' = [free_list EXCEPT ![p] = @ \cup {b}]
        /\ free_count' = [free_count EXCEPT ![p] = (@ + 1) % CountMod]
        /\ granted' = [granted EXCEPT ![p][b] = @ - 1]
        /\ granted[p][b] > 0
        /\ initialized /\ initialized' = initialized
        /\ clobbered' = clobbered /\ strays' = strays
    BY <1>3 DEF Free, PoolFree
  <2>2. ASSUME NEW q \in Pool, q # p PROVE Sound(q)'
    BY <2>1, <2>2 DEF Sound, Clean, TypeOK
  <2>3. ASSUME Clean(p)' PROVE Sound(p)'
    <3>1. Clean(p)
      BY <2>1, <2>3 DEF Clean
    <3>2. b \notin free_list[p] /\ granted[p][b] = 1
      BY <2>1, <3>1 DEF Sound
    <3>3. /\ free_list'[p] = free_list[p] \cup {b}
          /\ free_count'[p] = (free_count[p] + 1) % CountMod
          /\ \A c \in Block(p) :
               granted'[p][c] = IF c = b THEN granted[p][c] - 1
                                         ELSE granted[p][c]
      BY <2>1 DEF TypeOK
    <3>4. free_list[p] \in SUBSET Block(p)
      BY DEF TypeOK
    <3>5. Cardinality(free_list'[p]) =
            (Cardinality(free_list[p]) + 1) % CountMod
      BY <3>2, <3>3, <3>4, BitmapSize
    <3> QED
      BY <2>1, <3>1, <3>2, <3>3, <3>5 DEF Sound
  <2>4. Sound(p)'
    BY <2>3 DEF Sound
  <2> QED
    BY <2>1, <2>2, <2>4 DEF Fresh
<1>4. ASSUME NEW p \in Pool, NEW b \in Block(p), StrayFree(p, b)
      PROVE  PoolInv'
  <2>1. strays' # 0 /\ initialized'
    BY <1>4, StraysAssumption DEF StrayFree, TypeOK
  <2>2. ASSUME NEW q \in Pool PROVE Sound(q)'
    BY <2>1 DEF Sound, Clean
  <2> QED
    BY <2>1, <2>2 DEF Fresh
<1>5. ASSUME NEW p \in Pool, WriteBlockZero(p) PROVE PoolInv'
  <2>1. initialized
    BY <1>5, BlockFinite DEF WriteBlockZero, Fresh
  <2>2. ASSUME NEW q \in Pool PROVE Sound(q)'
    <3>1. CASE q = p
      BY <1>5, <3>1 DEF WriteBlockZero, Sound, Clean
    <3>2. CASE q # p
      BY <1>5, <2>1, <3>2 DEF WriteBlockZero, Sound, Clean, counters, TypeOK
    <3> QED
      BY <3>1, <3>2
  <2> QED
    BY <1>5, <2>1, <2>2 DEF WriteBlockZero, Fresh
<1>6. CASE UNCHANGED vars
  BY <1>6 DEF vars, counters, Fresh, Sound, Clean
<1> QED
  BY <1>1, <1>2, <1>3, <1>4, <1>5, <1>6 DEF Next

(* The inductive invariant holds in every reachable state.                 *)
LEMMA PoolsSound == Spec => []PoolInv
<1>1. Init => PoolInv
  BY TypeInit DEF Init, PoolInv, Fresh
<1> QED
  BY <1>1, PoolInvStep, PTL DEF Spec

(* A block has at most one holder, and none while it is marked free.       *)
THEOREM NoSharedBlock == Spec => []Exclusive
<1>1. PoolInv => Exclusive
  BY DEF PoolInv, Fresh, Sound, Exclusive
<1> QED
  BY <1>1, PoolsSound, PTL

(* A block that nobody holds can be granted.                               *)
THEOREM NoLostBlock == Spec => []NoLeak
<1>1. PoolInv => NoLeak
  BY DEF PoolInv, Sound, NoLeak
<1> QED
  BY <1>1, PoolsSound, PTL

(* The free counter is the number of blocks marked free: the return of     *)
(* memory.c:112 is out of reach in a pool that nobody abused.              *)
THEOREM CounterIsBitmap == Spec => []CountMatchesBitmap
<1>1. PoolInv => CountMatchesBitmap
  <2> SUFFICES ASSUME PoolInv, NEW p \in Pool, Clean(p)
               PROVE  free_count[p] = Cardinality(free_list[p])
    BY DEF CountMatchesBitmap
  <2>1. CASE initialized
    BY <2>1 DEF PoolInv, Sound
  <2>2. CASE ~initialized
    BY <2>2, FS_EmptySet DEF PoolInv, Fresh
  <2> QED
    BY <2>1, <2>2
<1> QED
  BY <1>1, PoolsSound, PTL

-----------------------------------------------------------------------------
(* In a pool of one block the counter and the holders share one unit,      *)
(* whatever the holder writes over the bitmap.                             *)
Guarded(p) ==
  strays = 0 /\ initialized /\ BlockCount[p] = 1 =>
    free_count[p] + granted[p][0] = 1

GuardInv == PoolInv /\ \A p \in Pool : Guarded(p)

(* The only block of such a pool is block 0, and its counter can hold one. *)
LEMMA OnlyBlock ==
  ASSUME NEW p \in Pool, BlockCount[p] = 1
  PROVE  Block(p) = {0} /\ 0 \in Block(p) /\ CountMod \in Nat /\ CountMod > 1
<1>1. BlockCount[p] \in 1 .. CountMod - 1 /\ CountMod \in Nat
  BY PoolAssumption
<1> QED
  BY <1>1 DEF Block

(* Granting the block needs a counter of one, giving it back restores it.  *)
LEMMA GuardStep == GuardInv /\ [Next]_vars => GuardInv'
<1> SUFFICES ASSUME GuardInv, [Next]_vars, PoolInv', NEW q \in Pool,
                    strays' = 0, initialized', BlockCount[q] = 1
             PROVE  free_count'[q] + granted'[q][0] = 1
  BY PoolInvStep DEF GuardInv, Guarded
<1>1. TypeOK /\ Fresh /\ Guarded(q)
  BY DEF GuardInv, PoolInv
<1>2. /\ free_count[q] \in Nat /\ granted[q][0] \in Nat
      /\ free_count \in [Pool -> 0 .. CountMod - 1]
      /\ DOMAIN granted = Pool /\ DOMAIN granted[q] = Block(q)
  BY <1>1, OnlyBlock DEF TypeOK
<1>3. CASE MemoryInit
  BY <1>1, <1>3, OnlyBlock DEF MemoryInit, Fresh
<1>4. ASSUME NEW n \in Request, Alloc(n)
      PROVE  free_count'[q] + granted'[q][0] = 1
  <2>1. PICK p \in Pool : Usable(p) /\ PoolAlloc(p)
    BY <1>4 DEF Alloc
  <2>2. PICK b \in free_list[p] :
          /\ free_count' = [free_count EXCEPT ![p] = @ - 1]
          /\ granted' = [granted EXCEPT ![p][b] = @ + 1]
    BY <2>1 DEF PoolAlloc
  <2>3. free_count[q] + granted[q][0] = 1
    BY <1>1, <1>4 DEF Alloc, Guarded
  <2>4. CASE p = q
    <3>1. b = 0
      BY <1>1, <2>4, OnlyBlock DEF TypeOK
    <3>2. free_count'[q] = free_count[q] - 1
      BY <1>2, <2>2, <2>4
    <3>3. granted'[q][0] = granted[q][0] + 1
      BY <1>2, <2>2, <2>4, <3>1, OnlyBlock
    <3> QED
      BY <1>2, <2>3, <3>2, <3>3
  <2>5. CASE p # q
    BY <1>2, <2>2, <2>3, <2>5
  <2> QED
    BY <2>4, <2>5
<1>5. ASSUME NEW p \in Pool, NEW b \in Block(p), Free(p, b)
      PROVE  free_count'[q] + granted'[q][0] = 1
  <2>1. /\ free_count' = [free_count EXCEPT ![p] = (@ + 1) % CountMod]
        /\ granted' = [granted EXCEPT ![p][b] = @ - 1]
        /\ granted[p][b] > 0
    BY <1>5 DEF Free, PoolFree
  <2>2. free_count[q] + granted[q][0] = 1
    BY <1>1, <1>5 DEF Free, Guarded
  <2>3. CASE p = q
    <3>1. b = 0
      BY <2>3, OnlyBlock
    <3>2. free_count[q] = 0 /\ granted[q][0] = 1
      BY <1>2, <2>1, <2>2, <2>3, <3>1
    <3>3. free_count'[q] = 1 % CountMod
      BY <1>2, <2>1, <2>3, <3>2
    <3>4. 1 % CountMod = 1
      BY OnlyBlock
    <3>5. granted'[q][0] = 0
      BY <1>2, <2>1, <2>3, <3>1, <3>2, OnlyBlock
    <3> QED
      BY <3>3, <3>4, <3>5
  <2>4. CASE p # q
    BY <1>2, <2>1, <2>2, <2>4
  <2> QED
    BY <2>3, <2>4
<1>6. ASSUME NEW p \in Pool, NEW b \in Block(p), StrayFree(p, b)
      PROVE  FALSE
  BY <1>1, <1>6, StraysAssumption DEF StrayFree, TypeOK
<1>7. ASSUME NEW p \in Pool, WriteBlockZero(p)
      PROVE  free_count'[q] + granted'[q][0] = 1
  BY <1>1, <1>7 DEF WriteBlockZero, counters, Guarded
<1>8. CASE UNCHANGED vars
  BY <1>1, <1>8 DEF vars, Guarded
<1> QED
  BY <1>3, <1>4, <1>5, <1>6, <1>7, <1>8 DEF Next

(* A pool of one block never has two holders, even when its holder writes  *)
(* over the bitmap at the base of the pool: the counter, which lies        *)
(* outside, lets the block go only once.                                   *)
THEOREM SingleBlockHeldOnce == Spec => []SingleBlockExclusive
<1>1. Init => GuardInv
  BY TypeInit DEF Init, GuardInv, PoolInv, Fresh, Guarded
<1>2. GuardInv => SingleBlockExclusive
  <2> SUFFICES ASSUME GuardInv, NEW p \in Pool, strays = 0, BlockCount[p] = 1
               PROVE  granted[p][0] <= 1
    BY DEF SingleBlockExclusive
  <2>1. TypeOK /\ Fresh /\ Guarded(p)
    BY DEF GuardInv, PoolInv
  <2>2. granted[p][0] \in Nat /\ free_count[p] \in Nat
    BY <2>1, OnlyBlock DEF TypeOK
  <2>3. CASE initialized
    BY <2>1, <2>2, <2>3 DEF Guarded
  <2>4. CASE ~initialized
    BY <2>1, <2>4, OnlyBlock DEF Fresh
  <2> QED
    BY <2>3, <2>4
<1> QED
  BY <1>1, <1>2, GuardStep, PTL DEF Spec
=============================================================================
