---------------------------- MODULE MemoryPools ----------------------------
(***************************************************************************)
(* The kernel allocator of kernel/core/memory.c: pools of equal blocks, a  *)
(* bitmap of free blocks per pool and two 16-bit counters.  memory_alloc   *)
(* tries the pools in order of block size and falls through to a larger    *)
(* one when the fitting pool has nothing left.                             *)
(*                                                                         *)
(* memory_pool_init puts the bitmap at the base address of the pool        *)
(* (memory.c:75), which is also the address of block 0.  Whoever is        *)
(* granted block 0 therefore shares its first bytes with the allocator:    *)
(* WriteBlockZero is a holder of that block writing its own data there.    *)
(*                                                                         *)
(* granted, clobbered and strays are history variables: the grants not yet *)
(* freed, the pools whose block 0 was written by its holder, and the       *)
(* number of frees of a block that nobody held.                            *)
(***************************************************************************)
EXTENDS Integers, FiniteSets

CONSTANTS
  PoolCount,    \* MEMORY_POOL_COUNT
  BlockSize,    \* block size of every pool
  BlockCount,   \* number of blocks of every pool
  Request,      \* the sizes that callers ask for
  CountMod,     \* number of values of the uint16_t counters, 2^16
  MaxStrays     \* bound on the frees of a block that nobody holds

Pool == 1 .. PoolCount
Block(p) == 0 .. BlockCount[p] - 1

ASSUME PoolAssumption ==
  /\ PoolCount \in Nat \ {0}
  /\ CountMod \in Nat \ {0}
  /\ BlockSize \in [Pool -> Nat \ {0}]
  /\ BlockCount \in [Pool -> 1 .. CountMod - 1]
  /\ \A p, q \in Pool : p < q => BlockSize[p] < BlockSize[q]
ASSUME RequestAssumption == Request \subseteq Nat \ {0}
ASSUME StraysAssumption == MaxStrays \in Nat

VARIABLES
  initialized,        \* memory_init has run
  free_list,          \* per pool, the set bits of the bitmap
  free_count,         \* per pool, the uint16_t number of free blocks
  allocation_count,   \* per pool, the uint16_t number of allocated blocks
  granted,            \* per pool and block, the grants not yet freed
  clobbered,          \* the pools whose bitmap a holder of block 0 wrote
  strays              \* number of frees of blocks that nobody held

counters == <<free_count, allocation_count>>
vars == <<initialized, free_list, free_count, allocation_count, granted,
          clobbered, strays>>

\* One type invariant; bits of blocks that do not exist are never examined.
TypeOK ==
  /\ initialized \in BOOLEAN
  /\ \A p \in Pool : free_list[p] \subseteq Block(p)
  /\ free_count \in [Pool -> 0 .. CountMod - 1]
  /\ allocation_count \in [Pool -> 0 .. CountMod - 1]
  /\ \A p \in Pool : granted[p] \in [Block(p) -> Nat]
  /\ DOMAIN free_list = Pool /\ DOMAIN granted = Pool
  /\ clobbered \subseteq Pool
  /\ strays \in 0 .. MaxStrays
-----------------------------------------------------------------------------
\* Before memory_init every pool is zero: no block size fits any request.
Init ==
  /\ initialized = FALSE
  /\ free_list = [p \in Pool |-> {}]
  /\ free_count = [p \in Pool |-> 0]
  /\ allocation_count = [p \in Pool |-> 0]
  /\ granted = [p \in Pool |-> [b \in Block(p) |-> 0]]
  /\ clobbered = {}
  /\ strays = 0

\* memory_init: one memory_pool_init per pool.
MemoryInit ==
  /\ ~initialized
  /\ initialized' = TRUE
  /\ free_list' = [p \in Pool |-> Block(p)]
  /\ free_count' = BlockCount
  /\ allocation_count' = [p \in Pool |-> 0]
  /\ UNCHANGED <<granted, clobbered, strays>>

\* A faulty allocator that does not look at the counter.
UsableUncounted(p) == free_list[p] # {}

\* memory_pool_alloc finds a block: the counter first, then the bitmap.
Usable(p) == free_count[p] # 0 /\ free_list[p] # {}

Fits(n, p) == n <= BlockSize[p]

\* A faulty allocation that does not clear the bit of the block.
PoolAllocKeepsBit(p) ==
  \E b \in free_list[p] :
    /\ \A c \in free_list[p] : b <= c
    /\ free_count' = [free_count EXCEPT ![p] = @ - 1]
    /\ allocation_count' = [allocation_count EXCEPT ![p] = (@ + 1) % CountMod]
    /\ granted' = [granted EXCEPT ![p][b] = @ + 1]
    /\ UNCHANGED free_list

\* memory_pool_alloc on pool p: the first free block.
PoolAlloc(p) ==
  \E b \in free_list[p] :
    /\ \A c \in free_list[p] : b <= c
    /\ free_list' = [free_list EXCEPT ![p] = @ \ {b}]
    /\ free_count' = [free_count EXCEPT ![p] = @ - 1]
    /\ allocation_count' = [allocation_count EXCEPT ![p] = (@ + 1) % CountMod]
    /\ granted' = [granted EXCEPT ![p][b] = @ + 1]

\* memory_alloc: the first pool that fits and has a block to give.  A request
\* that no pool can serve returns NULL and changes nothing.
Alloc(n) ==
  /\ initialized
  /\ \E p \in Pool :
       /\ Fits(n, p) /\ Usable(p)
       /\ \A q \in Pool : Fits(n, q) /\ Usable(q) => p <= q
       /\ PoolAlloc(p)
  /\ UNCHANGED <<initialized, clobbered, strays>>

\* Faulty frees that leave out one of the updates.
PoolFreeKeepsBit(p, b) ==
  /\ free_count' = [free_count EXCEPT ![p] = (@ + 1) % CountMod]
  /\ allocation_count' = [allocation_count EXCEPT ![p] = (@ - 1) % CountMod]
  /\ UNCHANGED free_list

PoolFreeUncounted(p, b) ==
  /\ free_list' = [free_list EXCEPT ![p] = @ \cup {b}]
  /\ allocation_count' = [allocation_count EXCEPT ![p] = (@ - 1) % CountMod]
  /\ UNCHANGED free_count

\* memory_pool_free, without any check that the block was allocated.
PoolFree(p, b) ==
  /\ free_list' = [free_list EXCEPT ![p] = @ \cup {b}]
  /\ free_count' = [free_count EXCEPT ![p] = (@ + 1) % CountMod]
  /\ allocation_count' = [allocation_count EXCEPT ![p] = (@ - 1) % CountMod]

\* memory_free by a holder of the block.
Free(p, b) ==
  /\ initialized
  /\ granted[p][b] > 0
  /\ PoolFree(p, b)
  /\ granted' = [granted EXCEPT ![p][b] = @ - 1]
  /\ UNCHANGED <<initialized, clobbered, strays>>

\* memory_free of a block that nobody holds: freed twice, or never granted.
StrayFree(p, b) ==
  /\ initialized
  /\ granted[p][b] = 0
  /\ strays < MaxStrays
  /\ strays' = strays + 1
  /\ PoolFree(p, b)
  /\ UNCHANGED <<initialized, granted, clobbered>>

\* A holder of block 0 stores data in it: the bitmap becomes those bytes.
WriteBlockZero(p) ==
  /\ granted[p][0] > 0
  /\ \E bits \in SUBSET Block(p) : free_list' = [free_list EXCEPT ![p] = bits]
  /\ clobbered' = clobbered \cup {p}
  /\ UNCHANGED <<initialized, counters, granted, strays>>

Next ==
  \/ MemoryInit
  \/ \E n \in Request : Alloc(n)
  \/ \E p \in Pool : \E b \in Block(p) : Free(p, b) \/ StrayFree(p, b)
  \/ \E p \in Pool : WriteBlockZero(p)

Spec == Init /\ [][Next]_vars
-----------------------------------------------------------------------------
Clean(p) == strays = 0 /\ p \notin clobbered

(* A block has one holder at a time, and a block that is marked free has   *)
(* none, in every pool whose bitmap no holder wrote over: the reason why   *)
(* memory_pool_alloc and memory_pool_free may be interleaved at will.      *)
Exclusive ==
  \A p \in Pool : Clean(p) =>
    \A b \in Block(p) :
      /\ granted[p][b] <= 1
      /\ b \in free_list[p] => granted[p][b] = 0

(* No block is lost: in such a pool a block that nobody holds is free, so  *)
(* that what was freed can be granted again.                               *)
NoLeak ==
  initialized =>
    \A p \in Pool : Clean(p) =>
      \A b \in Block(p) : granted[p][b] = 0 => b \in free_list[p]

(* memory.c:112 reached in no such pool: the counter and the bitmap agree, *)
(* so that memory_alloc fails, or falls through to a larger block, only    *)
(* when the fitting pool is really exhausted.                              *)
CountMatchesBitmap ==
  \A p \in Pool : Clean(p) => free_count[p] = Cardinality(free_list[p])

(* A pool of one block (the 2048 and 4096 byte pools, memory.c:182-187)    *)
(* never has two holders, even if its holder overwrites the bitmap: the    *)
(* counter guards it.                                                      *)
SingleBlockExclusive ==
  strays = 0 =>
    \A p \in Pool : BlockCount[p] = 1 => granted[p][0] <= 1
=============================================================================
