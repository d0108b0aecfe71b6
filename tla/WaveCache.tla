------------------------------ MODULE WaveCache ------------------------------
(***************************************************************************)
(* The wave-block cache as a state machine: any sequence of its calls, on  *)
(* any blocks, with any outcome the code allows.  It implements LruCache.  *)
(***************************************************************************)
EXTENDS WaveCacheOps

CONSTANTS
  NoView,  \* not a view
  MaxTick  \* bound on the LRU clock (a uint64_t in the code) for model checking

ASSUME NoViewAssumption == NoView \notin View
ASSUME MaxTickAssumption == MaxTick \in Nat

VARIABLES
  cache,  \* the rv_wave_cache of a session
  reply   \* the last return code, and the view of the entry a hit returned

vars == <<cache, reply>>

Reply == {"none", "ok", "fail"} \cup View

(* The tick bound lies in every action that moves the LRU clock. *)
ClockRunning == cache.tick < MaxTick

Code(ok) == IF ok THEN "ok" ELSE "fail"

Init ==
  /\ cache = EmptyCache
  /\ reply = "none"

rv_cache_put_from_block(b, v) ==
  /\ ClockRunning
  /\ cache' = PutFromBlock(cache, b, v)
  /\ reply' = Code(PutSucceeds(cache, b))

rv_cache_get(b) ==
  /\ ClockRunning
  /\ cache' = Get(cache, b)
  /\ reply' = IF Hit(cache, b) THEN cache.slot[Find(cache, b)].view ELSE "fail"

rv_cache_pin(b) ==
  /\ cache' = Pin(cache, b)
  /\ reply' = Code(Resident(cache, b))

rv_cache_unpin(b) ==
  /\ cache' = Unpin(cache, b)
  /\ reply' = Code(Resident(cache, b))

rv_cache_evict_lru ==
  /\ cache' = EvictLru(cache)
  /\ reply' = Code(Evictable(cache) # {})

rv_cache_invalidate ==
  /\ cache' = Invalidate(cache)
  /\ reply' = "ok"

Next ==
  \/ \E b \in BlockId, v \in View : rv_cache_put_from_block(b, v)
  \/ \E b \in BlockId : rv_cache_get(b) \/ rv_cache_pin(b) \/ rv_cache_unpin(b)
  \/ rv_cache_evict_lru
  \/ rv_cache_invalidate

Spec == Init /\ [][Next]_vars

-----------------------------------------------------------------------------
(* The cache keeps the shape of its struct and every call returns a return *)
(* code or a view.  The generation is never 0, the value of a cleared      *)
(* entry's generation field, even after the uint32_t wraps.                *)
TypeOK == cache \in Cache /\ reply \in Reply

(* The bookkeeping of the entry array is consistent after every call: the  *)
(* count field is the number of entries in use and of blocks resident, no  *)
(* block is cached twice, no two entries share an LRU tick, no tick is     *)
(* ahead of the clock, and every entry belongs to the current generation - *)
(* so the stale-generation branch of rv_cache_get is never taken.          *)
CacheInvariant == CacheSound(cache)

(* An entry that is pinned leaves its place only when the whole cache is   *)
(* invalidated: neither a put into a full cache nor a forced eviction nor  *)
(* a refresh moves it or replaces it.                                      *)
StillHeld(i) == cache'.slot[i] # Free /\ cache'.slot[i].block = cache.slot[i].block
Invalidated == InUse(cache') = {} /\ cache'.gen = NextGen(cache.gen)
PinnedStays == [][\A i \in Pinned(cache) : StillHeld(i) \/ Invalidated]_vars

(* The abstract state: what is cached, what is held and the use order.     *)
Shows(c) ==
  [b \in BlockId |-> IF Resident(c, b) THEN c.slot[Find(c, b)].view ELSE NoView]
Older(c) ==
  {p \in BlockId \X BlockId :
     /\ Resident(c, p[1]) /\ Resident(c, p[2])
     /\ c.slot[Find(c, p[1])].tick < c.slot[Find(c, p[2])].tick}

Lru == INSTANCE LruCache WITH
         Size <- Capacity, shows <- Shows(cache), held <- Held(cache), older <- Older(cache)

(* The array scans with ticks and counters implement the ideal bounded LRU *)
(* map: same hits, same views, same victims, same refusals.                *)
ImplementsLru == Lru!LruSpec
=============================================================================
