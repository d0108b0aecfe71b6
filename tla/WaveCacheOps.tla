---------------------------- MODULE WaveCacheOps ----------------------------
(***************************************************************************)
(* The wave-block cache of src/internal/rv_cache.c as operators on a cache *)
(* value.  Every caller of the cache (the session's wave_get and           *)
(* warm_cache, streams, cursors) is single threaded and strings several    *)
(* cache calls together in one API call, so the operations are functions   *)
(* from a cache value to a cache value that actions can compose.           *)
(*                                                                         *)
(* A cache value is the struct rv_wave_cache: the entry array, the number  *)
(* of entries in use, the LRU clock and the generation.  The hits, misses  *)
(* and evictions counters are written and never read by the library; they  *)
(* are left out.                                                           *)
(*                                                                         *)
(* A definition marked "mutant" is a plausible bug in the definition after *)
(* it; no specification uses it.                                           *)
(***************************************************************************)
EXTENDS Naturals, FiniteSets

CONSTANTS
  BlockId,            \* ids of wave blocks
  View,               \* what an entry borrows from a block: samples, count, start, step, window
  Free,               \* an entry whose in_use flag is 0
  RequestedCapacity,  \* the capacity argument of rv_cache_init
  MaxGen              \* UINT32_MAX in the code: the generation is a uint32_t

Capacity == IF RequestedCapacity < 2 THEN 2 ELSE RequestedCapacity

Slot == 1 .. Capacity

Generation == 1 .. MaxGen

Entry == [block : BlockId, view : View, gen : Generation, tick : Nat, pinned : BOOLEAN]

Cache == [slot : [Slot -> Entry \cup {Free}], count : Nat, tick : Nat, gen : Generation]

ASSUME CapacityAssumption == RequestedCapacity \in Nat
ASSUME FreeAssumption == Free \notin Entry
ASSUME MaxGenAssumption == MaxGen \in Nat \ {0}

(* rv_cache_init: an empty array, generation 1. *)
EmptyCache ==
  [slot |-> [i \in Slot |-> Free], count |-> 0, tick |-> 0, gen |-> 1]

InUse(c) == {i \in Slot : c.slot[i] # Free}
FreeSlots(c) == Slot \ InUse(c)
Holding(c, b) == {i \in InUse(c) : c.slot[i].block = b}
Resident(c, b) == Holding(c, b) # {}
Blocks(c) == {c.slot[i].block : i \in InUse(c)}
Pinned(c) == {i \in InUse(c) : c.slot[i].pinned}
Held(c) == {c.slot[i].block : i \in Pinned(c)}

\* mutant: eviction forgets to test the pinned flag
EvictableIgnoringPins(c) == InUse(c)
Evictable(c) == InUse(c) \ Pinned(c)

First(S) == CHOOSE i \in S : \A j \in S : i <= j

(* rv_cache_find: a scan of the array that stops at the first match. *)
Find(c, b) == First(Holding(c, b))

(* The scan of rv_cache_evict_lru keeps the first entry with the smallest  *)
(* tick among those in use and not pinned.                                 *)
Victim(c) ==
  CHOOSE i \in Evictable(c) :
    \A j \in Evictable(c) :
      \/ c.slot[i].tick < c.slot[j].tick
      \/ c.slot[i].tick = c.slot[j].tick /\ i <= j

\* mutant: the cleared entry is still counted
EvictKeepingCount(c) ==
  IF Evictable(c) = {} THEN c ELSE [c EXCEPT !.slot[Victim(c)] = Free]

(* rv_cache_evict_lru; it returns -1 and changes nothing when every entry  *)
(* in use is pinned.                                                       *)
EvictLru(c) ==
  IF Evictable(c) = {}
  THEN c
  ELSE [c EXCEPT !.slot[Victim(c)] = Free,
                 !.count = IF @ > 0 THEN @ - 1 ELSE @]

(* rv_cache_put_from_block of block b showing v: refresh the entry that    *)
(* holds b (its pin stays), or take the first free entry after evicting    *)
(* one when the cache is full.                                             *)
Refresh(c, b, v) ==
  [c EXCEPT !.slot[Find(c, b)] = [@ EXCEPT !.view = v, !.gen = c.gen, !.tick = c.tick + 1],
            !.tick = @ + 1]

Fill(c, b, v) ==
  [c EXCEPT !.slot[First(FreeSlots(c))] =
              [block |-> b, view |-> v, gen |-> c.gen, tick |-> c.tick + 1, pinned |-> FALSE],
            !.count = @ + 1,
            !.tick = @ + 1]

Full(c) == c.count >= Capacity

PutSucceeds(c, b) ==
  \/ Resident(c, b)
  \/ Full(c) /\ Evictable(c) # {}
  \/ ~Full(c) /\ FreeSlots(c) # {}

PutFromBlock(c, b, v) ==
  IF ~PutSucceeds(c, b) THEN c
  ELSE IF Resident(c, b) THEN Refresh(c, b, v)
  ELSE Fill(IF Full(c) THEN EvictLru(c) ELSE c, b, v)

(* rv_cache_get: a hit moves the entry to the recent end of the LRU order. *)
(* An entry of another generation counts as a miss.                        *)
Hit(c, b) == Resident(c, b) /\ c.slot[Find(c, b)].gen = c.gen

\* mutant: a hit does not refresh last_tick, so eviction is first-in first-out
GetWithoutTouch(c, b) == IF Hit(c, b) THEN [c EXCEPT !.tick = @ + 1] ELSE c

Get(c, b) ==
  IF Hit(c, b)
  THEN [c EXCEPT !.slot[Find(c, b)].tick = c.tick + 1, !.tick = @ + 1]
  ELSE c

(* rv_cache_pin and rv_cache_unpin set and clear one flag; they do not     *)
(* count.                                                                  *)
SetPin(c, b, flag) ==
  IF Resident(c, b) THEN [c EXCEPT !.slot[Find(c, b)].pinned = flag] ELSE c

Pin(c, b) == SetPin(c, b, TRUE)
Unpin(c, b) == SetPin(c, b, FALSE)

\* mutant: generation++ without the test for 0
NextGenThroughZero(g) == IF g = MaxGen THEN 0 ELSE g + 1

(* generation++ on a uint32_t, with 0 skipped. *)
NextGen(g) == IF g = MaxGen THEN 1 ELSE g + 1

(* rv_cache_invalidate: every entry is cleared, pinned or not; the LRU     *)
(* clock keeps running.                                                    *)
Invalidate(c) ==
  [c EXCEPT !.slot = [i \in Slot |-> Free], !.count = 0, !.gen = NextGen(@)]

-----------------------------------------------------------------------------
(***************************************************************************)
(* What every reachable cache value satisfies.                             *)
(***************************************************************************)

CountIsExact(c) ==
  /\ c.count = Cardinality(InUse(c))
  /\ c.count = Cardinality(Blocks(c))

NoDuplicateBlock(c) ==
  \A i, j \in InUse(c) : c.slot[i].block = c.slot[j].block => i = j

TicksDistinct(c) ==
  \A i, j \in InUse(c) : c.slot[i].tick = c.slot[j].tick => i = j

TicksBehindClock(c) == \A i \in InUse(c) : c.slot[i].tick <= c.tick

GenerationUniform(c) == \A i \in InUse(c) : c.slot[i].gen = c.gen

CacheSound(c) ==
  /\ CountIsExact(c)
  /\ NoDuplicateBlock(c)
  /\ TicksDistinct(c)
  /\ TicksBehindClock(c)
  /\ GenerationUniform(c)
=============================================================================
