--------------------------- MODULE WaveCacheProofs ---------------------------
(***************************************************************************)
(* Theorems about the wave-block cache as a state machine: it is always    *)
(* sound, it respects pins, and it implements the ideal bounded LRU map of *)
(* LruCache, for every capacity, every set of blocks and views and every   *)
(* bound on the clock and the generation.                                  *)
(***************************************************************************)
EXTENDS WaveCache, WaveCacheOpsProofs

USE CapacityAssumption, FreeAssumption, MaxGenAssumption, NoViewAssumption, MaxTickAssumption

-----------------------------------------------------------------------------
(***************************************************************************)
(* The theorems about the state machine.                                   *)
(***************************************************************************)

(* Every step takes a good cache to a good cache.                          *)
LEMMA StepKeepsGood ==
  ASSUME Good(cache), [Next]_vars
  PROVE  Good(cache')
<1>1. ASSUME NEW b \in BlockId, NEW v \in View, rv_cache_put_from_block(b, v) PROVE Good(cache')
  BY <1>1, PutKeepsGood DEF rv_cache_put_from_block
<1>2. ASSUME NEW b \in BlockId, rv_cache_get(b) PROVE Good(cache')
  BY <1>2, GetKeepsGood DEF rv_cache_get
<1>3. ASSUME NEW b \in BlockId, rv_cache_pin(b) PROVE Good(cache')
  BY <1>3, SetPinKeepsGood DEF rv_cache_pin, Pin
<1>4. ASSUME NEW b \in BlockId, rv_cache_unpin(b) PROVE Good(cache')
  BY <1>4, SetPinKeepsGood DEF rv_cache_unpin, Unpin
<1>5. ASSUME rv_cache_evict_lru PROVE Good(cache')
  BY <1>5, EvictKeepsGood DEF rv_cache_evict_lru
<1>6. ASSUME rv_cache_invalidate PROVE Good(cache')
  BY <1>6, InvalidateKeepsGood DEF rv_cache_invalidate
<1>7. CASE UNCHANGED vars
  BY <1>7 DEF vars
<1> QED BY <1>1, <1>2, <1>3, <1>4, <1>5, <1>6, <1>7 DEF Next

(* The invariant behind the theorems on the cache.                         *)
LEMMA AlwaysGood == Spec => []Good(cache)
<1>1. Init => Good(cache)
  BY EmptyCacheGood DEF Init
<1>2. Good(cache) /\ [Next]_vars => Good(cache)'
  BY StepKeepsGood
<1> QED BY <1>1, <1>2, PTL DEF Spec

(* The bookkeeping of the entry array is consistent after any sequence of  *)
(* calls: exact count, no block twice, distinct ticks behind the clock, one *)
(* generation.                                                             *)
THEOREM CacheAlwaysSound == Spec => []CacheInvariant
<1>1. Good(cache) => CacheInvariant
  BY DEF Good, CacheInvariant
<1> QED BY <1>1, AlwaysGood, PTL

(* The state keeps its type, in particular the generation never becomes 0. *)
THEOREM TypeCorrect == Spec => []TypeOK
<1>1. Init => reply \in Reply
  BY DEF Init, Reply
<1>2. Good(cache) /\ reply \in Reply /\ [Next]_vars => (reply \in Reply)'
  <2> SUFFICES ASSUME Good(cache), reply \in Reply, [Next]_vars PROVE reply' \in Reply
    OBVIOUS
  <2>1. ASSUME NEW b \in BlockId, rv_cache_get(b) PROVE reply' \in Reply
    <3>1. CASE Hit(cache, b)
      <4>1. Find(cache, b) \in InUse(cache) /\ cache \in Cache
        BY <3>1, FindIsUnique DEF Good, Hit
      <4> QED BY <2>1, <3>1, <4>1, EntryInUse DEF rv_cache_get, Reply
    <3>2. CASE ~Hit(cache, b)
      BY <2>1, <3>2 DEF rv_cache_get, Reply
    <3> QED BY <3>1, <3>2
  <2>2. CASE UNCHANGED vars
    BY <2>2 DEF vars
  <2> QED BY <2>1, <2>2
          DEF Next, rv_cache_put_from_block, rv_cache_pin, rv_cache_unpin, rv_cache_evict_lru,
              rv_cache_invalidate, Code, Reply
<1>3. Good(cache) /\ reply \in Reply => TypeOK
  BY DEF Good, TypeOK
<1> QED BY <1>1, <1>2, <1>3, AlwaysGood, PTL DEF Spec

(* Eviction never takes a pinned entry: it leaves only by invalidation.    *)
THEOREM PinsAreRespected == Spec => PinnedStays
<1>1. ASSUME Good(cache), [Next]_vars, NEW i \in Pinned(cache)
      PROVE  KeepsBlock(cache, cache', i) \/ Invalidated
  <2>0. i \in InUse(cache) /\ TRUE \in BOOLEAN /\ FALSE \in BOOLEAN
    BY DEF Pinned
  <2>1. ASSUME NEW b \in BlockId, NEW v \in View, rv_cache_put_from_block(b, v)
        PROVE  KeepsBlock(cache, cache', i)
    BY <1>1, <2>1, PutKeepsPinned DEF rv_cache_put_from_block
  <2>2. ASSUME NEW b \in BlockId, rv_cache_get(b) PROVE KeepsBlock(cache, cache', i)
    BY <1>1, <2>0, <2>2, GetKeepsBlocks DEF rv_cache_get
  <2>3. ASSUME NEW b \in BlockId, rv_cache_pin(b) PROVE KeepsBlock(cache, cache', i)
    BY <1>1, <2>0, <2>3, SetPinKeepsBlocks DEF rv_cache_pin, Pin
  <2>4. ASSUME NEW b \in BlockId, rv_cache_unpin(b) PROVE KeepsBlock(cache, cache', i)
    BY <1>1, <2>0, <2>4, SetPinKeepsBlocks DEF rv_cache_unpin, Unpin
  <2>5. ASSUME rv_cache_evict_lru PROVE KeepsBlock(cache, cache', i)
    BY <1>1, <2>5, EvictKeepsPinned DEF rv_cache_evict_lru
  <2>6. ASSUME rv_cache_invalidate PROVE Invalidated
    BY <1>1, <2>6, InvalidateKeepsGood DEF rv_cache_invalidate, Invalidated
  <2>7. CASE UNCHANGED vars
    BY <2>0, <2>7 DEF vars, KeepsBlock, InUse
  <2> QED BY <1>1, <2>1, <2>2, <2>3, <2>4, <2>5, <2>6, <2>7 DEF Next
<1>2. Good(cache) /\ [Next]_vars => [\A i \in Pinned(cache) : StillHeld(i) \/ Invalidated]_vars
  BY <1>1 DEF KeepsBlock, StillHeld
<1> QED BY <1>2, AlwaysGood, PTL DEF Spec, PinnedStays

-----------------------------------------------------------------------------
(***************************************************************************)
(* The refinement of LruCache.                                             *)
(***************************************************************************)

TickOf(c, b) == c.slot[Find(c, b)].tick
PinOf(c, b) == c.slot[Find(c, b)].pinned

(***************************************************************************)
(* The abstraction of a good cache, block by block.                        *)
(***************************************************************************)

(* What the abstract state says of the block in a slot, and of absent ones. *)
LEMMA Abstraction ==
  ASSUME NEW c, Good(c)
  PROVE  /\ Blocks(c) \subseteq BlockId
         /\ \A b : Resident(c, b) <=> b \in Blocks(c)
         /\ \A b \in Blocks(c) :
              /\ Find(c, b) \in InUse(c) /\ c.slot[Find(c, b)].block = b
              /\ Shows(c)[b] = c.slot[Find(c, b)].view /\ Shows(c)[b] \in View
              /\ TickOf(c, b) \in Nat /\ TickOf(c, b) <= c.tick
              /\ b \in Held(c) <=> PinOf(c, b)
         /\ \A b \in BlockId \ Blocks(c) : Shows(c)[b] = NoView
         /\ Held(c) \subseteq Blocks(c)
         /\ \A i \in InUse(c) : c.slot[i].block \in Blocks(c) /\ Find(c, c.slot[i].block) = i
<1>1. c \in Cache
  BY DEF Good
<1>2. Blocks(c) \subseteq BlockId
  BY <1>1, EntryInUse DEF Blocks
<1>3. \A i \in InUse(c) : /\ c.slot[i].block \in Blocks(c)
                          /\ Find(c, c.slot[i].block) = i /\ Resident(c, c.slot[i].block)
  BY FindIsUnique DEF Blocks
<1>4. \A b : Resident(c, b) => b \in Blocks(c)
  BY FindIsUnique DEF Blocks
<1>5. \A b \in Blocks(c) : Resident(c, b) /\ Find(c, b) \in InUse(c) /\ c.slot[Find(c, b)].block = b
  BY <1>3 DEF Blocks
<1>6. \A b \in Blocks(c) : /\ TickOf(c, b) \in Nat /\ TickOf(c, b) <= c.tick
                           /\ c.slot[Find(c, b)].view \in View
  BY <1>1, <1>5, EntryInUse DEF TickOf, Good, CacheSound, TicksBehindClock
<1>7. \A b \in Blocks(c) : Shows(c)[b] = c.slot[Find(c, b)].view
  BY <1>2, <1>5 DEF Shows
<1>8. \A b \in BlockId \ Blocks(c) : Shows(c)[b] = NoView
  BY <1>4 DEF Shows
<1>9. \A b \in Blocks(c) : b \in Held(c) <=> PinOf(c, b)
  BY <1>3, <1>5 DEF Held, Pinned, PinOf
<1>10. Held(c) \subseteq Blocks(c)
  BY <1>3 DEF Held, Pinned
<1> QED BY <1>2, <1>3, <1>4, <1>5, <1>6, <1>7, <1>8, <1>9, <1>10

(* The set of resident blocks, as LruCache defines it.                     *)
LEMMA InCacheIsBlocks ==
  ASSUME Good(cache)
  PROVE  Lru!InCache = Blocks(cache)
BY Abstraction, NoViewAssumption DEF Lru!InCache

(* What a resident block shows is the view in its entry.                   *)
LEMMA ShownView ==
  ASSUME NEW c, Good(c), NEW b \in Blocks(c)
  PROVE  Shows(c)[b] = c.slot[Find(c, b)].view
BY Abstraction

(* Older relates resident blocks by the ticks of their entries.            *)
LEMMA OlderByTick ==
  ASSUME NEW c, Good(c), NEW p \in BlockId \X BlockId
  PROVE  p \in Older(c) <=>
           p[1] \in Blocks(c) /\ p[2] \in Blocks(c) /\ TickOf(c, p[1]) < TickOf(c, p[2])
BY Abstraction DEF Older, TickOf

(***************************************************************************)
(* How each kind of step changes the abstract state.                       *)
(***************************************************************************)

Showing(c, b, e) == [Shows(c) EXCEPT ![b] = e.view]

(* An in-place update of the entry of b.                                   *)
Updated(c, d, b, e) ==
  /\ Good(d) /\ Blocks(d) = Blocks(c) /\ b \in Blocks(c) /\ e \in Entry
  /\ \A a \in Blocks(c) : d.slot[Find(d, a)] = IF a = b THEN e ELSE c.slot[Find(c, a)]

(* An in-place update of the entry of b is an update of b by block.        *)
LEMMA InPlaceUpdates ==
  ASSUME NEW c, Good(c), NEW d, NEW b, Resident(c, b), NEW e, InPlace(c, d, Find(c, b), e)
  PROVE  Updated(c, d, b, e)
<1> DEFINE k == Find(c, b)
<1>1. /\ Good(d) /\ InUse(d) = InUse(c) /\ d.slot = [c.slot EXCEPT ![k] = e]
      /\ k \in InUse(c) /\ k \in Slot /\ b \in Blocks(c) /\ c.slot[k].block = b /\ e.block = b
      /\ c.slot \in [Slot -> Entry \cup {Free}] /\ e \in Entry
  BY Abstraction DEF InPlace, Good, Cache, InUse
<1>2. \A i \in InUse(c) : d.slot[i] = IF i = k THEN e ELSE c.slot[i]
  BY <1>1 DEF InUse
<1>3. Blocks(d) = Blocks(c)
  BY <1>1, <1>2 DEF Blocks
<1>4. \A a \in Blocks(c) : Find(d, a) = Find(c, a)
  <2> SUFFICES ASSUME NEW a \in Blocks(c) PROVE Find(d, a) = Find(c, a)
    OBVIOUS
  <2>1. Find(c, a) \in InUse(d) /\ d.slot[Find(c, a)].block = a
    BY <1>1, <1>2, Abstraction
  <2> QED BY <1>1, <2>1, FindIsUnique
<1>5. \A a \in Blocks(c) : d.slot[Find(d, a)] = IF a = b THEN e ELSE c.slot[Find(c, a)]
  BY <1>1, <1>2, <1>4, Abstraction
<1> QED BY <1>1, <1>3, <1>5 DEF Updated

(* It shows the new view.                                                  *)
LEMMA InPlaceShows ==
  ASSUME NEW c, Good(c), NEW d, NEW b, Resident(c, b), NEW e, InPlace(c, d, Find(c, b), e)
  PROVE  Shows(d) = Showing(c, b, e)
<1>1. Good(d) /\ Blocks(d) = Blocks(c) /\ b \in Blocks(c)
  BY InPlaceUpdates DEF Updated
<1>2. \A a \in Blocks(c) : d.slot[Find(d, a)] = IF a = b THEN e ELSE c.slot[Find(c, a)]
  BY InPlaceUpdates DEF Updated
<1>3. Shows(d) = Showing(c, b, e)
  <2>1. \A a \in Blocks(c) : Shows(d)[a] = IF a = b THEN e.view ELSE Shows(c)[a]
    <3> SUFFICES ASSUME NEW a \in Blocks(c)
                 PROVE  Shows(d)[a] = IF a = b THEN e.view ELSE Shows(c)[a]
      OBVIOUS
    <3>1. Shows(d)[a] = d.slot[Find(d, a)].view
      BY <1>1, ShownView
    <3>2. Shows(c)[a] = c.slot[Find(c, a)].view
      BY ShownView
    <3> QED BY <1>2, <3>1, <3>2
  <2>2. \A a \in BlockId \ Blocks(c) : Shows(d)[a] = NoView /\ Shows(c)[a] = NoView
    BY <1>1, Abstraction
  <2>3. \A a \in BlockId : Shows(d)[a] = IF a = b THEN e.view ELSE Shows(c)[a]
    BY <1>1, <2>1, <2>2
  <2> QED BY <2>3 DEF Shows, Showing
<1> QED BY <1>3

(* The block is held if the new entry is pinned, and becomes the most      *)
(* recent one if the entry is touched.                                     *)
LEMMA InPlaceAbstract ==
  ASSUME NEW c, Good(c), NEW d, NEW b, Resident(c, b), NEW e, InPlace(c, d, Find(c, b), e)
  PROVE  /\ e.pinned => Held(d) = Held(c) \cup {b}
         /\ ~e.pinned => Held(d) = Held(c) \ {b}
         /\ e.tick = c.tick + 1 => Older(d) = Lru!MostRecent(Older(c), Blocks(c) \ {b}, b)
         /\ e.tick = TickOf(c, b) => Older(d) = Older(c)
<1>1. Good(d) /\ Blocks(d) = Blocks(c) /\ b \in Blocks(c) /\ e \in Entry
  BY InPlaceUpdates DEF Updated
<1>2. \A a \in Blocks(c) : d.slot[Find(d, a)] = IF a = b THEN e ELSE c.slot[Find(c, a)]
  BY InPlaceUpdates DEF Updated
<1>3. Held(d) = IF e.pinned THEN Held(c) \cup {b} ELSE Held(c) \ {b}
  <2>1. \A a \in Blocks(c) : PinOf(d, a) <=> IF a = b THEN e.pinned ELSE PinOf(c, a)
    BY <1>2 DEF PinOf
  <2>2. \A a : a \in Held(d) <=> IF a = b THEN e.pinned ELSE a \in Held(c)
    BY <1>1, <2>1, Abstraction
  <2> QED BY <2>2
<1>4. \A a \in Blocks(c) : TickOf(d, a) = IF a = b THEN e.tick ELSE TickOf(c, a)
  BY <1>2 DEF TickOf
<1>5. ASSUME e.tick = TickOf(c, b) PROVE Older(d) = Older(c)
  <2>1. \A a \in Blocks(c) : TickOf(d, a) = TickOf(c, a)
    BY <1>4, <1>5
  <2>2. \A p \in BlockId \X BlockId : p \in Older(d) <=> p \in Older(c)
    BY <1>1, <2>1, OlderByTick
  <2>3. Older(d) \subseteq BlockId \X BlockId /\ Older(c) \subseteq BlockId \X BlockId
    BY DEF Older
  <2> QED BY <2>2, <2>3
<1>6. ASSUME e.tick = c.tick + 1
       PROVE  Older(d) = Lru!MostRecent(Older(c), Blocks(c) \ {b}, b)
  <2>1. \A a \in Blocks(c) : TickOf(c, a) \in Nat /\ TickOf(c, a) < e.tick
    BY <1>6, Abstraction DEF Good, Cache
  <2>2. e.tick \in Nat
    BY <1>1 DEF Entry
  <2> DEFINE R == Lru!MostRecent(Older(c), Blocks(c) \ {b}, b)
  <2>3. ASSUME NEW p \in BlockId \X BlockId
        PROVE  p \in Older(d) <=> p \in R
    <3>1. p \in R <=> (\/ p \in Older(c) /\ p[1] # b /\ p[2] # b
                       \/ p[1] \in Blocks(c) \ {b} /\ p[2] = b)
      BY DEF Lru!MostRecent, Lru!Forget
    <3>2. p \in Older(d) <=>
            p[1] \in Blocks(c) /\ p[2] \in Blocks(c) /\ TickOf(d, p[1]) < TickOf(d, p[2])
      BY <1>1, OlderByTick
    <3>3. p \in Older(c) <=>
            p[1] \in Blocks(c) /\ p[2] \in Blocks(c) /\ TickOf(c, p[1]) < TickOf(c, p[2])
      BY OlderByTick
    <3> QED BY <1>1, <1>4, <2>1, <2>2, <3>1, <3>2, <3>3
  <2>4. Older(d) \subseteq BlockId \X BlockId
    BY DEF Older
  <2>5. R \subseteq BlockId \X BlockId
    BY <1>1, Abstraction DEF Lru!MostRecent, Lru!Forget, Older
  <2> HIDE DEF R
  <2>6. Older(d) = R
    BY <2>3, <2>4, <2>5
  <2> QED BY <2>6 DEF R
<1> QED BY <1>3, <1>5, <1>6

(* The two cases by name: a touch and a flag.                              *)
LEMMA TouchAbstract ==
  ASSUME NEW c, Good(c), NEW d, NEW b, Resident(c, b), NEW e, InPlace(c, d, Find(c, b), e),
         e.tick = c.tick + 1, e.pinned = PinOf(c, b)
  PROVE  /\ Shows(d) = Showing(c, b, e)
         /\ Held(d) = Held(c)
         /\ Older(d) = Lru!MostRecent(Older(c), Blocks(c) \ {b}, b)
<1>1. e.tick = c.tick + 1 => Older(d) = Lru!MostRecent(Older(c), Blocks(c) \ {b}, b)
  BY InPlaceAbstract, Zenon
<1>2. Shows(d) = Showing(c, b, e)
  BY InPlaceShows
<1>3. e.pinned => Held(d) = Held(c) \cup {b}
  BY InPlaceAbstract, Zenon
<1>4. ~e.pinned => Held(d) = Held(c) \ {b}
  BY InPlaceAbstract, Zenon
<1>5. b \in Held(c) <=> PinOf(c, b)
  BY Abstraction
<1> QED BY <1>1, <1>2, <1>3, <1>4, <1>5

(* An update that keeps the tick changes the held set only.                *)
LEMMA FlagAbstract ==
  ASSUME NEW c, Good(c), NEW d, NEW b, Resident(c, b), NEW e, InPlace(c, d, Find(c, b), e),
         e.tick = TickOf(c, b)
  PROVE  /\ Shows(d) = Showing(c, b, e)
         /\ e.pinned => Held(d) = Held(c) \cup {b}
         /\ ~e.pinned => Held(d) = Held(c) \ {b}
         /\ Older(d) = Older(c)
<1>1. e.tick = TickOf(c, b) => Older(d) = Older(c)
  BY InPlaceAbstract, Zenon
<1>2. Shows(d) = Showing(c, b, e)
  BY InPlaceShows
<1>3. e.pinned => Held(d) = Held(c) \cup {b}
  BY InPlaceAbstract, Zenon
<1>4. ~e.pinned => Held(d) = Held(c) \ {b}
  BY InPlaceAbstract, Zenon
<1> QED BY <1>1, <1>2, <1>3, <1>4

(* An eviction drops exactly the least recently used unpinned block.       *)
LEMMA EvictAbstract ==
  ASSUME NEW c, Good(c), Evictable(c) # {}
  PROVE  LET d == EvictLru(c)
             o == c.slot[Victim(c)].block
         IN  /\ Good(d) /\ o \in Blocks(c) \ Held(c)
             /\ Blocks(d) = Blocks(c) \ {o}
             /\ Shows(d) = [Shows(c) EXCEPT ![o] = NoView]
             /\ Held(d) = Held(c)
             /\ Older(d) = Lru!Forget(Older(c), o)
             /\ \A a \in (Blocks(c) \ Held(c)) \ {o} : <<o, a>> \in Older(c)
<1> DEFINE d == EvictLru(c)
           x == Victim(c)
           o == c.slot[x].block
<1>1. /\ Good(d) /\ InUse(d) = InUse(c) \ {x} /\ x \in InUse(c) /\ ~c.slot[x].pinned
      /\ d.slot = [c.slot EXCEPT ![x] = Free] /\ c.slot \in [Slot -> Entry \cup {Free}]
      /\ d.tick = c.tick /\ c \in Cache
  BY EvictEffect DEF Good, Cache
<1>2. x \in Evictable(c) /\ \A j \in Evictable(c) : c.slot[x].tick <= c.slot[j].tick
  BY <1>1, VictimIsOldest
<1> HIDE DEF d, x
<1>3. \A i \in InUse(d) : i \in InUse(c) /\ i # x /\ d.slot[i] = c.slot[i]
  BY <1>1 DEF InUse
<1>4. o \in Blocks(c) /\ Find(c, o) = x
  BY <1>1, Abstraction
<1>5. o \notin Held(c)
  BY <1>1, <1>4, Abstraction DEF PinOf
<1>6. Blocks(d) = Blocks(c) \ {o}
  BY <1>1, <1>3 DEF Blocks, Good, CacheSound, NoDuplicateBlock
<1>7. ASSUME NEW a \in Blocks(d)
      PROVE  Find(d, a) = Find(c, a) /\ d.slot[Find(d, a)] = c.slot[Find(c, a)] /\ a \in Blocks(c)
  <2>1. Find(c, a) \in InUse(c) /\ c.slot[Find(c, a)].block = a /\ a # o /\ a \in Blocks(c)
    BY <1>6, Abstraction
  <2>2. Find(c, a) # x
    BY <2>1 DEF o
  <2>3. Find(c, a) \in InUse(d) /\ d.slot[Find(c, a)] = c.slot[Find(c, a)]
    BY <1>1, <1>3, <2>1, <2>2
  <2>4. Find(d, a) = Find(c, a)
    <3>1. Good(d) /\ Find(c, a) \in InUse(d) /\ d.slot[Find(c, a)].block = a
      BY <1>1, <2>1, <2>3
    <3> HIDE DEF o
    <3> QED BY <3>1, FindIsUnique
  <2> QED BY <2>1, <2>3, <2>4
<1>8. Shows(d) = [Shows(c) EXCEPT ![o] = NoView]
  <2>1. ASSUME NEW a \in Blocks(d) PROVE Shows(d)[a] = Shows(c)[a]
    <3>1. a \in Blocks(c) /\ d.slot[Find(d, a)] = c.slot[Find(c, a)]
      BY <1>7
    <3>2. Shows(d)[a] = d.slot[Find(d, a)].view
      BY <1>1, ShownView
    <3>3. Shows(c)[a] = c.slot[Find(c, a)].view
      BY <3>1, ShownView
    <3> QED BY <3>1, <3>2, <3>3
  <2>2. \A a \in BlockId \ Blocks(d) : Shows(d)[a] = NoView
    BY <1>1, Abstraction
  <2>3. \A a \in BlockId \ Blocks(c) : Shows(c)[a] = NoView
    BY Abstraction
  <2>4. \A a \in BlockId : Shows(d)[a] = IF a = o THEN NoView ELSE Shows(c)[a]
    BY <1>6, <2>1, <2>2, <2>3
  <2> QED BY <2>4 DEF Shows
<1>9. Held(d) = Held(c)
  <2>1. \A a \in Blocks(d) : PinOf(d, a) <=> PinOf(c, a)
    BY <1>7 DEF PinOf
  <2>2. \A a \in Blocks(d) : a \in Held(d) <=> PinOf(d, a)
    BY <1>1, Abstraction
  <2>3. \A a \in Blocks(c) : a \in Held(c) <=> PinOf(c, a)
    BY Abstraction
  <2>4. Held(d) \subseteq Blocks(d) /\ Held(c) \subseteq Blocks(c)
    BY <1>1, Abstraction
  <2> QED BY <1>5, <1>6, <2>1, <2>2, <2>3, <2>4
<1>10. Older(d) = Lru!Forget(Older(c), o)
  <2> DEFINE R == Lru!Forget(Older(c), o)
  <2>1. ASSUME NEW p \in BlockId \X BlockId
        PROVE  p \in Older(d) <=> p \in R
    <3>1. p \in R <=> p \in Older(c) /\ p[1] # o /\ p[2] # o
      BY DEF Lru!Forget
    <3>2. p \in Older(d) <=>
            p[1] \in Blocks(d) /\ p[2] \in Blocks(d) /\ TickOf(d, p[1]) < TickOf(d, p[2])
      BY <1>1, OlderByTick
    <3>3. p \in Older(c) <=>
            p[1] \in Blocks(c) /\ p[2] \in Blocks(c) /\ TickOf(c, p[1]) < TickOf(c, p[2])
      BY OlderByTick
    <3>4. \A a \in Blocks(d) : TickOf(d, a) = TickOf(c, a)
      BY <1>7 DEF TickOf
    <3> QED BY <1>6, <3>1, <3>2, <3>3, <3>4
  <2>2. Older(d) \subseteq BlockId \X BlockId /\ R \subseteq BlockId \X BlockId
    BY DEF Older, Lru!Forget
  <2> HIDE DEF R
  <2>3. Older(d) = R
    BY <2>1, <2>2
  <2> QED BY <2>3 DEF R
<1>11. ASSUME NEW a \in (Blocks(c) \ Held(c)) \ {o}
       PROVE  <<o, a>> \in Older(c)
  <2> DEFINE j == Find(c, a)
  <2>1. j \in InUse(c) /\ c.slot[j].block = a /\ ~c.slot[j].pinned /\ j # x
    BY Abstraction DEF PinOf
  <2>2. j \in Evictable(c)
    BY <2>1 DEF Evictable, Pinned
  <2>3. c.slot[x].tick # c.slot[j].tick
    BY <1>1, <2>1 DEF Good, CacheSound, TicksDistinct
  <2>4. c.slot[x].tick < c.slot[j].tick
    <3>1. c.slot[x].tick \in Nat /\ c.slot[j].tick \in Nat
      BY <1>1, <2>1, EntryInUse
    <3> QED BY <1>2, <2>2, <2>3, <3>1
  <2>5. <<o, a>> \in BlockId \X BlockId /\ TickOf(c, o) < TickOf(c, a)
    BY <1>4, <2>4, Abstraction DEF TickOf
  <2> QED BY <1>4, <2>5, OlderByTick
<1> QED BY <1>1, <1>4, <1>5, <1>6, <1>8, <1>9, <1>10, <1>11 DEF d, x

(* Filling a free slot makes one more block resident, the most recent one. *)
LEMMA FillAbstract ==
  ASSUME NEW c, Good(c), NEW b \in BlockId, NEW v \in View, ~Resident(c, b), FreeSlots(c) # {}
  PROVE  LET d == Fill(c, b, v)
         IN  /\ Good(d) /\ b \notin Blocks(c)
             /\ Shows(d) = [Shows(c) EXCEPT ![b] = v]
             /\ Held(d) = Held(c)
             /\ Older(d) = Lru!MostRecent(Older(c), Blocks(c), b)
<1> DEFINE d == Fill(c, b, v)
           x == First(FreeSlots(c))
           e == [block |-> b, view |-> v, gen |-> c.gen, tick |-> c.tick + 1, pinned |-> FALSE]
<1>1. /\ Good(d) /\ InUse(d) = InUse(c) \cup {x} /\ x \in Slot \ InUse(c)
      /\ d.slot = [c.slot EXCEPT ![x] = e] /\ d.tick = c.tick + 1
      /\ c.slot \in [Slot -> Entry \cup {Free}] /\ c.tick \in Nat
  <2>1. c.slot \in [Slot -> Entry \cup {Free}] /\ c.tick \in Nat
    BY DEF Good, Cache
  <2>2. /\ Good(d) /\ InUse(d) = InUse(c) \cup {x} /\ x \in Slot \ InUse(c)
        /\ d.slot = [c.slot EXCEPT ![x] = e] /\ d.tick = c.tick + 1
    BY FillEffect, Zenon
  <2> QED BY <2>1, <2>2
<1>2. e.block = b /\ e.view = v /\ e.tick = c.tick + 1 /\ e.pinned = FALSE
  OBVIOUS
<1> HIDE DEF d, x, e
<1>3. b \notin Blocks(c)
  BY Abstraction
<1>4. d.slot[x] = e /\ \A i \in InUse(c) : i # x /\ d.slot[i] = c.slot[i]
  BY <1>1 DEF InUse
<1>5. Blocks(d) = Blocks(c) \cup {b}
  BY <1>1, <1>2, <1>4 DEF Blocks
<1>6. Find(d, b) = x
  BY <1>1, <1>2, <1>4, FindIsUnique
<1>7. ASSUME NEW a \in Blocks(c)
      PROVE  Find(d, a) = Find(c, a) /\ d.slot[Find(d, a)] = c.slot[Find(c, a)]
  <2>1. Find(c, a) \in InUse(c) /\ c.slot[Find(c, a)].block = a
    BY Abstraction
  <2>2. Find(c, a) \in InUse(d) /\ d.slot[Find(c, a)] = c.slot[Find(c, a)]
    BY <1>1, <1>4, <2>1
  <2>3. Find(d, a) = Find(c, a)
    BY <1>1, <2>1, <2>2, FindIsUnique
  <2> QED BY <2>2, <2>3
<1>8. Shows(d) = [Shows(c) EXCEPT ![b] = v]
  <2>1. ASSUME NEW a \in Blocks(c) PROVE Shows(d)[a] = Shows(c)[a]
    <3>1. a \in Blocks(d) /\ d.slot[Find(d, a)] = c.slot[Find(c, a)]
      BY <1>5, <1>7
    <3>2. Shows(d)[a] = d.slot[Find(d, a)].view
      BY <1>1, <3>1, ShownView
    <3>3. Shows(c)[a] = c.slot[Find(c, a)].view
      BY ShownView
    <3> QED BY <3>1, <3>2, <3>3
  <2>2. Shows(d)[b] = v
    BY <1>1, <1>2, <1>4, <1>5, <1>6, ShownView
  <2>3. \A a \in BlockId \ Blocks(d) : Shows(d)[a] = NoView
    BY <1>1, Abstraction
  <2>4. \A a \in BlockId \ Blocks(c) : Shows(c)[a] = NoView
    BY Abstraction
  <2>5. \A a \in BlockId : Shows(d)[a] = IF a = b THEN v ELSE Shows(c)[a]
    BY <1>5, <2>1, <2>2, <2>3, <2>4
  <2> QED BY <2>5 DEF Shows
<1>9. Held(d) = Held(c)
  <2>1. \A a \in Blocks(c) : PinOf(d, a) <=> PinOf(c, a)
    BY <1>7 DEF PinOf
  <2>2. ~PinOf(d, b)
    BY <1>2, <1>4, <1>6 DEF PinOf
  <2>3. \A a \in Blocks(d) : a \in Held(d) <=> PinOf(d, a)
    BY <1>1, Abstraction
  <2>4. \A a \in Blocks(c) : a \in Held(c) <=> PinOf(c, a)
    BY Abstraction
  <2>5. Held(d) \subseteq Blocks(d) /\ Held(c) \subseteq Blocks(c)
    BY <1>1, Abstraction
  <2> QED BY <1>3, <1>5, <2>1, <2>2, <2>3, <2>4, <2>5
<1>10. Older(d) = Lru!MostRecent(Older(c), Blocks(c), b)
  <2> DEFINE R == Lru!MostRecent(Older(c), Blocks(c), b)
  <2>1. ASSUME NEW p \in BlockId \X BlockId
        PROVE  p \in Older(d) <=> p \in R
    <3>1. p \in R <=> (\/ p \in Older(c) /\ p[1] # b /\ p[2] # b
                       \/ p[1] \in Blocks(c) /\ p[2] = b)
      BY DEF Lru!MostRecent, Lru!Forget
    <3>2. p \in Older(d) <=>
            p[1] \in Blocks(d) /\ p[2] \in Blocks(d) /\ TickOf(d, p[1]) < TickOf(d, p[2])
      BY <1>1, OlderByTick
    <3>3. p \in Older(c) <=>
            p[1] \in Blocks(c) /\ p[2] \in Blocks(c) /\ TickOf(c, p[1]) < TickOf(c, p[2])
      BY OlderByTick
    <3>4. \A a \in Blocks(c) : TickOf(d, a) = TickOf(c, a)
      BY <1>7 DEF TickOf
    <3>5. TickOf(d, b) = c.tick + 1
      BY <1>2, <1>4, <1>6 DEF TickOf
    <3>6. \A a \in Blocks(c) : TickOf(c, a) \in Nat /\ TickOf(c, a) <= c.tick
      BY Abstraction
    <3> QED BY <1>1, <1>3, <1>5, <3>1, <3>2, <3>3, <3>4, <3>5, <3>6
  <2>2. Older(d) \subseteq BlockId \X BlockId
    BY DEF Older
  <2>3. R \subseteq BlockId \X BlockId
    BY Abstraction DEF Lru!MostRecent, Lru!Forget, Older
  <2> HIDE DEF R
  <2>4. Older(d) = R
    BY <2>1, <2>2, <2>3
  <2> QED BY <2>4 DEF R
<1> QED BY <1>1, <1>3, <1>8, <1>9, <1>10 DEF d

(* The instance has its own copy of FiniteSets.                            *)
LEMMA SameCardinality ==
  ASSUME NEW S
  PROVE  Lru!Cardinality(S) = Cardinality(S)
BY Zenon DEF Lru!Cardinality, Cardinality, Lru!IsFiniteSet, IsFiniteSet

(* When nothing is evictable every resident block is held.                 *)
LEMMA AllHeld ==
  ASSUME NEW c, Good(c), Evictable(c) = {}
  PROVE  Blocks(c) \subseteq Held(c)
BY Abstraction DEF Blocks, Held, Evictable

(* The count field is the number of resident blocks, so full is full.      *)
LEMMA FullAbstract ==
  ASSUME NEW c, Good(c)
  PROVE  /\ Full(c) => Cardinality(Blocks(c)) = Capacity
         /\ ~Full(c) => Cardinality(Blocks(c)) < Capacity
<1>1. c.count = Cardinality(Blocks(c)) /\ c.count \in Nat
  BY DEF Good, CacheSound, CountIsExact, Cache
<1> QED BY <1>1, FullMeansNoFreeSlot, Slots DEF Full

-----------------------------------------------------------------------------
(***************************************************************************)
(* Every step of the cache is a step of the LRU map.                       *)
(***************************************************************************)

(* rv_cache_get is a hit or a miss of the abstract cache.                  *)
LEMMA GetStep ==
  ASSUME Good(cache), NEW b \in BlockId, rv_cache_get(b)
  PROVE  Lru!GetHit(b) \/ Lru!Missing(b)
<1>1. CASE ~Resident(cache, b)
  <2>1. cache' = cache /\ reply' = "fail" /\ b \notin Lru!InCache
    BY <1>1, InCacheIsBlocks, Abstraction DEF rv_cache_get, Get, Hit
  <2> QED BY <2>1 DEF Lru!Missing
<1>2. CASE Resident(cache, b)
  <2> DEFINE e == TouchedEntry(cache, b)
             d == Get(cache, b)
  <2>1. /\ Hit(cache, b) /\ InPlace(cache, d, Find(cache, b), e)
        /\ e.view = cache.slot[Find(cache, b)].view /\ e.tick = cache.tick + 1
        /\ e.pinned = PinOf(cache, b)
    BY <1>2, GetEffect DEF PinOf
  <2>2. b \in Blocks(cache) /\ b \in Lru!InCache /\ Shows(cache)[b] = e.view
        /\ (b \in Held(cache) <=> PinOf(cache, b))
    BY <1>2, <2>1, InCacheIsBlocks, Abstraction
  <2>3. cache' = d /\ reply' = Shows(cache)[b]
    BY <2>1, <2>2 DEF rv_cache_get
  <2> HIDE DEF d, e
  <2>4. /\ Shows(d) = Showing(cache, b, e)
        /\ Held(d) = Held(cache)
        /\ Older(d) = Lru!MostRecent(Older(cache), Blocks(cache) \ {b}, b)
    BY <1>2, <2>1, TouchAbstract
  <2>5. Shows(d) = Shows(cache)
    BY <2>2, <2>4 DEF Shows, Showing
  <2> QED BY <2>2, <2>3, <2>4, <2>5, InCacheIsBlocks DEF Lru!GetHit
<1> QED BY <1>1, <1>2

(* Pins and unpins change the held set and nothing else.                   *)
LEMMA SetPinAbstract ==
  ASSUME Good(cache), NEW b \in BlockId, Resident(cache, b), NEW f \in BOOLEAN,
         cache' = SetPin(cache, b, f)
  PROVE  /\ b \in Lru!InCache
         /\ Shows(cache') = Shows(cache) /\ Older(cache') = Older(cache)
         /\ f => Held(cache') = Held(cache) \cup {b}
         /\ ~f => Held(cache') = Held(cache) \ {b}
<1> DEFINE e == FlaggedEntry(cache, b, f)
<1>1. /\ InPlace(cache, cache', Find(cache, b), e)
      /\ e.view = cache.slot[Find(cache, b)].view /\ e.tick = TickOf(cache, b) /\ e.pinned = f
  BY SetPinEffect DEF TickOf
<1>2. b \in Blocks(cache) /\ b \in Lru!InCache /\ Shows(cache)[b] = e.view
  BY <1>1, InCacheIsBlocks, Abstraction
<1> HIDE DEF e
<1>3. /\ Shows(cache') = Showing(cache, b, e)
      /\ e.pinned => Held(cache') = Held(cache) \cup {b}
      /\ ~e.pinned => Held(cache') = Held(cache) \ {b}
      /\ Older(cache') = Older(cache)
  BY <1>1, FlagAbstract
<1>4. Shows(cache') = Shows(cache)
  BY <1>2, <1>3 DEF Shows, Showing
<1> QED BY <1>1, <1>2, <1>3, <1>4

(* rv_cache_pin holds a resident block.                                    *)
LEMMA PinStep ==
  ASSUME Good(cache), NEW b \in BlockId, rv_cache_pin(b)
  PROVE  Lru!Hold(b) \/ Lru!Missing(b)
<1>1. CASE ~Resident(cache, b)
  <2>1. cache' = cache /\ reply' = "fail" /\ b \notin Lru!InCache
    BY <1>1, InCacheIsBlocks, Abstraction DEF rv_cache_pin, Pin, SetPin, Code
  <2> QED BY <2>1 DEF Lru!Missing
<1>2. CASE Resident(cache, b)
  <2>1. cache' = SetPin(cache, b, TRUE) /\ reply' = "ok"
    BY <1>2 DEF rv_cache_pin, Pin, Code
  <2> QED BY <1>2, <2>1, SetPinAbstract DEF Lru!Hold
<1> QED BY <1>1, <1>2

(* rv_cache_unpin releases a resident block.                               *)
LEMMA UnpinStep ==
  ASSUME Good(cache), NEW b \in BlockId, rv_cache_unpin(b)
  PROVE  Lru!Release(b) \/ Lru!Missing(b)
<1>1. CASE ~Resident(cache, b)
  <2>1. cache' = cache /\ reply' = "fail" /\ b \notin Lru!InCache
    BY <1>1, InCacheIsBlocks, Abstraction DEF rv_cache_unpin, Unpin, SetPin, Code
  <2> QED BY <2>1 DEF Lru!Missing
<1>2. CASE Resident(cache, b)
  <2>1. cache' = SetPin(cache, b, FALSE) /\ reply' = "ok"
    BY <1>2 DEF rv_cache_unpin, Unpin, Code
  <2> QED BY <1>2, <2>1, SetPinAbstract DEF Lru!Release
<1> QED BY <1>1, <1>2

(* rv_cache_put_from_block refreshes, fills, replaces or is refused.       *)
LEMMA PutStep ==
  ASSUME Good(cache), NEW b \in BlockId, NEW v \in View, rv_cache_put_from_block(b, v)
  PROVE  \/ Lru!PutRefresh(b, v) \/ Lru!PutInto(b, v) \/ Lru!PutRefused(b)
         \/ \E old \in BlockId : Lru!PutReplacing(b, v, old)
<1>0. cache' = PutFromBlock(cache, b, v) /\ reply' = Code(PutSucceeds(cache, b))
  BY DEF rv_cache_put_from_block
<1>1. CASE ~PutSucceeds(cache, b)
  <2>1. cache' = cache /\ reply' = "fail" /\ ~Resident(cache, b)
    BY <1>0, <1>1 DEF PutFromBlock, PutSucceeds, Code
  <2>2. Full(cache) /\ Evictable(cache) = {}
    BY <1>1, FullMeansNoFreeSlot DEF PutSucceeds
  <2>3. Cardinality(Blocks(cache)) = Capacity /\ Blocks(cache) \subseteq Held(cache)
        /\ b \notin Blocks(cache)
    BY <2>1, <2>2, FullAbstract, AllHeld, Abstraction
  <2> QED BY <2>1, <2>3, InCacheIsBlocks, SameCardinality DEF Lru!PutRefused
<1>2. CASE Resident(cache, b)
  <2> DEFINE e == RefreshedEntry(cache, b, v)
             d == Refresh(cache, b, v)
  <2>1. cache' = d /\ reply' = "ok"
    BY <1>0, <1>2 DEF PutFromBlock, PutSucceeds, Code
  <2>2. /\ InPlace(cache, d, Find(cache, b), e)
        /\ e.view = v /\ e.tick = cache.tick + 1 /\ e.pinned = PinOf(cache, b)
    BY <1>2, RefreshEffect DEF PinOf
  <2>3. b \in Blocks(cache) /\ b \in Lru!InCache /\ (b \in Held(cache) <=> PinOf(cache, b))
    BY <1>2, InCacheIsBlocks, Abstraction
  <2> HIDE DEF d, e
  <2>4. /\ Shows(d) = Showing(cache, b, e)
        /\ Held(d) = Held(cache)
        /\ Older(d) = Lru!MostRecent(Older(cache), Blocks(cache) \ {b}, b)
    BY <1>2, <2>2, TouchAbstract
  <2> QED BY <2>1, <2>2, <2>3, <2>4, InCacheIsBlocks, SameCardinality DEF Lru!PutRefresh, Showing
<1>3. CASE /\ ~Resident(cache, b) /\ ~Full(cache) /\ FreeSlots(cache) # {}
           /\ PutSucceeds(cache, b) /\ PutFromBlock(cache, b, v) = Fill(cache, b, v)
  <2> DEFINE d == Fill(cache, b, v)
  <2>1. cache' = d /\ reply' = "ok"
    BY <1>0, <1>3 DEF Code
  <2>2. /\ b \notin Blocks(cache) /\ Shows(d) = [Shows(cache) EXCEPT ![b] = v]
        /\ Held(d) = Held(cache) /\ Older(d) = Lru!MostRecent(Older(cache), Blocks(cache), b)
    BY <1>3, FillAbstract
  <2>3. Cardinality(Blocks(cache)) < Capacity
    BY <1>3, FullAbstract
  <2> HIDE DEF d
  <2> QED BY <2>1, <2>2, <2>3, InCacheIsBlocks, SameCardinality DEF Lru!PutInto
<1>4. CASE /\ ~Resident(cache, b) /\ Full(cache) /\ Evictable(cache) # {}
           /\ PutSucceeds(cache, b) /\ Good(EvictLru(cache)) /\ FreeSlots(EvictLru(cache)) # {}
           /\ ~Resident(EvictLru(cache), b)
           /\ PutFromBlock(cache, b, v) = Fill(EvictLru(cache), b, v)
  <2> DEFINE m == EvictLru(cache)
             o == cache.slot[Victim(cache)].block
             d == Fill(m, b, v)
  <2>1. cache' = d /\ reply' = "ok"
    BY <1>0, <1>4 DEF Code
  <2>2. /\ o \in Blocks(cache) \ Held(cache) /\ Blocks(m) = Blocks(cache) \ {o}
        /\ Shows(m) = [Shows(cache) EXCEPT ![o] = NoView] /\ Held(m) = Held(cache)
        /\ Older(m) = Lru!Forget(Older(cache), o)
        /\ \A a \in (Blocks(cache) \ Held(cache)) \ {o} : <<o, a>> \in Older(cache)
    BY <1>4, EvictAbstract
  <2> HIDE DEF m, o
  <2>3. /\ Shows(d) = [Shows(m) EXCEPT ![b] = v] /\ Held(d) = Held(m)
        /\ Older(d) = Lru!MostRecent(Older(m), Blocks(m), b)
    BY <1>4, FillAbstract DEF m
  <2>4. Cardinality(Blocks(cache)) = Capacity /\ b \notin Blocks(cache) /\ o \in BlockId
    BY <1>4, <2>2, FullAbstract, Abstraction
  <2> HIDE DEF d
  <2>5. Lru!LeastRecent(o)
    BY <2>2, InCacheIsBlocks DEF Lru!LeastRecent
  <2>6. Lru!PutReplacing(b, v, o)
    BY <2>1, <2>2, <2>3, <2>4, <2>5, InCacheIsBlocks, SameCardinality DEF Lru!PutReplacing
  <2> QED BY <2>4, <2>6
<1> QED BY <1>1, <1>2, <1>3, <1>4, PutCases

(* rv_cache_evict_lru sheds the least recent block that is not held.       *)
LEMMA EvictStep ==
  ASSUME Good(cache), rv_cache_evict_lru
  PROVE  Lru!NothingToShed \/ \E o \in BlockId : Lru!Shed(o)
<1>0. cache' = EvictLru(cache) /\ reply' = Code(Evictable(cache) # {})
  BY DEF rv_cache_evict_lru
<1>1. CASE Evictable(cache) = {}
  <2>1. cache' = cache /\ reply' = "fail" /\ Blocks(cache) \subseteq Held(cache)
    BY <1>0, <1>1, AllHeld DEF EvictLru, Code
  <2> QED BY <2>1, InCacheIsBlocks DEF Lru!NothingToShed
<1>2. CASE Evictable(cache) # {}
  <2> DEFINE o == cache.slot[Victim(cache)].block
             d == EvictLru(cache)
  <2>1. /\ o \in Blocks(cache) \ Held(cache)
        /\ Shows(d) = [Shows(cache) EXCEPT ![o] = NoView] /\ Held(d) = Held(cache)
        /\ Older(d) = Lru!Forget(Older(cache), o)
        /\ \A a \in (Blocks(cache) \ Held(cache)) \ {o} : <<o, a>> \in Older(cache)
    BY <1>2, EvictAbstract
  <2>2. cache' = d /\ reply' = "ok" /\ o \in BlockId
    BY <1>0, <1>2, <2>1, Abstraction DEF Code
  <2> HIDE DEF o, d
  <2>3. Lru!LeastRecent(o)
    BY <2>1, InCacheIsBlocks DEF Lru!LeastRecent
  <2> QED BY <2>1, <2>2, <2>3 DEF Lru!Shed
<1> QED BY <1>1, <1>2

(* A cache without entries shows nothing.                                  *)
LEMMA NothingShown ==
  ASSUME NEW c, InUse(c) = {}
  PROVE  Shows(c) = [b \in BlockId |-> NoView] /\ Held(c) = {} /\ Older(c) = {}
<1>1. \A b : ~Resident(c, b)
  BY DEF Resident, Holding
<1> QED BY <1>1 DEF Shows, Held, Pinned, Older

(* rv_cache_invalidate clears the abstract cache.                          *)
LEMMA InvalidateStep ==
  ASSUME Good(cache), rv_cache_invalidate
  PROVE  Lru!Clear
<1>1. InUse(cache') = {} /\ reply' = "ok"
  BY InvalidateKeepsGood DEF rv_cache_invalidate
<1> QED BY <1>1, NothingShown DEF Lru!Clear

(* The cache of rv_cache.c, whatever its capacity, is the ideal bounded    *)
(* LRU map: same hits, same views, same victims, same refusals.            *)
THEOREM CacheIsLru == Spec => ImplementsLru
<1>1. Init => Lru!LruInit
  <2> SUFFICES ASSUME Init PROVE Lru!LruInit
    OBVIOUS
  <2>1. InUse(cache) = {} /\ reply = "none"
    BY DEF Init, EmptyCache, InUse
  <2> QED BY <2>1, NothingShown DEF Lru!LruInit
<1>2. Good(cache) /\ [Next]_vars => [Lru!LruNext]_(Lru!vars)
  <2> SUFFICES ASSUME Good(cache), [Next]_vars PROVE [Lru!LruNext]_(Lru!vars)
    OBVIOUS
  <2>1. ASSUME NEW b \in BlockId, NEW v \in View, rv_cache_put_from_block(b, v)
        PROVE  Lru!LruNext
    BY <2>1, PutStep DEF Lru!LruNext
  <2>2. ASSUME NEW b \in BlockId, rv_cache_get(b) PROVE Lru!LruNext
    BY <2>2, GetStep DEF Lru!LruNext
  <2>3. ASSUME NEW b \in BlockId, rv_cache_pin(b) PROVE Lru!LruNext
    BY <2>3, PinStep DEF Lru!LruNext
  <2>4. ASSUME NEW b \in BlockId, rv_cache_unpin(b) PROVE Lru!LruNext
    BY <2>4, UnpinStep DEF Lru!LruNext
  <2>5. CASE rv_cache_evict_lru
    BY <2>5, EvictStep DEF Lru!LruNext
  <2>6. CASE rv_cache_invalidate
    BY <2>6, InvalidateStep DEF Lru!LruNext
  <2>7. CASE UNCHANGED vars
    BY <2>7 DEF vars, Lru!vars
  <2> QED BY <2>1, <2>2, <2>3, <2>4, <2>5, <2>6, <2>7 DEF Next
<1> QED BY <1>1, <1>2, AlwaysGood, PTL DEF Spec, ImplementsLru, Lru!LruSpec
=============================================================================
