------------------------- MODULE WaveCacheOpsProofs -------------------------
(***************************************************************************)
(* Lemmas about the operations of the wave-block cache, for every          *)
(* capacity, every set of blocks and views and every last generation: each *)
(* operation maps a good cache to a good cache, and what it does to the    *)
(* entries.                                                                *)
(***************************************************************************)
EXTENDS WaveCacheOps, FiniteSetTheorems, WellFoundedInduction, TLAPS

USE CapacityAssumption, FreeAssumption, MaxGenAssumption

(***************************************************************************)
(* Minima: the scans of the code stop at one.                              *)
(***************************************************************************)

(* A nonempty set of naturals has a least element. *)
LEMMA LeastNatural ==
  ASSUME NEW S \in SUBSET Nat, S # {}
  PROVE  \E m \in S : \A n \in S : m <= n
<1> DEFINE Less == {p \in Nat \X Nat : p[1] < p[2]}
<1>1. IsWellFoundedOn(Less, Nat)
  BY NatLessThanWellFounded, Zenon DEF OpToRel
<1>2. PICK m \in S : \A n \in S : <<n, m>> \notin Less
  BY <1>1, WFMin
<1>3. ASSUME NEW n \in S PROVE m <= n
  <2>1. m \in Nat /\ n \in Nat /\ <<n, m>> \in Nat \X Nat
    OBVIOUS
  <2>2. ~(n < m)
    BY <1>2, <2>1
  <2> QED BY <2>1, <2>2
<1> QED BY <1>3

(* The capacity is at least 2: slots exist, and there are finitely many. *)
LEMMA Slots == Capacity \in Nat /\ Capacity >= 2 /\ Slot \subseteq Nat /\ IsFiniteSet(Slot)
               /\ Cardinality(Slot) = Capacity
<1>1. Capacity \in Nat /\ Capacity >= 2 /\ Slot \subseteq Nat
  BY DEF Capacity, Slot
<1>2. IsFiniteSet(Slot) /\ Cardinality(Slot) = Capacity
  BY <1>1, FS_Interval DEF Slot
<1> QED BY <1>1, <1>2

(* First picks a member. *)
LEMMA FirstIsMember ==
  ASSUME NEW S \in SUBSET Slot, S # {}
  PROVE  First(S) \in S
<1>1. \E i \in S : \A j \in S : i <= j
  BY LeastNatural, Slots
<1> QED BY <1>1 DEF First

(* The victim of an eviction is evictable and no evictable entry was used  *)
(* before it.                                                              *)
LEMMA VictimIsOldest ==
  ASSUME NEW c \in Cache, Evictable(c) # {}
  PROVE  /\ Victim(c) \in Evictable(c)
         /\ \A j \in Evictable(c) : c.slot[Victim(c)].tick <= c.slot[j].tick
<1> DEFINE E == Evictable(c)
           tick(i) == c.slot[i].tick
           T == {tick(i) : i \in E}
<1>1. E \subseteq Slot /\ \A i \in E : tick(i) \in Nat
  BY DEF Evictable, InUse, Cache, Entry
<1>2. PICK m \in T : \A n \in T : m <= n
  <2>1. T \in SUBSET Nat /\ T # {}
    BY <1>1
  <2> QED BY <2>1, LeastNatural
<1> DEFINE M == {i \in E : tick(i) = m}
<1>3. PICK i \in M : \A j \in M : i <= j
  <2>1. M \in SUBSET Nat /\ M # {}
    BY <1>1, <1>2, Slots
  <2> QED BY <2>1, LeastNatural
<1>4. i \in E /\ \A j \in E : tick(i) < tick(j) \/ (tick(i) = tick(j) /\ i <= j)
  <2> SUFFICES ASSUME NEW j \in E, ~(tick(i) < tick(j))
               PROVE  tick(i) = tick(j) /\ i <= j
    BY <1>3
  <2>1. tick(i) <= tick(j)
    BY <1>2, <1>3
  <2>2. tick(i) = tick(j)
    BY <1>1, <1>3, <2>1
  <2> QED BY <1>3, <2>2
<1>5. /\ Victim(c) \in E
      /\ \A j \in E : \/ tick(Victim(c)) < tick(j)
                      \/ tick(Victim(c)) = tick(j) /\ Victim(c) <= j
  BY <1>4 DEF Victim
<1> QED BY <1>1, <1>5

-----------------------------------------------------------------------------
(***************************************************************************)
(* Each operation keeps the shape of the cache and its bookkeeping.        *)
(***************************************************************************)

Good(c) == c \in Cache /\ CacheSound(c)

(* The in-use slots and resident blocks of a cache are finite sets.        *)
LEMMA FiniteParts ==
  ASSUME NEW c
  PROVE  IsFiniteSet(InUse(c)) /\ IsFiniteSet(FreeSlots(c))
<1>1. InUse(c) \in SUBSET Slot /\ FreeSlots(c) \in SUBSET Slot
  BY DEF InUse, FreeSlots
<1> QED BY <1>1, Slots, FS_Subset

(* So are the resident blocks, the image of the in-use slots.              *)
LEMMA FiniteBlocks ==
  ASSUME NEW c
  PROVE  IsFiniteSet(Blocks(c))
<1> DEFINE f == [i \in InUse(c) |-> c.slot[i].block]
<1>1. f \in Surjection(InUse(c), Blocks(c))
  BY DEF Blocks, Surjection
<1> QED BY <1>1, FiniteParts, FS_Surjection

(* At most one entry holds a block, so a scan finds that entry.            *)
LEMMA FindIsUnique ==
  ASSUME NEW c, Good(c), NEW b
  PROVE  /\ Resident(c, b) => Find(c, b) \in InUse(c) /\ c.slot[Find(c, b)].block = b
         /\ \A i \in InUse(c) : c.slot[i].block = b => Resident(c, b) /\ Find(c, b) = i
<1>1. Holding(c, b) \in SUBSET Slot
  BY DEF Holding, InUse
<1>2. Resident(c, b) => Find(c, b) \in Holding(c, b)
  BY <1>1, FirstIsMember DEF Resident, Find
<1>3. \A i \in InUse(c) : c.slot[i].block = b => i \in Holding(c, b)
  BY DEF Holding
<1> QED BY <1>2, <1>3 DEF Holding, Resident, Good, CacheSound, NoDuplicateBlock

(* A cache with a free slot is not full, and conversely.                   *)
LEMMA FullMeansNoFreeSlot ==
  ASSUME NEW c, Good(c)
  PROVE  /\ Full(c) <=> FreeSlots(c) = {}
         /\ c.count <= Capacity
<1>1. InUse(c) \in SUBSET Slot
  BY DEF InUse
<1>2. Cardinality(InUse(c)) <= Capacity /\ (Cardinality(InUse(c)) = Capacity => InUse(c) = Slot)
  BY <1>1, Slots, FS_Subset
<1>3. c.count = Cardinality(InUse(c)) /\ c.count \in Nat
  BY DEF Good, Cache, CacheSound, CountIsExact
<1>4. FreeSlots(c) = {} <=> InUse(c) = Slot
  BY <1>1 DEF FreeSlots
<1> QED BY <1>2, <1>3, <1>4, Slots DEF Full

(* An entry that is overwritten in place, keeping its block, current       *)
(* generation and an LRU tick no other entry has, leaves the cache sound.  *)
LEMMA OverwriteInPlace ==
  ASSUME NEW c, Good(c), NEW i \in InUse(c), NEW e \in Entry, NEW t \in Nat,
         e.block = c.slot[i].block, e.gen = c.gen,
         \/ t = c.tick /\ e.tick = c.slot[i].tick
         \/ t = c.tick + 1 /\ e.tick = t,
         NEW d \in Cache, d.slot = [c.slot EXCEPT ![i] = e], d.count = c.count, d.tick = t,
         d.gen = c.gen
  PROVE  Good(d) /\ InUse(d) = InUse(c)
<1>1. /\ i \in Slot
      /\ c.slot \in [Slot -> Entry \cup {Free}] /\ c.count \in Nat /\ c.tick \in Nat
      /\ c.gen \in Generation
  BY DEF Good, Cache, InUse
<1>2. InUse(d) = InUse(c)
  BY <1>1 DEF InUse
<1>3. \A j \in InUse(c) : d.slot[j] = IF j = i THEN e ELSE c.slot[j]
  BY <1>1 DEF InUse
<1>4. Blocks(d) = Blocks(c)
  BY <1>2, <1>3 DEF Blocks
<1>5. CountIsExact(d)
  BY <1>2, <1>4 DEF Good, CacheSound, CountIsExact
<1>6. NoDuplicateBlock(d)
  BY <1>2, <1>3 DEF Good, CacheSound, NoDuplicateBlock
<1>7. \A j \in InUse(c) : c.slot[j].tick \in Nat /\ c.slot[j].tick <= c.tick
  BY <1>1 DEF Good, CacheSound, TicksBehindClock, InUse, Entry
<1>8. TicksDistinct(d)
  <2> SUFFICES ASSUME NEW j \in InUse(c), NEW k \in InUse(c), d.slot[j].tick = d.slot[k].tick
               PROVE  j = k
    BY <1>2 DEF TicksDistinct
  <2>1. CASE e.tick = c.slot[i].tick
    BY <2>1, <1>3 DEF Good, CacheSound, TicksDistinct
  <2>2. CASE e.tick = c.tick + 1
    BY <2>2, <1>1, <1>3, <1>7 DEF Good, CacheSound, TicksDistinct
  <2> QED BY <2>1, <2>2
<1>9. TicksBehindClock(d)
  BY <1>1, <1>2, <1>3, <1>7 DEF TicksBehindClock
<1>10. GenerationUniform(d)
  BY <1>2, <1>3 DEF Good, CacheSound, GenerationUniform
<1> QED BY <1>2, <1>5, <1>6, <1>8, <1>9, <1>10 DEF Good, CacheSound

(* Eviction clears one unpinned entry, the least recently used one, and    *)
(* leaves the rest alone.                                                  *)
LEMMA EvictEffect ==
  ASSUME NEW c, Good(c), Evictable(c) # {}
  PROVE  /\ EvictLru(c).slot = [c.slot EXCEPT ![Victim(c)] = Free]
         /\ EvictLru(c).count = c.count - 1
         /\ EvictLru(c).tick = c.tick
         /\ EvictLru(c).gen = c.gen
         /\ InUse(EvictLru(c)) = InUse(c) \ {Victim(c)}
         /\ Victim(c) \in InUse(c) /\ ~c.slot[Victim(c)].pinned
         /\ Good(EvictLru(c))
<1> DEFINE d == EvictLru(c)
           x == Victim(c)
<1>1. /\ c \in Cache /\ c.slot \in [Slot -> Entry \cup {Free}] /\ c.count \in Nat
      /\ c.tick \in Nat /\ c.gen \in Generation
  BY DEF Good, Cache
<1>2. x \in InUse(c) /\ x \in Slot /\ ~c.slot[x].pinned
  BY <1>1, VictimIsOldest DEF Evictable, Pinned, InUse
<1>3. c.count = Cardinality(InUse(c)) /\ c.count = Cardinality(Blocks(c)) /\ c.count > 0
  <2>1. Cardinality(InUse(c)) # 0
    BY <1>2, FiniteParts, FS_EmptySet
  <2> QED BY <1>1, <2>1 DEF Good, CacheSound, CountIsExact
<1>4. /\ d.slot = [c.slot EXCEPT ![x] = Free] /\ d.count = c.count - 1
      /\ d.tick = c.tick /\ d.gen = c.gen /\ d \in Cache
  <2>1. d = [c EXCEPT !.slot = [c.slot EXCEPT ![x] = Free], !.count = c.count - 1]
    <3>1. (IF c.count > 0 THEN c.count - 1 ELSE c.count) = c.count - 1
      BY <1>1, <1>3
    <3> QED BY <3>1 DEF EvictLru
  <2> HIDE DEF d, x
  <2>2. [c.slot EXCEPT ![x] = Free] \in [Slot -> Entry \cup {Free}] /\ c.count - 1 \in Nat
    BY <1>1, <1>2, <1>3
  <2> QED BY <1>1, <2>1, <2>2 DEF Cache
<1> HIDE DEF d, x
<1>5. InUse(d) = InUse(c) \ {x}
  BY <1>1, <1>2, <1>4 DEF InUse
<1>6. \A j \in InUse(d) : j \in InUse(c) /\ d.slot[j] = c.slot[j]
  BY <1>1, <1>4, <1>5 DEF InUse
<1>7. Blocks(d) = Blocks(c) \ {c.slot[x].block}
  BY <1>2, <1>5, <1>6 DEF Blocks, Good, CacheSound, NoDuplicateBlock
<1>8. CountIsExact(d)
  <2>1. Cardinality(InUse(d)) = c.count - 1
    BY <1>2, <1>3, <1>5, FiniteParts, FS_RemoveElement
  <2>2. c.slot[x].block \in Blocks(c)
    BY <1>2 DEF Blocks
  <2>3. IsFiniteSet(Blocks(c))
    BY <1>2, FiniteBlocks
  <2> DEFINE b == c.slot[x].block
  <2> HIDE DEF b
  <2>4. Cardinality(Blocks(c) \ {b}) = Cardinality(Blocks(c)) - 1
    BY <2>2, <2>3, FS_RemoveElement DEF b
  <2>5. Cardinality(Blocks(d)) = c.count - 1
    BY <1>3, <1>7, <2>4 DEF b
  <2> QED BY <1>4, <2>1, <2>5 DEF CountIsExact
<1>9. NoDuplicateBlock(d) /\ TicksDistinct(d) /\ TicksBehindClock(d) /\ GenerationUniform(d)
  BY <1>4, <1>6
     DEF Good, CacheSound, NoDuplicateBlock, TicksDistinct, TicksBehindClock, GenerationUniform
<1> QED BY <1>2, <1>4, <1>5, <1>8, <1>9 DEF Good, CacheSound, d, x

(* Filling a free slot adds one unpinned entry for a block that was absent, *)
(* more recent than every other.                                           *)
LEMMA FillEffect ==
  ASSUME NEW c, Good(c), NEW b \in BlockId, NEW v \in View, ~Resident(c, b), FreeSlots(c) # {}
  PROVE  LET d == Fill(c, b, v)
             x == First(FreeSlots(c))
             e == [block |-> b, view |-> v, gen |-> c.gen, tick |-> c.tick + 1, pinned |-> FALSE]
         IN  /\ x \in Slot \ InUse(c)
             /\ d.slot = [c.slot EXCEPT ![x] = e]
             /\ d.gen = c.gen /\ d.tick = c.tick + 1
             /\ InUse(d) = InUse(c) \cup {x}
             /\ Good(d)
<1> DEFINE d == Fill(c, b, v)
           x == First(FreeSlots(c))
           e == [block |-> b, view |-> v, gen |-> c.gen, tick |-> c.tick + 1, pinned |-> FALSE]
<1>1. /\ c \in Cache /\ c.slot \in [Slot -> Entry \cup {Free}] /\ c.count \in Nat
      /\ c.tick \in Nat /\ c.gen \in Generation
  BY DEF Good, Cache
<1>2. x \in Slot \ InUse(c)
  <2>1. FreeSlots(c) \in SUBSET Slot
    BY DEF FreeSlots
  <2>2. x \in FreeSlots(c)
    BY <2>1, FirstIsMember
  <2> QED BY <2>2 DEF FreeSlots
<1>3. e \in Entry /\ e # Free
  <2>1. e \in Entry
    BY <1>1 DEF Entry
  <2> QED BY <2>1, FreeAssumption
<1>4. /\ d.slot = [c.slot EXCEPT ![x] = e] /\ d.count = c.count + 1
      /\ d.tick = c.tick + 1 /\ d.gen = c.gen /\ d \in Cache
  <2>1. d = [c EXCEPT !.slot = [c.slot EXCEPT ![x] = e], !.count = c.count + 1,
                      !.tick = c.tick + 1]
    BY DEF Fill
  <2> DEFINE s == [c.slot EXCEPT ![x] = e]
  <2>2. s \in [Slot -> Entry \cup {Free}]
    <3> HIDE DEF x, e
    <3> QED BY <1>1, <1>2, <1>3
  <2> DEFINE n == c.count + 1
             t == c.tick + 1
  <2>3. n \in Nat /\ t \in Nat
    BY <1>1
  <2> HIDE DEF d, x, e, s, n, t
  <2>4. d = [c EXCEPT !.slot = s, !.count = n, !.tick = t]
    BY <2>1 DEF s, n, t
  <2>5. d.slot = s /\ d.count = n /\ d.tick = t /\ d.gen = c.gen /\ d \in Cache
    BY <1>1, <2>2, <2>3, <2>4 DEF Cache
  <2> QED BY <2>5 DEF s, n, t
<1>5. e.block = b /\ e.tick = c.tick + 1 /\ e.gen = c.gen
  OBVIOUS
<1>6. QED
  <2> HIDE DEF d, x, e
  <2>1. InUse(d) = InUse(c) \cup {x}
    BY <1>1, <1>2, <1>3, <1>4 DEF InUse
  <2>2. d.slot[x] = e /\ \A j \in InUse(c) : j # x /\ d.slot[j] = c.slot[j]
    BY <1>1, <1>2, <1>4 DEF InUse
  <2>3. \A j \in InUse(c) : c.slot[j].block # b
    BY DEF Resident, Holding
  <2>4. \A j \in InUse(c) : c.slot[j].tick \in Nat /\ c.slot[j].tick <= c.tick
    BY <1>1 DEF Good, CacheSound, TicksBehindClock, InUse, Entry
  <2>5. CountIsExact(d)
    <3>1. c.count = Cardinality(InUse(c)) /\ c.count = Cardinality(Blocks(c))
      BY DEF Good, CacheSound, CountIsExact
    <3>2. Cardinality(InUse(d)) = c.count + 1
      BY <1>2, <2>1, <3>1, FiniteParts, FS_AddElement
    <3>3. Blocks(d) = Blocks(c) \cup {b} /\ b \notin Blocks(c)
      BY <1>5, <2>1, <2>2, <2>3 DEF Blocks
    <3>4. Cardinality(Blocks(c) \cup {b}) = c.count + 1
      BY <3>1, <3>3, FiniteBlocks, FS_AddElement
    <3> QED BY <1>4, <3>2, <3>3, <3>4 DEF CountIsExact
  <2>6. NoDuplicateBlock(d)
    BY <1>5, <2>1, <2>2, <2>3 DEF Good, CacheSound, NoDuplicateBlock
  <2>7. TicksDistinct(d)
    BY <1>1, <1>5, <2>1, <2>2, <2>4 DEF Good, CacheSound, TicksDistinct
  <2>8. TicksBehindClock(d)
    BY <1>1, <1>4, <1>5, <2>1, <2>2, <2>4 DEF TicksBehindClock
  <2>9. GenerationUniform(d)
    BY <1>4, <1>5, <2>1, <2>2 DEF Good, CacheSound, GenerationUniform
  <2>10. Good(d)
    BY <1>4, <2>5, <2>6, <2>7, <2>8, <2>9 DEF Good, CacheSound
  <2> QED BY <1>2, <1>4, <2>1, <2>10 DEF d, x, e

(* Entries in use are entries.                                             *)
LEMMA EntryInUse ==
  ASSUME NEW c \in Cache, NEW i \in InUse(c)
  PROVE  /\ c.slot[i] \in Entry
         /\ c.slot[i].block \in BlockId /\ c.slot[i].view \in View
         /\ c.slot[i].gen \in Generation /\ c.slot[i].tick \in Nat
         /\ c.slot[i].pinned \in BOOLEAN
<1>1. c.slot[i] \in Entry
  BY DEF Cache, InUse
<1> QED BY <1>1 DEF Entry

(* The three in-place updates of rv_cache.c: a refresh by put, the touch   *)
(* of a hit, and setting the pin flag.                                     *)
RefreshedEntry(c, b, v) ==
  [c.slot[Find(c, b)] EXCEPT !.view = v, !.gen = c.gen, !.tick = c.tick + 1]
TouchedEntry(c, b) == [c.slot[Find(c, b)] EXCEPT !.tick = c.tick + 1]
FlaggedEntry(c, b, f) == [c.slot[Find(c, b)] EXCEPT !.pinned = f]

(* d is c with the entry in slot i, in use, overwritten by e for the same  *)
(* block.                                                                  *)
InPlace(c, d, i, e) ==
  /\ i \in InUse(c)
  /\ e \in Entry /\ e.block = c.slot[i].block
  /\ d.slot = [c.slot EXCEPT ![i] = e]
  /\ d.gen = c.gen
  /\ InUse(d) = InUse(c)
  /\ Good(d)

(* A record update that swaps one entry and the clock is an in-place update. *)
LEMMA InPlaceByFields ==
  ASSUME NEW c, Good(c), NEW i \in InUse(c), NEW e \in Entry, NEW t \in Nat,
         e.block = c.slot[i].block, e.gen = c.gen,
         \/ t = c.tick /\ e.tick = c.slot[i].tick
         \/ t = c.tick + 1 /\ e.tick = t
  PROVE  InPlace(c, [c EXCEPT !.slot[i] = e, !.tick = t], i, e)
<1> DEFINE d == [c EXCEPT !.slot[i] = e, !.tick = t]
<1>1. c \in Cache /\ i \in Slot
  BY DEF Good, InUse
<1>2. /\ d \in Cache /\ d.slot = [c.slot EXCEPT ![i] = e] /\ d.count = c.count
      /\ d.tick = t /\ d.gen = c.gen
  BY <1>1 DEF Cache
<1> HIDE DEF d
<1>3. Good(d) /\ InUse(d) = InUse(c)
  BY <1>2, OverwriteInPlace
<1> QED BY <1>2, <1>3 DEF InPlace, d

(* rv_cache_find of a resident block returns an entry of that block.       *)
LEMMA FoundEntry ==
  ASSUME NEW c, Good(c), NEW b, Resident(c, b)
  PROVE  /\ Find(c, b) \in InUse(c) /\ c.slot[Find(c, b)] \in Entry
         /\ c.slot[Find(c, b)].block = b /\ c.slot[Find(c, b)].gen = c.gen
         /\ c.tick \in Nat /\ c.gen \in Generation
<1>1. c \in Cache /\ c.tick \in Nat /\ c.gen \in Generation
  BY DEF Good, Cache
<1>2. Find(c, b) \in InUse(c) /\ c.slot[Find(c, b)].block = b
  BY FindIsUnique
<1> QED BY <1>1, <1>2, EntryInUse DEF Good, CacheSound, GenerationUniform

(* A put of a resident block renews its view and tick and keeps its pin.   *)
LEMMA RefreshEffect ==
  ASSUME NEW c, Good(c), NEW b, Resident(c, b), NEW v \in View
  PROVE  LET e == RefreshedEntry(c, b, v)
         IN  /\ InPlace(c, Refresh(c, b, v), Find(c, b), e)
             /\ e.view = v /\ e.tick = c.tick + 1 /\ e.pinned = c.slot[Find(c, b)].pinned
<1> DEFINE o == c.slot[Find(c, b)]
           e == RefreshedEntry(c, b, v)
           t == c.tick + 1
<1>1. o \in Entry /\ t \in Nat /\ c.gen \in Generation /\ e = [o EXCEPT !.view = v, !.gen = c.gen, !.tick = t]
  BY FoundEntry DEF RefreshedEntry
<1>2. Refresh(c, b, v) = [c EXCEPT !.slot[Find(c, b)] = e, !.tick = t]
  BY DEF Refresh, RefreshedEntry
<1> HIDE DEF o, e, t
<1>3. /\ e \in Entry /\ e.block = o.block /\ e.gen = c.gen /\ e.tick = t /\ e.view = v
      /\ e.pinned = o.pinned
  BY <1>1 DEF Entry
<1>4. InPlace(c, [c EXCEPT !.slot[Find(c, b)] = e, !.tick = t], Find(c, b), e)
  BY <1>1, <1>3, FoundEntry, InPlaceByFields DEF o, t
<1> QED BY <1>2, <1>3, <1>4 DEF o, e, t

(* A get of a resident block is a hit and renews its tick only.            *)
LEMMA GetEffect ==
  ASSUME NEW c, Good(c), NEW b, Resident(c, b)
  PROVE  LET e == TouchedEntry(c, b)
             o == c.slot[Find(c, b)]
         IN  /\ Hit(c, b)
             /\ InPlace(c, Get(c, b), Find(c, b), e)
             /\ e.view = o.view /\ e.tick = c.tick + 1 /\ e.pinned = o.pinned
<1> DEFINE o == c.slot[Find(c, b)]
           e == TouchedEntry(c, b)
           t == c.tick + 1
<1>1. o \in Entry /\ o.gen = c.gen /\ t \in Nat /\ e = [o EXCEPT !.tick = t]
  BY FoundEntry DEF TouchedEntry
<1>2. Hit(c, b)
  BY <1>1 DEF Hit
<1>3. Get(c, b) = [c EXCEPT !.slot[Find(c, b)] = e, !.tick = t]
  BY <1>2 DEF Get, TouchedEntry
<1> HIDE DEF o, e, t
<1>4. /\ e \in Entry /\ e.block = o.block /\ e.gen = c.gen /\ e.tick = t /\ e.view = o.view
      /\ e.pinned = o.pinned
  BY <1>1 DEF Entry
<1>5. InPlace(c, [c EXCEPT !.slot[Find(c, b)] = e, !.tick = t], Find(c, b), e)
  BY <1>1, <1>4, FoundEntry, InPlaceByFields DEF o, t
<1> QED BY <1>2, <1>3, <1>4, <1>5 DEF o, e, t

(* A pin or unpin of a resident block changes its flag only.               *)
LEMMA SetPinEffect ==
  ASSUME NEW c, Good(c), NEW b, Resident(c, b), NEW f \in BOOLEAN
  PROVE  LET e == FlaggedEntry(c, b, f)
             o == c.slot[Find(c, b)]
         IN  /\ InPlace(c, SetPin(c, b, f), Find(c, b), e)
             /\ e.view = o.view /\ e.tick = o.tick /\ e.pinned = f
<1> DEFINE o == c.slot[Find(c, b)]
           e == FlaggedEntry(c, b, f)
           t == c.tick
<1>1. /\ o \in Entry /\ o.gen = c.gen /\ t \in Nat /\ e = [o EXCEPT !.pinned = f] /\ c \in Cache
      /\ Find(c, b) \in Slot
  BY FoundEntry DEF FlaggedEntry, Good, InUse
<1>2. SetPin(c, b, f) = [c EXCEPT !.slot[Find(c, b)] = e, !.tick = t]
  <2>1. SetPin(c, b, f) = [c EXCEPT !.slot[Find(c, b)] = e]
    BY DEF SetPin, FlaggedEntry
  <2>2. [c EXCEPT !.slot[Find(c, b)] = e] = [c EXCEPT !.slot[Find(c, b)] = e, !.tick = c.tick]
    <3> HIDE DEF e
    <3> QED BY <1>1 DEF Cache
  <2> QED BY <2>1, <2>2
<1> HIDE DEF o, e, t
<1>3. /\ e \in Entry /\ e.block = o.block /\ e.gen = c.gen /\ e.tick = o.tick /\ e.view = o.view
      /\ e.pinned = f
  BY <1>1 DEF Entry
<1>4. InPlace(c, [c EXCEPT !.slot[Find(c, b)] = e, !.tick = t], Find(c, b), e)
  BY <1>1, <1>3, FoundEntry, InPlaceByFields DEF o, t
<1> QED BY <1>2, <1>3, <1>4 DEF o, e, t

(* A put into a sound cache is one of: refused, a refresh, a fill of a     *)
(* free slot, or a fill of the slot an eviction has just freed.            *)
LEMMA PutCases ==
  ASSUME NEW c, Good(c), NEW b \in BlockId, NEW v \in View
  PROVE  \/ /\ Resident(c, b) /\ PutSucceeds(c, b)
            /\ PutFromBlock(c, b, v) = Refresh(c, b, v)
         \/ /\ ~Resident(c, b) /\ ~Full(c) /\ FreeSlots(c) # {} /\ PutSucceeds(c, b)
            /\ PutFromBlock(c, b, v) = Fill(c, b, v)
         \/ /\ ~Resident(c, b) /\ Full(c) /\ Evictable(c) # {} /\ PutSucceeds(c, b)
            /\ Good(EvictLru(c)) /\ FreeSlots(EvictLru(c)) # {} /\ ~Resident(EvictLru(c), b)
            /\ PutFromBlock(c, b, v) = Fill(EvictLru(c), b, v)
         \/ /\ ~Resident(c, b) /\ Full(c) /\ Evictable(c) = {} /\ ~PutSucceeds(c, b)
            /\ PutFromBlock(c, b, v) = c
<1>1. CASE Resident(c, b)
  BY <1>1 DEF PutFromBlock, PutSucceeds
<1>2. CASE ~Resident(c, b) /\ ~Full(c)
  BY <1>2, FullMeansNoFreeSlot DEF PutFromBlock, PutSucceeds
<1>3. CASE ~Resident(c, b) /\ Full(c) /\ Evictable(c) = {}
  BY <1>3 DEF PutFromBlock, PutSucceeds
<1>4. CASE ~Resident(c, b) /\ Full(c) /\ Evictable(c) # {}
  <2> DEFINE d == EvictLru(c)
             x == Victim(c)
  <2>1. /\ Good(d) /\ InUse(d) = InUse(c) \ {x} /\ x \in InUse(c)
        /\ d.slot = [c.slot EXCEPT ![x] = Free] /\ c.slot \in [Slot -> Entry \cup {Free}]
    BY <1>4, EvictEffect DEF Good, Cache
  <2>2. PutSucceeds(c, b) /\ PutFromBlock(c, b, v) = Fill(d, b, v)
    BY <1>4 DEF PutFromBlock, PutSucceeds
  <2> HIDE DEF d, x
  <2>3. x \in FreeSlots(d)
    BY <2>1 DEF FreeSlots, InUse
  <2>4. ~Resident(d, b)
    BY <1>4, <2>1 DEF Resident, Holding, InUse
  <2> QED BY <1>4, <2>1, <2>2, <2>3, <2>4 DEF d
<1> QED BY <1>1, <1>2, <1>3, <1>4

(* rv_cache_put_from_block keeps the bookkeeping sound.                    *)
LEMMA PutKeepsGood ==
  ASSUME NEW c, Good(c), NEW b \in BlockId, NEW v \in View
  PROVE  Good(PutFromBlock(c, b, v))
<1>1. Resident(c, b) => Good(Refresh(c, b, v))
  BY RefreshEffect DEF InPlace
<1>2. ASSUME NEW d, Good(d), ~Resident(d, b), FreeSlots(d) # {} PROVE Good(Fill(d, b, v))
  BY <1>2, FillEffect
<1> QED BY <1>1, <1>2, PutCases

(* rv_cache_evict_lru keeps the bookkeeping sound.                         *)
LEMMA EvictKeepsGood ==
  ASSUME NEW c, Good(c)
  PROVE  Good(EvictLru(c))
<1>1. Evictable(c) = {} => EvictLru(c) = c
  BY DEF EvictLru
<1> QED BY <1>1, EvictEffect

(* rv_cache_get keeps the bookkeeping sound.                               *)
LEMMA GetKeepsGood ==
  ASSUME NEW c, Good(c), NEW b
  PROVE  Good(Get(c, b))
<1>1. Resident(c, b) => Good(Get(c, b))
  BY GetEffect DEF InPlace
<1> QED BY <1>1 DEF Get, Hit

(* rv_cache_pin and rv_cache_unpin keep the bookkeeping sound.             *)
LEMMA SetPinKeepsGood ==
  ASSUME NEW c, Good(c), NEW b, NEW f \in BOOLEAN
  PROVE  Good(SetPin(c, b, f))
<1>1. Resident(c, b) => Good(SetPin(c, b, f))
  BY SetPinEffect DEF InPlace
<1> QED BY <1>1 DEF SetPin

(* A cache without entries is sound whatever its clock and generation.     *)
LEMMA NoEntriesGood ==
  ASSUME NEW c \in Cache, c.slot = [i \in Slot |-> Free], c.count = 0
  PROVE  Good(c) /\ InUse(c) = {}
<1>1. InUse(c) = {} /\ Blocks(c) = {}
  BY DEF InUse, Blocks
<1> QED BY <1>1, FS_EmptySet
        DEF Good, CacheSound, CountIsExact, NoDuplicateBlock, TicksDistinct, TicksBehindClock,
            GenerationUniform

(* rv_cache_invalidate leaves a sound, empty cache of the next generation. *)
LEMMA InvalidateKeepsGood ==
  ASSUME NEW c, Good(c)
  PROVE  /\ Good(Invalidate(c)) /\ InUse(Invalidate(c)) = {}
         /\ Invalidate(c).gen = NextGen(c.gen)
<1> DEFINE d == Invalidate(c)
           g == NextGen(c.gen)
           s == [i \in Slot |-> Free]
<1>1. c \in Cache /\ c.gen \in Generation /\ g \in Generation
  BY DEF Good, Cache, NextGen, Generation
<1>2. d = [c EXCEPT !.slot = s, !.count = 0, !.gen = g]
  BY DEF Invalidate
<1>3. s \in [Slot -> Entry \cup {Free}]
  OBVIOUS
<1> HIDE DEF d, g, s
<1>4. d \in Cache /\ d.slot = s /\ d.count = 0 /\ d.gen = g
  BY <1>1, <1>2, <1>3 DEF Cache
<1> QED BY <1>4, NoEntriesGood DEF d, g, s

(* rv_cache_init leaves a sound cache.                                     *)
LEMMA EmptyCacheGood == Good(EmptyCache)
<1>1. EmptyCache \in Cache
  BY DEF EmptyCache, Cache, Generation
<1> QED BY <1>1, NoEntriesGood DEF EmptyCache

-----------------------------------------------------------------------------
(***************************************************************************)
(* Pinned entries.                                                         *)
(***************************************************************************)

(* The entry in slot i of c is still in d, for the same block.             *)
KeepsBlock(c, d, i) == d.slot[i] # Free /\ d.slot[i].block = c.slot[i].block

(* An in-place update leaves every block in its slot.                      *)
LEMMA InPlaceKeepsBlocks ==
  ASSUME NEW c, Good(c), NEW d, NEW k, NEW e, InPlace(c, d, k, e), NEW i \in InUse(c)
  PROVE  KeepsBlock(c, d, i)
<1>1. c.slot \in [Slot -> Entry \cup {Free}] /\ i \in Slot /\ c.slot[i] # Free
  BY DEF Good, Cache, InUse
<1> QED BY <1>1 DEF InPlace, KeepsBlock

(* An eviction leaves pinned entries as they are.                          *)
LEMMA EvictKeepsPinned ==
  ASSUME NEW c, Good(c), NEW i \in Pinned(c)
  PROVE  /\ EvictLru(c).slot[i] = c.slot[i] /\ KeepsBlock(c, EvictLru(c), i)
         /\ i \in InUse(EvictLru(c))
<1>1. i \in InUse(c) /\ i \in Slot /\ c.slot[i].pinned /\ c.slot[i] # Free
  BY DEF Pinned, InUse
<1>2. Evictable(c) = {} => EvictLru(c) = c
  BY DEF EvictLru
<1>3. ASSUME Evictable(c) # {}
      PROVE  EvictLru(c).slot[i] = c.slot[i] /\ i \in InUse(EvictLru(c))
  <2>1. c.slot \in [Slot -> Entry \cup {Free}]
    BY DEF Good, Cache
  <2> QED BY <1>1, <1>3, <2>1, EvictEffect
<1> QED BY <1>1, <1>2, <1>3 DEF KeepsBlock

(* A fill leaves the entries in use as they are.                           *)
LEMMA FillKeepsOthers ==
  ASSUME NEW c, Good(c), NEW b \in BlockId, NEW v \in View, ~Resident(c, b), FreeSlots(c) # {},
         NEW i \in InUse(c)
  PROVE  Fill(c, b, v).slot[i] = c.slot[i] /\ KeepsBlock(c, Fill(c, b, v), i)
<1> DEFINE x == First(FreeSlots(c))
           e == [block |-> b, view |-> v, gen |-> c.gen, tick |-> c.tick + 1, pinned |-> FALSE]
<1>1. c.slot \in [Slot -> Entry \cup {Free}] /\ i \in Slot /\ c.slot[i] # Free
  BY DEF Good, Cache, InUse
<1>2. x \in Slot \ InUse(c) /\ Fill(c, b, v).slot = [c.slot EXCEPT ![x] = e]
  BY FillEffect
<1> HIDE DEF x, e
<1> QED BY <1>1, <1>2 DEF KeepsBlock

(* A put, evicting or not, leaves a pinned block in its slot.              *)
LEMMA PutKeepsPinned ==
  ASSUME NEW c, Good(c), NEW b \in BlockId, NEW v \in View, NEW i \in Pinned(c)
  PROVE  KeepsBlock(c, PutFromBlock(c, b, v), i)
<1>1. i \in InUse(c) /\ KeepsBlock(c, c, i)
  BY DEF Pinned, InUse, KeepsBlock
<1>2. Resident(c, b) => KeepsBlock(c, Refresh(c, b, v), i)
  BY <1>1, RefreshEffect, InPlaceKeepsBlocks
<1>3. ~Resident(c, b) /\ FreeSlots(c) # {} => KeepsBlock(c, Fill(c, b, v), i)
  BY <1>1, FillKeepsOthers
<1>4. ASSUME Good(EvictLru(c)), ~Resident(EvictLru(c), b), FreeSlots(EvictLru(c)) # {}
      PROVE  KeepsBlock(c, Fill(EvictLru(c), b, v), i)
  <2>1. EvictLru(c).slot[i] = c.slot[i] /\ i \in InUse(EvictLru(c))
    BY EvictKeepsPinned
  <2>2. KeepsBlock(EvictLru(c), Fill(EvictLru(c), b, v), i)
    BY <1>4, <2>1, FillKeepsOthers
  <2> QED BY <2>1, <2>2 DEF KeepsBlock
<1> QED BY <1>1, <1>2, <1>3, <1>4, PutCases

(* A get leaves every block in its slot.                                   *)
LEMMA GetKeepsBlocks ==
  ASSUME NEW c, Good(c), NEW b, NEW i \in InUse(c)
  PROVE  KeepsBlock(c, Get(c, b), i)
<1>1. KeepsBlock(c, c, i)
  BY DEF InUse, KeepsBlock
<1>2. Resident(c, b) => KeepsBlock(c, Get(c, b), i)
  BY GetEffect, InPlaceKeepsBlocks
<1> QED BY <1>1, <1>2 DEF Get, Hit

(* A pin or unpin leaves every block in its slot.                          *)
LEMMA SetPinKeepsBlocks ==
  ASSUME NEW c, Good(c), NEW b, NEW f \in BOOLEAN, NEW i \in InUse(c)
  PROVE  KeepsBlock(c, SetPin(c, b, f), i)
<1>1. KeepsBlock(c, c, i)
  BY DEF InUse, KeepsBlock
<1>2. Resident(c, b) => KeepsBlock(c, SetPin(c, b, f), i)
  BY SetPinEffect, InPlaceKeepsBlocks
<1> QED BY <1>1, <1>2 DEF SetPin

-----------------------------------------------------------------------------
(***************************************************************************)
(* What each operation does to the set of pinned blocks, and to the block  *)
(* and view pairs in the cache.                                            *)
(***************************************************************************)

Pairs(c) == {<<c.slot[i].block, c.slot[i].view>> : i \in InUse(c)}

(* An in-place update: every other entry is as it was.                     *)
LEMMA InPlaceOthers ==
  ASSUME NEW c, Good(c), NEW d, NEW k, NEW e, InPlace(c, d, k, e)
  PROVE  /\ k \in InUse(c) /\ d.slot[k] = e /\ e.block = c.slot[k].block
         /\ InUse(d) = InUse(c)
         /\ \A i \in InUse(c) : i # k => d.slot[i] = c.slot[i]
<1>1. c.slot \in [Slot -> Entry \cup {Free}] /\ InUse(c) \subseteq Slot
  BY DEF Good, Cache, InUse
<1> QED BY <1>1 DEF InPlace

(* An update that keeps the pin flag keeps the pinned blocks; one that     *)
(* keeps the view keeps the pairs.                                         *)
LEMMA InPlaceHeld ==
  ASSUME NEW c, Good(c), NEW d, NEW k, NEW e, InPlace(c, d, k, e),
         e.pinned = c.slot[k].pinned
  PROVE  Held(d) = Held(c)
<1>1. \A i \in InUse(c) : d.slot[i].block = c.slot[i].block /\ d.slot[i].pinned = c.slot[i].pinned
  BY InPlaceOthers
<1>2. Pinned(d) = Pinned(c)
  BY <1>1, InPlaceOthers DEF Pinned
<1> QED BY <1>1, <1>2 DEF Held, Pinned

(* An in-place update adds at most the pair of its new entry.              *)
LEMMA InPlacePairs ==
  ASSUME NEW c, Good(c), NEW d, NEW k, NEW e, InPlace(c, d, k, e)
  PROVE  /\ Pairs(d) \subseteq Pairs(c) \cup {<<e.block, e.view>>}
         /\ e.view = c.slot[k].view => Pairs(d) \subseteq Pairs(c)
<1>1. \A i \in InUse(c) : d.slot[i].block = c.slot[i].block
  BY InPlaceOthers
<1> QED BY <1>1, InPlaceOthers DEF Pairs

(* Pinning and unpinning.                                                  *)
LEMMA PinHeld ==
  ASSUME NEW c, Good(c), NEW b
  PROVE  /\ Held(Pin(c, b)) \subseteq Held(c) \cup {b}
         /\ Held(Unpin(c, b)) \subseteq Held(c) \ {b}
<1>1. CASE ~Resident(c, b)
  <2>1. Pin(c, b) = c /\ Unpin(c, b) = c
    BY <1>1 DEF Pin, Unpin, SetPin
  <2>2. b \notin Held(c)
    BY <1>1 DEF Held, Pinned, Resident, Holding
  <2> QED BY <2>1, <2>2
<1>2. CASE Resident(c, b)
  <2> DEFINE k == Find(c, b)
             p == Pin(c, b)
             u == Unpin(c, b)
             ep == FlaggedEntry(c, b, TRUE)
             eu == FlaggedEntry(c, b, FALSE)
  <2>1. k \in InUse(c) /\ c.slot[k].block = b /\ \A i \in InUse(c) : c.slot[i].block = b => i = k
    BY <1>2, FindIsUnique
  <2>2. InPlace(c, p, k, ep) /\ InPlace(c, u, k, eu) /\ eu.pinned = FALSE
    BY <1>2, SetPinEffect DEF Pin, Unpin
  <2> HIDE DEF k, p, u, ep, eu
  <2>3. /\ InUse(p) = InUse(c) /\ p.slot[k].block = b
        /\ \A i \in InUse(c) : i # k => p.slot[i] = c.slot[i]
    BY <2>1, <2>2, InPlaceOthers
  <2>4. /\ InUse(u) = InUse(c) /\ ~u.slot[k].pinned
        /\ \A i \in InUse(c) : i # k => u.slot[i] = c.slot[i]
    BY <2>1, <2>2, InPlaceOthers
  <2>5. Held(p) \subseteq Held(c) \cup {b}
    BY <2>3 DEF Held, Pinned
  <2>6. Held(u) \subseteq Held(c) \ {b}
    BY <2>1, <2>4 DEF Held, Pinned
  <2> QED BY <2>5, <2>6 DEF p, u
<1> QED BY <1>1, <1>2

(* A resident block is pinned by a pin, in its place and with its view.    *)
LEMMA PinPins ==
  ASSUME NEW c, Good(c), NEW b, Resident(c, b)
  PROVE  /\ Find(c, b) \in Pinned(Pin(c, b))
         /\ Pin(c, b).slot[Find(c, b)].view = c.slot[Find(c, b)].view
<1> DEFINE e == FlaggedEntry(c, b, TRUE)
<1>1. /\ InPlace(c, Pin(c, b), Find(c, b), e) /\ e.pinned = TRUE
      /\ e.view = c.slot[Find(c, b)].view
  BY SetPinEffect DEF Pin
<1> HIDE DEF e
<1> QED BY <1>1, InPlaceOthers DEF Pinned

(* Setting a flag keeps the pairs, and every block in its place.           *)
LEMMA SetPinPairs ==
  ASSUME NEW c, Good(c), NEW b, NEW f \in BOOLEAN
  PROVE  /\ Pairs(SetPin(c, b, f)) \subseteq Pairs(c)
         /\ InUse(SetPin(c, b, f)) = InUse(c)
         /\ \A i \in InUse(c) : /\ SetPin(c, b, f).slot[i].block = c.slot[i].block
                                /\ SetPin(c, b, f).slot[i].view = c.slot[i].view
<1>1. CASE ~Resident(c, b)
  BY <1>1 DEF SetPin
<1>2. CASE Resident(c, b)
  <2> DEFINE d == SetPin(c, b, f)
             e == FlaggedEntry(c, b, f)
             k == Find(c, b)
  <2>1. InPlace(c, d, k, e) /\ e.view = c.slot[k].view
    BY <1>2, SetPinEffect
  <2> HIDE DEF d, e, k
  <2>2. Pairs(d) \subseteq Pairs(c)
    BY <2>1, InPlacePairs
  <2>3. InUse(d) = InUse(c) /\ \A i \in InUse(c) : /\ d.slot[i].block = c.slot[i].block
                                                   /\ d.slot[i].view = c.slot[i].view
    BY <2>1, InPlaceOthers
  <2> QED BY <2>2, <2>3 DEF d
<1> QED BY <1>1, <1>2

(* A hit or a miss.                                                        *)
LEMMA GetHeld ==
  ASSUME NEW c, Good(c), NEW b
  PROVE  Held(Get(c, b)) = Held(c) /\ Pairs(Get(c, b)) \subseteq Pairs(c)
<1>1. CASE ~Resident(c, b)
  BY <1>1 DEF Get, Hit
<1>2. CASE Resident(c, b)
  <2> DEFINE e == TouchedEntry(c, b)
             d == Get(c, b)
  <2>1. /\ InPlace(c, d, Find(c, b), e)
        /\ e.pinned = c.slot[Find(c, b)].pinned /\ e.view = c.slot[Find(c, b)].view
    BY <1>2, GetEffect
  <2> HIDE DEF d, e
  <2>2. Held(d) = Held(c)
    BY <2>1, InPlaceHeld
  <2>3. Pairs(d) \subseteq Pairs(c)
    BY <2>1, InPlacePairs
  <2> QED BY <2>2, <2>3 DEF d
<1> QED BY <1>1, <1>2

(* An eviction.                                                            *)
LEMMA EvictHeld ==
  ASSUME NEW c, Good(c)
  PROVE  Held(EvictLru(c)) = Held(c) /\ Pairs(EvictLru(c)) \subseteq Pairs(c)
<1>1. CASE Evictable(c) = {}
  BY <1>1 DEF EvictLru
<1>2. CASE Evictable(c) # {}
  <2> DEFINE d == EvictLru(c)
             x == Victim(c)
  <2>1. /\ InUse(d) = InUse(c) \ {x} /\ x \in InUse(c) /\ ~c.slot[x].pinned
        /\ d.slot = [c.slot EXCEPT ![x] = Free] /\ c.slot \in [Slot -> Entry \cup {Free}]
    BY <1>2, EvictEffect DEF Good, Cache
  <2> HIDE DEF d, x
  <2>2. \A i \in InUse(d) : i \in InUse(c) /\ d.slot[i] = c.slot[i]
    BY <2>1 DEF InUse
  <2>3. Pinned(d) = Pinned(c)
    BY <2>1, <2>2 DEF Pinned
  <2>4. Held(d) = Held(c)
    BY <2>2, <2>3 DEF Held, Pinned
  <2>5. Pairs(d) \subseteq Pairs(c)
    BY <2>2 DEF Pairs
  <2> QED BY <2>4, <2>5 DEF d
<1> QED BY <1>1, <1>2

(* Filling a free slot.                                                    *)
LEMMA FillHeld ==
  ASSUME NEW c, Good(c), NEW b \in BlockId, NEW v \in View, ~Resident(c, b), FreeSlots(c) # {}
  PROVE  /\ Held(Fill(c, b, v)) = Held(c)
         /\ Pairs(Fill(c, b, v)) \subseteq Pairs(c) \cup {<<b, v>>}
         /\ Resident(Fill(c, b, v), b)
<1> DEFINE d == Fill(c, b, v)
           x == First(FreeSlots(c))
           e == [block |-> b, view |-> v, gen |-> c.gen, tick |-> c.tick + 1, pinned |-> FALSE]
<1>1. c.slot \in [Slot -> Entry \cup {Free}]
  BY DEF Good, Cache
<1>2. /\ InUse(d) = InUse(c) \cup {x} /\ x \in Slot \ InUse(c)
      /\ d.slot = [c.slot EXCEPT ![x] = e]
  BY FillEffect, Zenon
<1>3. e.block = b /\ e.view = v /\ e.pinned = FALSE
  OBVIOUS
<1> HIDE DEF d, x, e
<1>4. d.slot[x] = e /\ \A i \in InUse(c) : i # x /\ d.slot[i] = c.slot[i]
  BY <1>1, <1>2 DEF InUse
<1>5. Pinned(d) = Pinned(c)
  BY <1>2, <1>3, <1>4 DEF Pinned
<1>6. Held(d) = Held(c)
  BY <1>4, <1>5 DEF Held, Pinned
<1>7. Pairs(d) \subseteq Pairs(c) \cup {<<b, v>>}
  BY <1>2, <1>3, <1>4 DEF Pairs
<1>8. Resident(d, b)
  BY <1>2, <1>3, <1>4 DEF Resident, Holding
<1> QED BY <1>6, <1>7, <1>8 DEF d

(* A put, whichever way it goes.                                           *)
LEMMA PutHeld ==
  ASSUME NEW c, Good(c), NEW b \in BlockId, NEW v \in View
  PROVE  /\ Held(PutFromBlock(c, b, v)) = Held(c)
         /\ Pairs(PutFromBlock(c, b, v)) \subseteq Pairs(c) \cup {<<b, v>>}
         /\ PutSucceeds(c, b) => Resident(PutFromBlock(c, b, v), b)
<1>1. ASSUME Resident(c, b)
      PROVE  /\ Held(Refresh(c, b, v)) = Held(c)
             /\ Pairs(Refresh(c, b, v)) \subseteq Pairs(c) \cup {<<b, v>>}
             /\ Resident(Refresh(c, b, v), b)
  <2> DEFINE e == RefreshedEntry(c, b, v)
             d == Refresh(c, b, v)
             k == Find(c, b)
  <2>1. InPlace(c, d, k, e) /\ e.view = v /\ e.pinned = c.slot[k].pinned
    BY <1>1, RefreshEffect
  <2>2. k \in InUse(c) /\ c.slot[k].block = b
    BY <1>1, FindIsUnique
  <2> HIDE DEF d, e, k
  <2>3. InUse(d) = InUse(c) /\ d.slot[k] = e /\ e.block = b
    BY <2>1, <2>2, InPlaceOthers
  <2>4. Held(d) = Held(c)
    BY <2>1, InPlaceHeld
  <2>5. Pairs(d) \subseteq Pairs(c) \cup {<<b, v>>}
    BY <2>1, <2>3, InPlacePairs
  <2>6. Resident(d, b)
    BY <2>2, <2>3 DEF Resident, Holding
  <2> QED BY <2>4, <2>5, <2>6 DEF d
<1>2. CASE Resident(c, b)
  BY <1>1, <1>2 DEF PutFromBlock, PutSucceeds
<1>3. CASE ~Resident(c, b) /\ ~Full(c)
  <2>1. PutFromBlock(c, b, v) = Fill(c, b, v) /\ FreeSlots(c) # {}
    BY <1>3, PutCases
  <2> QED BY <1>3, <2>1, FillHeld
<1>4. CASE ~Resident(c, b) /\ Full(c) /\ Evictable(c) # {}
  <2> DEFINE m == EvictLru(c)
  <2>1. /\ Good(m) /\ FreeSlots(m) # {} /\ ~Resident(m, b)
        /\ PutFromBlock(c, b, v) = Fill(m, b, v)
    BY <1>4, PutCases
  <2>2. Held(m) = Held(c) /\ Pairs(m) \subseteq Pairs(c)
    BY EvictHeld
  <2> HIDE DEF m
  <2>3. /\ Held(Fill(m, b, v)) = Held(m)
        /\ Pairs(Fill(m, b, v)) \subseteq Pairs(m) \cup {<<b, v>>}
        /\ Resident(Fill(m, b, v), b)
    BY <2>1, FillHeld
  <2> QED BY <2>1, <2>2, <2>3
<1>5. CASE ~Resident(c, b) /\ Full(c) /\ Evictable(c) = {}
  BY <1>5 DEF PutFromBlock, PutSucceeds
<1> QED BY <1>2, <1>3, <1>4, <1>5

(* An invalidation.                                                        *)
LEMMA InvalidateHeld ==
  ASSUME NEW c, Good(c)
  PROVE  Held(Invalidate(c)) = {} /\ Pairs(Invalidate(c)) = {}
BY InvalidateKeepsGood DEF Held, Pinned, Pairs

(* A refused put means that every slot holds a pinned block.               *)
LEMMA RefusedMeansAllHeld ==
  ASSUME NEW c, Good(c), NEW b \in BlockId, ~PutSucceeds(c, b)
  PROVE  IsFiniteSet(Held(c)) /\ Cardinality(Held(c)) = Capacity
<1>1. Full(c) /\ Evictable(c) = {}
  BY FullMeansNoFreeSlot DEF PutSucceeds
<1>2. Held(c) = Blocks(c)
  BY <1>1 DEF Held, Blocks, Evictable, Pinned
<1>3. c.count = Cardinality(Blocks(c)) /\ c.count \in Nat
  BY DEF Good, CacheSound, CountIsExact, Cache
<1>4. c.count = Capacity
  BY <1>1, <1>3, FullMeansNoFreeSlot, Slots DEF Full
<1> QED BY <1>2, <1>3, <1>4, FiniteBlocks
=============================================================================
