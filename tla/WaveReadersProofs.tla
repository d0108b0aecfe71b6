-------------------------- MODULE WaveReadersProofs --------------------------
(***************************************************************************)
(* Theorems about the readers of one session for any number of streams and *)
(* cursors, any cache capacity and any package: no pin leaks, a read is    *)
(* refused only when pins occupy the whole cache, and a slice always shows *)
(* the row of its own block.                                               *)
(***************************************************************************)
EXTENDS WaveReaders, WaveCacheOpsProofs, DataProofs

USE CapacityAssumption, FreeAssumption, MaxGenAssumption, ReadersAssumption, PackageAssumption,
    NoPinAssumption, IdsAssumption

-----------------------------------------------------------------------------
(***************************************************************************)
(* The lookups.                                                            *)
(***************************************************************************)

(* A map cell is 0 or a row with the id.                                   *)
LEMMA MapCellIsRow ==
  ASSUME NEW S, NEW table \in Seq(S), NEW id, MapCell(table, id) # 0
  PROVE  id \notin Unmapped /\ MapCell(table, id) \in RowsOf(table, id)
<1> DEFINE R == RowsOf(table, id)
           n == Len(table)
           D == {n - i : i \in R}
<1>1. R # {} /\ id \notin Unmapped
  BY DEF MapCell
<1>2. n \in Nat /\ R \subseteq 1 .. n
  BY DEF RowsOf
<1> HIDE DEF R, n
<1>3. D \in SUBSET Nat /\ D # {}
  <2>1. \A i \in R : n - i \in Nat
    BY <1>2
  <2>2. D \in SUBSET Nat
    BY <2>1
  <2>3. D # {}
    BY <1>1, Zenon
  <2> QED BY <2>2, <2>3
<1>4. PICK m \in D : \A d \in D : m <= d
  BY <1>3, LeastNatural
<1>5. PICK i \in R : m = n - i
  BY <1>4
<1>6. \A j \in R : j <= i
  <2> SUFFICES ASSUME NEW j \in R PROVE j <= i
    OBVIOUS
  <2>1. n - i <= n - j
    BY <1>4, <1>5
  <2> QED BY <1>2, <2>1
<1>7. MapCell(table, id) = CHOOSE k \in R : \A j \in R : j <= k
  BY <1>1 DEF MapCell, R
<1> QED BY <1>1, <1>5, <1>6, <1>7 DEF R

(* With unique ids the cell of a row's id is that row.                     *)
LEMMA UniqueCell ==
  ASSUME NEW S, NEW table \in Seq(S), UniqueIds(table), NEW i \in DOMAIN table,
         table[i].id \notin Unmapped
  PROVE  MapCell(table, table[i].id) = i
<1> DEFINE id == table[i].id
<1>1. i \in RowsOf(table, id) /\ \A j \in RowsOf(table, id) : j = i
  BY DEF RowsOf, UniqueIds, Unmapped
<1>2. DOMAIN table = 1 .. Len(table) /\ Len(table) \in Nat
  OBVIOUS
<1>3. \E k \in RowsOf(table, id) : \A j \in RowsOf(table, id) : j <= k
  BY <1>1, <1>2
<1>4. MapCell(table, id) \in RowsOf(table, id)
  BY <1>1, <1>3 DEF MapCell
<1> QED BY <1>1, <1>4

(* The rows of the wave table are blocks with their views.                 *)
LEMMA RowsTyped ==
  ASSUME tables \in Package
  PROVE  /\ tables.waves \in Seq(Wave) /\ tables.windows \in Seq(Window)
         /\ Len(tables.waves) \in Nat /\ DOMAIN tables.waves = 1 .. Len(tables.waves)
         /\ \A i \in DOMAIN tables.waves : /\ tables.waves[i].id \in BlockId
                                           /\ tables.waves[i].view \in View
<1>1. tables.waves \in Seq(Wave) /\ tables.windows \in Seq(Window)
  BY DEF Tables
<1>2. Len(tables.waves) \in Nat /\ DOMAIN tables.waves = 1 .. Len(tables.waves)
  BY <1>1
<1>3. \A i \in DOMAIN tables.waves : tables.waves[i] \in Wave
  BY <1>1
<1> QED BY <1>1, <1>2, <1>3 DEF Wave

(* The positions of a stream are numbers: the order is a fold that appends *)
(* a position or leaves the order as it is.                                *)
LEMMA OrderTyped ==
  ASSUME NEW t, NEW S, t.windows \in Seq(S), NEW route
  PROVE  WindowOrder(t, route) \in Seq(Nat)
<1> DEFINE rows == [i \in DOMAIN t.windows |-> i]
           n == Len(t.windows)
           V == Seq(Nat)
           base == << >>
           op(v, i) == IF route \in {0, t.windows[i].route} THEN Append(v, i) ELSE v
           H == [p \in V \X (1 .. n) |-> op(p[1], p[2])]
           eq(f) == [s \in SUBSET (1 .. n) |->
                       IF s = {} THEN base ELSE op(f[s \ {Max(s)}], rows[Max(s)])]
           iter == CHOOSE f : f = eq(f)
<1>1. /\ n \in Nat /\ DOMAIN t.windows = 1 .. n /\ base \in V
      /\ DOMAIN rows = 1 .. n /\ Len(rows) = n /\ \A i \in 1 .. n : rows[i] = i
  OBVIOUS
<1> HIDE DEF rows
<1>2. H \in [V \X (1 .. n) -> V]
  <2>1. ASSUME NEW p \in V \X (1 .. n) PROVE op(p[1], p[2]) \in V
    <3>1. p[1] \in V /\ p[2] \in Nat
      OBVIOUS
    <3> QED BY <3>1
  <2> HIDE DEF op
  <2> QED BY <2>1
<1>3. \A s \in SUBSET (1 .. n) : s # {} => Max(s) \in 1 .. n
  BY <1>1, MaxIsPosition
<1>4. PICK f \in [SUBSET (1 .. n) -> V] : Solves(f, n, base, H)
  <2> HIDE DEF H, n, V, base
  <2> QED BY <1>1, <1>2, FoldExists
<1>5. f = eq(f)
  <2> HIDE DEF op, base
  <2>1. \A s \in SUBSET (1 .. n) :
          f[s] = IF s = {} THEN base ELSE op(f[s \ {Max(s)}], rows[Max(s)])
    BY <1>1, <1>3, <1>4 DEF Solves
  <2> QED BY <1>4, <2>1
<1>6. iter = eq(iter)
  <2> HIDE DEF eq
  <2> QED BY <1>5
<1>7. Follows(iter, n, V, base, H)
  <2> HIDE DEF iter, op, base
  <2> QED BY <1>1, <1>3, <1>6 DEF Follows
<1>8. WindowOrder(t, route) = iter[1 .. n]
  BY <1>1 DEF WindowOrder, FoldLeft, MapThenFoldSet, rows
<1> HIDE DEF H, n, iter, V, base
<1>9. iter[1 .. n] \in V
  BY <1>1, <1>2, <1>7, FoldStays
<1> QED BY <1>8, <1>9 DEF V

-----------------------------------------------------------------------------
(***************************************************************************)
(* Loading, moving the pin and the forced eviction.                        *)
(***************************************************************************)

(* Only an invalidation changes the generation.                            *)
LEMMA SameGeneration ==
  ASSUME NEW c, Good(c)
  PROVE  /\ \A b : Get(c, b).gen = c.gen
         /\ \A b, f : SetPin(c, b, f).gen = c.gen
         /\ EvictLru(c).gen = c.gen
<1>1. c \in Cache
  BY DEF Good
<1>2. \A b : Get(c, b).gen = c.gen
  BY <1>1 DEF Get, Cache
<1>3. \A b, f : SetPin(c, b, f).gen = c.gen
  BY <1>1 DEF SetPin, Cache
<1>4. EvictLru(c).gen = c.gen
  BY <1>1 DEF EvictLru, Cache
<1> QED BY <1>2, <1>3, <1>4

(* A put keeps the generation.                                             *)
LEMMA PutSameGeneration ==
  ASSUME NEW c, Good(c), NEW b \in BlockId, NEW v \in View
  PROVE  PutFromBlock(c, b, v).gen = c.gen
<1>1. c \in Cache /\ EvictLru(c) \in Cache
  BY EvictKeepsGood DEF Good
<1>2. Refresh(c, b, v).gen = c.gen
  BY <1>1 DEF Refresh, Cache
<1>3. \A d \in Cache : Fill(d, b, v).gen = d.gen
  BY DEF Fill, Cache
<1> QED BY <1>1, <1>2, <1>3, SameGeneration DEF PutFromBlock

(* What a call that was served leaves behind: the block is in the cache,   *)
(* the pins are as before, and the only new entry is the block's row.      *)
LEMMA LoadEffect ==
  ASSUME NEW c, Good(c), NEW b \in BlockId, NEW v \in View, Served(c, b)
  PROVE  /\ Good(Load(c, b, v))
         /\ Load(c, b, v).gen = c.gen
         /\ Held(Load(c, b, v)) = Held(c)
         /\ Pairs(Load(c, b, v)) \subseteq Pairs(c) \cup {<<b, v>>}
         /\ Resident(Load(c, b, v), b)
<1>1. ASSUME NEW d, Good(d), Resident(d, b)
      PROVE  Good(Get(d, b)) /\ Get(d, b).gen = d.gen /\ Held(Get(d, b)) = Held(d)
             /\ Pairs(Get(d, b)) \subseteq Pairs(d) /\ Resident(Get(d, b), b)
  <2> DEFINE g == Get(d, b)
             e == TouchedEntry(d, b)
             k == Find(d, b)
  <2>1. k \in InUse(d) /\ d.slot[k].block = b
    BY <1>1, FindIsUnique
  <2>2. InPlace(d, g, k, e)
    BY <1>1, GetEffect
  <2> HIDE DEF g, e, k
  <2>3. InUse(g) = InUse(d) /\ g.slot[k].block = b
    BY <1>1, <2>1, <2>2, InPlaceOthers
  <2>4. Resident(g, b)
    BY <2>1, <2>3 DEF Resident, Holding
  <2> QED BY <1>1, <2>4, GetKeepsGood, GetHeld, SameGeneration DEF g
<1>2. CASE Hit(c, b)
  <2>1. Resident(c, b) /\ Load(c, b, v) = Get(c, b)
    BY <1>2 DEF Hit, Load
  <2> QED BY <1>1, <2>1
<1>3. CASE ~Hit(c, b)
  <2> DEFINE d == PutFromBlock(c, b, v)
  <2>1. Load(c, b, v) = Get(d, b) /\ PutSucceeds(c, b)
    BY <1>3 DEF Load, Served
  <2>2. /\ Good(d) /\ d.gen = c.gen /\ Held(d) = Held(c) /\ Resident(d, b)
        /\ Pairs(d) \subseteq Pairs(c) \cup {<<b, v>>}
    BY <2>1, PutKeepsGood, PutSameGeneration, PutHeld
  <2> HIDE DEF d
  <2> QED BY <1>1, <2>1, <2>2
<1> QED BY <1>2, <1>3

(* A pin moves: the new block is held in the place it was found, the old   *)
(* one is held no longer.                                                  *)
LEMMA MovePinEffect ==
  ASSUME NEW c, Good(c), NEW b \in BlockId, Resident(c, b), NEW old \in BlockId \cup {NoPin}
  PROVE  /\ Good(MovePin(c, old, b)) /\ MovePin(c, old, b).gen = c.gen
         /\ Held(MovePin(c, old, b)) \subseteq (Held(c) \ {old}) \cup {b}
         /\ Pairs(MovePin(c, old, b)) \subseteq Pairs(c)
         /\ Find(c, b) \in Pinned(MovePin(c, old, b))
         /\ MovePin(c, old, b).slot[Find(c, b)].view = c.slot[Find(c, b)].view
<1> DEFINE m == IF old \notin {NoPin, b} THEN Unpin(c, old) ELSE c
           d == Pin(m, b)
           k == Find(c, b)
<1>1. MovePin(c, old, b) = d
  BY DEF MovePin
<1>2. NoPin \notin Held(c)
  BY EntryInUse DEF Held, Pinned, Good
<1>3. k \in InUse(c) /\ c.slot[k].block = b
  BY FindIsUnique
<1>4. /\ Good(m) /\ m.gen = c.gen /\ Pairs(m) \subseteq Pairs(c) /\ InUse(m) = InUse(c)
      /\ m.slot[k].block = b /\ m.slot[k].view = c.slot[k].view
      /\ Held(m) \subseteq (Held(c) \ {old}) \cup {b}
  <2>1. CASE old \in {NoPin, b}
    BY <1>2, <1>3, <2>1
  <2>2. CASE old \notin {NoPin, b}
    <3> DEFINE u == Unpin(c, old)
    <3>1. m = u
      BY <2>2
    <3>2. Good(u) /\ u.gen = c.gen
      BY SetPinKeepsGood, SameGeneration DEF Unpin
    <3>3. Pairs(u) \subseteq Pairs(c) /\ InUse(u) = InUse(c)
      BY SetPinPairs DEF Unpin
    <3>4. u.slot[k].block = b /\ u.slot[k].view = c.slot[k].view
      BY <1>3, SetPinPairs DEF Unpin
    <3>5. Held(u) \subseteq Held(c) \ {old}
      BY PinHeld
    <3> HIDE DEF u, m
    <3> QED BY <3>1, <3>2, <3>3, <3>4, <3>5
  <2> QED BY <2>1, <2>2
<1> HIDE DEF m
<1>5. Resident(m, b) /\ Find(m, b) = k
  BY <1>3, <1>4, FindIsUnique
<1>6. Good(d) /\ d.gen = m.gen /\ Pairs(d) \subseteq Pairs(m)
  <2>1. Good(m) /\ d = SetPin(m, b, TRUE)
    BY <1>4 DEF Pin
  <2> HIDE DEF d
  <2>2. Good(SetPin(m, b, TRUE))
    BY <2>1, SetPinKeepsGood
  <2>3. SetPin(m, b, TRUE).gen = m.gen
    BY <2>1, SameGeneration
  <2>4. Pairs(SetPin(m, b, TRUE)) \subseteq Pairs(m)
    BY <2>1, SetPinPairs
  <2> QED BY <2>1, <2>2, <2>3, <2>4
<1>7. Held(d) \subseteq Held(m) \cup {b}
  BY <1>4, PinHeld
<1>8. k \in Pinned(d) /\ d.slot[k].view = m.slot[k].view
  BY <1>4, <1>5, PinPins
<1> HIDE DEF d, k
<1>9. /\ Good(d) /\ d.gen = c.gen /\ Held(d) \subseteq (Held(c) \ {old}) \cup {b}
      /\ Pairs(d) \subseteq Pairs(c) /\ k \in Pinned(d) /\ d.slot[k].view = c.slot[k].view
  BY <1>4, <1>6, <1>7, <1>8
<1> QED BY <1>1, <1>9 DEF k

(* The forced eviction leaves pinned entries alone.                        *)
LEMMA RelieveEffect ==
  ASSUME NEW c, Good(c), NEW k \in Pinned(c)
  PROVE  /\ Good(Relieve(c)) /\ Relieve(c).gen = c.gen
         /\ Held(Relieve(c)) = Held(c)
         /\ Pairs(Relieve(c)) \subseteq Pairs(c)
         /\ Relieve(c).slot[k] = c.slot[k]
BY EvictKeepsGood, SameGeneration, EvictHeld, EvictKeepsPinned DEF Relieve

-----------------------------------------------------------------------------
(***************************************************************************)
(* The inductive invariant.  What the readers may rely on: a sound cache   *)
(* whose pins are owned and whose entries are rows of the wave table.      *)
(***************************************************************************)

Rows == {<<tables.waves[i].id, tables.waves[i].view>> : i \in DOMAIN tables.waves}

PinTyped == pin \in [Reader -> BlockId \cup {NoPin}]

CacheInv ==
  /\ Good(cache)
  /\ PinTyped
  /\ PinsAreOwned
  /\ Pairs(cache) \subseteq Rows

Orders == {WindowOrder(tables, route) : route \in AskedId}
OpenStream == [order : Orders, at : Nat, gen : Generation]
OpenCursor == [window : Nat, wave : Nat \ {0}]

ReaderInv ==
  /\ stream \in [Stream -> OpenStream \cup {Closed}]
  /\ cursor \in [Cursor -> OpenCursor \cup {Closed}]
  /\ warming \in 0 .. Len(tables.waves)
  /\ \A s \in Stream : stream[s] # Closed => stream[s].gen <= cache.gen

(* A slice is a row of the wave table, whether or not its id is unique.    *)
SliceIsRow == reply.call = "read" /\ reply.ok => <<reply.block, reply.view>> \in Rows

IInv ==
  /\ tables \in Package
  /\ CacheInv
  /\ ReaderInv
  /\ SliceIsRow
  /\ RefusedOnlyWhenStarved

(* What a step does to the cache, the pins and the reply.                  *)
CacheStep == CacheInv' /\ SliceIsRow' /\ RefusedOnlyWhenStarved'

(* When the cache refuses a block, every slot is pinned, each by a reader  *)
(* of its own.                                                             *)
LEMMA Starved ==
  ASSUME CacheInv, NEW b \in BlockId, ~Served(cache, b)
  PROVE  Cardinality(Holders) >= Capacity
<1> DEFINE P == {pin[r] : r \in Holders}
           f == [r \in Holders |-> pin[r]]
<1>1. IsFiniteSet(Held(cache)) /\ Cardinality(Held(cache)) = Capacity
  BY RefusedMeansAllHeld DEF CacheInv, Served
<1>2. IsFiniteSet(Holders)
  BY FS_Subset DEF Holders
<1>3. f \in Surjection(Holders, P)
  BY DEF Surjection
<1>4. IsFiniteSet(P) /\ Cardinality(P) <= Cardinality(Holders)
  BY <1>2, <1>3, FS_Surjection
<1>5. Held(cache) \subseteq P
  BY DEF CacheInv, PinsAreOwned
<1>6. Cardinality(Held(cache)) <= Cardinality(P)
  BY <1>4, <1>5, FS_Subset
<1>7. Cardinality(P) \in Nat /\ Cardinality(Holders) \in Nat /\ Capacity \in Nat
  BY <1>2, <1>4, FS_CardinalityType, Slots
<1> QED BY <1>1, <1>4, <1>6, <1>7

(* A read by a reader, served or refused.                                  *)
LEMMA ReadKeeps ==
  ASSUME tables \in Package, CacheInv, NEW r \in Reader, NEW i \in DOMAIN tables.waves,
         ReadRow(r, i), UNCHANGED tables
  PROVE  CacheStep /\ cache'.gen = cache.gen
<1> DEFINE b == tables.waves[i].id
           v == tables.waves[i].view
           loaded == Load(cache, b, v)
           k == Find(loaded, b)
           moved == MovePin(loaded, pin[r], b)
           after == Relieve(moved)
<1>1. b \in BlockId /\ v \in View /\ <<b, v>> \in Rows
  BY RowsTyped DEF Rows
<1>2. Rows' = Rows
  BY DEF Rows
<1>3. Good(cache) /\ pin \in [Reader -> BlockId \cup {NoPin}]
  BY DEF CacheInv, PinTyped
<1>4. FillSlice(r, b, v)
  BY DEF ReadRow
<1> HIDE DEF b, v
<1>5. CASE ~Served(cache, b)
  <2>1. cache' = cache /\ pin' = pin /\ reply' = Code("refused", FALSE)
    BY <1>4, <1>5 DEF FillSlice, Returns
  <2>2. CacheInv'
    BY <1>2, <2>1 DEF CacheInv, PinTyped, PinsAreOwned, Holders
  <2>3. Cardinality(Holders)' >= Capacity
    BY <1>1, <1>5, <2>1, Starved DEF Holders
  <2>4. RefusedOnlyWhenStarved'
    BY <2>3 DEF RefusedOnlyWhenStarved
  <2>5. SliceIsRow'
    BY <2>1 DEF SliceIsRow, Code
  <2> QED BY <2>1, <2>2, <2>4, <2>5 DEF CacheStep
<1>6. CASE Served(cache, b)
  <2>1. /\ cache' = after /\ pin' = [pin EXCEPT ![r] = b]
        /\ reply' = Slice("read", b, ViewAt(after, k))
    BY <1>4, <1>6 DEF FillSlice
  <2>2. /\ Good(loaded) /\ loaded.gen = cache.gen /\ Held(loaded) = Held(cache)
        /\ Pairs(loaded) \subseteq Pairs(cache) \cup {<<b, v>>} /\ Resident(loaded, b)
    BY <1>1, <1>3, <1>6, LoadEffect
  <2> HIDE DEF loaded
  <2>3. k \in InUse(loaded) /\ loaded.slot[k].block = b
    BY <2>2, FindIsUnique
  <2>4. /\ Good(moved) /\ moved.gen = loaded.gen
        /\ Held(moved) \subseteq (Held(loaded) \ {pin[r]}) \cup {b}
        /\ Pairs(moved) \subseteq Pairs(loaded)
        /\ k \in Pinned(moved) /\ moved.slot[k].view = loaded.slot[k].view
    <3>1. pin[r] \in BlockId \cup {NoPin}
      BY <1>3
    <3>2. Good(loaded) /\ Resident(loaded, b)
      BY <2>2
    <3> DEFINE old == pin[r]
    <3> HIDE DEF old
    <3> SUFFICES /\ Good(MovePin(loaded, old, b)) /\ MovePin(loaded, old, b).gen = loaded.gen
                 /\ Held(MovePin(loaded, old, b)) \subseteq (Held(loaded) \ {old}) \cup {b}
                 /\ Pairs(MovePin(loaded, old, b)) \subseteq Pairs(loaded)
                 /\ Find(loaded, b) \in Pinned(MovePin(loaded, old, b))
                 /\ MovePin(loaded, old, b).slot[Find(loaded, b)].view
                      = loaded.slot[Find(loaded, b)].view
      BY DEF old
    <3>3. old \in BlockId \cup {NoPin}
      BY <3>1 DEF old
    <3> QED BY <1>1, <3>2, <3>3, MovePinEffect
  <2> HIDE DEF moved, k
  <2>5. /\ Good(after) /\ after.gen = moved.gen /\ Held(after) = Held(moved)
        /\ Pairs(after) \subseteq Pairs(moved) /\ after.slot[k] = moved.slot[k]
    BY <2>4, RelieveEffect
  <2> HIDE DEF after
  <2>6. PinsAreOwned'
    <3>1. Held(after) \subseteq ({pin[q] : q \in Holders} \ {pin[r]}) \cup {b}
      BY <2>2, <2>4, <2>5 DEF CacheInv, PinsAreOwned
    <3>2. r \in Holders' /\ pin'[r] = b
      BY <1>1, <1>3, <2>1 DEF Holders
    <3>3. \A q \in Holders : pin[q] # pin[r] => q \in Holders' /\ pin'[q] = pin[q]
      BY <1>3, <2>1 DEF Holders
    <3> QED BY <2>1, <3>1, <3>2, <3>3 DEF PinsAreOwned
  <2>7. CacheInv'
    BY <1>1, <1>2, <1>3, <2>1, <2>2, <2>4, <2>5, <2>6 DEF CacheInv, PinTyped
  <2>8. <<b, ViewAt(after, k)>> \in Rows
    <3>1. moved.slot[k] # Free
      BY <2>4 DEF Pinned, InUse
    <3>2. ViewAt(after, k) = loaded.slot[k].view
      BY <2>4, <2>5, <3>1 DEF ViewAt
    <3>3. <<b, loaded.slot[k].view>> \in Pairs(loaded)
      BY <2>3 DEF Pairs
    <3> QED BY <1>1, <2>2, <3>2, <3>3 DEF CacheInv
  <2>9. SliceIsRow' /\ RefusedOnlyWhenStarved'
    BY <1>2, <2>1, <2>8 DEF SliceIsRow, RefusedOnlyWhenStarved, Slice
  <2> QED BY <2>1, <2>2, <2>4, <2>5, <2>7, <2>9 DEF CacheStep
<1> QED BY <1>5, <1>6

(* A close gives up the reader's pin.                                      *)
LEMMA ReleaseKeeps ==
  ASSUME tables \in Package, CacheInv, NEW r \in Reader, ReleasePin(r), Returns("done", TRUE),
         UNCHANGED tables
  PROVE  CacheStep /\ cache'.gen = cache.gen
<1>1. Good(cache) /\ pin \in [Reader -> BlockId \cup {NoPin}]
  BY DEF CacheInv, PinTyped
<1>2. /\ Good(cache') /\ cache'.gen = cache.gen /\ Pairs(cache') \subseteq Pairs(cache)
      /\ Held(cache') \subseteq Held(cache) \ {pin[r]}
  <2>1. CASE pin[r] = NoPin
    <3>1. cache' = cache
      BY <2>1 DEF ReleasePin
    <3>2. NoPin \notin Held(cache)
      BY <1>1, EntryInUse DEF Held, Pinned, Good
    <3> QED BY <1>1, <2>1, <3>1, <3>2
  <2>2. CASE pin[r] # NoPin
    <3> DEFINE old == pin[r]
               u == Unpin(cache, old)
    <3>1. cache' = u
      BY <2>2 DEF ReleasePin
    <3>2. Good(u) /\ u.gen = cache.gen
      BY <1>1, SetPinKeepsGood, SameGeneration DEF Unpin
    <3>3. Pairs(u) \subseteq Pairs(cache)
      BY <1>1, SetPinPairs DEF Unpin
    <3>4. Held(u) \subseteq Held(cache) \ {old}
      BY <1>1, PinHeld
    <3> HIDE DEF u
    <3> QED BY <3>1, <3>2, <3>3, <3>4
  <2> QED BY <2>1, <2>2
<1>3. pin' = [pin EXCEPT ![r] = NoPin]
  BY DEF ReleasePin
<1>4. PinsAreOwned'
  <2>1. Held(cache') \subseteq {pin[q] : q \in Holders} \ {pin[r]}
    BY <1>2 DEF CacheInv, PinsAreOwned
  <2>2. \A q \in Holders : pin[q] # pin[r] => q \in Holders' /\ pin'[q] = pin[q]
    BY <1>1, <1>3 DEF Holders
  <2> QED BY <2>1, <2>2 DEF PinsAreOwned
<1>5. Rows' = Rows
  BY DEF Rows
<1>6. CacheInv'
  BY <1>1, <1>2, <1>3, <1>4, <1>5 DEF CacheInv, PinTyped
<1>7. SliceIsRow' /\ RefusedOnlyWhenStarved'
  BY DEF Returns, Code, SliceIsRow, RefusedOnlyWhenStarved
<1> QED BY <1>2, <1>6, <1>7 DEF CacheStep

(* Steps that leave the cache and the pins alone and read nothing.         *)
LEMMA IdleKeeps ==
  ASSUME CacheInv, UNCHANGED <<tables, cache, pin>>, NEW name, NEW ok, Returns(name, ok),
         name # "refused", ~(name = "read" /\ ok)
  PROVE  CacheStep /\ cache'.gen = cache.gen
<1>1. CacheInv'
  BY DEF CacheInv, PinTyped, PinsAreOwned, Holders, Rows
<1>2. SliceIsRow' /\ RefusedOnlyWhenStarved'
  BY DEF Returns, Code, SliceIsRow, RefusedOnlyWhenStarved
<1> QED BY <1>1, <1>2 DEF CacheStep

(* The session's own lookup.                                               *)
LEMMA WaveGetKeeps ==
  ASSUME tables \in Package, CacheInv, NEW id \in AskedId, rv_wave_get(id)
  PROVE  CacheStep /\ cache'.gen = cache.gen
<1> DEFINE i == FindWave(tables, id)
           b == tables.waves[i].id
           v == tables.waves[i].view
           loaded == Load(cache, b, v)
           k == Find(loaded, b)
<1>1. UNCHANGED <<tables, pin>> /\ Good(cache)
  BY DEF rv_wave_get, CacheInv
<1>2. CASE i = 0
  <2>1. Returns("done", FALSE) /\ UNCHANGED cache
    BY <1>2 DEF rv_wave_get
  <2> QED BY <1>1, <2>1, IdleKeeps
<1>3. ASSUME i # 0
      PROVE  b \in BlockId /\ v \in View /\ <<b, v>> \in Rows
  <2>1. i \in DOMAIN tables.waves
    BY <1>3, RowsTyped, MapCellIsRow DEF FindWave, RowsOf
  <2> QED BY <2>1, RowsTyped DEF Rows
<1>4. CASE i # 0 /\ ~Served(cache, b)
  <2>1. Returns("refused", FALSE) /\ UNCHANGED cache
    BY <1>4 DEF rv_wave_get
  <2>2. CacheInv'
    BY <1>1, <2>1 DEF CacheInv, PinTyped, PinsAreOwned, Holders, Rows
  <2>3. Cardinality(Holders)' >= Capacity
    BY <1>1, <1>3, <1>4, Starved DEF Holders
  <2>4. RefusedOnlyWhenStarved' /\ SliceIsRow'
    BY <2>1, <2>3 DEF RefusedOnlyWhenStarved, SliceIsRow, Returns, Code
  <2> QED BY <2>1, <2>2, <2>4 DEF CacheStep
<1>5. CASE i # 0 /\ Served(cache, b)
  <2>1. cache' = loaded /\ reply' = Slice("read", b, ViewAt(loaded, k))
    BY <1>5 DEF rv_wave_get
  <2>2. b \in BlockId /\ v \in View /\ <<b, v>> \in Rows
    BY <1>3, <1>5
  <2> HIDE DEF b, v
  <2>3. /\ Good(loaded) /\ loaded.gen = cache.gen /\ Held(loaded) = Held(cache)
        /\ Pairs(loaded) \subseteq Pairs(cache) \cup {<<b, v>>} /\ Resident(loaded, b)
    BY <1>1, <1>5, <2>2, LoadEffect
  <2> HIDE DEF loaded
  <2>4. k \in InUse(loaded) /\ loaded.slot[k].block = b
    BY <2>3, FindIsUnique
  <2>5. CacheInv'
    BY <1>1, <2>1, <2>2, <2>3 DEF CacheInv, PinTyped, PinsAreOwned, Holders, Rows
  <2>6. <<b, ViewAt(loaded, k)>> \in Rows
    BY <2>2, <2>3, <2>4 DEF ViewAt, Pairs, InUse, CacheInv
  <2>7. SliceIsRow' /\ RefusedOnlyWhenStarved'
    BY <1>1, <2>1, <2>6 DEF SliceIsRow, RefusedOnlyWhenStarved, Slice, Rows
  <2> QED BY <2>1, <2>3, <2>5, <2>7 DEF CacheStep
<1> QED BY <1>2, <1>4, <1>5

(* A turn of the warm-up loop.                                             *)
LEMMA WarmKeeps ==
  ASSUME tables \in Package, CacheInv, warming \in 0 .. Len(tables.waves), WarmCacheTurn
  PROVE  CacheStep /\ cache'.gen = cache.gen
<1> DEFINE b == tables.waves[warming].id
           v == tables.waves[warming].view
           d == PutFromBlock(cache, b, v)
<1>1. UNCHANGED <<tables, pin>> /\ Good(cache) /\ cache' = d /\ Returns("done", TRUE)
  BY DEF WarmCacheTurn, CacheInv
<1>2. warming \in DOMAIN tables.waves
  BY RowsTyped DEF WarmCacheTurn
<1>3. b \in BlockId /\ v \in View /\ <<b, v>> \in Rows
  BY <1>2, RowsTyped DEF Rows
<1> HIDE DEF b, v
<1>4. /\ Good(d) /\ d.gen = cache.gen /\ Held(d) = Held(cache)
      /\ Pairs(d) \subseteq Pairs(cache) \cup {<<b, v>>}
  BY <1>1, <1>3, PutKeepsGood, PutSameGeneration, PutHeld
<1> HIDE DEF d
<1>5. CacheInv'
  BY <1>1, <1>3, <1>4 DEF CacheInv, PinTyped, PinsAreOwned, Holders, Rows
<1>6. SliceIsRow' /\ RefusedOnlyWhenStarved'
  BY <1>1 DEF Returns, Code, SliceIsRow, RefusedOnlyWhenStarved
<1> QED BY <1>1, <1>4, <1>5, <1>6 DEF CacheStep

(* A rebind empties the cache and starts a new generation.                 *)
LEMMA RebindKeeps ==
  ASSUME CacheInv, rv_session_rebind
  PROVE  CacheStep /\ cache'.gen = cache.gen + 1
<1>1. Good(cache) /\ cache.gen \in Generation /\ cache.gen < MaxGen
  BY DEF CacheInv, Good, Cache, rv_session_rebind
<1>2. UNCHANGED <<tables, pin>> /\ cache' = Invalidate(cache) /\ Returns("done", TRUE)
  BY DEF rv_session_rebind
<1>3. Good(cache') /\ cache'.gen = cache.gen + 1
  BY <1>1, <1>2, InvalidateKeepsGood DEF NextGen, Generation
<1>4. Held(cache') = {} /\ Pairs(cache') = {}
  BY <1>1, <1>2, InvalidateHeld
<1>5. CacheInv'
  BY <1>2, <1>3, <1>4 DEF CacheInv, PinTyped, PinsAreOwned
<1>6. SliceIsRow' /\ RefusedOnlyWhenStarved'
  BY <1>2 DEF Returns, Code, SliceIsRow, RefusedOnlyWhenStarved
<1> QED BY <1>3, <1>5, <1>6 DEF CacheStep

-----------------------------------------------------------------------------
(***************************************************************************)
(* Every action keeps the inductive invariant.                             *)
(***************************************************************************)

(* The cache, the pins and the reply.                                      *)
LEMMA StepKeepsCache ==
  ASSUME IInv, Next
  PROVE  CacheStep /\ cache'.gen \in {cache.gen, cache.gen + 1}
<1>1. /\ tables \in Package /\ CacheInv /\ warming \in 0 .. Len(tables.waves)
      /\ Stream \subseteq Reader /\ Cursor \subseteq Reader
      /\ SliceIsRow /\ RefusedOnlyWhenStarved
  BY DEF IInv, ReaderInv, Reader
<1>2. ASSUME NEW s \in Stream, NEW route \in AskedId, rv_stream_open(s, route)
      PROVE  CacheStep /\ cache'.gen = cache.gen
  BY <1>1, <1>2, IdleKeeps DEF rv_stream_open
<1>3. ASSUME NEW s \in Stream, rv_stream_next_window(s)
      PROVE  CacheStep /\ cache'.gen = cache.gen
  BY <1>1, <1>3, IdleKeeps DEF rv_stream_next_window
<1>4. ASSUME NEW s \in Stream, rv_stream_next_wave(s)
      PROVE  CacheStep /\ cache'.gen = cache.gen
  <2>1. CASE CanRead(s)
    <3> DEFINE i == FindWave(tables, WindowOf(s).wave)
    <3>1. ReadRow(s, i) /\ UNCHANGED tables /\ i # 0
      BY <1>4, <2>1 DEF rv_stream_next_wave, CanRead
    <3>2. i \in DOMAIN tables.waves
      BY <1>1, <3>1, RowsTyped, MapCellIsRow DEF FindWave, RowsOf
    <3> HIDE DEF i
    <3> QED BY <1>1, <3>1, <3>2, ReadKeeps
  <2>2. CASE ~CanRead(s)
    BY <1>1, <1>4, <2>2, IdleKeeps DEF rv_stream_next_wave
  <2> QED BY <2>1, <2>2
<1>5. ASSUME NEW s \in Stream, rv_stream_close(s)
      PROVE  CacheStep /\ cache'.gen = cache.gen
  BY <1>1, <1>5, ReleaseKeeps DEF rv_stream_close
<1>6. ASSUME NEW c \in Cursor, rv_cursor_open(c)
      PROVE  CacheStep /\ cache'.gen = cache.gen
  BY <1>1, <1>6, IdleKeeps DEF rv_cursor_open
<1>7. ASSUME NEW c \in Cursor, NEW id \in AskedId, rv_cursor_seek_window(c, id)
      PROVE  CacheStep /\ cache'.gen = cache.gen
  BY <1>1, <1>7, IdleKeeps DEF rv_cursor_seek_window, Seek
<1>8. ASSUME NEW c \in Cursor, rv_cursor_read_wave(c)
      PROVE  CacheStep /\ cache'.gen = cache.gen
  <2>1. CASE cursor[c].wave <= Len(tables.waves)
    <3> DEFINE i == cursor[c].wave
    <3>1. ReadRow(c, i) /\ UNCHANGED tables
      BY <1>8, <2>1 DEF rv_cursor_read_wave
    <3>2. cursor[c] \in OpenCursor
      BY <1>8 DEF IInv, ReaderInv, rv_cursor_read_wave
    <3>3. i \in DOMAIN tables.waves
      BY <1>1, <2>1, <3>2, RowsTyped DEF OpenCursor
    <3> HIDE DEF i
    <3> QED BY <1>1, <3>1, <3>3, ReadKeeps
  <2>2. CASE ~(cursor[c].wave <= Len(tables.waves))
    BY <1>1, <1>8, <2>2, IdleKeeps DEF rv_cursor_read_wave
  <2> QED BY <2>1, <2>2
<1>9. ASSUME NEW c \in Cursor, rv_cursor_advance(c)
      PROVE  CacheStep /\ cache'.gen = cache.gen
  <2>1. UNCHANGED <<tables, cache, pin>> /\ \E ok : Returns("advance", ok)
    BY <1>9 DEF rv_cursor_advance, Seek
  <2> QED BY <1>1, <2>1, IdleKeeps
<1>10. ASSUME NEW c \in Cursor, rv_cursor_close(c)
       PROVE  CacheStep /\ cache'.gen = cache.gen
  BY <1>1, <1>10, ReleaseKeeps DEF rv_cursor_close
<1>11. ASSUME NEW id \in AskedId, rv_wave_get(id)
       PROVE  CacheStep /\ cache'.gen = cache.gen
  BY <1>1, <1>11, WaveGetKeeps
<1>12. CASE WarmCacheBegins
  BY <1>1, <1>12 DEF WarmCacheBegins, CacheStep, CacheInv, PinTyped, PinsAreOwned, Holders, Rows,
                     SliceIsRow, RefusedOnlyWhenStarved
<1>13. CASE WarmCacheTurn
  BY <1>1, <1>13, WarmKeeps
<1>14. CASE rv_session_rebind
  BY <1>1, <1>14, RebindKeeps
<1> QED BY <1>2, <1>3, <1>4, <1>5, <1>6, <1>7, <1>8, <1>9, <1>10, <1>11, <1>12, <1>13, <1>14
        DEF Next

(* The wave position of a successful seek is a row.                        *)
LEMMA SoughtTyped ==
  ASSUME tables \in Package, NEW c \in Cursor, cursor[c] \in OpenCursor, NEW id \in Nat
  PROVE  Sought(c, id) \in OpenCursor
<1> DEFINE w == WaveOfWindow(id)
<1>1. CASE SeekSucceeds(id)
  <2>1. w # 0
    BY <1>1 DEF SeekSucceeds
  <2>2. w \in DOMAIN tables.waves
    BY <2>1, RowsTyped, MapCellIsRow DEF WaveOfWindow, FindWave, RowsOf
  <2>3. w \in Nat \ {0}
    BY <2>2, RowsTyped
  <2> HIDE DEF w
  <2> QED BY <1>1, <2>3 DEF Sought, OpenCursor, w
<1>2. CASE ~SeekSucceeds(id)
  BY <1>2 DEF Sought
<1> QED BY <1>1, <1>2

(* The row an advance moves to has a natural id.                           *)
LEMMA NextRowTyped ==
  ASSUME tables \in Package, NEW c \in Cursor, RowsOfCursor(c) # {},
         NextRow(c) <= Len(tables.windows)
  PROVE  /\ First(RowsOfCursor(c)) \in RowsOfCursor(c)
         /\ NextRow(c) \in DOMAIN tables.windows
         /\ tables.windows[NextRow(c)].id \in Nat
<1> DEFINE R == RowsOfCursor(c)
           n == NextRow(c)
<1>1. tables.windows \in Seq(Window)
  BY RowsTyped
<1>2. /\ Len(tables.windows) \in Nat /\ DOMAIN tables.windows = 1 .. Len(tables.windows)
      /\ R \subseteq 1 .. Len(tables.windows)
  BY <1>1 DEF RowsOfCursor, RowsOf
<1>3. R \in SUBSET Nat /\ R # {}
  BY <1>2
<1>4. First(R) \in R
  BY <1>3, LeastNatural DEF First
<1>5. n \in DOMAIN tables.windows
  BY <1>2, <1>4 DEF NextRow
<1> HIDE DEF n
<1>6. tables.windows[n] \in Window
  BY <1>1, <1>5
<1>7. tables.windows[n].id \in Nat
  BY <1>6 DEF Window
<1> QED BY <1>4, <1>5, <1>7 DEF n

(* The readers' own state.                                                 *)
LEMMA StepKeepsReaders ==
  ASSUME IInv, Next, Good(cache'), cache'.gen \in {cache.gen, cache.gen + 1}
  PROVE  tables' = tables /\ ReaderInv'
<1>1. /\ tables \in Package /\ Good(cache) /\ warming \in 0 .. Len(tables.waves)
      /\ Len(tables.waves) \in Nat
      /\ stream \in [Stream -> OpenStream \cup {Closed}]
      /\ cursor \in [Cursor -> OpenCursor \cup {Closed}]
  BY RowsTyped DEF IInv, CacheInv, ReaderInv
<1>2. tables' = tables
  BY DEF Next, rv_stream_open, rv_stream_next_window, rv_stream_next_wave, rv_stream_close,
         rv_cursor_open, rv_cursor_seek_window, rv_cursor_read_wave, rv_cursor_advance,
         rv_cursor_close, rv_wave_get, WarmCacheBegins, WarmCacheTurn, rv_session_rebind, Seek
<1>3. OpenStream' = OpenStream
  BY <1>2 DEF OpenStream, Orders
<1>4. /\ cache.gen \in Generation /\ cache'.gen \in Generation /\ Generation \subseteq Nat
      /\ cache.gen <= cache'.gen
  BY <1>1 DEF Good, Cache, Generation
<1> DEFINE GenOK(S) == \A s \in Stream : S[s] # Closed => S[s].gen <= cache'.gen
           Typed(S) == S \in [Stream -> OpenStream \cup {Closed}]
<1>5. Typed(stream) /\ GenOK(stream)
  <2> SUFFICES ASSUME NEW s \in Stream, stream[s] # Closed PROVE stream[s].gen <= cache'.gen
    BY <1>1
  <2>1. stream[s].gen \in Nat /\ stream[s].gen <= cache.gen
    BY <1>1, <1>4 DEF IInv, ReaderInv, OpenStream
  <2> DEFINE g == stream[s].gen
             h == cache.gen
             i == cache'.gen
  <2>2. g \in Nat /\ h \in Nat /\ i \in Nat /\ g <= h /\ h <= i
    BY <1>4, <2>1
  <2> HIDE DEF g, h, i
  <2>3. g <= i
    BY <2>2
  <2> QED BY <2>3 DEF g, i
<1>6. ASSUME NEW s \in Stream, NEW x \in OpenStream \cup {Closed}, x # Closed => x.gen <= cache'.gen
      PROVE  Typed([stream EXCEPT ![s] = x]) /\ GenOK([stream EXCEPT ![s] = x])
  BY <1>1, <1>5, <1>6
<1>7. Typed(stream') /\ GenOK(stream')
  <2>1. ASSUME NEW s \in Stream, NEW route \in AskedId, rv_stream_open(s, route)
        PROVE  Typed(stream') /\ GenOK(stream')
    <3> DEFINE x == [order |-> WindowOrder(tables, route), at |-> 0, gen |-> cache.gen]
    <3>1. x \in OpenStream /\ x.gen <= cache'.gen
      BY <1>4 DEF OpenStream, Orders
    <3>2. stream' = [stream EXCEPT ![s] = x]
      BY <2>1 DEF rv_stream_open
    <3> HIDE DEF x
    <3> QED BY <1>6, <3>1, <3>2
  <2>2. ASSUME NEW s \in Stream, rv_stream_next_window(s)
        PROVE  Typed(stream') /\ GenOK(stream')
    <3> DEFINE x == [stream[s] EXCEPT !.at = @ + 1]
    <3>1. stream[s] \in OpenStream /\ stream[s].gen <= cache'.gen
      BY <1>1, <1>5, <2>2 DEF rv_stream_next_window
    <3>2. x \in OpenStream /\ x.gen <= cache'.gen
      BY <3>1 DEF OpenStream
    <3>3. stream' = [stream EXCEPT ![s] = x] \/ stream' = stream
      BY <2>2 DEF rv_stream_next_window
    <3> HIDE DEF x
    <3> QED BY <1>5, <1>6, <3>2, <3>3
  <2>3. ASSUME NEW s \in Stream, rv_stream_close(s)
        PROVE  Typed(stream') /\ GenOK(stream')
    BY <1>6, <2>3 DEF rv_stream_close
  <2>4. ASSUME UNCHANGED stream PROVE Typed(stream') /\ GenOK(stream')
    BY <1>5, <2>4
  <2> HIDE DEF GenOK, Typed
  <2> QED BY <2>1, <2>2, <2>3, <2>4
          DEF Next, rv_stream_next_wave, rv_cursor_open, rv_cursor_seek_window,
              rv_cursor_read_wave, rv_cursor_advance, rv_cursor_close, rv_wave_get,
              WarmCacheBegins, WarmCacheTurn, rv_session_rebind, Seek
<1>8. cursor' \in [Cursor -> OpenCursor \cup {Closed}]
  <2>1. ASSUME NEW c \in Cursor, NEW id \in Nat, NEW name, cursor[c] # Closed, Seek(name, c, id)
        PROVE  cursor' \in [Cursor -> OpenCursor \cup {Closed}]
    <3>1. Sought(c, id) \in OpenCursor
      BY <1>1, <2>1, SoughtTyped
    <3> QED BY <1>1, <2>1, <3>1 DEF Seek
  <2>2. ASSUME NEW c \in Cursor, rv_cursor_advance(c)
        PROVE  cursor' \in [Cursor -> OpenCursor \cup {Closed}]
    BY <1>1, <2>1, <2>2, NextRowTyped DEF rv_cursor_advance
  <2>3. ASSUME NEW c \in Cursor, rv_cursor_open(c)
        PROVE  cursor' \in [Cursor -> OpenCursor \cup {Closed}]
    BY <1>1, <2>3 DEF rv_cursor_open, OpenCursor
  <2>4. ASSUME NEW c \in Cursor, rv_cursor_close(c)
        PROVE  cursor' \in [Cursor -> OpenCursor \cup {Closed}]
    BY <1>1, <2>4 DEF rv_cursor_close
  <2>5. ASSUME NEW c \in Cursor, NEW id \in AskedId, rv_cursor_seek_window(c, id)
        PROVE  cursor' \in [Cursor -> OpenCursor \cup {Closed}]
    BY <2>1, <2>5 DEF rv_cursor_seek_window
  <2> QED BY <1>1, <2>2, <2>3, <2>4, <2>5
          DEF Next, rv_stream_open, rv_stream_next_window, rv_stream_next_wave, rv_stream_close,
              rv_cursor_read_wave, rv_wave_get, WarmCacheBegins, WarmCacheTurn,
              rv_session_rebind
<1>9. warming' \in 0 .. Len(tables.waves)
  <2>1. CASE WarmCacheTurn
    BY <1>1, <2>1 DEF WarmCacheTurn, NextTurn
  <2>2. CASE WarmCacheBegins
    BY <1>1, <2>2 DEF WarmCacheBegins
  <2> QED BY <1>1, <2>1, <2>2
          DEF Next, rv_stream_open, rv_stream_next_window, rv_stream_next_wave, rv_stream_close,
              rv_cursor_open, rv_cursor_seek_window, rv_cursor_read_wave, rv_cursor_advance,
              rv_cursor_close, rv_wave_get, rv_session_rebind, Seek
<1> QED BY <1>2, <1>3, <1>7, <1>8, <1>9 DEF ReaderInv, OpenCursor

(* The invariant is inductive.                                             *)
LEMMA AlwaysIInv == Spec => []IInv
<1>1. Init => IInv
  <2> SUFFICES ASSUME Init PROVE IInv
    OBVIOUS
  <2>1. InUse(EmptyCache) = {}
    BY DEF InUse, EmptyCache
  <2>2. Good(cache) /\ InUse(cache) = {}
    BY <2>1, EmptyCacheGood DEF Init
  <2>3. Held(cache) = {} /\ Pairs(cache) = {}
    BY <2>2 DEF Held, Pinned, Pairs
  <2>4. CacheInv
    BY <2>2, <2>3 DEF Init, CacheInv, PinTyped, PinsAreOwned
  <2>5. tables \in Package /\ Len(tables.waves) \in Nat
    BY RowsTyped DEF Init
  <2>6. ReaderInv
    BY <2>5 DEF Init, ReaderInv
  <2>7. SliceIsRow /\ RefusedOnlyWhenStarved
    BY DEF Init, Code, SliceIsRow, RefusedOnlyWhenStarved
  <2> QED BY <2>4, <2>5, <2>6, <2>7 DEF IInv
<1>2. IInv /\ [Next]_vars => IInv'
  <2> SUFFICES ASSUME IInv, [Next]_vars PROVE IInv'
    OBVIOUS
  <2>1. CASE Next
    <3>1. CacheStep /\ cache'.gen \in {cache.gen, cache.gen + 1}
      BY <2>1, StepKeepsCache
    <3>2. tables' = tables /\ ReaderInv'
      BY <2>1, <3>1, StepKeepsReaders DEF CacheStep, CacheInv
    <3> QED BY <3>1, <3>2 DEF IInv, CacheStep
  <2>2. CASE UNCHANGED vars
    BY <2>2 DEF vars, IInv, CacheInv, PinTyped, PinsAreOwned, Holders, Rows, ReaderInv, OpenStream,
                Orders, OpenCursor, SliceIsRow, RefusedOnlyWhenStarved
  <2> QED BY <2>1, <2>2
<1> QED BY <1>1, <1>2, PTL DEF Spec

-----------------------------------------------------------------------------
(***************************************************************************)
(* The theorems.                                                           *)
(***************************************************************************)

(* What a call returns is a code, or a slice.                              *)
ReplyShape ==
  \/ \E name \in {"done", "read", "refused", "advance"}, ok \in BOOLEAN :
       reply = Code(name, ok) /\ ~(name = "read" /\ ok)
  \/ reply = Slice("read", reply.block, reply.view)

(* Every reply has this shape.                                             *)
LEMMA RepliesHaveShape == Spec => []ReplyShape
<1>1. Init => ReplyShape
  BY DEF Init, ReplyShape
<1>2. ReplyShape /\ [Next]_vars => ReplyShape'
  <2> SUFFICES ASSUME ReplyShape, [Next]_vars PROVE ReplyShape'
    OBVIOUS
  <2>1. ASSUME NEW name \in {"done", "read", "refused", "advance"}, NEW ok \in BOOLEAN,
               Returns(name, ok), ~(name = "read" /\ ok)
        PROVE  ReplyShape'
    BY <2>1 DEF Returns, ReplyShape
  <2>2. ASSUME NEW b, NEW v, reply' = Slice("read", b, v) PROVE ReplyShape'
    BY <2>2 DEF Slice, ReplyShape
  <2>3. CASE UNCHANGED reply
    BY <2>3 DEF ReplyShape
  <2>4. ASSUME NEW r, NEW i, ReadRow(r, i) PROVE ReplyShape'
    BY <2>1, <2>2, <2>4 DEF ReadRow, FillSlice
  <2>5. ASSUME NEW name \in {"done", "advance"}, NEW c, NEW id, Seek(name, c, id) PROVE ReplyShape'
    <3>1. SeekSucceeds(id) \in BOOLEAN
      BY DEF SeekSucceeds
    <3> QED BY <2>1, <2>5, <3>1 DEF Seek
  <2>6. ASSUME NEW s \in Stream,
               \/ \E route \in AskedId : rv_stream_open(s, route)
               \/ rv_stream_next_window(s) \/ rv_stream_next_wave(s) \/ rv_stream_close(s)
        PROVE  ReplyShape'
    BY <2>1, <2>4, <2>6 DEF rv_stream_open, rv_stream_next_window, rv_stream_next_wave, rv_stream_close
  <2>7. ASSUME NEW c \in Cursor,
               \/ \E id \in AskedId : rv_cursor_seek_window(c, id)
               \/ rv_cursor_open(c) \/ rv_cursor_read_wave(c) \/ rv_cursor_advance(c)
               \/ rv_cursor_close(c)
        PROVE  ReplyShape'
    BY <2>1, <2>4, <2>5, <2>7 DEF rv_cursor_open, rv_cursor_seek_window, rv_cursor_read_wave,
                                  rv_cursor_advance, rv_cursor_close
  <2>8. ASSUME NEW id \in AskedId, rv_wave_get(id) PROVE ReplyShape'
    BY <2>1, <2>2, <2>8 DEF rv_wave_get
  <2>9. CASE WarmCacheBegins \/ WarmCacheTurn \/ rv_session_rebind
    BY <2>1, <2>3, <2>9 DEF WarmCacheBegins, WarmCacheTurn, rv_session_rebind
  <2>10. CASE UNCHANGED vars
    BY <2>3, <2>10 DEF vars
  <2> QED BY <2>6, <2>7, <2>8, <2>9, <2>10 DEF Next
<1> QED BY <1>1, <1>2, PTL DEF Spec

(* Readers, cache and warm-up loop stay well-formed whatever the package   *)
(* holds: an order lists window positions, a pin is a block id, and the    *)
(* loop of rv_session_warm_cache never leaves the wave table.              *)
THEOREM ReadersStayTyped == Spec => []TypeOK
<1>1. IInv /\ ReplyShape => TypeOK
  <2> SUFFICES ASSUME IInv, ReplyShape PROVE TypeOK
    OBVIOUS
  <2>1. /\ tables \in Package /\ cache \in Cache /\ pin \in [Reader -> BlockId \cup {NoPin}]
        /\ warming \in 0 .. Len(tables.waves)
    BY DEF IInv, CacheInv, Good, PinTyped, ReaderInv
  <2>2. stream \in [Stream -> StreamState \cup {Closed}]
    <3>1. Orders \subseteq Seq(Nat)
      BY <2>1, RowsTyped, OrderTyped DEF Orders
    <3>2. OpenStream \subseteq StreamState
      BY <3>1 DEF OpenStream, StreamState
    <3> QED BY <3>2 DEF IInv, ReaderInv
  <2>3. cursor \in [Cursor -> CursorState \cup {Closed}]
    <3>1. OpenCursor \subseteq CursorState
      BY DEF OpenCursor, CursorState
    <3> QED BY <3>1 DEF IInv, ReaderInv
  <2>4. CASE \E name \in {"done", "read", "refused", "advance"}, ok \in BOOLEAN : reply = Code(name, ok)
    BY <2>1, <2>2, <2>3, <2>4 DEF TypeOK, Code
  <2>5. CASE reply = Slice("read", reply.block, reply.view)
    <3>1. reply.call = "read" /\ reply.ok = TRUE
      BY <2>5 DEF Slice
    <3>2. <<reply.block, reply.view>> \in Rows
      BY <3>1 DEF IInv, SliceIsRow
    <3>3. reply.block \in BlockId /\ reply.view \in View
      BY <2>1, <3>2, RowsTyped DEF Rows
    <3> QED BY <2>1, <2>2, <2>3, <3>1, <3>3 DEF TypeOK
  <2> QED BY <2>4, <2>5 DEF ReplyShape
<1> QED BY <1>1, AlwaysIInv, RepliesHaveShape, PTL

(* However many readers share the cache, and in whatever order they read,  *)
(* seek and close, an entry is pinned only while a reader remembers it: a  *)
(* shared one-bit pin flag may be cleared early but never leaks.           *)
THEOREM NoPinLeaks == Spec => []PinsAreOwned
<1>1. IInv => PinsAreOwned
  BY DEF IInv, CacheInv
<1> QED BY <1>1, AlwaysIInv, PTL

(* rv_fill_slice_from_cache_or_block and rv_wave_get refuse an indexed     *)
(* block only when at least Capacity readers hold a pin; with fewer        *)
(* readers than slots no read is ever refused.                             *)
THEOREM RefusalNeedsStarvation == Spec => []RefusedOnlyWhenStarved
<1>1. IInv => RefusedOnlyWhenStarved
  BY DEF IInv
<1> QED BY <1>1, AlwaysIInv, PTL

(* A slice carries the samples of the row the index finds for its block:   *)
(* the entry read after the forced eviction is the one that was loaded.    *)
THEOREM SlicesAreFaithful == Spec => []SliceIsTheIndexedRow
<1>1. IInv => SliceIsTheIndexedRow
  <2> SUFFICES ASSUME IInv, reply.call = "read", reply.ok, UniqueIds(tables.waves),
                      reply.block \notin Unmapped
               PROVE  reply.view = tables.waves[FindWave(tables, reply.block)].view
    BY DEF SliceIsTheIndexedRow
  <2>1. <<reply.block, reply.view>> \in Rows
    BY DEF IInv, SliceIsRow
  <2>2. PICK i \in DOMAIN tables.waves :
          reply.block = tables.waves[i].id /\ reply.view = tables.waves[i].view
    BY <2>1 DEF Rows
  <2>3. tables.waves \in Seq(Wave)
    BY RowsTyped DEF IInv
  <2>4. FindWave(tables, reply.block) = i
    BY <2>2, <2>3, UniqueCell DEF FindWave
  <2> QED BY <2>2, <2>4
<1> QED BY <1>1, AlwaysIInv, PTL

(* A cursor and the block it will read agree on the window, whatever       *)
(* sequence of seeks and advances, failed ones included, led there.        *)
THEOREM CursorsStayOnTheirWindow == Spec => []CursorOnItsWindow
<1> DEFINE OnWindow(x) == x # Closed /\ x.window # 0 => x.wave = WaveOfWindow(x.window)
<1>1. Init => CursorOnItsWindow
  BY DEF Init, CursorOnItsWindow
<1>2. IInv /\ CursorOnItsWindow /\ [Next]_vars => CursorOnItsWindow'
  <2> SUFFICES ASSUME IInv, CursorOnItsWindow, [Next]_vars, NEW c \in Cursor
               PROVE  OnWindow(cursor[c])'
    BY DEF CursorOnItsWindow
  <2>1. tables' = tables
    BY StepKeepsReaders, StepKeepsCache DEF vars, CacheStep, CacheInv
  <2>2. /\ cursor \in [Cursor -> OpenCursor \cup {Closed}] /\ OnWindow(cursor[c])
    BY DEF IInv, ReaderInv, CursorOnItsWindow
  <2>3. \A id : WaveOfWindow(id)' = WaveOfWindow(id)
    BY <2>1 DEF WaveOfWindow
  <2>4. SUFFICES OnWindow(cursor'[c])
    BY <2>1 DEF WaveOfWindow
  <2>5. \A id : OnWindow(Sought(c, id))
    <3> SUFFICES ASSUME NEW id PROVE OnWindow(Sought(c, id))
      OBVIOUS
    <3>1. CASE SeekSucceeds(id)
      BY <3>1 DEF Sought
    <3>2. CASE ~SeekSucceeds(id)
      BY <2>2, <3>2 DEF Sought
    <3> QED BY <3>1, <3>2
  <2>6. OnWindow([window |-> 0, wave |-> 1]) /\ OnWindow(Closed)
    OBVIOUS
  <2> HIDE DEF OnWindow
  <2>7. ASSUME NEW d \in Cursor, NEW x, OnWindow(x), cursor' = [cursor EXCEPT ![d] = x], d = c
        PROVE  OnWindow(cursor'[c])
    BY <2>2, <2>7
  <2>8. ASSUME NEW d \in Cursor, NEW x, cursor' = [cursor EXCEPT ![d] = x], d # c
        PROVE  OnWindow(cursor'[c])
    BY <2>2, <2>8
  <2>9. ASSUME NEW d \in Cursor, NEW id, NEW name, Seek(name, d, id) PROVE OnWindow(cursor'[c])
    BY <2>5, <2>7, <2>8, <2>9 DEF Seek
  <2>10. ASSUME NEW d \in Cursor, rv_cursor_advance(d) PROVE OnWindow(cursor'[c])
    BY <2>2, <2>9, <2>10 DEF rv_cursor_advance
  <2>11. ASSUME NEW d \in Cursor, NEW id \in AskedId, rv_cursor_seek_window(d, id)
         PROVE  OnWindow(cursor'[c])
    BY <2>9, <2>11 DEF rv_cursor_seek_window
  <2>12. ASSUME NEW d \in Cursor, rv_cursor_open(d) PROVE OnWindow(cursor'[c])
    BY <2>6, <2>7, <2>8, <2>12 DEF rv_cursor_open
  <2>13. ASSUME NEW d \in Cursor, rv_cursor_close(d) PROVE OnWindow(cursor'[c])
    BY <2>6, <2>7, <2>8, <2>13 DEF rv_cursor_close
  <2>14. ASSUME UNCHANGED cursor PROVE OnWindow(cursor'[c])
    BY <2>2, <2>14
  <2> QED BY <2>10, <2>11, <2>12, <2>13, <2>14
          DEF vars, Next, rv_stream_open, rv_stream_next_window, rv_stream_next_wave,
              rv_stream_close, rv_cursor_read_wave, rv_wave_get, WarmCacheBegins, WarmCacheTurn,
              rv_session_rebind
<1> QED BY <1>1, <1>2, AlwaysIInv, PTL DEF Spec

(* A stream opened before an invalidation never reads again: its           *)
(* generation stays behind the cache's, and it claims no pin.              *)
THEOREM StaleStreamsNeverRead == Spec => StaleStreamsStayDry
<1> DEFINE Dry(s) == stream'[s] = Closed \/ (Stale(s)' /\ pin'[s] = pin[s])
<1>1. IInv /\ [Next]_vars => [\A s \in Stream : Stale(s) => Dry(s)]_vars
  <2> SUFFICES ASSUME IInv, Next, NEW s \in Stream, Stale(s) PROVE Dry(s)
    OBVIOUS
  <2>1. /\ stream \in [Stream -> OpenStream \cup {Closed}]
        /\ pin \in [Reader -> BlockId \cup {NoPin}]
        /\ stream[s] \in OpenStream /\ s \in Reader /\ Cursor \subseteq Reader /\ s \notin Cursor
        /\ Stream \subseteq Reader
    BY DEF IInv, CacheInv, PinTyped, ReaderInv, Stale, Reader
  <2> DEFINE g == stream[s].gen
             h == cache.gen
             i == cache'.gen
  <2>2. g # i
    <3>1. g \in Nat /\ h \in Nat /\ g <= h /\ g # h
      BY <2>1 DEF IInv, CacheInv, ReaderInv, Good, Cache, Generation, Stale, OpenStream
    <3>2. i \in {h, h + 1}
      BY StepKeepsCache
    <3> HIDE DEF g, h, i
    <3> QED BY <3>1, <3>2
  <2>3. ASSUME stream'[s] = stream[s], pin'[s] = pin[s] PROVE Dry(s)
    BY <2>2, <2>3 DEF Stale
  <2>4. ASSUME NEW r \in Reader, r # s, NEW b, pin' = [pin EXCEPT ![r] = b] PROVE pin'[s] = pin[s]
    BY <2>1, <2>4
  <2>5. ASSUME NEW r \in Reader, NEW k, ReadRow(r, k), r # s PROVE pin'[s] = pin[s]
    BY <2>4, <2>5 DEF ReadRow, FillSlice
  <2>6. ASSUME NEW q \in Stream, NEW x, stream' = [stream EXCEPT ![q] = x], q # s
        PROVE  stream'[s] = stream[s]
    BY <2>1, <2>6
  <2> HIDE DEF Dry
  <2>7. ASSUME NEW q \in Stream, NEW route \in AskedId, rv_stream_open(q, route) PROVE Dry(s)
    <3>1. q # s /\ pin' = pin
      BY <2>7 DEF rv_stream_open, Stale
    <3> QED BY <2>3, <2>6, <2>7, <3>1 DEF rv_stream_open
  <2>8. ASSUME NEW q \in Stream, rv_stream_next_window(q) PROVE Dry(s)
    <3>1. pin' = pin
      BY <2>8 DEF rv_stream_next_window
    <3>2. CASE q = s
      <4>1. stream'[s] # Closed => stream'[s].gen = g
        <5> DEFINE x == [stream[s] EXCEPT !.at = @ + 1]
        <5>1. x.gen = g
          BY <2>1 DEF OpenStream
        <5>2. stream' = [stream EXCEPT ![s] = x] \/ stream' = stream
          BY <2>8, <3>2 DEF rv_stream_next_window
        <5> HIDE DEF x
        <5> QED BY <2>1, <5>1, <5>2
      <4> QED BY <2>2, <3>1, <4>1 DEF Dry, Stale
    <3>3. CASE q # s
      <4>1. stream'[s] = stream[s]
        BY <2>1, <2>8, <3>3 DEF rv_stream_next_window
      <4> QED BY <2>3, <3>1, <4>1
    <3> QED BY <3>2, <3>3
  <2>9. ASSUME NEW q \in Stream, rv_stream_next_wave(q) PROVE Dry(s)
    <3>1. stream' = stream
      BY <2>9 DEF rv_stream_next_wave
    <3>2. CASE q = s
      BY <2>3, <2>9, <3>1, <3>2 DEF rv_stream_next_wave, CanRead, Stale
    <3>3. CASE q # s
      BY <2>1, <2>3, <2>5, <2>9, <3>1, <3>3 DEF rv_stream_next_wave
    <3> QED BY <3>2, <3>3
  <2>10. ASSUME NEW q \in Stream, rv_stream_close(q) PROVE Dry(s)
    <3>1. CASE q = s
      BY <2>1, <2>10, <3>1 DEF rv_stream_close, Dry
    <3>2. CASE q # s
      BY <2>1, <2>3, <2>4, <2>6, <2>10, <3>2 DEF rv_stream_close, ReleasePin
    <3> QED BY <3>1, <3>2
  <2>11. ASSUME NEW c \in Cursor, rv_cursor_read_wave(c) PROVE Dry(s)
    BY <2>1, <2>3, <2>5, <2>11 DEF rv_cursor_read_wave
  <2>12. ASSUME NEW c \in Cursor, rv_cursor_close(c) PROVE Dry(s)
    BY <2>1, <2>3, <2>4, <2>12 DEF rv_cursor_close, ReleasePin
  <2>13. ASSUME UNCHANGED <<stream, pin>> PROVE Dry(s)
    BY <2>3, <2>13
  <2> QED BY <2>7, <2>8, <2>9, <2>10, <2>11, <2>12, <2>13
          DEF Next, rv_cursor_open, rv_cursor_seek_window, rv_cursor_advance, rv_wave_get,
              WarmCacheBegins, WarmCacheTurn, rv_session_rebind, Seek
<1> QED BY <1>1, AlwaysIInv, PTL DEF Spec, StaleStreamsStayDry

(* With unique window ids a successful advance goes to the next row, never *)
(* back: a client that advances until it fails visits each row once.       *)
THEOREM AdvancesStepByRow == Spec => AdvanceStepsOneRow
<1> DEFINE Row(id) == FindWindow(tables, id)
           OneRow(c) == Advanced(c) /\ UniqueIds(tables.windows) =>
                          Row(cursor'[c].window) = Row(cursor[c].window) + 1
<1>1. IInv /\ [Next]_vars => [\A c \in Cursor : OneRow(c)]_vars
  <2> SUFFICES ASSUME IInv, Next, NEW c \in Cursor, Advanced(c), UniqueIds(tables.windows)
               PROVE  Row(cursor'[c].window) = Row(cursor[c].window) + 1
    OBVIOUS
  <2>1. /\ tables \in Package /\ tables.windows \in Seq(Window)
        /\ cursor \in [Cursor -> OpenCursor \cup {Closed}]
        /\ Len(tables.windows) \in Nat
    BY RowsTyped DEF IInv, ReaderInv
  <2>2. cursor' # cursor /\ reply'.call = "advance" /\ cursor[c].window \notin Unmapped
    BY DEF Advanced
  <2>3. PICK d \in Cursor : rv_cursor_advance(d)
    BY <2>2 DEF Next, rv_stream_open, rv_stream_next_window, rv_stream_next_wave, rv_stream_close,
                rv_cursor_open, rv_cursor_seek_window, rv_cursor_read_wave, rv_cursor_close,
                rv_wave_get, WarmCacheBegins, WarmCacheTurn, rv_session_rebind, Seek, Returns, Code
  <2>4. /\ RowsOfCursor(d) # {} /\ NextRow(d) <= Len(tables.windows)
        /\ Seek("advance", d, tables.windows[NextRow(d)].id)
    BY <2>2, <2>3 DEF rv_cursor_advance
  <2> DEFINE n == NextRow(d)
             id == tables.windows[n].id
  <2>5. d = c /\ cursor'[c] = Sought(c, id)
    BY <2>1, <2>4 DEF Seek, Advanced
  <2>6. SeekSucceeds(id) /\ cursor'[c].window = id
    BY <2>5 DEF Sought, Advanced
  <2>7. Row(id) # 0 /\ id \notin Unmapped
    BY <2>1, <2>6, MapCellIsRow DEF SeekSucceeds, FindWindow
  <2> DEFINE m == First(RowsOfCursor(c))
  <2>8. m \in RowsOfCursor(c) /\ n \in DOMAIN tables.windows /\ n = m + 1
    BY <2>1, <2>4, <2>5, NextRowTyped DEF NextRow
  <2> HIDE DEF n, m
  <2>9. Row(id) = n
    BY <2>1, <2>7, <2>8, UniqueCell DEF FindWindow
  <2>10. m \in DOMAIN tables.windows /\ tables.windows[m].id = cursor[c].window
    BY <2>8 DEF RowsOfCursor, RowsOf
  <2>11. Row(cursor[c].window) = m
    BY <2>1, <2>2, <2>10, UniqueCell DEF FindWindow
  <2> QED BY <2>6, <2>8, <2>9, <2>11
<1> QED BY <1>1, AlwaysIInv, PTL DEF Spec, AdvanceStepsOneRow
=============================================================================
