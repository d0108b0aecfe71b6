---------------------------- MODULE StorageProofs ----------------------------
(***************************************************************************)
(* Theorems about the storage of a package: the arena, and the parser that *)
(* decodes the sections of a file into it.                                 *)
(*                                                                         *)
(* The arena, for all sizes, alignments and limits: its fields stay in     *)
(* order, what it hands out never overlaps, and it refuses only what does  *)
(* not fit.  The parser, for every file, every directory and every refusal *)
(* of the arena: it reads nothing beyond the file, and what it shows is    *)
(* all the sections or an error.                                           *)
(***************************************************************************)
EXTENDS Arena, Parser, DataProofs

USE BytesAssumption, AlignmentAssumption, LimitsAssumption, WidthAssumption,
    NoneAssumption

(* rv_align_up never goes back.                                            *)
LEMMA AlignUpGoesUp ==
  ASSUME NEW v \in Nat, NEW align \in Nat \ {0}
  PROVE  AlignUp(v, align) \in Nat /\ AlignUp(v, align) >= v
<1>1. v % align \in 0 .. align - 1
  OBVIOUS
<1> QED BY <1>1 DEF AlignUp

(* An alignment is never 0 by the time it is used.                         *)
LEMMA AlignedIsPositive ==
  ASSUME NEW align \in Alignment
  PROVE  Aligned(align) \in Nat \ {0}
BY DEF Aligned

(* A good arena: the type, disjoint regions below used, marks below used.  *)
MarksBehind == \A m \in mark : m <= arena.used
ArenaInv == ArenaTypeOK /\ AllocationsKeepApart /\ RequestsAreWhole /\ MarksBehind

-----------------------------------------------------------------------------
(***************************************************************************)
(* Allocation.                                                             *)
(***************************************************************************)

(* Growth makes room and stays below the limit.                            *)
LEMMA GrowthMakesRoom ==
  ASSUME arena \in ArenaState, NEW need \in Nat, need <= arena.max
  PROVE  Grown(need) \in Nat /\ need <= Grown(need) /\ Grown(need) <= arena.max
<1>1. arena.max \in Nat
  BY DEF ArenaState
<1>2. CASE Doublings(need) # {}
  <2>1. Doublings(need) \subseteq need .. arena.max
    BY DEF Doublings
  <2>2. Doublings(need) \in SUBSET Nat
    BY <1>1, <2>1
  <2>3. Min(Doublings(need)) \in need .. arena.max
    BY <1>2, <2>1, <2>2, MinIsMember
  <2> QED BY <1>1, <1>2, <2>3 DEF Grown
<1>3. CASE Doublings(need) = {}
  BY <1>1, <1>3 DEF Grown
<1> QED BY <1>2, <1>3

(* A region past used is apart from all others.                            *)
LEMMA HandOutKeeps ==
  ASSUME ArenaInv, arena # None, NEW a \in ArenaState, a.used = arena.used,
         NEW off \in Nat, off >= arena.used, NEW n \in Nat, off + n <= a.size,
         NEW align, NEW asked, asked = n, UNCHANGED mark, HandOut(a, off, n, align, asked)
  PROVE  ArenaInv'
<1> DEFINE new == [block |-> a.block, at |-> off, len |-> n, asked |-> asked]
<1>1. arena' = [a EXCEPT !.used = off + n] /\ live' = live \cup {new}
  BY DEF HandOut
<1>2. /\ arena' \in ArenaState /\ arena'.used = off + n /\ new \in Region
      /\ arena \in ArenaState /\ arena.used \in Nat
  BY <1>1 DEF ArenaState, Region, ArenaInv, ArenaTypeOK
<1>3. new.at = off /\ new.len = n /\ new.asked = n
  OBVIOUS
<1>4. \A r \in live : r.at \in Nat /\ r.len \in Nat /\ r.at + r.len <= arena.used
  BY DEF ArenaInv, ArenaTypeOK, AllocationsKeepApart, Region
<1> HIDE DEF new
<1>5. ArenaTypeOK'
  <2>1. arena' # None => arena' \in ArenaState
    BY <1>2
  <2>2. arena' = None => live' = {} /\ mark' = {}
    BY <1>1, <1>2
  <2>3. live' \subseteq Region /\ mark' \subseteq Nat
    BY <1>1, <1>2 DEF ArenaInv, ArenaTypeOK
  <2> QED BY <2>1, <2>2, <2>3 DEF ArenaTypeOK
<1>6. AllocationsKeepApart'
  <2>1. \A r \in live' : r.at + r.len <= arena'.used
    BY <1>1, <1>2, <1>3, <1>4
  <2>2. \A r \in live : Apart(r, new) /\ Apart(new, r)
    BY <1>2, <1>3, <1>4 DEF Apart
  <2>3. \A r, s \in live : r # s => Apart(r, s)
    BY DEF ArenaInv, AllocationsKeepApart
  <2>4. \A r, s \in live' : r # s => Apart(r, s)
    BY <1>1, <2>2, <2>3
  <2> QED BY <2>1, <2>4 DEF AllocationsKeepApart, Apart
<1>7. RequestsAreWhole'
  BY <1>1, <1>3 DEF ArenaInv, RequestsAreWhole
<1>8. MarksBehind'
  BY <1>2 DEF ArenaInv, ArenaTypeOK, MarksBehind
<1> QED BY <1>5, <1>6, <1>7, <1>8 DEF ArenaInv

(* A refusal changes nothing.                                              *)
LEMMA IdleKeeps ==
  ASSUME ArenaInv, UNCHANGED <<arena, live, mark>>
  PROVE  ArenaInv'
BY DEF ArenaInv, ArenaTypeOK, AllocationsKeepApart, Apart, RequestsAreWhole, MarksBehind

(* An allocation of as many bytes as were asked for.                       *)
LEMMA AllocKeeps ==
  ASSUME ArenaInv, NEW n \in Nat, NEW align \in Nat \ {0}, Alloc(n, align, n)
  PROVE  ArenaInv'
<1> DEFINE off == AlignUp(arena.used, align)
<1>1. arena # None /\ arena \in ArenaState /\ UNCHANGED mark
  BY DEF Alloc, ArenaInv, ArenaTypeOK
<1>2. arena.used \in Nat /\ arena.size \in Nat /\ arena.max \in Nat /\ arena.block \in 1 .. MaxBlock
  BY <1>1 DEF ArenaState
<1>3. off \in Nat /\ off >= arena.used
  BY <1>2, AlignUpGoesUp
<1>4. \/ Refuse(n, align)
      \/ Fits(off, n) /\ off + n <= arena.size /\ HandOut(arena, off, n, align, n)
      \/ n # 0 /\ Fits(off, n) /\ Grow(off, n, align, n)
  BY DEF Alloc
<1> HIDE DEF off
<1>5. CASE Refuse(n, align)
  BY <1>1, <1>5, IdleKeeps DEF Refuse
<1>6. CASE off + n <= arena.size /\ HandOut(arena, off, n, align, n)
  BY <1>1, <1>3, <1>6, HandOutKeeps
<1>7. CASE n # 0 /\ Fits(off, n) /\ Grow(off, n, align, n)
  <2>1. off + n \in Nat /\ off + n <= arena.max
    BY <1>2, <1>3, <1>7 DEF Fits
  <2> DEFINE cap == Grown(off + n)
             grown == [arena EXCEPT !.size = cap]
             moved == [grown EXCEPT !.block = @ + 1]
  <2>2. cap \in Nat /\ off + n <= cap /\ cap <= arena.max
    BY <1>1, <2>1, GrowthMakesRoom
  <2>3. \/ UNCHANGED <<arena, live>>
        \/ HandOut(grown, off, n, align, n)
        \/ arena.block < MaxBlock /\ HandOut(moved, off, n, align, n)
    BY <1>7 DEF Grow, Refuse
  <2>4. cap # 0
    BY <1>3, <1>7, <2>1, <2>2
  <2> HIDE DEF cap
  <2>5. grown \in ArenaState /\ grown.used = arena.used /\ grown.size = cap
    BY <1>1, <1>2, <1>3, <2>1, <2>2, <2>4 DEF ArenaState
  <2>6a. grown.block = arena.block
    BY <1>1 DEF ArenaState
  <2> HIDE DEF grown
  <2>6. arena.block < MaxBlock => moved \in ArenaState /\ moved.used = arena.used /\ moved.size = cap
    <3>1. SUFFICES ASSUME arena.block < MaxBlock
                   PROVE  moved \in ArenaState /\ moved.used = grown.used /\ moved.size = grown.size
      BY <2>5
    <3>2. grown.block + 1 \in 1 .. MaxBlock
      BY <1>2, <2>6a, <3>1
    <3> QED BY <2>5, <3>2 DEF ArenaState
  <2> HIDE DEF moved
  <2>7. CASE UNCHANGED <<arena, live>>
    BY <1>1, <2>7, IdleKeeps
  <2>8. CASE HandOut(grown, off, n, align, n)
    BY <1>1, <1>3, <2>2, <2>5, <2>8, HandOutKeeps
  <2>9. CASE arena.block < MaxBlock /\ HandOut(moved, off, n, align, n)
    BY <1>1, <1>3, <2>2, <2>6, <2>9, HandOutKeeps
  <2> QED BY <2>3, <2>7, <2>8, <2>9
<1> QED BY <1>4, <1>5, <1>6, <1>7

(* A product that passes the test of rv_arena_calloc is not wrapped.       *)
LEMMA TestedProductIsWhole ==
  ASSUME NEW count \in Bytes, NEW size \in Bytes, ~Wraps(count, size)
  PROVE  count * size \in Nat /\ (count * size) % (SizeMax + 1) = count * size
<1> DEFINE q == SizeMax \div count
           product == count * size
<1>1. count \in Nat /\ size \in Nat /\ SizeMax \in Nat
  OBVIOUS
<1>2. product \in Nat
  BY <1>1
<1>3. product <= SizeMax
  <2>1. CASE count = 0
    BY <1>1, <2>1
  <2>2. CASE count # 0
    <3>1. q \in Nat /\ count * q <= SizeMax
      BY <1>1, <2>2
    <3>2. size <= q
      BY <1>1, <2>2, <3>1 DEF Wraps
    <3> HIDE DEF q
    <3>3. count * size <= count * q
      BY <1>1, <3>1, <3>2
    <3>4. count * q \in Nat
      BY <1>1, <3>1
    <3> QED BY <1>1, <1>2, <3>1, <3>3, <3>4
  <2> QED BY <2>1, <2>2
<1> HIDE DEF product
<1>4. product % (SizeMax + 1) = product
  BY <1>1, <1>2, <1>3
<1> QED BY <1>2, <1>4 DEF product

(* rv_arena_calloc keeps the invariant, wrapped product or not.            *)
LEMMA CallocKeeps ==
  ASSUME ArenaInv, NEW count \in Bytes, NEW size \in Bytes, NEW align \in Alignment,
         rv_arena_calloc(count, size, align)
  PROVE  ArenaInv'
<1>1. CASE Wraps(count, size)
  BY <1>1, IdleKeeps DEF rv_arena_calloc, Refuse
<1>2. CASE ~Wraps(count, size)
  <2> DEFINE product == count * size
  <2>1. product \in Nat /\ product % (SizeMax + 1) = product
    BY <1>2, TestedProductIsWhole
  <2>2. Alloc(product % (SizeMax + 1), Aligned(align), product)
    BY <1>2 DEF rv_arena_calloc
  <2> HIDE DEF product
  <2>3. Alloc(product, Aligned(align), product)
    BY <2>1, <2>2
  <2> QED BY <2>1, <2>3, AlignedIsPositive, AllocKeeps
<1> QED BY <1>1, <1>2

-----------------------------------------------------------------------------
(***************************************************************************)
(* The life of the block, and the marks.                                   *)
(***************************************************************************)

(* rv_arena_init makes an empty arena within its limit.                    *)
LEMMA InitKeeps ==
  ASSUME ArenaInv, NEW initial \in Limits, NEW limit \in Limits, rv_arena_init(initial, limit)
  PROVE  ArenaInv'
<1> DEFINE size == InitialBytes(initial, limit)
           max == MaxBytes(limit)
<1>1. max \in Nat \ {0} /\ size \in Nat \ {0} /\ size <= max
  BY DEF InitialBytes, MaxBytes
<1>2. live = {} /\ mark = {}
  BY DEF ArenaInv, ArenaTypeOK, rv_arena_init
<1>3. \/ arena' = [block |-> 1, size |-> size, used |-> 0, max |-> max, epoch |-> 1]
      \/ arena' = None
  BY DEF rv_arena_init
<1> HIDE DEF size, max
<1>4. arena' # None => arena' \in ArenaState
  BY <1>1, <1>3 DEF ArenaState
<1>5. live' = {} /\ mark' = {}
  BY <1>2 DEF rv_arena_init
<1> QED BY <1>4, <1>5 DEF ArenaInv, ArenaTypeOK, AllocationsKeepApart, RequestsAreWhole, MarksBehind

(* After a reset or a destroy callers hold nothing.                        *)
LEMMA ReleaseKeeps ==
  ASSUME ArenaInv, rv_arena_destroy \/ rv_arena_reset
  PROVE  ArenaInv'
<1>1. live' = {} /\ mark' = {}
  BY DEF rv_arena_destroy, rv_arena_reset
<1>2. arena' # None => arena' \in ArenaState
  <2>1. SUFFICES ASSUME rv_arena_reset PROVE arena' \in ArenaState
    BY DEF rv_arena_destroy
  <2>2. arena \in ArenaState
    BY <2>1 DEF rv_arena_reset, ArenaInv, ArenaTypeOK
  <2> DEFINE next == NextEpoch(arena.epoch)
  <2>3. next \in 1 .. MaxEpoch /\ arena.size \in Nat
    BY <2>2 DEF ArenaState, NextEpoch
  <2>4. arena' = [arena EXCEPT !.used = 0, !.epoch = next]
    BY <2>1 DEF rv_arena_reset
  <2> HIDE DEF next
  <2>5. arena' \in [block : 1 .. MaxBlock, size : Nat \ {0}, used : Nat, max : Nat,
                    epoch : 1 .. MaxEpoch]
    BY <2>2, <2>3, <2>4 DEF ArenaState
  <2>6. arena'.used = 0 /\ arena'.size = arena.size /\ arena'.max = arena.max
    BY <2>2, <2>4 DEF ArenaState
  <2>7. arena'.used <= arena'.size /\ arena'.size <= arena'.max
    BY <2>2, <2>3, <2>6 DEF ArenaState
  <2> QED BY <2>5, <2>7 DEF ArenaState
<1> QED BY <1>1, <1>2 DEF ArenaInv, ArenaTypeOK, AllocationsKeepApart, RequestsAreWhole, MarksBehind

(* A mark is where the arena ends now.                                     *)
LEMMA MarkKeeps ==
  ASSUME ArenaInv, rv_arena_mark_get
  PROVE  ArenaInv'
<1>1. arena \in ArenaState /\ arena.used \in Nat
  BY DEF rv_arena_mark_get, ArenaInv, ArenaTypeOK, ArenaState
<1>2. UNCHANGED <<arena, live>> /\ mark' = mark \cup {arena.used} /\ arena # None
  BY DEF rv_arena_mark_get
<1>3. ArenaTypeOK'
  BY <1>1, <1>2 DEF ArenaInv, ArenaTypeOK
<1>4. AllocationsKeepApart' /\ RequestsAreWhole'
  BY <1>2 DEF ArenaInv, AllocationsKeepApart, Apart, RequestsAreWhole
<1>5. MarksBehind'
  BY <1>1, <1>2 DEF ArenaInv, MarksBehind
<1> QED BY <1>3, <1>4, <1>5 DEF ArenaInv

(* What callers keep after a rewind lies before the mark.                  *)
LEMMA RewindKeeps ==
  ASSUME ArenaInv, NEW m \in mark, rv_arena_rewind(m)
  PROVE  ArenaInv'
<1>1. arena \in ArenaState /\ arena # None /\ m \in Nat /\ m <= arena.used
  BY DEF rv_arena_rewind, ArenaInv, ArenaTypeOK, MarksBehind
<1>2. arena' = [arena EXCEPT !.used = m]
  BY <1>1 DEF rv_arena_rewind
<1>3. live' = {r \in live : r.at + r.len <= m} /\ mark' = {o \in mark : o <= m}
  BY DEF rv_arena_rewind
<1>4. arena' \in ArenaState /\ arena'.used = m
  BY <1>1, <1>2 DEF ArenaState
<1>5. ArenaTypeOK'
  BY <1>3, <1>4 DEF ArenaInv, ArenaTypeOK
<1>6. AllocationsKeepApart'
  BY <1>3, <1>4 DEF ArenaInv, AllocationsKeepApart, Apart
<1>7. RequestsAreWhole' /\ MarksBehind'
  BY <1>3, <1>4 DEF ArenaInv, RequestsAreWhole, MarksBehind
<1> QED BY <1>5, <1>6, <1>7 DEF ArenaInv

-----------------------------------------------------------------------------
(* The invariant, of which the theorems below are the parts.               *)
LEMMA AlwaysArenaInv == ArenaSpec => []ArenaInv
<1>1. ArenaInit => ArenaInv
  BY DEF ArenaInit, ArenaInv, ArenaTypeOK, AllocationsKeepApart, RequestsAreWhole, MarksBehind
<1>2. ArenaInv /\ [ArenaNext]_arenaVars => ArenaInv'
  <2> SUFFICES ASSUME ArenaInv, [ArenaNext]_arenaVars PROVE ArenaInv'
    OBVIOUS
  <2>1. ASSUME NEW initial \in Limits, NEW limit \in Limits, rv_arena_init(initial, limit)
        PROVE  ArenaInv'
    BY <2>1, InitKeeps
  <2>2. CASE rv_arena_destroy \/ rv_arena_reset
    BY <2>2, ReleaseKeeps
  <2>3. ASSUME NEW n \in Bytes, NEW align \in Alignment, rv_arena_alloc(n, align)
        PROVE  ArenaInv'
    <3>1. n \in Nat
      OBVIOUS
    <3> QED BY <2>3, <3>1, AlignedIsPositive, AllocKeeps DEF rv_arena_alloc
  <2>4. ASSUME NEW n \in Bytes, NEW align \in Alignment, NEW size \in Bytes,
               rv_arena_calloc(n, size, align)
        PROVE  ArenaInv'
    BY <2>4, CallocKeeps
  <2>5. ASSUME NEW n \in Bytes, rv_arena_strdup(n) PROVE ArenaInv'
    <3>1. n + 1 \in Nat /\ 1 \in Nat \ {0}
      OBVIOUS
    <3> QED BY <2>5, <3>1, AllocKeeps DEF rv_arena_strdup
  <2>6. CASE rv_arena_mark_get
    BY <2>6, MarkKeeps
  <2>7. ASSUME NEW m \in mark, rv_arena_rewind(m) PROVE ArenaInv'
    BY <2>7, RewindKeeps
  <2>8. CASE UNCHANGED arenaVars
    BY <2>8, IdleKeeps DEF arenaVars
  <2> QED BY <2>1, <2>2, <2>3, <2>4, <2>5, <2>6, <2>7, <2>8 DEF ArenaNext
<1> QED BY <1>1, <1>2, PTL DEF ArenaSpec

(* used stays within the block and the block within max_bytes, and the     *)
(* epoch is never 0.                                                       *)
THEOREM ArenaStaysInOrder == ArenaSpec => []ArenaTypeOK
<1>1. ArenaInv => ArenaTypeOK
  BY DEF ArenaInv
<1> QED BY <1>1, AlwaysArenaInv, PTL

(* No two allocations a caller may use share a byte, whatever grew, moved, *)
(* failed or was rewound between them.                                     *)
THEOREM AllocationsNeverOverlap == ArenaSpec => []AllocationsKeepApart
<1>1. ArenaInv => AllocationsKeepApart
  BY DEF ArenaInv
<1> QED BY <1>1, AlwaysArenaInv, PTL

(* No caller gets fewer bytes than it asked for: the test of               *)
(* rv_arena_calloc catches every product that exceeds size_t.              *)
THEOREM RequestsNeverWrap == ArenaSpec => []RequestsAreWhole
<1>1. ArenaInv => RequestsAreWhole
  BY DEF ArenaInv
<1> QED BY <1>1, AlwaysArenaInv, PTL

-----------------------------------------------------------------------------
(***************************************************************************)
(* Refusals.                                                               *)
(***************************************************************************)

(* No aligned place from v on lies before the one rounding up gives.       *)
LEMMA AlignUpIsLeast ==
  ASSUME NEW v \in Nat, NEW align \in Nat \ {0}, NEW off \in Nat, v <= off, off % align = 0
  PROVE  AlignUp(v, align) <= off
<1>1. CASE v % align = 0
  BY <1>1 DEF AlignUp
<1>2. CASE v % align # 0
  <2> DEFINE q == v \div align
             r == v % align
             p == off \div align
  <2>1. q \in Nat /\ r \in 1 .. align - 1 /\ v = align * q + r
    BY <1>2
  <2>2. p \in Nat /\ off = align * p
    OBVIOUS
  <2>3. AlignUp(v, align) = v + (align - r)
    BY <1>2 DEF AlignUp
  <2> HIDE DEF q, r, p
  <2>4. p >= q + 1
    <3>1. SUFFICES ASSUME p <= q PROVE FALSE
      BY <2>1, <2>2
    <3>2. align * p <= align * q
      BY <2>1, <2>2, <3>1
    <3>3. align * p \in Nat /\ align * q \in Nat
      BY <2>1, <2>2
    <3> QED BY <2>1, <2>2, <3>2, <3>3
  <2>5. align * p >= align * (q + 1)
    BY <2>1, <2>2, <2>4
  <2>6. align * (q + 1) = align * q + align
    BY <2>1
  <2>7. align * p \in Nat /\ align * q \in Nat
    BY <2>1, <2>2
  <2> QED BY <2>1, <2>2, <2>3, <2>5, <2>6, <2>7
<1> QED BY <1>1, <1>2

(* What the last call was refused had no aligned place below the limit.    *)
RefusalIsDue ==
  reply'.call = "alloc" /\ reply'.outcome = "null" /\ reply'.n # 0 => ~Room(reply'.n, reply'.align)

(* rv_arena_alloc refuses only what does not fit: the growth it tries      *)
(* before makes room for whatever is within the limit.                     *)
LEMMA AllocRefusesDuly ==
  ASSUME ArenaInv, NEW n \in Nat, NEW align \in Nat \ {0}, NEW asked, Alloc(n, align, asked)
  PROVE  RefusalIsDue
<1> DEFINE off == AlignUp(arena.used, align)
<1>1. arena \in ArenaState
  BY DEF Alloc, ArenaInv, ArenaTypeOK
<1>2. arena.used \in Nat /\ arena.size \in Nat /\ arena.max \in Nat
  BY <1>1 DEF ArenaState
<1>3. off \in Nat /\ off >= arena.used
  BY <1>2, AlignUpGoesUp
<1>4. ~Fits(off, n) => ~Room(n, align)
  <2> SUFFICES ASSUME NEW o \in arena.used .. arena.max, o % align = 0, n <= arena.max - o
               PROVE  Fits(off, n)
    BY DEF Room
  <2>1. o \in Nat /\ arena.used <= o /\ o <= arena.max
    BY <1>2
  <2>2. off <= o
    BY <1>2, <2>1, AlignUpIsLeast
  <2> HIDE DEF off
  <2> QED BY <1>2, <1>3, <2>1, <2>2 DEF Fits
<1>5. \/ Refuse(n, align) /\ (n = 0 \/ ~Fits(off, n))
      \/ HandOut(arena, off, n, align, asked)
      \/ n # 0 /\ Fits(off, n) /\ off + n > arena.size /\ Grow(off, n, align, asked)
  BY <1>2, <1>3 DEF Alloc
<1> HIDE DEF off
<1>6. CASE Refuse(n, align) /\ (n = 0 \/ ~Fits(off, n))
  BY <1>4, <1>6 DEF Refuse, Answers, RefusalIsDue
<1>7. CASE HandOut(arena, off, n, align, asked)
  BY <1>7 DEF HandOut, Answers, RefusalIsDue
<1>8. CASE n # 0 /\ Fits(off, n) /\ off + n > arena.size /\ Grow(off, n, align, asked)
  <2>1. off + n \in Nat /\ off + n <= arena.max
    BY <1>2, <1>3, <1>8 DEF Fits
  <2>2. ~(Grown(off + n) > arena.max)
    <3>1. Grown(off + n) \in Nat /\ Grown(off + n) <= arena.max
      BY <1>1, <2>1, GrowthMakesRoom
    <3> HIDE DEF Grown
    <3> QED BY <1>2, <3>1
  <2>3. Answers("no memory", n, align) \/ Answers("ok", n, align)
    BY <1>8, <2>2 DEF Grow, HandOut
  <2>4. PICK outcome \in {"no memory", "ok"} : Answers(outcome, n, align)
    BY <2>3
  <2>5. reply'.outcome = outcome
    BY <2>4 DEF Answers
  <2> QED BY <2>4, <2>5 DEF RefusalIsDue
<1> QED BY <1>5, <1>6, <1>7, <1>8

(* A request for which there is an aligned place below the limit is        *)
(* refused only when realloc fails, never because a doubling would pass    *)
(* the limit or because rounding up wastes room (rv_arena_alloc,           *)
(* rv_arena_grow).                                                         *)
THEOREM RefusalsAreDue == ArenaSpec => RefusedOnlyWhenFull
<1>1. ArenaInv /\ [ArenaNext]_arenaVars => [RefusalIsDue]_arenaVars
  <2> SUFFICES ASSUME ArenaInv, ArenaNext PROVE RefusalIsDue
    OBVIOUS
  <2>1. ASSUME NEW n \in Bytes, NEW align \in Alignment, rv_arena_alloc(n, align)
        PROVE  RefusalIsDue
    <3>1. n \in Nat
      OBVIOUS
    <3> QED BY <2>1, <3>1, AlignedIsPositive, AllocRefusesDuly DEF rv_arena_alloc
  <2>2. ASSUME NEW n \in Bytes, NEW align \in Alignment, NEW size \in Bytes,
               rv_arena_calloc(n, size, align)
        PROVE  RefusalIsDue
    <3>1. CASE Wraps(n, size)
      BY <2>2, <3>1 DEF rv_arena_calloc, Refuse, Answers, RefusalIsDue
    <3>2. CASE ~Wraps(n, size)
      <4> DEFINE product == n * size
      <4>1. product \in Nat /\ product % (SizeMax + 1) = product
        BY <3>2, TestedProductIsWhole
      <4>2. Alloc(product % (SizeMax + 1), Aligned(align), product)
        BY <2>2, <3>2 DEF rv_arena_calloc
      <4> HIDE DEF product
      <4>3. Alloc(product, Aligned(align), product)
        BY <4>1, <4>2
      <4> QED BY <4>1, <4>3, AlignedIsPositive, AllocRefusesDuly
    <3> QED BY <3>1, <3>2
  <2>3. ASSUME NEW n \in Bytes, rv_arena_strdup(n) PROVE RefusalIsDue
    <3>1. n + 1 \in Nat /\ 1 \in Nat \ {0}
      OBVIOUS
    <3> QED BY <2>3, <3>1, AllocRefusesDuly DEF rv_arena_strdup
  <2>4. CASE \/ \E initial, limit \in Limits : rv_arena_init(initial, limit)
             \/ rv_arena_destroy \/ rv_arena_reset \/ rv_arena_mark_get
             \/ \E m \in mark : rv_arena_rewind(m)
    <3>1. PICK name \in {"init", "destroy", "reset", "mark", "rewind"}, outcome \in {"ok", "no memory"} :
            Returns(name, outcome)
      BY <2>4 DEF rv_arena_init, rv_arena_destroy, rv_arena_reset, rv_arena_mark_get, rv_arena_rewind
    <3>2. reply'.call = name
      BY <3>1 DEF Returns
    <3> QED BY <3>1, <3>2 DEF RefusalIsDue
  <2> QED BY <2>1, <2>2, <2>3, <2>4 DEF ArenaNext
<1>2. [RefusalIsDue]_arenaVars => [reply'.call = "alloc" /\ reply'.outcome = "null" /\ reply'.n # 0 =>
                                ~Room(reply'.n, reply'.align)]_arenaVars
  BY DEF RefusalIsDue
<1> QED BY <1>1, <1>2, AlwaysArenaInv, PTL DEF ArenaSpec, RefusedOnlyWhenFull

-----------------------------------------------------------------------------
(***************************************************************************)
(* The parser.                                                             *)
(***************************************************************************)
USE OffsetAssumption, NoFileAssumption, FilesAssumption

(* There are ten sections, and only the last is SUMM.                      *)
LEMMA OrderShape ==
  /\ Sections = 1 .. 10 /\ Len(Order) = 10 /\ LastStep = 12
  /\ \A s \in Sections : (Order[s] = "SUMM") <=> (s = 10)
BY DEF Sections, Order, LastStep

(* A lookup gives 0 or an entry of the directory.                          *)
LEMMA FindSectionFinds ==
  ASSUME NEW dir \in Seq(Entry), NEW tag
  PROVE  /\ FindSection(dir, tag) \in Nat
         /\ FindSection(dir, tag) # 0 => dir[FindSection(dir, tag)] \in Entry
<1>1. WithTag(dir, tag) \in SUBSET Nat /\ WithTag(dir, tag) \subseteq 1 .. Len(dir)
  BY DEF WithTag
<1>2. CASE WithTag(dir, tag) = {}
  BY <1>2 DEF FindSection
<1>3. CASE WithTag(dir, tag) # {}
  <2>1. Min(WithTag(dir, tag)) \in 1 .. Len(dir)
    BY <1>1, <1>3, MinIsMember
  <2> QED BY <1>3, <2>1 DEF FindSection
<1> QED BY <1>2, <1>3

(* What a reader may hold.                                                 *)
Readers == [dir : Seq(Entry), size : 0 .. OffsetMod - 1]

(* A load leaves a directory in the reader, even if it fails.              *)
LEMMA LoadLeavesAReader ==
  ASSUME NEW f \in Files
  PROVE  LoadDirectory(f) \in Readers
<1>1. CASE f = NoFile
  BY <1>1 DEF LoadDirectory, Readers
<1>2. CASE f # NoFile
  <2>1. f.dir \in Seq(Entry) /\ f.size \in 0 .. OffsetMod - 1
    BY <1>2 DEF File
  <2>2. OutOfRange(f) # {} => Min(OutOfRange(f)) \in 1 .. Len(f.dir)
    <3>1. OutOfRange(f) \in SUBSET Nat /\ OutOfRange(f) \subseteq 1 .. Len(f.dir)
      BY <2>1 DEF OutOfRange
    <3> QED BY <3>1, MinIsMember
  <2>3. OutOfRange(f) # {} => SubSeq(f.dir, 1, Min(OutOfRange(f))) \in Seq(Entry)
    BY <2>1, <2>2
  <2> QED BY <1>2, <2>1, <2>3 DEF LoadDirectory, Readers
<1> QED BY <1>1, <1>2

-----------------------------------------------------------------------------
(* The sections before the n-th step are parsed: each table is what the    *)
(* directory has of its section, and that is acceptable.                   *)
ParsedBefore(n) ==
  \A s \in Sections :
    /\ parser.table[s] = IF s + 1 < n THEN Contract!Where(Reading, s) ELSE 0
    /\ s + 1 < n => Contract!SectionIsAcceptable(Reading, s)

(* While the parser runs, the steps before step_index are behind it and    *)
(* have counted at most one section each; after a run that succeeded all   *)
(* of them are.                                                            *)
Running ==
  call # "none" =>
    /\ ParsedBefore(parser.step_index)
    /\ parser.sections_seen = 0 \/ parser.sections_seen <= parser.step_index - 2
CallsAreOrderly ==
  /\ call # "none" <=> status = "running"
  /\ call = "open" => ~opened
  /\ call \in {"reopen", "reset"} => opened
DoneIsWhole == status = "done" => ParsedBefore(LastStep)
IInv == TypeOK /\ CallsAreOrderly /\ Running /\ DoneIsWhole

Parsers == [step_index : 0 .. LastStep, table : [Sections -> Nat], sections_seen : 0 .. Len(Order)]

(* A closed package has a reader too.                                      *)
LEMMA EmptyIsReader == EmptyReader \in Readers
BY DEF EmptyReader, Readers

(* A fresh parser has nothing behind it.                                   *)
LEMMA FreshIsFresh ==
  /\ FreshParser \in Parsers /\ FreshParser.step_index = 0 /\ FreshParser.sections_seen = 0
  /\ \A s \in Sections : FreshParser.table[s] = 0
BY OrderShape DEF FreshParser, Parsers

(* A run begins with nothing behind it.                                    *)
LEMMA RunBegins ==
  ASSUME IInv, NEW name \in {"open", "reopen", "reset"}, RunParser(name),
         reader' \in Readers, strict' \in BOOLEAN, UNCHANGED opened,
         name = "open" <=> ~opened
  PROVE  IInv'
<1>1. call' = name /\ status' = "running" /\ parser' = FreshParser
  BY DEF RunParser, Restart
<1>2. TypeOK'
  BY <1>1, FreshIsFresh DEF IInv, TypeOK, Parsers, Readers
<1>3. CallsAreOrderly'
  BY <1>1 DEF IInv, CallsAreOrderly
<1>4. ParsedBefore(parser.step_index)'
  BY <1>1, FreshIsFresh, OrderShape DEF ParsedBefore
<1>5. Running' /\ DoneIsWhole'
  BY <1>1, <1>4, FreshIsFresh DEF Running, DoneIsWhole
<1> QED BY <1>2, <1>3, <1>5 DEF IInv

(* A call that does not come to a parse keeps the parser as it is.         *)
LEMMA NoRun ==
  ASSUME IInv, call = "none", UNCHANGED <<call, parser, opened>>, status' = "failed",
         reader' \in Readers, strict' \in BOOLEAN
  PROVE  IInv'
BY DEF IInv, TypeOK, CallsAreOrderly, Running, DoneIsWhole, Readers

(* The calls keep the invariant.                                           *)
LEMMA CallsKeep ==
  ASSUME IInv, Calls
  PROVE  IInv'
<1>0. reader \in Readers /\ strict \in BOOLEAN /\ opened \in BOOLEAN
  BY DEF IInv, TypeOK, Readers
<1>1. ASSUME NEW f \in Files, NEW flag \in BOOLEAN, rv_package_open(f, flag) PROVE IInv'
  <2>1. CASE LoadSucceeds(f)
    BY <1>1, <2>1, LoadLeavesAReader, RunBegins DEF rv_package_open
  <2>2. CASE ~LoadSucceeds(f)
    BY <1>0, <1>1, <2>2, NoRun DEF rv_package_open
  <2> QED BY <2>1, <2>2
<1>2. ASSUME NEW f \in Files, rv_package_reopen(f) PROVE IInv'
  <2>1. CASE LoadSucceeds(f)
    BY <1>0, <1>2, <2>1, LoadLeavesAReader, RunBegins DEF rv_package_reopen
  <2>2. CASE ~LoadSucceeds(f)
    BY <1>0, <1>2, <2>2, LoadLeavesAReader, NoRun DEF rv_package_reopen
  <2> QED BY <2>1, <2>2
<1>3. CASE rv_package_reset
  BY <1>0, <1>3, RunBegins DEF rv_package_reset
<1>4. CASE rv_package_close
  BY <1>4, EmptyIsReader, FreshIsFresh
  DEF rv_package_close, IInv, TypeOK, CallsAreOrderly, Running, DoneIsWhole, Readers, Parsers
<1> QED BY <1>1, <1>2, <1>3, <1>4 DEF Calls

-----------------------------------------------------------------------------
(* The contract reads a directory as the parser does.                      *)
LEMMA SameDirectory ==
  /\ Contract!Order = Order
  /\ \A dir, tag : Contract!FindSection(dir, tag) = FindSection(dir, tag)
  /\ \A e, size : Contract!SectionSlice(e, size) = SectionSlice(e, size)
  /\ \A e, size : Contract!VerifySectionCrc(e, size) = VerifySectionCrc(e, size)
<1>1. Contract!Order = Order
  BY DEF Contract!Order, Order
<1>2. ASSUME NEW dir, NEW tag PROVE Contract!FindSection(dir, tag) = FindSection(dir, tag)
  <2>1. Contract!WithTag(dir, tag) = WithTag(dir, tag)
    BY DEF Contract!WithTag, WithTag
  <2>2. Contract!Min(WithTag(dir, tag)) = Min(WithTag(dir, tag))
    BY DEF Contract!Min, Min
  <2> QED BY <2>1, <2>2 DEF Contract!FindSection, FindSection
<1>3. ASSUME NEW e, NEW size PROVE Contract!SectionSlice(e, size) = SectionSlice(e, size)
  BY DEF Contract!SectionSlice, SectionSlice
<1>4. ASSUME NEW e, NEW size PROVE Contract!VerifySectionCrc(e, size) = VerifySectionCrc(e, size)
  BY <1>3 DEF Contract!VerifySectionCrc, VerifySectionCrc
<1> QED BY <1>1, <1>2, <1>3, <1>4

(* What a section's lookup says about the section.                         *)
LEMMA WhereIsTheLookup ==
  ASSUME NEW s \in Sections
  PROVE  /\ Contract!Where(Reading, s) = FindSection(reader.dir, Order[s])
         /\ Reading.dir = reader.dir /\ Reading.size = reader.size /\ Reading.strict = strict
BY SameDirectory DEF Contract!Where, Reading

(* One more section is behind the parser, if it is acceptable.             *)
LEMMA OneMoreBehind ==
  ASSUME IInv, call # "none", NEW s \in Sections, parser.step_index = s + 1,
         NEW i, i = FindSection(reader.dir, Order[s]),
         Contract!SectionIsAcceptable(Reading, s),
         UNCHANGED <<call, status, reader, strict, opened>>,
         parser'.table = [parser.table EXCEPT ![s] = i],
         parser'.step_index = s + 2, parser' \in Parsers,
         \/ parser'.sections_seen = parser.sections_seen
         \/ parser'.sections_seen = parser.sections_seen + 1
  PROVE  IInv'
<1>1. TypeOK'
  BY DEF IInv, TypeOK, Parsers
<1>2. CallsAreOrderly' /\ DoneIsWhole'
  BY DEF IInv, CallsAreOrderly, DoneIsWhole
<1>3. UNCHANGED Reading
  BY DEF Reading
<1>4. ParsedBefore(s + 2)'
  <2>1. SUFFICES ASSUME NEW t \in Sections
                 PROVE  /\ parser'.table[t] = IF t + 1 < s + 2 THEN Contract!Where(Reading, t) ELSE 0
                        /\ t + 1 < s + 2 => Contract!SectionIsAcceptable(Reading, t)
    BY <1>3 DEF ParsedBefore, Contract!Where, Contract!SectionIsAcceptable, Contract!Readable
  <2>2. /\ parser.table[t] = IF t + 1 < s + 1 THEN Contract!Where(Reading, t) ELSE 0
        /\ t + 1 < s + 1 => Contract!SectionIsAcceptable(Reading, t)
    BY DEF IInv, Running, ParsedBefore
  <2>3. parser.table \in [Sections -> Nat]
    BY DEF IInv, TypeOK
  <2>4. CASE t = s
    BY <2>3, <2>4, WhereIsTheLookup, OrderShape
  <2>5. CASE t # s
    BY <2>2, <2>3, <2>5, OrderShape
  <2> QED BY <2>4, <2>5
<1>5. Running'
  <2>1. parser.sections_seen = 0 \/ parser.sections_seen <= s - 1
    BY OrderShape DEF IInv, Running
  <2>2. parser.sections_seen \in Nat
    <3>1. parser \in Parsers
      BY DEF IInv, TypeOK, Parsers
    <3> QED BY <3>1, OrderShape DEF Parsers
  <2>3. parser'.sections_seen <= s
    BY <2>1, <2>2, OrderShape
  <2>4. parser'.sections_seen <= parser'.step_index - 2
    BY <2>3, OrderShape
  <2> QED BY <1>4, <2>4 DEF Running
<1> QED BY <1>1, <1>2, <1>5 DEF IInv

(* A run that fails leaves nothing to be relied on.                        *)
LEMMA FailKeeps ==
  ASSUME IInv, call # "none", NEW why \in {"failed", "denied"}, FailRun(why)
  PROVE  IInv'
<1>2. TypeOK'
  BY EmptyIsReader, FreshIsFresh DEF FailRun, IInv, TypeOK, Readers, Parsers
<1>3. CallsAreOrderly' /\ Running' /\ DoneIsWhole'
  BY DEF FailRun, IInv, CallsAreOrderly, Running, DoneIsWhole
<1> QED BY <1>2, <1>3 DEF IInv

(* What a decoder may do: pass over, decode or fail, for a reason.         *)
LEMMA SectionOutcomes ==
  ASSUME IInv, NEW s \in Sections, SectionStep(s)
  PROVE  LET i == FindSection(reader.dir, Order[s])
         IN  \/ i = 0 /\ Contract!SectionIsAcceptable(Reading, s) /\ Advance(parser)
             \/ i # 0 /\ Contract!SectionIsAcceptable(Reading, s) /\ Decode(s, i)
             \/ ~Contract!SectionIsAcceptable(Reading, s) /\ FailRun("failed")
             \/ FailRun("denied")
<1> DEFINE i == FindSection(reader.dir, Order[s])
           e == reader.dir[i]
<1>1. (s = Len(Order)) <=> (Order[s] = "SUMM")
  BY OrderShape
<1>2. Contract!SectionIsAcceptable(Reading, s) <=>
        /\ i # 0 => SectionSlice(e, reader.size) /\ e.sound
        /\ strict /\ s # Len(Order) => i # 0 /\ VerifySectionCrc(e, reader.size)
  BY SameDirectory, WhereIsTheLookup DEF Contract!SectionIsAcceptable, Contract!Readable
<1> QED BY <1>1, <1>2, Zenon DEF SectionStep, PassOver, ChecksumIsTolerated

(* Every turn of the loop keeps the invariant.                             *)
LEMMA StepKeeps ==
  ASSUME IInv, rv_parser_step
  PROVE  IInv'
<1>1. parser \in Parsers /\ call # "none" /\ reader \in Readers
  BY DEF IInv, TypeOK, Parsers, Readers, rv_parser_step, HeaderStep, DoneStep, SectionStep, At
<1>2. CASE HeaderStep
  <2>1. parser.step_index \in {0, 1} /\ parser' = [parser EXCEPT !.step_index = @ + 1]
        /\ UNCHANGED <<call, status, reader, strict, opened>>
    BY <1>2 DEF HeaderStep, At, Advance
  <2>2. /\ parser' \in Parsers /\ parser'.step_index \in {1, 2}
        /\ parser'.table = parser.table /\ parser'.sections_seen = parser.sections_seen
    BY <1>1, <2>1, OrderShape DEF Parsers
  <2>3. TypeOK' /\ CallsAreOrderly' /\ DoneIsWhole'
    BY <1>1, <2>1, <2>2 DEF IInv, TypeOK, CallsAreOrderly, DoneIsWhole, Parsers
  <2>4. \A s \in Sections : ~(s + 1 < parser.step_index) /\ ~(s + 1 < parser'.step_index)
    BY <2>1, <2>2, OrderShape
  <2>5. ParsedBefore(parser.step_index)'
    BY <1>1, <2>2, <2>4 DEF IInv, Running, ParsedBefore
  <2>6. parser.sections_seen = 0
    BY <1>1, <2>1, OrderShape DEF IInv, Running, Parsers
  <2> QED BY <2>2, <2>3, <2>5, <2>6 DEF IInv, Running
<1>3. ASSUME NEW s \in Sections, SectionStep(s) PROVE IInv'
  <2> DEFINE i == FindSection(reader.dir, Order[s])
  <2>1. i \in Nat
    BY <1>1, FindSectionFinds DEF Readers
  <2>2. parser.step_index = s + 1
    BY <1>3 DEF SectionStep, At
  <2>3. \/ i = 0 /\ Contract!SectionIsAcceptable(Reading, s) /\ Advance(parser)
        \/ i # 0 /\ Contract!SectionIsAcceptable(Reading, s) /\ Decode(s, i)
        \/ FailRun("failed") \/ FailRun("denied")
    BY <1>3, SectionOutcomes
  <2> HIDE DEF i
  <2>4. parser.table[s] = 0
    BY <1>1, <2>2, OrderShape DEF IInv, Running, ParsedBefore
  <2>5. CASE i = 0 /\ Contract!SectionIsAcceptable(Reading, s) /\ Advance(parser)
    <3>1. /\ parser'.table = [parser.table EXCEPT ![s] = i]
          /\ parser'.step_index = s + 2 /\ parser' \in Parsers
          /\ parser'.sections_seen = parser.sections_seen
      BY <1>1, <2>2, <2>4, <2>5, OrderShape DEF Advance, Parsers
    <3> QED BY <1>1, <2>2, <2>5, <3>1, OneMoreBehind DEF Advance, i
  <2>6. CASE Contract!SectionIsAcceptable(Reading, s) /\ Decode(s, i)
    <3> DEFINE p == [parser EXCEPT !.table[s] = i, !.sections_seen = @ + 1]
    <3>1. parser' = [p EXCEPT !.step_index = @ + 1]
          /\ UNCHANGED <<call, status, reader, strict, opened>>
      BY <2>6 DEF Decode, Advance
    <3>2. parser.sections_seen + 1 \in 0 .. Len(Order)
      BY <1>1, <2>2, OrderShape DEF IInv, Running, Parsers
    <3>3. p \in Parsers
      BY <1>1, <2>1, <3>2 DEF Parsers
    <3>4. /\ p.table = [parser.table EXCEPT ![s] = i] /\ p.step_index = s + 1
          /\ p.sections_seen = parser.sections_seen + 1
      BY <1>1, <2>2 DEF Parsers
    <3> HIDE DEF p
    <3>5. s + 2 \in 0 .. LastStep /\ p.step_index + 1 = s + 2
      BY <3>4, OrderShape
    <3>6. /\ parser'.table = [parser.table EXCEPT ![s] = i]
          /\ parser'.step_index = s + 2 /\ parser' \in Parsers
          /\ parser'.sections_seen = parser.sections_seen + 1
      BY <3>1, <3>3, <3>4, <3>5 DEF Parsers
    <3> QED BY <1>1, <2>2, <2>6, <3>1, <3>6, OneMoreBehind DEF i
  <2>7. CASE FailRun("failed") \/ FailRun("denied")
    BY <1>1, <2>7, FailKeeps
  <2> QED BY <2>3, <2>5, <2>6, <2>7
<1>4. CASE DoneStep
  <2>1. parser.step_index = LastStep /\ UNCHANGED <<reader, strict, parser>>
        /\ call' = "none" /\ status' = "done" /\ opened' = TRUE
    BY <1>4 DEF DoneStep, At
  <2>2. ParsedBefore(LastStep)'
    BY <1>1, <2>1 DEF IInv, Running, ParsedBefore, Contract!Where, Contract!SectionIsAcceptable,
       Contract!Readable, Reading
  <2>3. TypeOK' /\ CallsAreOrderly' /\ Running' /\ DoneIsWhole'
    BY <2>1, <2>2 DEF IInv, TypeOK, CallsAreOrderly, Running, DoneIsWhole
  <2> QED BY <2>3 DEF IInv
<1> QED BY <1>2, <1>3, <1>4 DEF rv_parser_step

-----------------------------------------------------------------------------
(* The invariant, on which the theorems rest.                              *)
LEMMA AlwaysIInv == Spec => []IInv
<1>1. Init => IInv
  BY EmptyIsReader, FreshIsFresh
  DEF Init, IInv, TypeOK, CallsAreOrderly, Running, DoneIsWhole, Readers, Parsers
<1>2. IInv /\ [Next]_vars => IInv'
  <2> SUFFICES ASSUME IInv, [Next]_vars PROVE IInv'
    OBVIOUS
  <2>1. CASE UNCHANGED vars
    BY <2>1 DEF vars, IInv, TypeOK, CallsAreOrderly, Running, DoneIsWhole, ParsedBefore,
       Contract!Where, Contract!SectionIsAcceptable, Contract!Readable, Reading
  <2> QED BY <2>1, CallsKeep, StepKeeps DEF Next
<1> QED BY <1>1, <1>2, PTL DEF Spec

(* The parser's counters stay in bounds.                                   *)
THEOREM ParserStaysInOrder == Spec => []TypeOK
<1>1. IInv => TypeOK
  BY DEF IInv
<1> QED BY <1>1, AlwaysIInv, PTL

(* No decoder is given bytes beyond the file, whatever a directory claims. *)
THEOREM DecodersStayInside == Spec => []SectionsInsideFile
<1>1. IInv => SectionsInsideFile
  <2> SUFFICES ASSUME IInv, call # "none" \/ status = "done",
                      NEW s \in Sections, parser.table[s] # 0
               PROVE  LET e == reader.dir[parser.table[s]] IN e.offset + e.length <= reader.size
    BY DEF SectionsInsideFile
  <2> DEFINE i == FindSection(reader.dir, Order[s])
             e == reader.dir[i]
  <2>1. reader.dir \in Seq(Entry) /\ reader.size \in Nat
    <3>1. reader \in Readers
      BY DEF IInv, TypeOK, Readers
    <3> QED BY <3>1 DEF Readers
  <2>2. parser.table[s] = Contract!Where(Reading, s) /\ Contract!SectionIsAcceptable(Reading, s)
    BY DEF IInv, Running, DoneIsWhole, ParsedBefore
  <2>3. parser.table[s] = i
    BY <2>2, WhereIsTheLookup
  <2>4. e \in Entry
    BY <2>1, <2>3, FindSectionFinds
  <2>5. SectionSlice(e, reader.size)
    BY <2>2, <2>3, SameDirectory, WhereIsTheLookup
    DEF Contract!SectionIsAcceptable, Contract!Readable
  <2> HIDE DEF e, i
  <2>6. e.offset \in Nat /\ e.length \in Nat
    BY <2>4 DEF Entry
  <2>7. e.offset + e.length <= reader.size
    BY <2>1, <2>5, <2>6 DEF SectionSlice
  <2> QED BY <2>3, <2>7 DEF e
<1> QED BY <1>1, AlwaysIInv, PTL

(* A run that has begun is not interrupted, and each turn of its loop ends *)
(* it or raises step_index, which is bounded: so no run takes more turns   *)
(* than there are steps.  It is the variant behind ParseEnds.              *)
THEOREM RunsAreShort ==
  Spec => [][call # "none" =>
               \/ call' = "none" /\ status' \in {"done", "failed", "denied"}
               \/ /\ UNCHANGED <<call, status, reader, strict, opened>>
                  /\ parser'.step_index = parser.step_index + 1
                  /\ parser'.step_index <= LastStep]_vars
<1> DEFINE Moves == /\ UNCHANGED <<call, status, reader, strict, opened>>
                    /\ parser'.step_index = parser.step_index + 1
           Ends == call' = "none" /\ status' \in {"done", "failed", "denied"}
           A == call # "none" => Ends \/ (Moves /\ parser'.step_index <= LastStep)
<1>1. ASSUME IInv, Next, call # "none" PROVE A
  <2>1. rv_parser_step
    BY <1>1 DEF Next, Calls, rv_package_open, rv_package_reopen, rv_package_reset, rv_package_close
  <2>2. parser \in Parsers /\ parser'.step_index \in 0 .. LastStep
    BY <1>1, <2>1, StepKeeps DEF IInv, TypeOK, Parsers
  <2>3. ASSUME NEW p \in Parsers, p.step_index = parser.step_index, Advance(p) PROVE Moves
    BY <2>3 DEF Advance, Parsers
  <2>4. CASE HeaderStep
    BY <2>2, <2>3, <2>4 DEF HeaderStep
  <2>5. ASSUME NEW s \in Sections, SectionStep(s) PROVE Ends \/ Moves
    <3> DEFINE i == FindSection(reader.dir, Order[s])
               p == [parser EXCEPT !.table[s] = i, !.sections_seen = @ + 1]
    <3>1. \/ Advance(parser) \/ Decode(s, i) \/ FailRun("failed") \/ FailRun("denied")
      BY <1>1, <2>5, SectionOutcomes
    <3>2. CASE Decode(s, i)
      <4>1. parser' = [p EXCEPT !.step_index = @ + 1]
            /\ UNCHANGED <<call, status, reader, strict, opened>>
        BY <3>2 DEF Decode, Advance
      <4>2. parser'.step_index = parser.step_index + 1
        BY <2>2, <4>1 DEF Parsers
      <4> QED BY <4>1, <4>2
    <3>3. CASE FailRun("failed") \/ FailRun("denied")
      BY <3>3 DEF FailRun
    <3> QED BY <2>2, <2>3, <3>1, <3>2, <3>3
  <2>6. CASE DoneStep
    BY <2>6 DEF DoneStep
  <2> QED BY <2>1, <2>2, <2>4, <2>5, <2>6, OrderShape DEF rv_parser_step
<1>2. IInv /\ [Next]_vars => [A]_vars
  <2> HIDE DEF A
  <2>1. call = "none" => A
    BY DEF A
  <2> QED BY <1>1, <2>1
<1> HIDE DEF A
<1>3. Spec => [][A]_vars
  BY <1>2, AlwaysIInv, PTL DEF Spec
<1> QED BY <1>3, PTL DEF A

-----------------------------------------------------------------------------
(***************************************************************************)
(* The parser keeps its contract.                                          *)
(***************************************************************************)

(* What a reader holds can be asked of the contract.                       *)
LEMMA ReadingIsARequest ==
  ASSUME reader \in Readers, strict \in BOOLEAN
  PROVE  Reading \in Contract!Request
<1>1. Contract!Entry = Entry
  BY DEF Contract!Entry, Entry
<1> QED BY <1>1 DEF Readers, Reading, Contract!Request

(* The same of the next state.                                             *)
LEMMA NextReadingIsARequest ==
  ASSUME (reader \in Readers)', (strict \in BOOLEAN)'
  PROVE  Reading' \in Contract!Request
<1>1. Contract!Entry = Entry
  BY DEF Contract!Entry, Entry
<1> QED BY <1>1 DEF Readers, Reading, Contract!Request

(* The reader of a closed package asks nothing.                            *)
LEMMA EmptyAsksNothing ==
  [dir |-> EmptyReader.dir, size |-> EmptyReader.size, strict |-> FALSE] = Contract!NoRequest
<1>1. EmptyReader.dir = << >> /\ EmptyReader.size = 0
  BY DEF EmptyReader
<1> QED BY <1>1 DEF Contract!NoRequest

(* Calls start a parse, fail before it, or close the package.              *)
LEMMA CallsImplement ==
  ASSUME IInv, Calls
  PROVE  Contract!Next
<1>1. IInv'
  BY CallsKeep
<1>2. Reading' \in Contract!Request
  BY <1>1, NextReadingIsARequest DEF IInv, TypeOK, Readers
<1>3. call = "none" /\ status # "running"
  BY DEF Calls, rv_package_open, rv_package_reopen, rv_package_reset, rv_package_close,
     IInv, CallsAreOrderly
<1>4. ASSUME NEW name \in {"open", "reopen", "reset"}, RunParser(name)
      PROVE  Contract!Start
  <2>1. Visible' = << >>
    BY <1>4 DEF RunParser, Visible
  <2> QED BY <1>2, <1>3, <1>4, <2>1 DEF RunParser, Contract!Start, Contract!Hidden
<1>5. ASSUME status' = "failed", UNCHANGED <<call, parser, opened>> PROVE Contract!NoParse
  BY <1>2, <1>3, <1>5 DEF Contract!NoParse, Visible
<1>6. CASE rv_package_close
  <2>1. Visible' = << >> /\ status' = "none"
    BY <1>6 DEF rv_package_close, Visible
  <2>2. Reading' = Contract!NoRequest
    BY <1>6 DEF rv_package_close, Reading, EmptyReader, Contract!NoRequest
  <2> QED BY <1>3, <2>1, <2>2 DEF Contract!Next, Contract!Close, Contract!Hidden
<1>7. CASE rv_package_reset
  BY <1>4, <1>7 DEF rv_package_reset, Contract!Next
<1>8. ASSUME NEW f \in Files, rv_package_reopen(f) PROVE Contract!Next
  BY <1>4, <1>5, <1>8 DEF rv_package_reopen, Contract!Next
<1>9. ASSUME NEW f \in Files, NEW flag \in BOOLEAN, rv_package_open(f, flag)
      PROVE  Contract!Next
  BY <1>4, <1>5, <1>9 DEF rv_package_open, Contract!Next
<1> QED BY <1>6, <1>7, <1>8, <1>9 DEF Calls

(* A run that fails leaves the sections before the one it failed on, or,   *)
(* if it was to open a package, nothing.                                   *)
LEMMA FailImplements ==
  ASSUME IInv, NEW s \in Sections, SectionStep(s),
         \/ ~Contract!SectionIsAcceptable(Reading, s) /\ FailRun("failed")
         \/ FailRun("denied")
  PROVE  Contract!Next
<1>0. /\ call' = "none" /\ UNCHANGED opened
      /\ call = "open" => reader' = EmptyReader /\ strict' = FALSE
      /\ call # "open" => UNCHANGED <<reader, parser, strict>>
  BY Zenon DEF FailRun
<1>1. call # "none" /\ parser.step_index = s + 1 /\ status = "running"
  BY DEF SectionStep, At, IInv, CallsAreOrderly
<1>2. \/ status' = "failed" /\ ~Contract!Acceptable(Reading)
      \/ status' = "denied"
  <2>1. s \in Contract!Sections
    BY SameDirectory DEF Sections, Contract!Sections
  <2> QED BY <2>1 DEF FailRun, Contract!Acceptable
<1>3. CASE call = "open"
  <2>1. ~opened /\ Visible' = << >>
    BY <1>0, <1>3 DEF IInv, CallsAreOrderly, Visible
  <2>2. Reading' = Contract!NoRequest
    BY <1>0, <1>3, EmptyAsksNothing DEF Reading
  <2> QED BY <1>1, <1>2, <2>1, <2>2 DEF Contract!Next, Contract!Fail, Contract!Hidden
<1>4. CASE call # "open"
  <2>1. opened /\ opened' /\ call' = "none"
    BY <1>0, <1>1, <1>4 DEF IInv, TypeOK, CallsAreOrderly
  <2>2. UNCHANGED <<Reading, parser>>
    BY <1>0, <1>4 DEF Reading
  <2>3. Visible' = parser.table
    BY <2>1, <2>2 DEF Visible
  <2>4. parser.table = Contract!UpTo(Reading, s - 1)
    <3>1. parser.table \in [Sections -> Nat]
      BY DEF IInv, TypeOK
    <3>2. Contract!Sections = Sections
      BY SameDirectory DEF Sections, Contract!Sections
    <3>3. ASSUME NEW t \in Sections
          PROVE  parser.table[t] = IF t <= s - 1 THEN Contract!Where(Reading, t) ELSE 0
      <4>1. parser.table[t] = IF t + 1 < s + 1 THEN Contract!Where(Reading, t) ELSE 0
        BY <1>1 DEF IInv, Running, ParsedBefore
      <4>2. t \in 1 .. 10 /\ s \in 1 .. 10
        BY OrderShape
      <4>3. (t + 1 < s + 1) <=> (t <= s - 1)
        BY <4>2
      <4> QED BY <4>1, <4>3
    <3> QED BY <3>1, <3>2, <3>3 DEF Contract!UpTo
  <2>5. s - 1 \in 0 .. Len(Contract!Order) - 1
    <3>1. s \in 1 .. 10 /\ Len(Contract!Order) = 10
      BY OrderShape, SameDirectory
    <3> QED BY <3>1
  <2> QED BY <1>1, <1>2, <2>2, <2>3, <2>4, <2>5 DEF Contract!Next, Contract!Fail
<1> QED BY <1>3, <1>4

(* A run that ends well leaves all the sections.                           *)
LEMMA DoneImplements ==
  ASSUME IInv, DoneStep
  PROVE  Contract!Next
<1>1. /\ call # "none" /\ status = "running" /\ parser.step_index = LastStep
      /\ UNCHANGED <<reader, strict, parser>> /\ call' = "none" /\ opened' = TRUE
      /\ status' = "done"
  BY DEF DoneStep, At, IInv, CallsAreOrderly
<1>2. UNCHANGED Reading /\ Visible' = parser.table
  BY <1>1 DEF Reading, Visible
<1>3. Contract!Sections = Sections
  BY SameDirectory DEF Sections, Contract!Sections
<1>4. ASSUME NEW t \in Sections
      PROVE  /\ parser.table[t] = Contract!Where(Reading, t)
             /\ Contract!SectionIsAcceptable(Reading, t)
  BY <1>1, OrderShape DEF IInv, Running, ParsedBefore
<1>5. Contract!Acceptable(Reading)
  BY <1>3, <1>4 DEF Contract!Acceptable
<1>6. parser.table = Contract!Whole(Reading)
  <2>1. parser.table \in [Sections -> Nat]
    BY DEF IInv, TypeOK
  <2> QED BY <1>3, <1>4, <2>1 DEF Contract!Whole
<1> QED BY <1>1, <1>2, <1>5, <1>6 DEF Contract!Next, Contract!Succeed

(* The walk over the sections is invisible until it ends.                  *)
LEMMA WalkIsHidden ==
  ASSUME IInv, call # "none", NEW p, Advance(p)
  PROVE  UNCHANGED Contract!vars
BY DEF Advance, Contract!vars, Reading, Visible

(* Each parse, by whatever call and after whatever failure, gives all the  *)
(* sections its reader's directory has, or an error: "failed" only for a   *)
(* package that is not acceptable.                                         *)
THEOREM ParserKeepsContract == Spec => KeepsContract
<1>1. Init => Contract!Init
  BY EmptyAsksNothing DEF Init, Contract!Init, Reading, Visible, Contract!Hidden
<1>2. IInv /\ [Next]_vars => [Contract!Next]_(Contract!vars)
  <2> SUFFICES ASSUME IInv, [Next]_vars PROVE Contract!Next \/ UNCHANGED Contract!vars
    OBVIOUS
  <2>1. CASE UNCHANGED vars
    BY <2>1 DEF vars, Contract!vars, Reading, Visible
  <2>2. CASE Calls
    BY <2>2, CallsImplement
  <2>3. CASE HeaderStep
    BY <2>3, WalkIsHidden DEF HeaderStep, At
  <2>4. ASSUME NEW s \in Sections, SectionStep(s)
        PROVE  Contract!Next \/ UNCHANGED Contract!vars
    <3>1. call # "none"
      BY <2>4 DEF SectionStep, At
    <3> DEFINE i == FindSection(reader.dir, Order[s])
    <3>2. \/ Advance(parser) \/ Decode(s, i)
          \/ ~Contract!SectionIsAcceptable(Reading, s) /\ FailRun("failed")
          \/ FailRun("denied")
      BY <2>4, SectionOutcomes
    <3> QED BY <2>4, <3>1, <3>2, WalkIsHidden, FailImplements DEF Decode
  <2>5. CASE DoneStep
    BY <2>5, DoneImplements
  <2> QED BY <2>1, <2>2, <2>3, <2>4, <2>5 DEF Next, rv_parser_step
<1> QED BY <1>1, <1>2, AlwaysIInv, PTL DEF Spec, KeepsContract, Contract!Spec
=============================================================================
