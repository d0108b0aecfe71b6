-------------------------------- MODULE Arena --------------------------------
(***************************************************************************)
(* The bump allocator of src/internal/rv_arena.c.  Parsed tables, names,   *)
(* index nodes and summaries all live in one; they keep what it returns    *)
(* until it is reset.  Memory is modelled by offsets into a block, and the *)
(* block by a number: realloc may move it, and then every pointer into the *)
(* old one dangles.                                                        *)
(*                                                                         *)
(* malloc and realloc are the environment: they may fail, and a realloc    *)
(* may move.  The peak and the number of growths, written and never read,  *)
(* are left out.  A definition marked "mutant" is a plausible bug in the   *)
(* definition after it; no specification uses it.                          *)
(***************************************************************************)
EXTENDS Naturals, FiniteSetsExt

CONSTANTS
  Bytes,       \* counts and sizes a caller asks for
  Alignment,   \* alignments a caller asks for; 0 is that of a pointer
  PointerSize, \* sizeof(void *)
  Limits,      \* the initial and max_bytes arguments of rv_arena_init
  MinInitial,  \* 256 in the code
  DefaultMax,  \* 64 MiB in the code
  SizeMax,     \* SIZE_MAX
  MaxEpoch,    \* UINT32_MAX
  MaxBlock,    \* bound: blocks allocated
  None         \* an arena that is not initialised

ASSUME BytesAssumption == Bytes \subseteq 0 .. SizeMax
ASSUME AlignmentAssumption == Alignment \subseteq Nat /\ PointerSize \in Nat \ {0}
ASSUME LimitsAssumption ==
  Limits \subseteq Nat /\ MinInitial \in Nat \ {0} /\ DefaultMax \in Nat \ {0}
ASSUME WidthAssumption == SizeMax \in Nat /\ MaxEpoch \in Nat \ {0} /\ MaxBlock \in Nat \ {0}

ArenaState ==
  {a \in [block : 1 .. MaxBlock, size : Nat \ {0}, used : Nat, max : Nat, epoch : 1 .. MaxEpoch] :
     a.used <= a.size /\ a.size <= a.max}

ASSUME NoneAssumption == None \notin ArenaState

VARIABLES
  arena, \* rv_arena: block, size, used, max_bytes, epoch
  live,  \* what callers may still use: where it is, its length and what was asked for
  mark,  \* the marks callers may still rewind to
  reply  \* the last call: NULL or not, and whether the environment failed it

arenaVars == <<arena, live, mark, reply>>

Region == [block : 1 .. MaxBlock, at : Nat, len : Nat, asked : Nat]

Returns(name, outcome) == reply' = [call |-> name, outcome |-> outcome, n |-> 0, align |-> 1]
Answers(outcome, n, align) ==
  reply' = [call |-> "alloc", outcome |-> outcome, n |-> n, align |-> align]

ArenaInit ==
  /\ arena = None /\ live = {} /\ mark = {}
  /\ reply = [call |-> "none", outcome |-> "ok", n |-> 0, align |-> 1]

MaxBytes(limit) == IF limit = 0 THEN DefaultMax ELSE limit

\* mutant: a small limit does not bound the first block
InitialUnclipped(initial, limit) == IF initial < MinInitial THEN MinInitial ELSE initial

InitialBytes(initial, limit) ==
  LET least == IF initial < MinInitial THEN MinInitial ELSE initial
  IN  IF least > MaxBytes(limit) THEN MaxBytes(limit) ELSE least

rv_arena_init(initial, limit) ==
  /\ arena = None
  /\ \/ /\ arena' = [block |-> 1, size |-> InitialBytes(initial, limit), used |-> 0,
                     max |-> MaxBytes(limit), epoch |-> 1]
        /\ Returns("init", "ok")
     \/ Returns("init", "no memory") /\ UNCHANGED arena
  /\ UNCHANGED <<live, mark>>

rv_arena_destroy ==
  /\ arena # None
  /\ arena' = None /\ live' = {} /\ mark' = {}
  /\ Returns("destroy", "ok")

NextEpoch(e) == IF e = MaxEpoch THEN 1 ELSE e + 1

(* The block and its size are kept.  What was handed out may no longer be  *)
(* used, nor may the marks.                                                *)
rv_arena_reset ==
  /\ arena # None
  /\ arena' = [arena EXCEPT !.used = 0, !.epoch = NextEpoch(@)]
  /\ live' = {} /\ mark' = {}
  /\ Returns("reset", "ok")

-----------------------------------------------------------------------------
(***************************************************************************)
(* Allocation.                                                             *)
(***************************************************************************)

\* mutant: rounds down when used is not aligned
AlignDown(v, align) == v - (v % align)

(* Both paths of rv_align_up compute the next multiple.                    *)
AlignUp(v, align) == IF v % align = 0 THEN v ELSE v + (align - (v % align))

Aligned(align) == IF align = 0 THEN PointerSize ELSE align
Fits(off, n) == off <= arena.max /\ n <= arena.max - off

(* The loop of rv_arena_grow doubles the size while it is too small, and   *)
(* takes the limit when one more doubling would pass it.                   *)
Doublings(need) ==
  {n \in need .. arena.max : \E k \in 0 .. need : n = arena.size * 2 ^ k}

\* mutant: no clamp to the limit, so the test after the loop fails
GrownPastLimit(need) ==
  IF Doublings(need) # {} THEN Min(Doublings(need)) ELSE arena.max + 1

Grown(need) == IF Doublings(need) # {} THEN Min(Doublings(need)) ELSE arena.max

HandOut(a, off, n, align, asked) ==
  /\ arena' = [a EXCEPT !.used = off + n]
  /\ live' = live \cup {[block |-> a.block, at |-> off, len |-> n, asked |-> asked]}
  /\ Answers("ok", n, align)

Refuse(n, align) == Answers("null", n, align) /\ UNCHANGED <<arena, live>>

(* realloc fails, extends the block where it is, or moves it.              *)
Grow(off, n, align, asked) ==
  LET grown == [arena EXCEPT !.size = Grown(off + n)]
  IN  IF Grown(off + n) > arena.max THEN Refuse(n, align)
      ELSE \/ Answers("no memory", n, align) /\ UNCHANGED <<arena, live>>
           \/ HandOut(grown, off, n, align, asked)
           \/ /\ arena.block < MaxBlock
              /\ HandOut([grown EXCEPT !.block = @ + 1], off, n, align, asked)

(* rv_arena_alloc of n bytes for a caller that needs as many as asked.     *)
Alloc(n, align, asked) ==
  /\ arena # None
  /\ LET off == AlignUp(arena.used, align)
     IN  IF n = 0 \/ ~Fits(off, n) THEN Refuse(n, align)
         ELSE IF off + n <= arena.size THEN HandOut(arena, off, n, align, asked)
         ELSE Grow(off, n, align, asked)
  /\ UNCHANGED mark

rv_arena_alloc(n, align) == Alloc(n, Aligned(align), n)

\* mutant: the product is not tested
WrapsUntested(count, size) == FALSE

Wraps(count, size) == count # 0 /\ size > SizeMax \div count

rv_arena_calloc(count, size, align) ==
  IF Wraps(count, size)
  THEN arena # None /\ Refuse(0, 1) /\ UNCHANGED mark
  ELSE Alloc((count * size) % (SizeMax + 1), Aligned(align), count * size)

(* A string of n bytes and its terminator.                                 *)
rv_arena_strdup(n) == n < SizeMax /\ Alloc(n + 1, 1, n + 1)

-----------------------------------------------------------------------------
(***************************************************************************)
(* Marks.                                                                  *)
(***************************************************************************)

rv_arena_mark_get ==
  /\ arena # None
  /\ mark' = mark \cup {arena.used}
  /\ Returns("mark", "ok")
  /\ UNCHANGED <<arena, live>>

(* Callers rewind to a mark they still hold: none from before a reset or   *)
(* from beyond an earlier rewind.  What was handed out after the mark may  *)
(* no longer be used.                                                      *)
rv_arena_rewind(m) ==
  /\ arena # None
  /\ arena' = IF m <= arena.used THEN [arena EXCEPT !.used = m] ELSE arena
  /\ live' = {r \in live : r.at + r.len <= m}
  /\ mark' = {o \in mark : o <= m}
  /\ Returns("rewind", "ok")

ArenaNext ==
  \/ \E initial, limit \in Limits : rv_arena_init(initial, limit)
  \/ rv_arena_destroy \/ rv_arena_reset
  \/ \E n \in Bytes, align \in Alignment :
       rv_arena_alloc(n, align) \/ \E size \in Bytes : rv_arena_calloc(n, size, align)
  \/ \E n \in Bytes : rv_arena_strdup(n)
  \/ rv_arena_mark_get
  \/ \E m \in mark : rv_arena_rewind(m)

ArenaSpec == ArenaInit /\ [][ArenaNext]_arenaVars

-----------------------------------------------------------------------------
(* The fields of an arena stay in order: used within the block, the block  *)
(* within the limit, whatever grew, failed or was rewound; the epoch is    *)
(* never 0.                                                                *)
ArenaTypeOK ==
  /\ arena # None => arena \in ArenaState
  /\ arena = None => live = {} /\ mark = {}
  /\ live \subseteq Region
  /\ mark \subseteq Nat

(* What callers hold never overlaps and lies in the part of the block that *)
(* is in use, across growth, rewinds and refused calls.                    *)
Apart(r, s) == r.at + r.len <= s.at \/ s.at + s.len <= r.at
AllocationsKeepApart ==
  /\ \A r, s \in live : r # s => Apart(r, s)
  /\ \A r \in live : r.at + r.len <= arena.used

(* A caller that got a pointer got as many bytes as it asked for: a        *)
(* product that exceeds size_t is refused, never wrapped.                  *)
RequestsAreWhole == \A r \in live : r.len = r.asked

(* A request for which there is an aligned place below the limit gets it   *)
(* unless realloc fails: growth never gives up because a doubling would    *)
(* pass the limit, and rounding up wastes no room.                         *)
Room(n, align) ==
  \E off \in arena.used .. arena.max : off % align = 0 /\ n <= arena.max - off
RefusedOnlyWhenFull ==
  [][reply'.call = "alloc" /\ reply'.outcome = "null" /\ reply'.n # 0 =>
       ~Room(reply'.n, reply'.align)]_arenaVars

-----------------------------------------------------------------------------
(* The contract stated in rv_arena.h: what was handed out in this epoch    *)
(* lies in the current block.                                              *)
PointersStayValid == \A r \in live : r.block = arena.block
=============================================================================
