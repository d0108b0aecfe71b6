---------------------------- MODULE WaveReaders ----------------------------
(***************************************************************************)
(* One session, its wave cache, and the streams and cursors open on it     *)
(* (src/internal/rv_stream.c and the functions of src/rayvault.c over it). *)
(* The readers are independent objects whose calls a client interleaves as *)
(* it likes; all of them pin, fill and evict the one cache of the session. *)
(*                                                                         *)
(* The package is parsed once and never replaced here, so the index is the *)
(* same after every rebuild; out-of-memory returns are left out.           *)
(***************************************************************************)
EXTENDS WaveCacheOps, PackageIndex

CONSTANTS
  Stream,   \* rv_stream objects
  Cursor,   \* rv_cursor objects
  Package,  \* the window and wave tables a package may hold
  NoPin,    \* has_pin = 0
  Closed,   \* a reader that is not open
  NoView,   \* the zeroed slice of a cleared entry
  AskedId   \* the ids a client passes to seek, wave_get and stream_open

Reader == Stream \cup Cursor

Window == [id : Nat, route : Nat, wave : Nat]
Wave == [id : BlockId, view : View]
Tables == [windows : Seq(Window), waves : Seq(Wave)]

ASSUME ReadersAssumption == Stream \cap Cursor = {} /\ IsFiniteSet(Reader)
ASSUME PackageAssumption == Package \subseteq {t \in Tables : SortedById(t.windows)}
ASSUME NoPinAssumption == NoPin \notin BlockId
ASSUME IdsAssumption == BlockId \subseteq Nat /\ AskedId \subseteq Nat

VARIABLES
  tables,  \* rv_parsed and the index built from it
  cache,   \* the rv_wave_cache of the session
  pin,     \* pin[r] is pinned_block of reader r when its has_pin is set
  stream,  \* order, order_index and generation at open of each stream
  cursor,  \* current window id and wave position of each cursor
  warming, \* the loop counter of rv_session_warm_cache, 0 outside it
  reply    \* the last call, its success, and the slice it returned if it read one

vars == <<tables, cache, pin, stream, cursor, warming, reply>>

StreamState == [order : Seq(Nat), at : Nat, gen : Generation]
CursorState == [window : Nat, wave : Nat]

(* A return code alone, and a slice of a block.                            *)
Code(name, ok) == [call |-> name, ok |-> ok, block |-> 0, view |-> NoView]
Slice(name, b, v) == [call |-> name, ok |-> TRUE, block |-> b, view |-> v]

Returns(name, ok) == reply' = Code(name, ok)

Init ==
  /\ tables \in Package
  /\ cache = EmptyCache
  /\ pin = [r \in Reader |-> NoPin]
  /\ stream = [s \in Stream |-> Closed]
  /\ cursor = [c \in Cursor |-> Closed]
  /\ warming = 0
  /\ reply = Code("done", TRUE)

-----------------------------------------------------------------------------
(***************************************************************************)
(* Reading a block through the cache.                                      *)
(***************************************************************************)

(* rv_cache_get, or on a miss rv_cache_put_from_block and rv_cache_get.    *)
Served(c, b) == Hit(c, b) \/ PutSucceeds(c, b)
Load(c, b, v) == IF Hit(c, b) THEN Get(c, b) ELSE Get(PutFromBlock(c, b, v), b)

(* A reader holds one pin: that of the block it returned last.             *)
\* mutant: the pin on the previous block is never released
MovePinKeepingOld(c, old, b) == Pin(c, b)

\* mutant: the block just loaded is not pinned
MovePinWithoutPin(c, old, b) == IF old \notin {NoPin, b} THEN Unpin(c, old) ELSE c

MovePin(c, old, b) == Pin(IF old \notin {NoPin, b} THEN Unpin(c, old) ELSE c, b)

(* The forced eviction that keeps one slot of a small cache free.          *)
Relieve(c) == IF c.count + 1 >= Capacity THEN EvictLru(c) ELSE c

(* The entry pointer taken by rv_cache_get is read after the eviction.     *)
ViewAt(c, i) == IF c.slot[i] = Free THEN NoView ELSE c.slot[i].view

(* rv_fill_slice_from_cache_or_block on behalf of reader r.                *)
FillSlice(r, b, v) ==
  LET loaded == Load(cache, b, v)
      after == Relieve(MovePin(loaded, pin[r], b))
  IN  IF Served(cache, b)
      THEN /\ cache' = after
           /\ pin' = [pin EXCEPT ![r] = b]
           /\ reply' = Slice("read", b, ViewAt(after, Find(loaded, b)))
      ELSE /\ Returns("refused", FALSE)
           /\ UNCHANGED <<cache, pin>>

\* mutant: close clears the reader's fields and leaves the entry pinned
ForgetPin(r) ==
  /\ pin' = [pin EXCEPT ![r] = NoPin]
  /\ UNCHANGED cache

(* What both close functions do with the pin of reader r.                  *)
ReleasePin(r) ==
  /\ cache' = IF pin[r] # NoPin THEN Unpin(cache, pin[r]) ELSE cache
  /\ pin' = [pin EXCEPT ![r] = NoPin]

ReadRow(r, i) == FillSlice(r, tables.waves[i].id, tables.waves[i].view)

-----------------------------------------------------------------------------
(***************************************************************************)
(* Streams.                                                                *)
(***************************************************************************)

rv_stream_open(s, route) ==
  /\ warming = 0 /\ stream[s] = Closed
  /\ stream' = [stream EXCEPT ![s] =
                  [order |-> WindowOrder(tables, route), at |-> 0, gen |-> cache.gen]]
  /\ Returns("done", TRUE)
  /\ UNCHANGED <<tables, cache, pin, cursor, warming>>

rv_stream_next_window(s) ==
  /\ warming = 0 /\ stream[s] # Closed
  /\ IF stream[s].at < Len(stream[s].order)
     THEN stream' = [stream EXCEPT ![s].at = @ + 1] /\ Returns("done", TRUE)
     ELSE Returns("done", FALSE) /\ UNCHANGED stream
  /\ UNCHANGED <<tables, cache, pin, cursor, warming>>

WindowOf(s) == tables.windows[stream[s].order[stream[s].at]]

\* mutant: the generation is not compared with the one at open
CanReadIgnoringGeneration(s) ==
  stream[s].at > 0 /\ FindWave(tables, WindowOf(s).wave) # 0

(* The early returns of rv_stream_impl_next_wave, in their order.          *)
CanRead(s) ==
  /\ stream[s].gen = cache.gen
  /\ stream[s].at > 0
  /\ FindWave(tables, WindowOf(s).wave) # 0

rv_stream_next_wave(s) ==
  /\ warming = 0 /\ stream[s] # Closed
  /\ IF CanRead(s)
     THEN ReadRow(s, FindWave(tables, WindowOf(s).wave))
     ELSE Returns("read", FALSE) /\ UNCHANGED <<cache, pin>>
  /\ UNCHANGED <<tables, stream, cursor, warming>>

rv_stream_close(s) ==
  /\ warming = 0 /\ stream[s] # Closed
  /\ ReleasePin(s)
  /\ stream' = [stream EXCEPT ![s] = Closed]
  /\ Returns("done", TRUE)
  /\ UNCHANGED <<tables, cursor, warming>>

-----------------------------------------------------------------------------
(***************************************************************************)
(* Cursors.  A cursor remembers a window id, not a position in the table.  *)
(***************************************************************************)

rv_cursor_open(c) ==
  /\ warming = 0 /\ cursor[c] = Closed
  /\ cursor' = [cursor EXCEPT ![c] = [window |-> 0, wave |-> 1]]
  /\ Returns("done", TRUE)
  /\ UNCHANGED <<tables, cache, pin, stream, warming>>

WaveOfWindow(id) == FindWave(tables, tables.windows[FindWindow(tables, id)].wave)

(* rv_cursor_impl_seek; a failed seek leaves the cursor where it was.      *)
SeekSucceeds(id) == FindWindow(tables, id) # 0 /\ WaveOfWindow(id) # 0

\* mutant: the window id is stored before the block is looked up
SoughtInSteps(c, id) ==
  IF SeekSucceeds(id) THEN [window |-> id, wave |-> WaveOfWindow(id)]
  ELSE IF FindWindow(tables, id) # 0 THEN [cursor[c] EXCEPT !.window = id]
  ELSE cursor[c]

Sought(c, id) ==
  IF SeekSucceeds(id) THEN [window |-> id, wave |-> WaveOfWindow(id)] ELSE cursor[c]

Seek(name, c, id) ==
  /\ cursor' = [cursor EXCEPT ![c] = Sought(c, id)]
  /\ Returns(name, SeekSucceeds(id))
  /\ UNCHANGED <<tables, cache, pin, stream, warming>>

rv_cursor_seek_window(c, id) ==
  /\ warming = 0 /\ cursor[c] # Closed
  /\ Seek("done", c, id)

(* The read does not compare generations, and needs no seek before it.     *)
rv_cursor_read_wave(c) ==
  /\ warming = 0 /\ cursor[c] # Closed
  /\ IF cursor[c].wave <= Len(tables.waves)
     THEN ReadRow(c, cursor[c].wave)
     ELSE Returns("read", FALSE) /\ UNCHANGED <<cache, pin>>
  /\ UNCHANGED <<tables, stream, cursor, warming>>

(* The scan of rv_cursor_impl_advance stops at the first row with the      *)
(* cursor's window id.                                                     *)
RowsOfCursor(c) == RowsOf(tables.windows, cursor[c].window)

\* mutant: the next position is taken from the wave table
NextRowByWave(c) == cursor[c].wave + 1

NextRow(c) == First(RowsOfCursor(c)) + 1

rv_cursor_advance(c) ==
  /\ warming = 0 /\ cursor[c] # Closed
  /\ IF RowsOfCursor(c) # {} /\ NextRow(c) <= Len(tables.windows)
     THEN Seek("advance", c, tables.windows[NextRow(c)].id)
     ELSE Returns("advance", FALSE) /\ UNCHANGED <<tables, cache, pin, stream, cursor, warming>>

rv_cursor_close(c) ==
  /\ warming = 0 /\ cursor[c] # Closed
  /\ ReleasePin(c)
  /\ cursor' = [cursor EXCEPT ![c] = Closed]
  /\ Returns("done", TRUE)
  /\ UNCHANGED <<tables, stream, warming>>

-----------------------------------------------------------------------------
(***************************************************************************)
(* The session's own use of the cache.                                     *)
(***************************************************************************)

(* The entry is looked up by id, not by the row the index found.           *)
rv_wave_get(id) ==
  /\ warming = 0
  /\ LET i == FindWave(tables, id)
         b == tables.waves[i].id
         v == tables.waves[i].view
         loaded == Load(cache, b, v)
     IN  IF i = 0 THEN Returns("done", FALSE) /\ UNCHANGED cache
         ELSE IF ~Served(cache, b) THEN Returns("refused", FALSE) /\ UNCHANGED cache
         ELSE cache' = loaded /\ reply' = Slice("read", b, ViewAt(loaded, Find(loaded, b)))
  /\ UNCHANGED <<tables, pin, stream, cursor, warming>>

(* rv_session_warm_cache: one step per turn of its loop; no other call     *)
(* runs between two turns.                                                 *)
WarmCacheBegins ==
  /\ warming = 0 /\ Len(tables.waves) > 0
  /\ warming' = 1
  /\ UNCHANGED <<tables, cache, pin, stream, cursor, reply>>

\* mutant: the loop bound is <= count
NextTurnPastEnd(c) == IF c.count >= Capacity \/ warming > Len(tables.waves) THEN 0 ELSE warming + 1

NextTurn(c) == IF c.count >= Capacity \/ warming = Len(tables.waves) THEN 0 ELSE warming + 1

WarmCacheTurn ==
  /\ warming > 0
  /\ LET row == tables.waves[warming]
     IN  cache' = PutFromBlock(cache, row.id, row.view)
  /\ warming' = NextTurn(cache')
  /\ Returns("done", TRUE)
  /\ UNCHANGED <<tables, pin, stream, cursor>>

(* rv_session_rebind without retain_cache; the rebuilt index is the same.  *)
(* The guard is a bound: fewer rebinds than generations.                   *)
rv_session_rebind ==
  /\ warming = 0 /\ cache.gen < MaxGen
  /\ cache' = Invalidate(cache)
  /\ Returns("done", TRUE)
  /\ UNCHANGED <<tables, pin, stream, cursor, warming>>

Next ==
  \/ \E s \in Stream :
       \/ \E route \in AskedId : rv_stream_open(s, route)
       \/ rv_stream_next_window(s) \/ rv_stream_next_wave(s) \/ rv_stream_close(s)
  \/ \E c \in Cursor :
       \/ \E id \in AskedId : rv_cursor_seek_window(c, id)
       \/ rv_cursor_open(c) \/ rv_cursor_read_wave(c) \/ rv_cursor_advance(c)
       \/ rv_cursor_close(c)
  \/ \E id \in AskedId : rv_wave_get(id)
  \/ WarmCacheBegins \/ WarmCacheTurn
  \/ rv_session_rebind

Spec == Init /\ [][Next]_vars

-----------------------------------------------------------------------------
(* Every variable keeps its type; in particular the loop of warm_cache     *)
(* never leaves the wave table.                                            *)
TypeOK ==
  /\ tables \in Package
  /\ cache \in Cache
  /\ pin \in [Reader -> BlockId \cup {NoPin}]
  /\ stream \in [Stream -> StreamState \cup {Closed}]
  /\ cursor \in [Cursor -> CursorState \cup {Closed}]
  /\ warming \in 0 .. Len(tables.waves)
  /\ reply.ok \in BOOLEAN /\ reply.block \in BlockId \cup {0} /\ reply.view \in View \cup {NoView}

Holders == {r \in Reader : pin[r] # NoPin}

(* No pin leaks: an entry is pinned only while some reader remembers its   *)
(* block as the one to unpin, whatever the readers, the session and a      *)
(* rebind did in between.  So when the last reader closes, every entry can *)
(* be evicted again.                                                       *)
PinsAreOwned == Held(cache) \subseteq {pin[r] : r \in Holders}

(* A read of an indexed block is refused only when at least as many readers *)
(* hold a pin as the cache has slots.                                      *)
RefusedOnlyWhenStarved == reply.call = "refused" => Cardinality(Holders) >= Capacity

(* A slice shows the row the index finds for its block: neither the forced *)
(* eviction nor another reader's traffic slips another block's samples or  *)
(* a cleared entry under it.  (Two rows with one block id are not told     *)
(* apart by the cache, and a block whose id no map holds can only be read  *)
(* by position.)                                                           *)
SliceIsTheIndexedRow ==
  reply.call = "read" /\ reply.ok /\ UniqueIds(tables.waves) /\ reply.block \notin Unmapped =>
    reply.view = tables.waves[FindWave(tables, reply.block)].view

(* A cursor that was ever sought stands on a window together with that     *)
(* window's block, also after seeks and advances that failed half way.     *)
CursorOnItsWindow ==
  \A c \in Cursor :
    cursor[c] # Closed /\ cursor[c].window # 0 => cursor[c].wave = WaveOfWindow(cursor[c].window)

(* A stream opened before the cache was invalidated stays stale until it   *)
(* is closed: the generation never returns to the one it remembers, and no *)
(* call on it reads, which would claim a pin in the new cache.             *)
Stale(s) == stream[s] # Closed /\ stream[s].gen # cache.gen
StaleStreamsStayDry ==
  [][\A s \in Stream :
       Stale(s) => stream'[s] = Closed \/ (Stale(s)' /\ pin'[s] = pin[s])]_vars

(* With unique window ids a successful advance moves a cursor to the next  *)
(* row of the window table, so a loop of advances ends and skips nothing.  *)
Advanced(c) == reply'.call = "advance" /\ cursor'[c] # cursor[c] /\ cursor[c].window \notin Unmapped
AdvanceStepsOneRow ==
  [][\A c \in Cursor :
       Advanced(c) /\ UniqueIds(tables.windows) =>
         FindWindow(tables, cursor'[c].window) = FindWindow(tables, cursor[c].window) + 1]_vars
=============================================================================
