----------------------------- MODULE TableIndex -----------------------------
(***************************************************************************)
(* How src/internal/rv_index.c builds the secondary index of a package out *)
(* of arena memory, and finds ids in it.  PackageIndex says what the       *)
(* lookups of a finished index are; here is the index while it is built,   *)
(* with the direct maps that grow, and each allocation that may fail.      *)
(*                                                                         *)
(* A call works on a record: the arena bytes in use, the number of         *)
(* allocations the environment will still grant (the arena may have to     *)
(* grow, and realloc may fail), and ok, which a refusal makes FALSE.       *)
(*                                                                         *)
(* A definition marked "mutant" is a plausible bug in the definition after *)
(* it; no specification uses it.                                           *)
(***************************************************************************)
EXTENDS PackageTables, FiniteSetsExt, Doubling

CONSTANTS
  Limit,    \* max_bytes of the arena
  NodeSize, \* for each indexed table the size of its nodes
  FirstMap, \* 32: the first capacity of a map
  Doublings \* 25: a map that was doubled as often no longer grows

Indexed == {"routes", "windows", "waves", "marks"}
Mapped == {"routes", "windows", "waves"}

ASSUME IndexAssumption ==
  /\ Limit \in Nat /\ FirstMap \in Nat \ {0} /\ Doublings \in Nat
  /\ NodeSize \in [Indexed -> Nat \ {0}]

AlignTo(n, align) == IF n % align = 0 THEN n ELSE n + (align - (n % align))

\* mutant: the limit is tested before the bytes are added
FitsBefore(used, bytes) == used <= Limit

Fits(used, bytes) == bytes # 0 /\ used + bytes <= Limit

(* rv_arena_calloc, as far as an index or a query uses it.                 *)
Take(w, bytes, align) ==
  LET at == AlignTo(w.used, align)
  IN  IF ~w.ok THEN w
      ELSE IF w.grants = 0 \/ ~Fits(at, bytes) THEN [w EXCEPT !.ok = FALSE]
      ELSE [w EXCEPT !.used = at + bytes, !.grants = @ - 1]

-----------------------------------------------------------------------------
(* An index: its nodes, which copy the rows, its maps, and whether it is   *)
(* whole.                                                                  *)
NoMap == << >>
EmptyIndex ==
  [nodes |-> [table \in Indexed |-> << >>], map |-> [table \in Mapped |-> NoMap], ready |-> FALSE]

(* A map of capacity n is a function on 0 .. n - 1; NoMap has capacity 0.  *)
CapacityOf(map) == IF map = NoMap THEN 0 ELSE Max(DOMAIN map) + 1

(* The capacities that doubling goes through; the loop gives up after the  *)
(* last.                                                                   *)
Capacities == {FirstMap * Doubled[k] : k \in 0 .. Doublings}

LargeEnough(need) == {cap \in Capacities : cap >= need}

\* mutant: the cells of the old map are not copied
RegrownMap(map, cap) == [id \in 0 .. cap - 1 |-> 0]

GrownMap(map, cap) == [id \in 0 .. cap - 1 |-> IF id < CapacityOf(map) THEN map[id] ELSE 0]

Store(map, id, i) == IF id \in DOMAIN map THEN [map EXCEPT ![id] = i] ELSE map

(* rv_idmap_put of row i of a table.  For the id 2^32 - 1 the capacity it  *)
(* needs wraps to 0: nothing grows, the row is stored 16 GB behind the     *)
(* map, far outside the arena, and the call succeeds.  That is undefined;  *)
(* the process ends there, or the store hits nothing that is read later    *)
(* and the model goes on.                                                  *)
rv_idmap_put(w, table, id, i) ==
  LET map == w.index.map[table]
      need == (id + 1) % IdMod
      cap == Min(LargeEnough(need))
      grown == Take(w, 4 * cap, 4)
  IN  IF ~w.ok \/ id = 0 THEN w
      ELSE IF need <= CapacityOf(map) THEN [w EXCEPT !.index.map[table] = Store(@, id, i)]
      ELSE IF LargeEnough(need) = {} THEN [w EXCEPT !.ok = FALSE]
      ELSE IF ~grown.ok THEN grown
      ELSE [grown EXCEPT !.index.map[table] = [GrownMap(map, cap) EXCEPT ![id] = i]]

(* The ids of the rows that a build stores in maps are 32 bits wide, and   *)
(* no store misses its map.                                                *)
IdsFit(t) == \A table \in Mapped : \A id \in Ids(t[table]) : id < IdMod
StoresHit(t) == \A table \in Mapped : IdMod - 1 \notin Ids(t[table])

(* The node of row i, then its map cell.                                   *)
AddNode(w, table, row, i) ==
  IF ~w.ok THEN w
  ELSE LET noted == [w EXCEPT !.index.nodes[table] = Append(@, row)]
       IN  IF table \in Mapped THEN rv_idmap_put(noted, table, row.id, i) ELSE noted

IndexTable(w, table, rows) ==
  IF rows = << >> THEN w
  ELSE FoldLeft(LAMBDA acc, i : AddNode(acc, table, rows[i], i),
                Take(w, NodeSize[table] * Len(rows), 8), [i \in DOMAIN rows |-> i])

(* rv_index_build.  A refusal ends it with an index that is not ready, and *)
(* what was allocated stays allocated.                                     *)
rv_index_build(used, grants, t) ==
  LET start == [used |-> used, grants |-> grants, ok |-> TRUE, index |-> EmptyIndex]
      routes == IndexTable(start, "routes", t.routes)
      windows == IndexTable(routes, "windows", t.windows)
      waves == IndexTable(windows, "waves", t.waves)
      marks == IndexTable(waves, "marks", t.marks)
  IN  [marks EXCEPT !.index.ready = marks.ok]

(* rv_index_find_window, rv_index_find_wave, rv_index_find_route.          *)
Found(index, table, id) ==
  IF index.ready /\ id < CapacityOf(index.map[table]) THEN index.map[table][id] ELSE 0
=============================================================================
