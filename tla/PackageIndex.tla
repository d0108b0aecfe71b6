---------------------------- MODULE PackageIndex ----------------------------
(***************************************************************************)
(* The lookups of the secondary index of src/internal/rv_index.c over the  *)
(* window and wave tables of a parsed package.  The index is a pure        *)
(* function of the tables: one node per table row, in table order, and a   *)
(* direct map from each id to the position of its row plus one.  A table is *)
(* a sequence of rows with an id field.                                    *)
(***************************************************************************)
EXTENDS Naturals, SequencesExt

CONSTANT IdMod \* 2^32: ids are unsigned and 32 bits wide

ASSUME WidthAssumption == IdMod \in Nat \ {0, 1}

(* The ids that no map holds.  0 is not stored.  For the largest id the    *)
(* size a map needs wraps to 0, and the store misses the map, which is     *)
(* undefined (TableIndex); no map is so large that a lookup would find it. *)
Unmapped == {0, IdMod - 1}

RowsOf(table, id) == {i \in DOMAIN table : table[i].id = id}

(* A map cell holds position + 1 of the last row that rv_idmap_put stored  *)
(* for the id, 0 when there is none.                                       *)
MapCell(table, id) ==
  IF id \in Unmapped \/ RowsOf(table, id) = {}
  THEN 0
  ELSE CHOOSE i \in RowsOf(table, id) : \A j \in RowsOf(table, id) : j <= i

(* rv_index_find_window and rv_index_find_wave; 0 is "not found".          *)
FindWindow(t, id) == MapCell(t.windows, id)
FindWave(t, id) == MapCell(t.waves, id)

(* The window_order of a stream: the windows of a route, or all of them    *)
(* for route 0, in table order.                                            *)
WindowOrder(t, route) ==
  FoldLeft(LAMBDA order, i : IF route \in {0, t.windows[i].route} THEN Append(order, i) ELSE order,
           << >>, [i \in DOMAIN t.windows |-> i])

(* No id but 0 occurs twice.                                               *)
UniqueIds(table) ==
  \A i, j \in DOMAIN table : table[i].id = table[j].id /\ table[i].id # 0 => i = j

(* rv_sort_windows_by_id leaves the window table of an open package so.    *)
SortedById(table) == \A i, j \in DOMAIN table : i < j => table[i].id <= table[j].id
=============================================================================
