---------------------------- MODULE MCWaveReaders ----------------------------
(***************************************************************************)
(* The instance of WaveReaders that TLC checks: a cache of two entries,    *)
(* the smallest rv_cache_init allows, under two readers and a session.   *)
(* The first package is regular; the second has a window whose block is    *)
(* missing, a window with id 0, and a wave block id that occurs twice; the *)
(* third does not fill the cache.                                          *)
(***************************************************************************)
EXTENDS WaveReaders

W(id, route, wave) == [id |-> id, route |-> route, wave |-> wave]
B(id, view) == [id |-> id, view |-> view]

Regular ==
  [windows |-> <<W(1, 1, 3), W(2, 2, 1), W(3, 1, 2)>>,
   waves |-> <<B(1, "a"), B(2, "b"), B(3, "c")>>]

Irregular ==
  [windows |-> <<W(0, 1, 2), W(1, 2, 7), W(2, 1, 1), W(3, 1, 2)>>,
   waves |-> <<B(1, "a"), B(2, "b"), B(1, "c")>>]

Tiny == [windows |-> <<W(1, 1, 1)>>, waves |-> <<B(1, "a")>>]

Packages == {Regular, Irregular, Tiny}

(* Ticks matter only by their order, so states that agree on the order of  *)
(* the ticks, and on everything else, are one state.                       *)
Rank(i) == Cardinality({j \in InUse(cache) : cache.slot[j].tick <= cache.slot[i].tick})
Ordered ==
  [i \in Slot |-> IF cache.slot[i] = Free THEN Free ELSE [cache.slot[i] EXCEPT !.tick = Rank(i)]]
UpToTicks ==
  <<tables, [cache EXCEPT !.slot = Ordered, !.tick = 0], pin, stream, cursor, warming, reply>>
==============================================================================
