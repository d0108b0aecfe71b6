-------------------------- MODULE MCSessionQueries --------------------------
(***************************************************************************)
(* An instance of SessionQueries for TLC: packages with ids far apart, so  *)
(* that maps are regrown, with an id that occurs twice, and with none; the *)
(* arena holds a few indexes.  Three names share a bucket, the last of the *)
(* hash table, and one of them is in no package.                           *)
(***************************************************************************)
EXTENDS SessionQueries

AnyName == {"a", "b", "c", "d"}
Lengths == [n \in AnyName |-> 1]
Hashes == [n \in AnyName |-> IF n = "b" THEN 0 ELSE 15]

Nodes == [t \in Indexed |-> IF t = "marks" THEN 32 ELSE 24]

Mark(id, window, kind, severity, distance) ==
  [id |-> id, window |-> window, label |-> 1, kind |-> kind, severity |-> severity,
   distance |-> distance, loss |-> 0, ok |-> TRUE]
Win(id, route, inst, wave) ==
  [id |-> id, route |-> route, inst |-> inst, calib |-> 0, wave |-> wave, ok |-> TRUE]

Of(names, routes, insts, windows, waves, marks) ==
  [names |-> names,
   routes |-> [i \in DOMAIN routes |-> [id |-> routes[i], site |-> 1, far |-> 0, ok |-> TRUE]],
   insts |-> [i \in DOMAIN insts |-> [id |-> insts[i], model |-> 0, serial |-> 0,
                                      wavelength |-> IF insts[i] = 1 THEN 1550 ELSE 1310]],
   calibs |-> << >>, windows |-> windows,
   waves |-> [i \in DOMAIN waves |-> [id |-> waves[i], window |-> 1, samples |-> 1, ok |-> TRUE]],
   marks |-> marks, links |-> << >>, notes |-> << >>, summ |-> NoSumm]

Named(strs) == [i \in DOMAIN strs |-> [id |-> i, str |-> strs[i]]]

(* Windows 2 and 40 need a map of 32 cells and then one of 64; the second  *)
(* has no wave, and window 9 is not there.                                 *)
Spread ==
  Of(Named(<<"a", "b", "c", "a">>), <<1, 2>>, <<1, 2>>,
     <<Win(2, 1, 1, 1), Win(3, 1, 1, 0), Win(40, 2, 2, 7)>>, <<1>>,
     <<Mark(1, 2, 1, 20, 10), Mark(2, 40, 2, 50, 10), Mark(3, 2, 2, 50, 5), Mark(4, 9, 1, 20, 30),
       Mark(5, 3, 1, 10, 20)>>)

(* Window 2 occurs twice, on two routes; one window has id 0.              *)
Twice ==
  Of(<<[id |-> 1, str |-> "c"], [id |-> 1, str |-> "a"]>>, <<1, 0>>, <<1>>,
     <<Win(0, 1, 1, 1), Win(2, 1, 1, 1), Win(2, 2, 3, 1)>>, <<1, 1>>,
     <<Mark(1, 2, 1, 20, 10), Mark(2, 0, 1, 20, 10)>>)

Bare == Of(<< >>, << >>, << >>, << >>, << >>, << >>)

(* The second map of its index is larger than any may be; two names have   *)
(* the id 0.                                                               *)
TooFar == Of(<<[id |-> 0, str |-> "a"], [id |-> 0, str |-> "b"]>>, <<1>>, << >>, <<Win(1, 1, 1, 0), Win(64, 1, 1, 0)>>, << >>, << >>)

(* The last row of windows and of waves is stored beside its map, and the  *)
(* only route where there is no map yet.                                   *)
OnTheEdge ==
  Of(Named(<<"b">>), <<127>>, <<1>>, <<Win(2, 127, 1, 127), Win(127, 127, 1, 1)>>, <<1, 127>>,
     <<Mark(1, 127, 1, 20, 10), Mark(2, 2, 1, 20, 10)>>)

(* The last leaves too little room for an index.                           *)
SomePackages ==
  {[tables |-> Spread, parsed |-> 400], [tables |-> Twice, parsed |-> 300],
   [tables |-> Bare, parsed |-> 40], [tables |-> TooFar, parsed |-> 100],
   [tables |-> OnTheEdge, parsed |-> 200], [tables |-> Twice, parsed |-> 2200]}

F(route, inst, kind, severity, near, far) ==
  [route |-> route, inst |-> inst, kind |-> kind, severity |-> severity, near |-> near, far |-> far]
Filters ==
  {F(0, 0, 0, 0, 0, 0), F(1, 0, 0, 0, 0, 0), F(2, 2, 0, 0, 0, 0), F(0, 1, 1, 0, 0, 0),
   F(0, 0, 2, 30, 0, 9), F(0, 0, 0, 0, 10, 0)}

Plan(filter, by, wave, limit) == [filter |-> filter, by |-> by, wave |-> wave, limit |-> limit]
Plans ==
  {Plan(F(0, 0, 0, 0, 0, 0), "distance", FALSE, 0), Plan(F(0, 0, 0, 0, 0, 0), "severity", TRUE, 3),
   Plan(F(1, 0, 0, 0, 0, 0), "none", TRUE, 2), Plan(F(0, 0, 1, 0, 0, 0), "none", TRUE, 0)}

Spans ==
  {[route |-> 1, inst |-> 0, wavelength |-> 0], [route |-> 0, inst |-> 2, wavelength |-> 0],
   [route |-> 0, inst |-> 0, wavelength |-> 1550], [route |-> 5, inst |-> 0, wavelength |-> 0]}

Searches == {<<0, 10, 5>>, <<2, 6, 1>>}

(* No action reads reply, and the properties that do look at reply' only.  *)
UpToReply == <<package, used, index, index_ready, stale>>
=============================================================================
