------------------------- MODULE SessionQueriesProofs -------------------------
(***************************************************************************)
(* Proofs about SessionQueries, and about the index, the queries and the   *)
(* name dictionary that it uses.                                           *)
(***************************************************************************)
EXTENDS
  SessionQueries, DataProofs, SequenceTheorems, FunctionTheorems, FiniteSetTheorems

-----------------------------------------------------------------------------
(***************************************************************************)
(* Sizes that are doubled.                                                 *)
(***************************************************************************)
Doubles(r, k) == r[0] = 1 /\ \A i \in 1 .. k : r[i] = 2 * r[i - 1]

(* There are the first k sizes, ...                                        *)
LEMMA DoublesExist ==
  ASSUME NEW k \in Nat
  PROVE  \E r \in [0 .. k -> Nat \ {0}] : Doubles(r, k)
<1> DEFINE G == {j \in 0 .. k : \E r \in [0 .. j -> Nat \ {0}] : Doubles(r, j)}
<1>1. 0 \in G
  <2>1. [j \in 0 .. 0 |-> 1] \in [0 .. 0 -> Nat \ {0}] /\ Doubles([j \in 0 .. 0 |-> 1], 0)
    BY DEF Doubles
  <2> QED BY <2>1
<1>2. ASSUME NEW j \in 1 .. k, j - 1 \in G PROVE j \in G
  <2>1. PICK r \in [0 .. (j - 1) -> Nat \ {0}] : Doubles(r, j - 1)
    BY <1>2
  <2> DEFINE s == [i \in 0 .. j |-> IF i = j THEN 2 * r[j - 1] ELSE r[i]]
  <2>2. ASSUME NEW i \in 0 .. j PROVE s[i] \in Nat \ {0}
    <3>1. CASE i = j
      <4>1. r[j - 1] \in Nat \ {0}
        OBVIOUS
      <4> QED BY <3>1, <4>1
    <3>2. CASE i # j
      <4>1. i \in 0 .. (j - 1)
        BY <3>2
      <4> QED BY <3>2, <4>1
    <3> QED BY <3>1, <3>2
  <2>3. s \in [0 .. j -> Nat \ {0}]
    BY <2>2
  <2>4. s[0] = 1
    BY <2>1 DEF Doubles
  <2>5. ASSUME NEW i \in 1 .. j PROVE s[i] = 2 * s[i - 1]
    <3>1. i - 1 \in 0 .. j /\ i - 1 # j /\ s[i - 1] = r[i - 1]
      OBVIOUS
    <3>2. CASE i = j
      BY <3>1, <3>2
    <3>3. CASE i # j
      <4>1. i \in 1 .. (j - 1) /\ r[i] = 2 * r[i - 1]
        BY <2>1, <3>3 DEF Doubles
      <4> QED BY <3>1, <3>3, <4>1
    <3> QED BY <3>2, <3>3
  <2>6. Doubles(s, j)
    <3> HIDE DEF s
    <3> QED BY <2>4, <2>5 DEF Doubles
  <2>7. j \in 0 .. k
    OBVIOUS
  <2> HIDE DEF s
  <2> QED BY <2>3, <2>6, <2>7
<1>3. \A j \in 0 .. k : j \in G
  <2> HIDE DEF G
  <2> QED BY <1>1, <1>2, PrefixInduction
<1>4. k \in G
  <2> HIDE DEF G
  <2> QED BY <1>3
<1> QED BY <1>4

(* ... and no two ways to list them.                                       *)
LEMMA DoublesAgree ==
  ASSUME NEW k \in Nat, NEW r, NEW s, Doubles(r, k), Doubles(s, k + 1)
  PROVE  r[k] = s[k]
<1> DEFINE G == {j \in 0 .. k : r[j] = s[j]}
<1>1. 0 \in G
  BY DEF Doubles
<1>2. ASSUME NEW j \in 1 .. k, j - 1 \in G PROVE j \in G
  <2>1. j \in 1 .. k + 1 /\ j \in 0 .. k
    OBVIOUS
  <2>2. r[j] = 2 * r[j - 1] /\ s[j] = 2 * s[j - 1]
    BY <2>1 DEF Doubles
  <2> QED BY <1>2, <2>1, <2>2
<1>3. \A j \in 0 .. k : j \in G
  <2> HIDE DEF G
  <2> QED BY <1>1, <1>2, PrefixInduction
<1> QED BY <1>3

(* So the recursive definition has a solution, and is it.                  *)
LEMMA DoubledIsDefined ==
  \A k \in Nat : /\ Doubled[k] = IF k = 0 THEN 1 ELSE 2 * Doubled[k - 1]
                 /\ k = 0 => Doubled[k] = 1
<1> DEFINE first(k) == CHOOSE r \in [0 .. k -> Nat \ {0}] : Doubles(r, k)
           f == [k \in Nat |-> first(k)[k]]
           eq(g) == [k \in Nat |-> IF k = 0 THEN 1 ELSE 2 * g[k - 1]]
<1>1. \A k \in Nat : first(k) \in [0 .. k -> Nat \ {0}] /\ Doubles(first(k), k)
  BY DoublesExist
<1>2. ASSUME NEW k \in Nat PROVE f[k] = IF k = 0 THEN 1 ELSE 2 * f[k - 1]
  <2> HIDE DEF first
  <2>1. CASE k = 0
    BY <1>1, <2>1 DEF Doubles
  <2>2. CASE k # 0
    <3>1. k - 1 \in Nat /\ k \in 1 .. k /\ (k - 1) + 1 = k
      BY <2>2
    <3>2. Doubles(first(k - 1), k - 1) /\ Doubles(first(k), k)
      BY <1>1, <3>1
    <3>3. first(k)[k] = 2 * first(k)[k - 1]
      BY <3>1, <3>2 DEF Doubles
    <3>4. first(k - 1)[k - 1] = first(k)[k - 1]
      BY <3>1, <3>2, DoublesAgree
    <3> QED BY <2>2, <3>1, <3>3, <3>4
  <2> QED BY <2>1, <2>2
<1>3. f = eq(f)
  <2>1. f = [k \in Nat |-> f[k]]
    OBVIOUS
  <2> HIDE DEF f
  <2> QED BY <1>2, <2>1
<1>4. Doubled = eq(Doubled)
  <2>1. Doubled = CHOOSE g : g = eq(g)
    BY DEF Doubled
  <2> HIDE DEF f, eq
  <2> QED BY <1>3, <2>1
<1>5. \A k \in Nat : eq(Doubled)[k] = IF k = 0 THEN 1 ELSE 2 * Doubled[k - 1]
  OBVIOUS
<1> HIDE DEF eq
<1> QED BY <1>4, <1>5

(* The sizes outgrow any need.                                             *)
LEMMA DoubledGrows ==
  ASSUME NEW least \in Nat \ {0}, NEW count \in Nat
  PROVE  /\ \A k \in Nat : Doubled[k] \in Nat \ {0}
         /\ Doubled[least + count] >= 2 * count + least
<1>1. ASSUME NEW n \in Nat PROVE Doubled[n] \in Nat /\ Doubled[n] >= n + 1
  <2> DEFINE G == {k \in 0 .. n : Doubled[k] \in Nat /\ Doubled[k] >= k + 1}
  <2>1. 0 \in G
    BY DoubledIsDefined
  <2>2. ASSUME NEW k \in 1 .. n, k - 1 \in G PROVE k \in G
    <3>1. k \in Nat /\ k # 0 /\ Doubled[k] = 2 * Doubled[k - 1]
      BY DoubledIsDefined
    <3>2. Doubled[k - 1] \in Nat /\ Doubled[k - 1] >= k
      BY <2>2
    <3> QED BY <3>1, <3>2
  <2>3. \A k \in 0 .. n : k \in G
    <3> HIDE DEF G
    <3> QED BY <2>1, <2>2, PrefixInduction
  <2> QED BY <2>3
<1>2. \A k \in Nat : Doubled[k] \in Nat \ {0}
  BY <1>1
<1> DEFINE G == {c \in 0 .. count : Doubled[least + c] >= (2 * c + least) + 1}
<1>3. 0 \in G
  BY <1>1
<1>4. ASSUME NEW c \in 1 .. count, c - 1 \in G PROVE c \in G
  <2>1. /\ least + c \in Nat /\ least + c # 0 /\ (least + c) - 1 = least + (c - 1)
        /\ least + (c - 1) \in Nat
    OBVIOUS
  <2>2. Doubled[least + c] = 2 * Doubled[least + (c - 1)]
    BY <2>1, DoubledIsDefined
  <2>3. Doubled[least + (c - 1)] \in Nat /\ Doubled[least + (c - 1)] >= (2 * (c - 1) + least) + 1
    BY <1>1, <1>4, <2>1
  <2> QED BY <2>2, <2>3
<1>5. \A c \in 0 .. count : c \in G
  <2> HIDE DEF G
  <2> QED BY <1>3, <1>4, PrefixInduction
<1>6. Doubled[least + count] >= (2 * count + least) + 1 /\ Doubled[least + count] \in Nat
  BY <1>1, <1>5
<1> QED BY <1>2, <1>6

-----------------------------------------------------------------------------
(***************************************************************************)
(* The records that the building of an index works on.                     *)
(***************************************************************************)
MapOf == UNION {[0 .. n - 1 -> Nat] : n \in Nat}

NodesOf == {f \in [Indexed -> UNION {Seq(RowOf[table]) : table \in Indexed}] :
              \A table \in Indexed : f[table] \in Seq(RowOf[table])}

IndexState == [nodes : NodesOf, map : [Mapped -> MapOf], ready : BOOLEAN]

Work == [used : 0 .. Limit, grants : Nat, ok : BOOLEAN, index : IndexState]

(* What a map has for an id.                                               *)
MapAt(map, id) == IF id < CapacityOf(map) THEN map[id] ELSE 0

(* An alignment only adds.                                                 *)
LEMMA AlignToAdds ==
  ASSUME NEW n \in Nat, NEW align \in Nat \ {0}
  PROVE  AlignTo(n, align) \in Nat /\ AlignTo(n, align) >= n
<1>1. n % align \in 0 .. align - 1
  OBVIOUS
<1> QED BY <1>1 DEF AlignTo

(* An allocation stays within the limit and touches no index.              *)
LEMMA TakeWorks ==
  ASSUME NEW w \in Work, NEW bytes \in Nat, NEW align \in Nat \ {0}
  PROVE  /\ Take(w, bytes, align) \in Work
         /\ Take(w, bytes, align).index = w.index
         /\ Take(w, bytes, align).ok => w.ok
<1> DEFINE at == AlignTo(w.used, align)
<1>1. w.used \in 0 .. Limit /\ w.grants \in Nat /\ Limit \in Nat
  BY IndexAssumption DEF Work
<1>2. at \in Nat
  BY <1>1, AlignToAdds
<1>3. CASE ~w.ok
  BY <1>3 DEF Take
<1>4. CASE w.ok /\ (w.grants = 0 \/ ~Fits(at, bytes))
  BY <1>4 DEF Take, Work
<1>5. CASE w.ok /\ w.grants # 0 /\ Fits(at, bytes)
  <2>1. at + bytes \in 0 .. Limit /\ w.grants - 1 \in Nat
    BY <1>1, <1>2, <1>5 DEF Fits
  <2>2. Take(w, bytes, align) = [w EXCEPT !.used = at + bytes, !.grants = @ - 1]
    BY <1>5 DEF Take
  <2> HIDE DEF at
  <2> QED BY <1>5, <2>1, <2>2 DEF Work
<1> QED BY <1>3, <1>4, <1>5

(* So does one of a call that builds no index.                             *)
LEMMA TakeStaysBelow ==
  ASSUME NEW u \in 0 .. Limit, NEW grants \in Nat, NEW bytes \in Nat, NEW align \in Nat \ {0}
  PROVE  Take([used |-> u, grants |-> grants, ok |-> TRUE], bytes, align).used \in 0 .. Limit
<1> DEFINE at == AlignTo(u, align)
<1>1. at \in Nat /\ Limit \in Nat
  BY IndexAssumption, AlignToAdds
<1>2. Fits(at, bytes) => at + bytes \in 0 .. Limit
  BY <1>1 DEF Fits
<1> HIDE DEF at
<1> QED BY <1>2 DEF Take, at

-----------------------------------------------------------------------------
(***************************************************************************)
(* Maps.                                                                   *)
(***************************************************************************)
(* The domain of a map is what its capacity says.                          *)
LEMMA MapDomain ==
  ASSUME NEW n \in Nat, NEW map \in [0 .. n - 1 -> Nat]
  PROVE  CapacityOf(map) = n
<1>1. CASE n = 0
  <2>1. 0 .. n - 1 = {} /\ DOMAIN map = {}
    BY <1>1
  <2>2. map = << >>
    BY <2>1
  <2> QED BY <1>1, <2>2 DEF CapacityOf, NoMap
<1>2. CASE n # 0
  <2>1. 0 \in DOMAIN map /\ DOMAIN map = 0 .. n - 1
    BY <1>2
  <2>2. map # << >>
    BY <2>1
  <2>3. n - 1 \in Nat /\ 0 .. n - 1 \in SUBSET (0 .. n - 1) /\ 0 .. n - 1 # {} /\ n - 1 \in 0 .. n - 1
    BY <1>2
  <2>4. Max(0 .. n - 1) \in 0 .. n - 1 /\ \A i \in 0 .. n - 1 : i <= Max(0 .. n - 1)
    BY <2>3, MaxIsMember
  <2>5. Max(0 .. n - 1) = n - 1
    BY <2>3, <2>4
  <2> QED BY <2>1, <2>2, <2>5 DEF CapacityOf, NoMap
<1> QED BY <1>1, <1>2

(* A map has a number for every id.                                        *)
LEMMA MapAtType ==
  ASSUME NEW map \in MapOf
  PROVE  /\ CapacityOf(map) \in Nat /\ map \in [0 .. CapacityOf(map) - 1 -> Nat]
         /\ \A id \in Nat : MapAt(map, id) \in Nat
<1>1. PICK n \in Nat : map \in [0 .. n - 1 -> Nat]
  BY DEF MapOf
<1>2. CapacityOf(map) = n
  BY <1>1, MapDomain
<1>3. \A id \in Nat : id < n => id \in 0 .. n - 1
  OBVIOUS
<1>4. \A id \in Nat : MapAt(map, id) \in Nat
  BY <1>1, <1>2, <1>3 DEF MapAt
<1> QED BY <1>1, <1>2, <1>4

(* The capacities are numbers.                                             *)
LEMMA CapacitiesAreNumbers ==
  ASSUME NEW need \in Nat, LargeEnough(need) # {}
  PROVE  Min(LargeEnough(need)) \in Nat /\ Min(LargeEnough(need)) >= need
<1>1. \A k \in Nat : Doubled[k] \in Nat
  BY DoubledGrows
<1>2. \A k \in 0 .. Doublings : FirstMap * Doubled[k] \in Nat
  <2> TAKE k \in 0 .. Doublings
  <2>1. k \in Nat /\ Doubled[k] \in Nat /\ FirstMap \in Nat
    BY <1>1, IndexAssumption
  <2> QED BY <2>1
<1>3. LargeEnough(need) \in SUBSET Nat
  BY <1>2 DEF LargeEnough, Capacities
<1>4. Min(LargeEnough(need)) \in LargeEnough(need)
  BY <1>3, MinIsMember
<1> QED BY <1>3, <1>4 DEF LargeEnough

Stored(r, w, table, id, i) ==
  /\ r \in Work
  /\ r.index.nodes = w.index.nodes
  /\ r.ok =>
       /\ w.ok
       /\ id # IdMod - 1 =>
            \A x \in Nat : MapAt(r.index.map[table], x) =
                             IF x = id /\ id # 0 THEN i ELSE MapAt(w.index.map[table], x)
       /\ \A other \in Mapped \ {table} : r.index.map[other] = w.index.map[other]

(* Storing a row in a map, which may have to grow, changes the answer for  *)
(* its id and for no other; unless the id is the largest, whose store      *)
(* misses the map.                                                         *)
LEMMA PutWorks ==
  ASSUME NEW w \in Work, NEW table \in Mapped, NEW id \in Nat, id < IdMod, NEW i \in Nat
  PROVE  Stored(rv_idmap_put(w, table, id, i), w, table, id, i)
<1> DEFINE map == w.index.map[table]
           cap == Min(LargeEnough(id + 1))
           grown == Take(w, 4 * cap, 4)
           r == rv_idmap_put(w, table, id, i)
<1>1. map \in MapOf /\ w.index \in IndexState
  BY DEF Work, IndexState
<1>2. CapacityOf(map) \in Nat /\ map \in [0 .. CapacityOf(map) - 1 -> Nat]
  BY <1>1, MapAtType
<1>3. CASE ~w.ok \/ id = 0
  <2>1. r = w
    BY <1>3 DEF rv_idmap_put
  <2> QED BY <1>3, <2>1 DEF Stored
<1>7. CASE w.ok /\ id # 0 /\ id = IdMod - 1
  <2> DEFINE new == Store(map, id, i)
  <2>1. (id + 1) % IdMod = 0
    BY <1>7, WidthAssumption
  <2>2. r = [w EXCEPT !.index.map[table] = new]
    BY <1>2, <1>7, <2>1 DEF rv_idmap_put
  <2>3. new \in [0 .. CapacityOf(map) - 1 -> Nat]
    BY <1>2 DEF Store
  <2>4. new \in MapOf
    BY <1>2, <2>3 DEF MapOf
  <2>5. r = [w EXCEPT !.index = [w.index EXCEPT !.map = [w.index.map EXCEPT ![table] = new]]]
    BY <2>2
  <2> HIDE DEF new
  <2>6. r \in Work /\ r.index.nodes = w.index.nodes /\ r.index.map = [w.index.map EXCEPT ![table] = new]
    BY <1>1, <2>4, <2>5 DEF Work, IndexState
  <2> QED BY <1>1, <1>7, <2>6 DEF IndexState, Stored
<1>8. id # IdMod - 1 => (id + 1) % IdMod = id + 1
  BY WidthAssumption
<1>4. CASE w.ok /\ id # 0 /\ id # IdMod - 1 /\ id < CapacityOf(map)
  <2> DEFINE new == [map EXCEPT ![id] = i]
  <2>1. id \in 0 .. CapacityOf(map) - 1
    BY <1>2, <1>4
  <2>2. new \in [0 .. CapacityOf(map) - 1 -> Nat]
    BY <1>2
  <2>3. CapacityOf(new) = CapacityOf(map)
    BY <1>2, <2>2, MapDomain
  <2>4. r = [w EXCEPT !.index.map[table] = new]
    BY <1>2, <1>4, <1>8, <2>1 DEF rv_idmap_put, Store
  <2>5. new \in MapOf
    BY <1>2, <2>2 DEF MapOf
  <2>6. r = [w EXCEPT !.index = [w.index EXCEPT !.map = [w.index.map EXCEPT ![table] = new]]]
    BY <2>4
  <2>7. \A x \in Nat : MapAt(new, x) = IF x = id THEN i ELSE MapAt(map, x)
    <3> TAKE x \in Nat
    <3>1. x < CapacityOf(map) => x \in 0 .. CapacityOf(map) - 1
      BY <1>2
    <3> QED BY <1>2, <1>4, <2>3, <3>1 DEF MapAt
  <2> HIDE DEF new
  <2>8. r \in Work /\ r.index.nodes = w.index.nodes /\ r.index.map = [w.index.map EXCEPT ![table] = new]
    BY <1>1, <2>5, <2>6 DEF Work, IndexState
  <2> QED BY <1>1, <1>4, <2>7, <2>8 DEF IndexState, Stored
<1>5. CASE w.ok /\ id # 0 /\ id # IdMod - 1 /\ ~(id < CapacityOf(map)) /\ LargeEnough(id + 1) = {}
  <2>1. r = [w EXCEPT !.ok = FALSE]
    BY <1>2, <1>5, <1>8 DEF rv_idmap_put
  <2> QED BY <2>1 DEF Work, Stored
<1>6. CASE w.ok /\ id # 0 /\ id # IdMod - 1 /\ ~(id < CapacityOf(map)) /\ LargeEnough(id + 1) # {}
  <2>1. cap \in Nat /\ cap >= id + 1
    BY <1>6, CapacitiesAreNumbers
  <2>2. grown \in Work /\ grown.index = w.index
    <3> HIDE DEF cap
    <3>1. 4 * cap \in Nat
      BY <2>1
    <3> QED BY <3>1, TakeWorks
  <2>3. CASE ~grown.ok
    <3>1. r = grown
      BY <1>2, <1>6, <1>8, <2>3 DEF rv_idmap_put
    <3> HIDE DEF grown
    <3> QED BY <2>2, <2>3, <3>1 DEF Stored
  <2>4. CASE grown.ok
    <3> DEFINE new == [GrownMap(map, cap) EXCEPT ![id] = i]
    <3>1. r = [grown EXCEPT !.index.map[table] = new]
      BY <1>2, <1>6, <1>8, <2>4 DEF rv_idmap_put
    <3>2. \A x \in 0 .. cap - 1 : x < CapacityOf(map) => x \in 0 .. CapacityOf(map) - 1
      BY <1>2, <2>1
    <3> HIDE DEF cap, grown
    <3>3. GrownMap(map, cap) \in [0 .. cap - 1 -> Nat]
      BY <1>2, <2>1, <3>2 DEF GrownMap
    <3>4. new \in [0 .. cap - 1 -> Nat] /\ id \in 0 .. cap - 1
      BY <2>1, <3>3
    <3>5. CapacityOf(new) = cap /\ new \in MapOf
      BY <2>1, <3>4, MapDomain DEF MapOf
    <3>6. \A x \in Nat : MapAt(new, x) = IF x = id THEN i ELSE MapAt(map, x)
      <4> TAKE x \in Nat
      <4>1. x < cap <=> x \in 0 .. cap - 1
        BY <2>1
      <4>2. CapacityOf(map) <= cap
        BY <1>2, <1>6, <2>1
      <4>3. CASE x < cap
        <5>1. new[x] = IF x = id THEN i ELSE IF x < CapacityOf(map) THEN map[x] ELSE 0
          BY <3>3, <4>1, <4>3 DEF GrownMap
        <5> HIDE DEF new
        <5> QED BY <3>5, <4>3, <5>1 DEF MapAt
      <4>4. CASE ~(x < cap)
        <5> HIDE DEF new
        <5>1. x # id /\ ~(x < CapacityOf(map))
          BY <1>2, <2>1, <4>2, <4>4
        <5> QED BY <3>5, <4>4, <5>1 DEF MapAt
      <4> QED BY <4>3, <4>4
    <3> HIDE DEF new
    <3>7. r = [grown EXCEPT !.index = [w.index EXCEPT !.map = [w.index.map EXCEPT ![table] = new]]]
      BY <2>2, <3>1
    <3>8. r \in Work /\ r.index.nodes = w.index.nodes /\ r.index.map = [w.index.map EXCEPT ![table] = new]
      BY <1>1, <2>2, <3>5, <3>7 DEF Work, IndexState
    <3> QED BY <1>1, <1>6, <3>6, <3>8 DEF IndexState, Stored
  <2> QED BY <2>3, <2>4
<1> QED BY <1>3, <1>4, <1>5, <1>6, <1>7

-----------------------------------------------------------------------------
(***************************************************************************)
(* A built index has the rows of the tables, and finds the last row of     *)
(* each id.                                                                *)
(***************************************************************************)
(* The answer c for an id after the first k rows.                          *)
IsCell(rows, k, id, c) ==
  \/ c = 0 /\ (id # 0 => \A i \in 1 .. k : rows[i].id # id)
  \/ id # 0 /\ c \in 1 .. k /\ rows[c].id = id /\ \A j \in 1 .. k : rows[j].id = id => j <= c

IsFilled(index0, table, rows, k) ==
  /\ index0.nodes[table] = SubSeq(rows, 1, k)
  /\ table \in Mapped /\ IdMod - 1 \notin Ids(rows) =>
       \A id \in Nat : IsCell(rows, k, id, MapAt(index0.map[table], id))

SameBut(table, one, two) ==
  /\ \A other \in Indexed \ {table} : one.nodes[other] = two.nodes[other]
  /\ \A other \in Mapped \ {table} : one.map[other] = two.map[other]

(* Whole: every row of every table t is there, and every id is found if no *)
(* store missed the map of its table.                                      *)
IsWhole(index0, t) ==
  /\ index0 \in IndexState /\ index0.ready
  /\ \A table \in Indexed : IsFilled(index0, table, t[table], Len(t[table]))

(* Another row of a table is one of its type.                              *)
LEMMA AppendType ==
  ASSUME NEW T, NEW rows \in Seq(T), NEW row \in T
  PROVE  Append(rows, row) \in Seq(T)
OBVIOUS

(* The tables of a package have rows of their types.                       *)
LEMMA TableTypes ==
  ASSUME NEW t \in Tables, NEW table \in Indexed
  PROVE  t[table] \in Seq(RowOf[table]) /\ \A row \in RowOf[table] : row.id \in Nat
<1>1. CASE table = "routes"
  BY <1>1 DEF Tables, RowOf, RouteRow
<1>2. CASE table = "windows"
  BY <1>2 DEF Tables, RowOf, WindowRow
<1>3. CASE table = "waves"
  BY <1>3 DEF Tables, RowOf, WaveRow
<1>4. CASE table = "marks"
  BY <1>4 DEF Tables, RowOf, MarkRow
<1> QED BY <1>1, <1>2, <1>3, <1>4 DEF Indexed

(* The next row keeps it so.                                               *)
LEMMA AddNodeWorks ==
  ASSUME NEW w0 \in Work, NEW table \in Indexed, NEW rows \in Seq(RowOf[table]),
         \A row \in RowOf[table] : row.id \in Nat,
         table \in Mapped => \A id \in Ids(rows) : id < IdMod,
         NEW k \in 1 .. Len(rows), NEW w \in Work
  PROVE  /\ AddNode(w, table, rows[k], k) \in Work
         /\ w.ok /\ IsFilled(w.index, table, rows, k - 1) /\ SameBut(table, w.index, w0.index)
              /\ AddNode(w, table, rows[k], k).ok =>
              /\ IsFilled(AddNode(w, table, rows[k], k).index, table, rows, k)
              /\ SameBut(table, AddNode(w, table, rows[k], k).index, w0.index)
         /\ AddNode(w, table, rows[k], k).ok => w.ok
<1> DEFINE row == rows[k]
           more == [w.index.nodes EXCEPT ![table] = Append(w.index.nodes[table], row)]
           noted == [w EXCEPT !.index.nodes[table] = Append(@, row)]
           r == AddNode(w, table, row, k)
<1>1. row \in RowOf[table] /\ row.id \in Nat /\ k \in Nat
  OBVIOUS
<1>9. row.id \in Ids(rows)
  BY DEF Ids
<1>2. w.index \in IndexState /\ w.index.nodes \in NodesOf
  BY DEF Work, IndexState
<1>3. more \in NodesOf
  <2>1. Append(w.index.nodes[table], row) \in Seq(RowOf[table])
    <3>1. w.index.nodes[table] \in Seq(RowOf[table])
      BY <1>2 DEF NodesOf
    <3> HIDE DEF row
    <3> QED BY <1>1, <3>1, AppendType
  <2>2. Append(w.index.nodes[table], row) \in UNION {Seq(RowOf[other]) : other \in Indexed}
    BY <2>1
  <2> HIDE DEF row
  <2> QED BY <1>2, <2>1, <2>2 DEF NodesOf
<1>4. noted = [w EXCEPT !.index = [w.index EXCEPT !.nodes = more]]
  OBVIOUS
<1>5. /\ noted \in Work /\ noted.ok = w.ok /\ noted.index.nodes = more
      /\ noted.index.map = w.index.map
  <2> HIDE DEF noted, more
  <2> QED BY <1>2, <1>3, <1>4 DEF Work, IndexState
<1>6. CASE ~w.ok
  BY <1>6 DEF AddNode
<1>7. CASE w.ok /\ table \notin Mapped
  <2>1. r = noted
    BY <1>7 DEF AddNode
  <2>2. r \in Work
    <3> HIDE DEF noted, row
    <3> QED BY <1>5, <2>1
  <2>3. ASSUME IsFilled(w.index, table, rows, k - 1), SameBut(table, w.index, w0.index)
        PROVE  IsFilled(r.index, table, rows, k) /\ SameBut(table, r.index, w0.index)
    <3>1. SubSeq(rows, 1, k) = Append(SubSeq(rows, 1, k - 1), row)
      OBVIOUS
    <3>2. more[table] = SubSeq(rows, 1, k)
      BY <1>2, <2>3, <3>1 DEF IsFilled, NodesOf
    <3>3. \A other \in Indexed \ {table} : more[other] = w.index.nodes[other]
      BY <1>2 DEF NodesOf
    <3>4. r.index.nodes = more /\ r.index.map = w.index.map
      <4> HIDE DEF noted, row, more
      <4> QED BY <1>5, <2>1
    <3> HIDE DEF noted, more, row
    <3> QED BY <1>7, <2>3, <3>2, <3>3, <3>4 DEF IsFilled, SameBut, row
  <2> QED BY <1>7, <2>2, <2>3
<1>8. CASE w.ok /\ table \in Mapped
  <2>1. r = rv_idmap_put(noted, table, row.id, k)
    BY <1>8 DEF AddNode
  <2>2. /\ r \in Work /\ r.index.nodes = more
        /\ r.ok =>
             /\ row.id # IdMod - 1 => \A x \in Nat : MapAt(r.index.map[table], x) =
                   IF x = row.id /\ row.id # 0 THEN k ELSE MapAt(w.index.map[table], x)
             /\ \A other \in Mapped \ {table} : r.index.map[other] = w.index.map[other]
    <3> DEFINE id == row.id
    <3>1. id \in Nat /\ id < IdMod
      BY <1>1, <1>8, <1>9
    <3> DEFINE put == rv_idmap_put(noted, table, id, k)
    <3> HIDE DEF noted, more, id
    <3>2. Stored(put, noted, table, id, k)
      BY <1>1, <1>5, <1>8, <3>1, PutWorks
    <3>3. r = put
      BY <2>1 DEF id
    <3> HIDE DEF put
    <3> QED BY <1>5, <3>2, <3>3 DEF id, Stored
  <2>3. ASSUME IsFilled(w.index, table, rows, k - 1), SameBut(table, w.index, w0.index), r.ok
        PROVE  IsFilled(r.index, table, rows, k) /\ SameBut(table, r.index, w0.index)
    <3>1. SubSeq(rows, 1, k) = Append(SubSeq(rows, 1, k - 1), row)
      OBVIOUS
    <3>2. more[table] = SubSeq(rows, 1, k)
      BY <1>2, <2>3, <3>1 DEF IsFilled, NodesOf
    <3>3. \A other \in Indexed \ {table} : more[other] = w.index.nodes[other]
      BY <1>2 DEF NodesOf
    <3>4. ASSUME NEW x \in Nat, IdMod - 1 \notin Ids(rows)
          PROVE  IsCell(rows, k, x, MapAt(r.index.map[table], x))
      <4>1. IsCell(rows, k - 1, x, MapAt(w.index.map[table], x))
        BY <1>8, <2>3, <3>4 DEF IsFilled
      <4>2. MapAt(r.index.map[table], x) =
               IF x = row.id /\ row.id # 0 THEN k ELSE MapAt(w.index.map[table], x)
        BY <1>9, <2>2, <2>3, <3>4
      <4>3. \A i \in 1 .. k : i = k \/ i \in 1 .. k - 1
        OBVIOUS
      <4>4. k \in 1 .. k /\ \A i \in 1 .. k - 1 : i \in 1 .. k /\ i <= k
        OBVIOUS
      <4>5. CASE x = row.id /\ row.id # 0
        BY <4>2, <4>4, <4>5 DEF IsCell
      <4>6. CASE ~(x = row.id /\ row.id # 0)
        <5> DEFINE c == MapAt(w.index.map[table], x)
        <5>1. MapAt(r.index.map[table], x) = c /\ IsCell(rows, k - 1, x, c)
          BY <4>1, <4>2, <4>6
        <5>2. x # 0 => rows[k].id # x
          BY <4>6
        <5> HIDE DEF c
        <5>3. IsCell(rows, k, x, c)
          BY <4>3, <4>4, <5>1, <5>2 DEF IsCell
        <5> QED BY <5>1, <5>3
      <4> QED BY <4>5, <4>6
    <3> HIDE DEF more
    <3> QED BY <1>8, <2>2, <2>3, <3>2, <3>3, <3>4 DEF IsFilled, SameBut
  <2> QED BY <1>8, <2>2, <2>3
<1> QED BY <1>6, <1>7, <1>8

(* The rows of a table, one after the other.                               *)
LEMMA IndexTableWorks ==
  ASSUME NEW w0 \in Work, NEW table \in Indexed, NEW rows \in Seq(RowOf[table]),
         \A row \in RowOf[table] : row.id \in Nat,
         table \in Mapped => \A id \in Ids(rows) : id < IdMod,
         w0.ok => IsFilled(w0.index, table, rows, 0)
  PROVE  /\ IndexTable(w0, table, rows) \in Work
         /\ IndexTable(w0, table, rows).ok =>
              /\ w0.ok
              /\ IsFilled(IndexTable(w0, table, rows).index, table, rows, Len(rows))
              /\ SameBut(table, IndexTable(w0, table, rows).index, w0.index)
<1> DEFINE n == Len(rows)
           V == Work
           start == Take(w0, NodeSize[table] * Len(rows), 8)
           positions == [i \in DOMAIN rows |-> i]
           op(v, i) == AddNode(v, table, rows[i], i)
           H == [p \in V \X (1 .. n) |-> op(p[1], p[2])]
           eq(f) == [s \in SUBSET (1 .. n) |->
                       IF s = {} THEN start ELSE op(f[s \ {Max(s)}], positions[Max(s)])]
           iter == CHOOSE f : f = eq(f)
           P == [k \in 0 .. n |->
                   {w \in Work : w.ok => /\ w0.ok /\ IsFilled(w.index, table, rows, k)
                                         /\ SameBut(table, w.index, w0.index)}]
<1>1. n \in Nat /\ DOMAIN rows = 1 .. n /\ DOMAIN positions = 1 .. n
  OBVIOUS
<1>2. start \in Work /\ start.index = w0.index /\ (start.ok => w0.ok)
  <2>1. NodeSize[table] \in Nat /\ Len(rows) \in Nat
    BY IndexAssumption
  <2> DEFINE bytes == NodeSize[table] * Len(rows)
  <2>2. bytes \in Nat
    BY <2>1
  <2> HIDE DEF bytes
  <2>3. LET r == Take(w0, bytes, 8) IN r \in Work /\ r.index = w0.index /\ (r.ok => w0.ok)
    BY <2>2, TakeWorks
  <2> QED BY <2>3 DEF bytes
<1>3. \A v \in V, k \in 1 .. n :
        /\ op(v, k) \in V
        /\ v.ok /\ IsFilled(v.index, table, rows, k - 1) /\ SameBut(table, v.index, w0.index)
             /\ op(v, k).ok =>
             /\ IsFilled(op(v, k).index, table, rows, k)
             /\ SameBut(table, op(v, k).index, w0.index)
        /\ op(v, k).ok => v.ok
  BY AddNodeWorks
<1>4. H \in [V \X (1 .. n) -> V] /\ \A v \in V, k \in 1 .. n : H[<<v, k>>] = op(v, k)
  <2> HIDE DEF op, V, n
  <2>1. \A p \in V \X (1 .. n) : op(p[1], p[2]) \in V
    BY <1>3
  <2> QED BY <2>1
<1>5. \A s \in SUBSET (1 .. n) : s # {} => Max(s) \in 1 .. n
  BY <1>1, MaxIsPosition
<1>6. PICK f \in [SUBSET (1 .. n) -> V] : Solves(f, n, start, H)
  <2> HIDE DEF H, n, start
  <2> QED BY <1>1, <1>2, <1>4, FoldExists
<1>7. \A s \in SUBSET (1 .. n) : s # {} => positions[Max(s)] = Max(s) /\ s \ {Max(s)} \in SUBSET (1 .. n)
  BY <1>1, <1>5
<1>8. f = eq(f)
  <2>1. \A s \in SUBSET (1 .. n) :
          f[s] = IF s = {} THEN start ELSE op(f[s \ {Max(s)}], positions[Max(s)])
    <3> HIDE DEF H, op, positions, start, n, V
    <3> TAKE s \in SUBSET (1 .. n)
    <3>1. f[s] = IF s = {} THEN start ELSE H[<<f[s \ {Max(s)}], Max(s)>>]
      BY <1>6 DEF Solves
    <3>2. s # {} => f[s \ {Max(s)}] \in V /\ Max(s) \in 1 .. n /\ positions[Max(s)] = Max(s)
      BY <1>5, <1>6, <1>7
    <3>3. s # {} => H[<<f[s \ {Max(s)}], Max(s)>>] = op(f[s \ {Max(s)}], Max(s))
      BY <1>4, <3>2
    <3> QED BY <3>1, <3>2, <3>3
  <2> HIDE DEF op, positions, start, n
  <2> QED BY <1>6, <2>1
<1>9. iter = eq(iter)
  <2> HIDE DEF eq
  <2> QED BY <1>8
<1>10. Follows(iter, n, V, start, H)
  <2>1. \A s \in SUBSET (1 .. n) :
          iter[s] = IF s = {} THEN start ELSE op(iter[s \ {Max(s)}], positions[Max(s)])
    <3> DEFINE g == iter
    <3>1. g = eq(g)
      BY <1>9
    <3> HIDE DEF g, op, positions, start, n
    <3>2. \A s \in SUBSET (1 .. n) :
            g[s] = IF s = {} THEN start ELSE op(g[s \ {Max(s)}], positions[Max(s)])
      BY <3>1
    <3> QED BY <3>2 DEF g
  <2> HIDE DEF iter, H, op, positions, start, n, V
  <2> QED BY <1>4, <1>5, <1>7, <2>1 DEF Follows
<1>11. start \in P[0]
  <2>1. 0 \in 0 .. n
    OBVIOUS
  <2> HIDE DEF start
  <2> QED BY <1>2, <2>1 DEF SameBut
<1>12. \A k \in 1 .. n, v \in V : v \in P[k - 1] => H[<<v, k>>] \in P[k]
  <2>1. \A k \in 1 .. n : k \in 0 .. n /\ k - 1 \in 0 .. n
    OBVIOUS
  <2> HIDE DEF op, H, n
  <2> QED BY <1>3, <1>4, <2>1
<1>13. iter[1 .. n] \in P[n]
  <2>1. start \in V
    BY <1>2
  <2> HIDE DEF iter, H, P, start, n, V, op
  <2> QED BY <1>1, <2>1, <1>4, <1>10, <1>11, <1>12, FoldReaches
<1>14. CASE rows = << >>
  <2>1. IndexTable(w0, table, rows) = w0 /\ Len(rows) = 0
    BY <1>14 DEF IndexTable
  <2> QED BY <2>1 DEF SameBut
<1>15. CASE rows # << >>
  <2>1. IndexTable(w0, table, rows) = iter[1 .. n]
    BY <1>1, <1>15 DEF IndexTable, FoldLeft, MapThenFoldSet
  <2>2. n \in 0 .. n
    BY <1>1
  <2> HIDE DEF iter
  <2> QED BY <1>13, <2>1, <2>2
<1> QED BY <1>14, <1>15

(* An empty index has none of the rows.                                    *)
LEMMA EmptyIndexWorks ==
  /\ EmptyIndex \in IndexState /\ ~EmptyIndex.ready
  /\ \A table \in Indexed, t \in Tables : IsFilled(EmptyIndex, table, t[table], 0)
<1>1. NoMap \in MapOf /\ CapacityOf(NoMap) = 0
  <2>1. NoMap = [i \in 0 .. 0 - 1 |-> 0]
    BY DEF NoMap
  <2>2. NoMap \in [0 .. 0 - 1 -> Nat]
    BY <2>1
  <2> QED BY <2>2 DEF MapOf, CapacityOf
<1>2. \A table \in Indexed : << >> \in Seq(RowOf[table])
  OBVIOUS
<1>3. EmptyIndex.nodes \in NodesOf
  BY <1>2 DEF EmptyIndex, NodesOf
<1>4. EmptyIndex.map \in [Mapped -> MapOf]
  BY <1>1 DEF EmptyIndex
<1>5. EmptyIndex \in IndexState /\ ~EmptyIndex.ready
  BY <1>3, <1>4 DEF EmptyIndex, IndexState
<1>6. ASSUME NEW table \in Indexed, NEW t \in Tables
      PROVE  IsFilled(EmptyIndex, table, t[table], 0)
  <2>1. SubSeq(t[table], 1, 0) = << >>
    BY SubSeqEmpty
  <2>2. \A id \in Nat : MapAt(NoMap, id) = 0
    BY <1>1 DEF MapAt
  <2>3. EmptyIndex.nodes[table] = << >> /\ (table \in Mapped => EmptyIndex.map[table] = NoMap)
    BY DEF EmptyIndex
  <2> QED BY <2>1, <2>2, <2>3 DEF IsFilled, IsCell
<1> QED BY <1>5, <1>6

(* Tables that are filled stay so while another one is.                    *)
LEMMA FillingOneTable ==
  ASSUME NEW one, NEW two, NEW table \in Indexed, SameBut(table, one, two),
         NEW other \in Indexed, other # table, NEW rows, NEW k, IsFilled(two, other, rows, k)
  PROVE  IsFilled(one, other, rows, k)
<1>1. one.nodes[other] = two.nodes[other] /\ (other \in Mapped => one.map[other] = two.map[other])
  BY DEF SameBut
<1> QED BY <1>1 DEF IsFilled

(* A build stays within the limit, and one that succeeds leaves a whole    *)
(* index.                                                                  *)
LEMMA BuildWorks ==
  ASSUME NEW used0 \in 0 .. Limit, NEW grants \in Nat, NEW t \in Tables, IdsFit(t)
  PROVE  /\ rv_index_build(used0, grants, t) \in Work
         /\ rv_index_build(used0, grants, t).ok => IsWhole(rv_index_build(used0, grants, t).index, t)
<1> DEFINE start == [used |-> used0, grants |-> grants, ok |-> TRUE, index |-> EmptyIndex]
           routes == IndexTable(start, "routes", t.routes)
           windows == IndexTable(routes, "windows", t.windows)
           waves == IndexTable(windows, "waves", t.waves)
           marks == IndexTable(waves, "marks", t.marks)
           r == rv_index_build(used0, grants, t)
           Has(w, table, k) == IsFilled(w.index, table, t[table], k)
           All(table) == Len(t[table])
<1> USE DEF Indexed
<1>1. \A table \in Indexed :
        /\ t[table] \in Seq(RowOf[table]) /\ \A row \in RowOf[table] : row.id \in Nat
        /\ table \in Mapped => \A id \in Ids(t[table]) : id < IdMod
  BY TableTypes DEF IdsFit
<1>2. start \in Work /\ start.ok
      /\ Has(start, "routes", 0) /\ Has(start, "windows", 0) /\ Has(start, "waves", 0)
      /\ Has(start, "marks", 0)
  BY EmptyIndexWorks DEF Work
<1>3. /\ routes \in Work
      /\ routes.ok => /\ Has(routes, "routes", All("routes"))
                      /\ Has(routes, "windows", 0) /\ Has(routes, "waves", 0)
                      /\ Has(routes, "marks", 0)
  <2>1. /\ routes \in Work
        /\ routes.ok => /\ Has(routes, "routes", All("routes"))
                        /\ SameBut("routes", routes.index, start.index)
    <3> HIDE DEF start
    <3> QED BY <1>1, <1>2, IndexTableWorks
  <2> HIDE DEF routes, start
  <2> QED BY <1>2, <2>1, FillingOneTable
<1>4. /\ windows \in Work
      /\ windows.ok => /\ Has(windows, "routes", All("routes"))
                       /\ Has(windows, "windows", All("windows"))
                       /\ Has(windows, "waves", 0) /\ Has(windows, "marks", 0)
  <2>1. /\ windows \in Work
        /\ windows.ok => /\ routes.ok /\ Has(windows, "windows", All("windows"))
                         /\ SameBut("windows", windows.index, routes.index)
    <3> HIDE DEF routes
    <3> QED BY <1>1, <1>3, IndexTableWorks
  <2> HIDE DEF routes, windows
  <2> QED BY <1>3, <2>1, FillingOneTable
<1>5. /\ waves \in Work
      /\ waves.ok => /\ Has(waves, "routes", All("routes"))
                     /\ Has(waves, "windows", All("windows"))
                     /\ Has(waves, "waves", All("waves")) /\ Has(waves, "marks", 0)
  <2>1. /\ waves \in Work
        /\ waves.ok => /\ windows.ok /\ Has(waves, "waves", All("waves"))
                       /\ SameBut("waves", waves.index, windows.index)
    <3> HIDE DEF windows
    <3> QED BY <1>1, <1>4, IndexTableWorks
  <2> HIDE DEF windows, waves
  <2> QED BY <1>4, <2>1, FillingOneTable
<1>6. /\ marks \in Work
      /\ marks.ok => /\ Has(marks, "routes", All("routes"))
                     /\ Has(marks, "windows", All("windows"))
                     /\ Has(marks, "waves", All("waves")) /\ Has(marks, "marks", All("marks"))
  <2>1. /\ marks \in Work
        /\ marks.ok => /\ waves.ok /\ Has(marks, "marks", All("marks"))
                       /\ SameBut("marks", marks.index, waves.index)
    <3> HIDE DEF waves
    <3> QED BY <1>1, <1>5, IndexTableWorks
  <2> HIDE DEF waves, marks
  <2> QED BY <1>5, <2>1, FillingOneTable
<1>7. r = [marks EXCEPT !.index = [marks.index EXCEPT !.ready = marks.ok]]
  BY DEF rv_index_build
<1> HIDE DEF marks
<1>8. /\ r \in Work /\ r.ok = marks.ok /\ r.index.ready = marks.ok
      /\ r.index.nodes = marks.index.nodes /\ r.index.map = marks.index.map
  BY <1>6, <1>7 DEF Work, IndexState
<1>9. ASSUME r.ok PROVE IsWhole(r.index, t)
  <2>1. r.index \in IndexState
    BY <1>8 DEF Work
  <2>2. \A table \in Indexed : IsFilled(r.index, table, t[table], Len(t[table]))
    BY <1>6, <1>8, <1>9 DEF IsFilled
  <2> QED BY <1>8, <1>9, <2>1, <2>2 DEF IsWhole
<1> QED BY <1>8, <1>9

(* Finding an id in a whole index is looking it up in the table.           *)
LEMMA FoundInTable ==
  ASSUME NEW t \in Tables, StoresHit(t), NEW index0, IsWhole(index0, t),
         NEW table \in Mapped, NEW id \in Nat
  PROVE  Found(index0, table, id) = MapCell(t[table], id)
<1> DEFINE rows == t[table]
           n == Len(rows)
           c == MapAt(index0.map[table], id)
<1>1. table \in Indexed /\ rows \in Seq(RowOf[table])
  BY TableTypes DEF Mapped, Indexed
<1>2. n \in Nat /\ DOMAIN rows = 1 .. n
  BY <1>1
<1>3. Found(index0, table, id) = c
  BY DEF IsWhole, Found, MapAt
<1>4. IsCell(rows, n, id, c)
  BY <1>1 DEF IsWhole, IsFilled, StoresHit
<1>8. id = IdMod - 1 => RowsOf(rows, id) = {}
  BY DEF StoresHit, Ids, RowsOf
<1> HIDE DEF c, rows, n
<1>5. RowsOf(rows, id) = {i \in 1 .. n : rows[i].id = id}
  BY <1>2 DEF RowsOf
<1>6. CASE id = 0 \/ RowsOf(rows, id) = {}
  BY <1>3, <1>4, <1>5, <1>6 DEF IsCell, MapCell, Unmapped, rows
<1>7. CASE id # 0 /\ RowsOf(rows, id) # {}
  <2>1. c \in RowsOf(rows, id) /\ \A j \in RowsOf(rows, id) : j <= c
    BY <1>4, <1>5, <1>7 DEF IsCell
  <2> DEFINE m == MapCell(rows, id)
  <2>2. m \in RowsOf(rows, id) /\ \A j \in RowsOf(rows, id) : j <= m
    BY <1>7, <1>8, <2>1 DEF MapCell, Unmapped
  <2>3. m \in 1 .. n /\ c \in 1 .. n /\ m <= c /\ c <= m
    BY <1>5, <2>1, <2>2
  <2> HIDE DEF m
  <2>4. m = c
    BY <1>2, <2>3
  <2> QED BY <1>3, <2>4 DEF m, rows
<1> QED BY <1>6, <1>7

-----------------------------------------------------------------------------
(***************************************************************************)
(* The rows that a loop accepts: positions of the table, each once, and    *)
(* all that have a row of S.                                               *)
(***************************************************************************)
Picks(a, rows, S, k, q) ==
  /\ q \in [1 .. Len(a) -> 1 .. k]
  /\ \A i, j \in 1 .. Len(a) : q[i] = q[j] => i = j
  /\ \A j \in 1 .. Len(a) : a[j] = rows[q[j]]
  /\ \A i \in 1 .. k : rows[i] \in S <=> \E j \in 1 .. Len(a) : q[j] = i

(* The next row is accepted or not.                                        *)
LEMMA PickNext ==
  ASSUME NEW R, NEW rows \in Seq(R), NEW S, NEW k \in 1 .. Len(rows), NEW a \in Seq(R), NEW q,
         Picks(a, rows, S, k - 1, q)
  PROVE  \E p : Picks(IF rows[k] \in S THEN Append(a, rows[k]) ELSE a, rows, S, k, p)
<1>1. k \in Nat /\ Len(a) \in Nat /\ \A i \in 1 .. k : i = k \/ i \in 1 .. k - 1
  OBVIOUS
<1>2. \A i \in 1 .. k - 1 : i \in 1 .. k /\ i # k
  OBVIOUS
<1>3. CASE rows[k] \notin S
  <2>1. q \in [1 .. Len(a) -> 1 .. k]
    BY <1>2 DEF Picks
  <2>2. \A j \in 1 .. Len(a) : q[j] # k
    BY <1>2 DEF Picks
  <2>3. Picks(a, rows, S, k, q)
    BY <1>1, <1>2, <1>3, <2>1, <2>2 DEF Picks
  <2> QED BY <1>3, <2>3
<1>4. CASE rows[k] \in S
  <2> DEFINE n == Len(a)
             b == Append(a, rows[k])
             p == [j \in 1 .. n + 1 |-> IF j = n + 1 THEN k ELSE q[j]]
  <2>1. Len(b) = n + 1 /\ b[n + 1] = rows[k] /\ \A j \in 1 .. n : b[j] = a[j]
    OBVIOUS
  <2>2. \A j \in 1 .. n + 1 : j = n + 1 \/ j \in 1 .. n
    BY <1>1
  <2>3. \A j \in 1 .. n : j # n + 1 /\ j \in 1 .. n + 1 /\ n + 1 \in 1 .. n + 1
    BY <1>1
  <2>4. \A j \in 1 .. n : q[j] \in 1 .. k - 1 /\ q[j] # k /\ q[j] \in 1 .. k
    BY <1>2 DEF Picks
  <2>5. p[n + 1] = k /\ \A j \in 1 .. n : p[j] = q[j]
    BY <1>1, <2>3
  <2>6. p \in [1 .. n + 1 -> 1 .. k]
    BY <1>1, <2>2, <2>4
  <2> HIDE DEF p, b, n
  <2>7. \A i, j \in 1 .. n + 1 : p[i] = p[j] => i = j
    <3>1. \A i, j \in 1 .. n : q[i] = q[j] => i = j
      BY DEF Picks, n
    <3> QED BY <2>2, <2>4, <2>5, <3>1
  <2>8. \A j \in 1 .. n + 1 : b[j] = rows[p[j]]
    <3>1. \A j \in 1 .. n : a[j] = rows[q[j]]
      BY DEF Picks, n
    <3> QED BY <2>1, <2>2, <2>5, <3>1
  <2>9. ASSUME NEW i \in 1 .. k PROVE rows[i] \in S <=> \E j \in 1 .. n + 1 : p[j] = i
    <3>1. CASE i = k
      <4>1. n + 1 \in 1 .. n + 1
        BY <1>1 DEF n
      <4> QED BY <1>4, <2>5, <3>1, <4>1
    <3>2. CASE i # k
      <4>1. i \in 1 .. k - 1
        BY <1>1, <3>2
      <4>2. rows[i] \in S <=> \E j \in 1 .. n : q[j] = i
        BY <4>1 DEF Picks, n
      <4>3. (\E j \in 1 .. n : q[j] = i) <=> \E j \in 1 .. n + 1 : p[j] = i
        BY <2>2, <2>3, <2>5, <3>2
      <4> QED BY <4>2, <4>3
    <3> QED BY <3>1, <3>2
  <2>10. Picks(b, rows, S, k, p)
    BY <2>1, <2>6, <2>7, <2>8, <2>9 DEF Picks
  <2> QED BY <1>4, <2>10 DEF b
<1> QED BY <1>3, <1>4

(* So a loop over all rows accepts these, ...                              *)
LEMMA AcceptedWorks ==
  ASSUME NEW R, NEW rows \in Seq(R), NEW S
  PROVE  /\ Accepted(rows, S) \in Seq(R)
         /\ \E q : Picks(Accepted(rows, S), rows, S, Len(rows), q)
<1> DEFINE n == Len(rows)
           V == Seq(R)
           op(v, x) == IF x \in S THEN Append(v, x) ELSE v
           H == [p \in V \X (1 .. n) |-> op(p[1], rows[p[2]])]
           eq(f) == [s \in SUBSET (1 .. n) |->
                       IF s = {} THEN << >> ELSE op(f[s \ {Max(s)}], rows[Max(s)])]
           iter == CHOOSE f : f = eq(f)
           P == [k \in 0 .. n |-> {a \in V : \E q : Picks(a, rows, S, k, q)}]
<1>1. n \in Nat /\ DOMAIN rows = 1 .. n /\ << >> \in V
  OBVIOUS
<1>2. \A v \in V, k \in 1 .. n : op(v, rows[k]) \in V
  <2> TAKE v \in V, k \in 1 .. n
  <2>1. rows[k] \in R
    OBVIOUS
  <2> QED BY <2>1, AppendType
<1>3. H \in [V \X (1 .. n) -> V] /\ \A v \in V, k \in 1 .. n : H[<<v, k>>] = op(v, rows[k])
  <2> HIDE DEF op, V, n
  <2>1. \A p \in V \X (1 .. n) : op(p[1], rows[p[2]]) \in V
    BY <1>2
  <2> QED BY <2>1
<1>4. \A s \in SUBSET (1 .. n) : s # {} => Max(s) \in 1 .. n
  BY <1>1, MaxIsPosition
<1>5. PICK f \in [SUBSET (1 .. n) -> V] : Solves(f, n, << >>, H)
  <2> HIDE DEF H, n, V
  <2> QED BY <1>1, <1>3, FoldExists
<1>6. \A s \in SUBSET (1 .. n) : s \ {Max(s)} \in SUBSET (1 .. n)
  OBVIOUS
<1>7. f = eq(f)
  <2>1. \A s \in SUBSET (1 .. n) :
          f[s] = IF s = {} THEN << >> ELSE op(f[s \ {Max(s)}], rows[Max(s)])
    <3> HIDE DEF H, op, n, V
    <3> TAKE s \in SUBSET (1 .. n)
    <3>1. f[s] = IF s = {} THEN << >> ELSE H[<<f[s \ {Max(s)}], Max(s)>>]
      BY <1>5 DEF Solves
    <3>2. s # {} => f[s \ {Max(s)}] \in V /\ Max(s) \in 1 .. n
      BY <1>4, <1>5, <1>6
    <3>3. s # {} => H[<<f[s \ {Max(s)}], Max(s)>>] = op(f[s \ {Max(s)}], rows[Max(s)])
      BY <1>3, <3>2
    <3> QED BY <3>1, <3>3
  <2> HIDE DEF op, n
  <2> QED BY <1>5, <2>1
<1>8. iter = eq(iter)
  <2> HIDE DEF eq
  <2> QED BY <1>7
<1>9. Follows(iter, n, V, << >>, H)
  <2>1. \A s \in SUBSET (1 .. n) :
          iter[s] = IF s = {} THEN << >> ELSE op(iter[s \ {Max(s)}], rows[Max(s)])
    <3> DEFINE g == iter
    <3>1. g = eq(g)
      BY <1>8
    <3> HIDE DEF g, op, n
    <3>2. \A s \in SUBSET (1 .. n) :
            g[s] = IF s = {} THEN << >> ELSE op(g[s \ {Max(s)}], rows[Max(s)])
      BY <3>1
    <3> QED BY <3>2 DEF g
  <2> HIDE DEF iter, H, op, n, V
  <2> QED BY <1>3, <1>4, <1>6, <2>1 DEF Follows
<1>10. << >> \in P[0]
  <2>1. Picks(<< >>, rows, S, 0, << >>)
    BY DEF Picks
  <2>2. 0 \in 0 .. n
    BY <1>1
  <2> HIDE DEF n, V
  <2> QED BY <1>1, <2>1, <2>2
<1>11. \A k \in 1 .. n, v \in V : v \in P[k - 1] => H[<<v, k>>] \in P[k]
  <2> TAKE k \in 1 .. n, v \in V
  <2> HAVE v \in P[k - 1]
  <2>1. k \in 0 .. n /\ k - 1 \in 0 .. n
    OBVIOUS
  <2>2. PICK q : Picks(v, rows, S, k - 1, q)
    <3> HIDE DEF n, V
    <3> QED BY <2>1
  <2>3. \E p : Picks(op(v, rows[k]), rows, S, k, p)
    BY <2>2, PickNext
  <2> HIDE DEF op, H, n, V
  <2> QED BY <1>2, <1>3, <2>1, <2>3
<1>12. iter[1 .. n] \in P[n]
  <2> HIDE DEF iter, H, P, n, V, op
  <2> QED BY <1>1, <1>3, <1>9, <1>10, <1>11, FoldReaches
<1>13. Accepted(rows, S) = iter[1 .. n]
  BY <1>1 DEF Accepted, FoldLeft, MapThenFoldSet
<1>14. n \in 0 .. n
  BY <1>1
<1> HIDE DEF iter
<1> QED BY <1>12, <1>13, <1>14

(* ... those of the table that are in S.                                   *)
LEMMA AcceptedRows ==
  ASSUME NEW R, NEW rows \in Seq(R), NEW S
  PROVE  /\ Accepted(rows, S) \in Seq(R) /\ Len(Accepted(rows, S)) \in Nat
         /\ ToSet(Accepted(rows, S)) = {rows[i] : i \in {j \in 1 .. Len(rows) : rows[j] \in S}}
<1> DEFINE a == Accepted(rows, S)
<1>1. a \in Seq(R)
  BY AcceptedWorks
<1>2. PICK q : Picks(a, rows, S, Len(rows), q)
  BY AcceptedWorks
<1> HIDE DEF a
<1>3. DOMAIN a = 1 .. Len(a) /\ Len(a) \in Nat
  BY <1>1
<1>4. ASSUME NEW j \in 1 .. Len(a)
      PROVE  a[j] \in {rows[i] : i \in {k \in 1 .. Len(rows) : rows[k] \in S}}
  <2>1. q[j] \in 1 .. Len(rows) /\ rows[q[j]] \in S /\ a[j] = rows[q[j]]
    BY <1>2 DEF Picks
  <2> QED BY <2>1
<1>5. ASSUME NEW i \in 1 .. Len(rows), rows[i] \in S
      PROVE  \E j \in 1 .. Len(a) : a[j] = rows[i]
  BY <1>2, <1>5 DEF Picks
<1>6. ToSet(a) = {rows[i] : i \in {j \in 1 .. Len(rows) : rows[j] \in S}}
  BY <1>3, <1>4, <1>5 DEF ToSet
<1> QED BY <1>1, <1>3, <1>6 DEF a

(* One sequence embeds in another if each of its values has a place of its *)
(* own there.                                                              *)
Places(a, b, q) ==
  /\ q \in [1 .. Len(a) -> 1 .. Len(b)]
  /\ \A i, j \in 1 .. Len(a) : q[i] = q[j] => i = j
  /\ \A i \in 1 .. Len(a) : a[i] = b[q[i]]

Embeds(a, b) == \E q : Places(a, b, q)

(* Then it is no longer, and has no value more often.                      *)
LEMMA EmbeddedIsSmaller ==
  ASSUME NEW R, NEW a \in Seq(R), NEW b \in Seq(R), Embeds(a, b)
  PROVE  Len(a) <= Len(b) /\ \A m : Times(a, m) <= Times(b, m)
<1>1. PICK q : Places(a, b, q)
  BY DEF Embeds
<1>2. Len(a) \in Nat /\ Len(b) \in Nat /\ DOMAIN a = 1 .. Len(a) /\ DOMAIN b = 1 .. Len(b)
  OBVIOUS
<1>3. Len(a) <= Len(b)
  <2>1. IsFiniteSet(1 .. Len(b)) /\ Cardinality(1 .. Len(b)) = Len(b)
    <3>1. 1 \in Int /\ Len(b) \in Int
      BY <1>2
    <3>2. IsFiniteSet(1 .. Len(b)) /\
          Cardinality(1 .. Len(b)) = IF 1 > Len(b) THEN 0 ELSE Len(b) - 1 + 1
      BY <3>1, FS_Interval
    <3> QED BY <1>2, <3>2
  <2>2. Cardinality(1 .. Len(a)) = Len(a)
    <3>1. 1 \in Int /\ Len(a) \in Int
      BY <1>2
    <3>2. Cardinality(1 .. Len(a)) = IF 1 > Len(a) THEN 0 ELSE Len(a) - 1 + 1
      BY <3>1, FS_Interval
    <3> QED BY <1>2, <3>2
  <2>3. q \in Injection(1 .. Len(a), 1 .. Len(b))
    BY <1>1, Fun_IsInj DEF Places
  <2>4. Cardinality(1 .. Len(a)) <= Cardinality(1 .. Len(b))
    BY <2>1, <2>3, FS_Injection
  <2> QED BY <2>1, <2>2, <2>4
<1>4. ASSUME NEW m PROVE Times(a, m) <= Times(b, m)
  <2> DEFINE A == {i \in 1 .. Len(a) : a[i] = m}
             B == {i \in 1 .. Len(b) : b[i] = m}
             p == [i \in A |-> q[i]]
  <2>1. IsFiniteSet(B)
    <3>1. 1 \in Int /\ Len(b) \in Int
      BY <1>2
    <3>2. IsFiniteSet(1 .. Len(b))
      BY <3>1, FS_Interval
    <3>3. B \in SUBSET (1 .. Len(b))
      OBVIOUS
    <3> HIDE DEF B
    <3> QED BY <3>2, <3>3, FS_Subset
  <2>2. p \in [A -> B] /\ \A i, j \in A : p[i] = p[j] => i = j
    BY <1>1 DEF Places
  <2>3. Cardinality(A) <= Cardinality(B)
    <3> HIDE DEF A, B, p
    <3>1. p \in Injection(A, B)
      BY <2>2, Fun_IsInj
    <3> QED BY <2>1, <3>1, FS_Injection
  <2>4. Times(a, m) = Cardinality(A) /\ Times(b, m) = Cardinality(B)
    BY <1>2 DEF Times
  <2> HIDE DEF A, B
  <2> QED BY <2>3, <2>4
<1> QED BY <1>3, <1>4

(* Embeddings compose.                                                     *)
LEMMA EmbedsInBoth ==
  ASSUME NEW R, NEW a \in Seq(R), NEW b \in Seq(R), NEW c \in Seq(R), Embeds(a, b), Embeds(b, c)
  PROVE  Embeds(a, c)
<1>1. PICK p : Places(a, b, p)
  BY DEF Embeds
<1>2. PICK q : Places(b, c, q)
  BY DEF Embeds
<1> DEFINE r == [i \in 1 .. Len(a) |-> q[p[i]]]
<1>3. \A i \in 1 .. Len(a) : p[i] \in 1 .. Len(b)
  BY <1>1 DEF Places
<1>4. r \in [1 .. Len(a) -> 1 .. Len(c)]
  BY <1>2, <1>3 DEF Places
<1>5. Places(a, c, r)
  BY <1>1, <1>2, <1>3, <1>4 DEF Places
<1> QED BY <1>5 DEF Embeds

(* What a loop accepts embeds in its table, ...                            *)
LEMMA AcceptedEmbeds ==
  ASSUME NEW R, NEW rows \in Seq(R), NEW S
  PROVE  Embeds(Accepted(rows, S), rows)
<1>1. PICK q : Picks(Accepted(rows, S), rows, S, Len(rows), q)
  BY AcceptedWorks
<1>2. Places(Accepted(rows, S), rows, q)
  BY <1>1 DEF Picks, Places
<1> QED BY <1>2 DEF Embeds

(* ... and has room for all that embeds in the table and is in S.          *)
LEMMA EmbedsInAccepted ==
  ASSUME NEW R, NEW rows \in Seq(R), NEW S, NEW a \in Seq(R), Embeds(a, rows),
         \A i \in 1 .. Len(a) : a[i] \in S
  PROVE  Embeds(a, Accepted(rows, S))
<1> DEFINE b == Accepted(rows, S)
<1>1. PICK q : Picks(b, rows, S, Len(rows), q)
  BY AcceptedWorks
<1>2. PICK p : Places(a, rows, p)
  BY DEF Embeds
<1> HIDE DEF b
<1> DEFINE r == [i \in 1 .. Len(a) |-> CHOOSE j \in 1 .. Len(b) : q[j] = p[i]]
<1>3. ASSUME NEW i \in 1 .. Len(a)
      PROVE  r[i] \in 1 .. Len(b) /\ q[r[i]] = p[i]
  <2>1. p[i] \in 1 .. Len(rows) /\ rows[p[i]] \in S
    BY <1>2 DEF Places
  <2>2. \E j \in 1 .. Len(b) : q[j] = p[i]
    BY <1>1, <2>1 DEF Picks
  <2> QED BY <2>2
<1>4. r \in [1 .. Len(a) -> 1 .. Len(b)]
  BY <1>3
<1> HIDE DEF r
<1>5. \A i, j \in 1 .. Len(a) : r[i] = r[j] => i = j
  <2> TAKE i, j \in 1 .. Len(a)
  <2> HAVE r[i] = r[j]
  <2>1. p[i] = p[j]
    BY <1>3
  <2> QED BY <1>2, <2>1 DEF Places
<1>6. \A i \in 1 .. Len(a) : a[i] = b[r[i]]
  BY <1>1, <1>2, <1>3 DEF Places, Picks
<1>7. Places(a, b, r)
  BY <1>4, <1>5, <1>6 DEF Places
<1> QED BY <1>7 DEF Embeds, b

(* The first rows of a sequence, and its rearrangements.                   *)
LEMMA FirstOfEmbeds ==
  ASSUME NEW R, NEW s \in Seq(R), NEW n \in Nat
  PROVE  /\ FirstOf(s, n) \in Seq(R) /\ Len(FirstOf(s, n)) <= n /\ Embeds(FirstOf(s, n), s)
         /\ Len(s) <= n => FirstOf(s, n) = s
<1> DEFINE k == IF Len(s) < n THEN Len(s) ELSE n
           a == SubSeq(s, 1, k)
<1>1. Len(s) \in Nat /\ k \in Nat /\ k <= Len(s) /\ k <= n
  OBVIOUS
<1>2. FirstOf(s, n) = a
  BY DEF FirstOf
<1> HIDE DEF k
<1>3. a \in Seq(R) /\ Len(a) = k /\ \A i \in 1 .. k : a[i] = s[i]
  BY <1>1
<1> HIDE DEF a
<1>4. Places(a, s, [i \in 1 .. k |-> i])
  BY <1>1, <1>3 DEF Places
<1>5. Len(s) <= n => a = s
  <2>1. SubSeq(s, 1, Len(s)) = s
    BY SubSeqFull
  <2>2. Len(s) <= n => k = Len(s)
    BY <1>1 DEF k
  <2> QED BY <2>1, <2>2 DEF a
<1> QED BY <1>1, <1>2, <1>3, <1>4, <1>5 DEF Embeds

(* An arrangement has as many rows, in the order that is asked for.        *)
LEMMA ArrangementsEmbed ==
  ASSUME NEW R, NEW s \in Seq(R), NEW by \in {"distance", "severity", "none"},
         NEW r \in Arrangements(s, by)
  PROVE  r \in Seq(R) /\ Len(r) = Len(s) /\ Embeds(r, s) /\ InOrder(r, by)
<1>1. Len(s) \in Nat /\ DOMAIN s = 1 .. Len(s)
  OBVIOUS
<1>2. CASE by = "none"
  <2>1. r = s
    BY <1>2 DEF Arrangements
  <2>2. Places(s, s, [i \in 1 .. Len(s) |-> i])
    BY DEF Places
  <2>3. InOrder(r, by)
    BY <1>2 DEF InOrder
  <2> QED BY <2>1, <2>2, <2>3 DEF Embeds
<1>3. CASE by # "none"
  <2>1. PICK p \in Bijection(1 .. Len(s), 1 .. Len(s)) : r = [i \in 1 .. Len(s) |-> s[p[i]]]
    BY <1>1, <1>3 DEF Arrangements
  <2>2. /\ p \in [1 .. Len(s) -> 1 .. Len(s)]
        /\ \A i, j \in 1 .. Len(s) : p[i] = p[j] => i = j
    BY <2>1 DEF Bijection, Injection, IsInjective
  <2>3. \A i \in 1 .. Len(s) : s[p[i]] \in R
    BY <2>2
  <2>4. r \in Seq(R) /\ Len(r) = Len(s)
    BY <1>1, <2>1, <2>3
  <2>5. Places(r, s, p)
    BY <2>1, <2>2, <2>4 DEF Places
  <2>6. InOrder(r, by)
    BY <1>3 DEF Arrangements
  <2> QED BY <2>4, <2>5, <2>6 DEF Embeds
<1> QED BY <1>2, <1>3

-----------------------------------------------------------------------------
(***************************************************************************)
(* The inductive invariant.  After a reset nothing but the parse is in the *)
(* arena until the session is rebound.                                     *)
(***************************************************************************)
SessionInv ==
  /\ package \in Package
  /\ used \in 0 .. Limit
  /\ index \in IndexState
  /\ index_ready \in BOOLEAN /\ stale \in BOOLEAN
  /\ index_ready => IsWhole(index, Tabled)
  /\ stale => used = package.parsed

(* The tables of the open package.                                         *)
LEMMA TabledType ==
  ASSUME SessionInv
  PROVE  Tabled \in Tables /\ IdsFit(Tabled) /\ package.parsed \in 0 .. Limit
BY PackageAssumption DEF SessionInv, Tabled

(* What a call works on once it has ensured the index, be it the one of    *)
(* the session or a new one.                                               *)
LEMMA EnsureWorks ==
  ASSUME SessionInv, NEW grants \in Nat
  PROVE  /\ Ensure(used, index, index_ready, grants) \in Work
         /\ Ensure(used, index, index_ready, grants).ok =>
              IsWhole(Ensure(used, index, index_ready, grants).index, Tabled)
         /\ Ensure(used, EmptyIndex, FALSE, grants) = rv_index_build(used, grants, Tabled)
         /\ rv_index_build(used, grants, Tabled) \in Work
         /\ rv_index_build(used, grants, Tabled).ok =>
              IsWhole(rv_index_build(used, grants, Tabled).index, Tabled)
<1>1. /\ rv_index_build(used, grants, Tabled) \in Work
      /\ rv_index_build(used, grants, Tabled).ok =>
           IsWhole(rv_index_build(used, grants, Tabled).index, Tabled)
  BY TabledType, BuildWorks DEF SessionInv
<1>2. CASE index_ready
  BY <1>1, <1>2 DEF Ensure, SessionInv, Work
<1>3. CASE ~index_ready
  BY <1>1, <1>3 DEF Ensure
<1> QED BY <1>1, <1>2, <1>3 DEF Ensure

(* A call that keeps what it worked to keeps the invariant.                *)
LEMMA KeepsWorks ==
  ASSUME SessionInv, NEW e \in Work, e.ok => IsWhole(e.index, Tabled), NEW w \in Work,
         Keeps(e, w), stale' = FALSE
  PROVE  SessionInv'
<1>1. /\ used' = w.used /\ index' = e.index /\ index_ready' = e.ok /\ package' = package
      /\ w.used \in 0 .. Limit /\ e.index \in IndexState /\ e.ok \in BOOLEAN
  BY DEF Keeps, Work
<1>2. Tabled' = Tabled
  BY <1>1 DEF Tabled
<1> QED BY <1>1, <1>2 DEF SessionInv

(* Initially there is no index and only the parse in the arena.            *)
LEMMA SessionInvInit == Init => SessionInv
BY PackageAssumption, EmptyIndexWorks DEF Init, SessionInv

(* The buffers of a query.                                                 *)
LEMMA QueryTakes ==
  ASSUME NEW e \in Work, NEW plan \in AnyPlan
  PROVE  LET markers == Take(e, InfoSize * LimitOf(plan), 8)
             windows == Len(e.index.nodes["windows"])
             w == Take(markers, 4 * (IF windows = 0 THEN 1 ELSE windows), 4)
         IN  w \in Work /\ (w.ok => e.ok)
<1> DEFINE bytes == InfoSize * LimitOf(plan)
           markers == Take(e, bytes, 8)
           windows == Len(e.index.nodes["windows"])
           more == 4 * (IF windows = 0 THEN 1 ELSE windows)
<1>1. bytes \in Nat
  <2>1. LimitOf(plan) \in Nat
    BY FilterAssumption, LimitAssumption DEF LimitOf, QueryPlan
  <2>2. InfoSize \in Nat
    BY GrantsAssumption
  <2> HIDE DEF windows
  <2> QED BY <2>1, <2>2
<1>2. more \in Nat
  <2>1. e.index.nodes["windows"] \in Seq(RowOf["windows"])
    BY DEF Work, IndexState, NodesOf, Indexed
  <2>2. windows \in Nat
    BY <2>1
  <2> HIDE DEF windows
  <2> QED BY <2>2
<1> HIDE DEF bytes, more
<1>3. markers \in Work /\ (markers.ok => e.ok)
  BY <1>1, TakeWorks
<1> HIDE DEF markers
<1>4. Take(markers, more, 4) \in Work /\ (Take(markers, more, 4).ok => markers.ok)
  BY <1>2, <1>3, TakeWorks
<1> QED BY <1>3, <1>4 DEF bytes, more, markers

(* The ids of a span filter.                                               *)
LEMMA SpanTakes ==
  ASSUME SessionInv, NEW f, NEW grants \in Nat, FilterSpan(f, grants)
  PROVE  used' \in 0 .. Limit
<1> DEFINE windows == rv_span_filter_windows(Tabled, f)
           before == [used |-> used, grants |-> grants, ok |-> TRUE]
<1>1. CASE windows = << >>
  BY <1>1 DEF FilterSpan, SessionInv
<1>2. CASE windows # << >>
  <2>1. used' = Take(before, 4 * Len(windows), 4).used
    BY <1>2 DEF FilterSpan
  <2>2. Len(windows) \in Nat
    <3>1. Tabled.windows \in Seq(WindowRow)
      BY TabledType DEF Tables
    <3> QED BY <3>1, AcceptedRows DEF rv_span_filter_windows
  <2>3. 4 * Len(windows) \in Nat
    BY <2>2
  <2> HIDE DEF windows
  <2>4. Take(before, 4 * Len(windows), 4).used \in 0 .. Limit
    BY <2>3, TakeStaysBelow DEF SessionInv
  <2> QED BY <2>1, <2>4
<1> QED BY <1>1, <1>2

(* Every step keeps the invariant.                                         *)
LEMMA SessionInvStep ==
  ASSUME SessionInv, [Next]_vars
  PROVE  SessionInv'
<1>1. \A grants \in Grants : grants \in Nat
  BY GrantsAssumption
<1>2. ASSUME UNCHANGED <<package, used, index, index_ready, stale>>
      PROVE  SessionInv'
  BY <1>2 DEF SessionInv, Tabled
<1>3. ASSUME NEW grants \in Grants, rv_session_rebuild_index(grants)
      PROVE  SessionInv'
  <2>1. stale' = FALSE
    BY <1>3 DEF rv_session_rebuild_index, SessionInv
  <2> QED BY <1>1, <1>3, <2>1, EnsureWorks, KeepsWorks DEF rv_session_rebuild_index
<1>4. ASSUME NEW grants \in Grants, rv_session_rebind(grants)
      PROVE  SessionInv'
  BY <1>1, <1>4, EnsureWorks, KeepsWorks DEF rv_session_rebind
<1>5. ASSUME NEW grants \in Grants, rv_package_validate(grants)
      PROVE  SessionInv'
  <2>1. used' \in 0 .. Limit
    BY <1>1, <1>5, EnsureWorks DEF rv_package_validate, Work
  <2> QED BY <1>5, <2>1 DEF rv_package_validate, SessionInv, Tabled
<1>6. ASSUME NEW grants \in Grants, NEW f \in AnyFilter, rv_marker_query(f, grants)
      PROVE  SessionInv'
  <2>1. stale' = FALSE
    BY <1>6 DEF rv_marker_query, SessionInv
  <2> QED BY <1>1, <1>6, <2>1, EnsureWorks, KeepsWorks DEF rv_marker_query
<1>7. ASSUME NEW grants \in Grants, NEW plan \in AnyPlan, rv_session_run_query(plan, grants)
      PROVE  SessionInv'
  <2> DEFINE e == Ensure(used, index, index_ready, grants)
             markers == Take(e, InfoSize * LimitOf(plan), 8)
             windows == Len(e.index.nodes["windows"])
             w == Take(markers, 4 * (IF windows = 0 THEN 1 ELSE windows), 4)
  <2>1. stale' = FALSE /\ Keeps(e, w)
    BY <1>7 DEF rv_session_run_query, SessionInv
  <2>2. e \in Work /\ (e.ok => IsWhole(e.index, Tabled))
    BY <1>1, EnsureWorks
  <2>3. w \in Work
    BY <2>2, QueryTakes
  <2> HIDE DEF e, w
  <2> QED BY <2>1, <2>2, <2>3, KeepsWorks
<1>8. ASSUME NEW grants \in Grants, NEW f \in AnySpan, FilterSpan(f, grants)
      PROVE  SessionInv'
  <2>1. used' \in 0 .. Limit
    BY <1>1, <1>8, SpanTakes
  <2> QED BY <1>8, <2>1 DEF FilterSpan, Ready, SessionInv, Tabled
<1>9. CASE rv_package_reset
  <2>1. package.parsed \in 0 .. Limit
    BY TabledType
  <2> QED BY <1>9, <2>1 DEF rv_package_reset, ParsedAgain, SessionInv, Tabled
<1>10. ASSUME NEW f \in AnyFilter, InstrumentsOnRoute(f.route)
       PROVE  SessionInv'
  BY <1>2, <1>10 DEF InstrumentsOnRoute
<1>11. ASSUME NEW a \in Around, MarkersNear(a)
       PROVE  SessionInv'
  BY <1>2, <1>11 DEF MarkersNear
<1>12. ASSUME NEW str \in Name, rv_name_find(str)
       PROVE  SessionInv'
  BY <1>2, <1>12 DEF rv_name_find
<1>13. CASE UNCHANGED vars
  BY <1>2, <1>13 DEF vars
<1> QED BY <1>3, <1>4, <1>5, <1>6, <1>7, <1>8, <1>9, <1>10, <1>11, <1>12, <1>13 DEF Next

(* So the invariant always holds.                                          *)
LEMMA AlwaysSessionInv == Spec => []SessionInv
<1>1. SessionInv /\ [Next]_vars => SessionInv'
  BY SessionInvStep
<1> QED BY SessionInvInit, <1>1, PTL DEF Spec

(* The state has its types, and the arena is never in use beyond its       *)
(* limit, whatever builds, validations and queries leak or are refused     *)
(* (rv_arena_alloc).                                                       *)
THEOREM SessionTypes == Spec => []TypeOK
<1>1. ASSUME SessionInv PROVE TypeOK
  <2>1. index.nodes.marks \in Seq(MarkRow)
    <3>1. index.nodes["marks"] \in Seq(RowOf["marks"])
      BY <1>1 DEF SessionInv, IndexState, NodesOf, Indexed
    <3>2. RowOf["marks"] = MarkRow
      BY DEF RowOf
    <3> QED BY <3>1, <3>2
  <2>2. index.nodes.windows \in Seq(WindowRow)
    <3>1. index.nodes["windows"] \in Seq(RowOf["windows"])
      BY <1>1 DEF SessionInv, IndexState, NodesOf, Indexed
    <3>2. RowOf["windows"] = WindowRow
      BY DEF RowOf
    <3> QED BY <3>1, <3>2
  <2>3. ASSUME NEW table \in Mapped, NEW id \in DOMAIN index.map[table]
        PROVE  index.map[table][id] \in Nat
    <3> DEFINE map == index.map[table]
    <3>1. map \in MapOf
      BY <1>1 DEF SessionInv, IndexState
    <3> HIDE DEF map
    <3>2. map \in [0 .. CapacityOf(map) - 1 -> Nat]
      BY <3>1, MapAtType
    <3>3. \A i \in DOMAIN map : map[i] \in Nat
      BY <3>2
    <3> QED BY <3>3 DEF map
  <2> QED BY <1>1, <2>1, <2>2, <2>3 DEF SessionInv, TypeOK
<1> QED BY <1>1, AlwaysSessionInv, PTL

(* A session never answers from a half-built index: one that is marked     *)
(* ready has every row and finds every id, however many allocations were   *)
(* refused before and however often its maps were regrown; of packages     *)
(* whose build stores beside a map, those with the id 2^32 - 1, nothing is *)
(* said (rv_session_ensure_index, rv_index_build, rv_idmap_put).           *)
THEOREM ReadyIndexWhole == Spec => []ReadyIndexIsWhole
<1>1. ASSUME SessionInv PROVE ReadyIndexIsWhole
  <2> SUFFICES ASSUME index_ready, StoresHit(Tabled)
               PROVE  /\ \A table \in Indexed : index.nodes[table] = Tabled[table]
                      /\ \A table \in Mapped :
                           \A id \in Ids(Tabled[table]) \cup DOMAIN index.map[table] :
                             Found(index, table, id) = MapCell(Tabled[table], id)
    BY DEF ReadyIndexIsWhole
  <2>1. IsWhole(index, Tabled) /\ Tabled \in Tables
    BY <1>1, TabledType DEF SessionInv
  <2>2. ASSUME NEW table \in Indexed PROVE index.nodes[table] = Tabled[table]
    <3>1. Tabled[table] \in Seq(RowOf[table])
      BY <2>1, TableTypes
    <3>2. SubSeq(Tabled[table], 1, Len(Tabled[table])) = Tabled[table]
      BY <3>1, SubSeqFull
    <3> QED BY <2>1, <3>2 DEF IsWhole, IsFilled
  <2>3. ASSUME NEW table \in Mapped, NEW id \in Ids(Tabled[table]) \cup DOMAIN index.map[table]
        PROVE  Found(index, table, id) = MapCell(Tabled[table], id)
    <3>1. id \in Nat
      <4>1. CASE id \in DOMAIN index.map[table]
        <5> DEFINE map == index.map[table]
        <5>1. map \in MapOf
          BY <1>1 DEF SessionInv, IndexState
        <5> HIDE DEF map
        <5>2. map \in [0 .. CapacityOf(map) - 1 -> Nat] /\ CapacityOf(map) \in Nat
          BY <5>1, MapAtType
        <5>3. \A i \in DOMAIN map : i \in Nat
          BY <5>2
        <5> QED BY <4>1, <5>3 DEF map
      <4>2. CASE id \in Ids(Tabled[table])
        <5>1. table \in Indexed
          BY DEF Mapped, Indexed
        <5>2. Tabled[table] \in Seq(RowOf[table]) /\ \A row \in RowOf[table] : row.id \in Nat
          BY <2>1, <5>1, TableTypes
        <5>3. PICK i \in DOMAIN Tabled[table] : id = Tabled[table][i].id
          BY <4>2 DEF Ids
        <5>4. Tabled[table][i] \in RowOf[table]
          BY <5>2, <5>3
        <5> QED BY <5>2, <5>3, <5>4
      <4> QED BY <4>1, <4>2
    <3> QED BY <2>1, <3>1, FoundInTable
  <2> QED BY <2>2, <2>3
<1> QED BY <1>1, AlwaysSessionInv, PTL

-----------------------------------------------------------------------------
(***************************************************************************)
(* What calls show.                                                        *)
(***************************************************************************)
(* The action of a reply is known by its name.                             *)
LEMMA RepliesByName ==
  ASSUME Next
  PROVE  /\ reply'.call = "rebind" => \E grants \in Grants : rv_session_rebind(grants)
         /\ reply'.call = "marker_query" =>
              \E grants \in Grants, f \in AnyFilter : rv_marker_query(f, grants)
         /\ reply'.call = "run_query" =>
              \E grants \in Grants, plan \in AnyPlan : rv_session_run_query(plan, grants)
         /\ reply'.call = "filter" => \E grants \in Grants, f \in AnySpan : FilterSpan(f, grants)
         /\ reply'.call = "instruments" => \E f \in AnyFilter : InstrumentsOnRoute(f.route)
         /\ reply'.call = "markers_near" => \E a \in Around : MarkersNear(a)
         /\ reply'.call = "name_find" => \E str \in Name : rv_name_find(str)
<1>1. \A grants \in Grants : /\ rv_session_rebuild_index(grants) => reply'.call = "rebuild"
                             /\ rv_session_rebind(grants) => reply'.call = "rebind"
                             /\ rv_package_validate(grants) => reply'.call = "validate"
  <2> TAKE grants \in Grants
  <2>1. rv_session_rebuild_index(grants) => reply'.call = "rebuild"
    BY DEF rv_session_rebuild_index, Answers
  <2>2. rv_session_rebind(grants) => reply'.call = "rebind"
    BY DEF rv_session_rebind, Answers
  <2>3. rv_package_validate(grants) => reply'.call = "validate"
    BY DEF rv_package_validate, Answers
  <2> QED BY <2>1, <2>2, <2>3
<1>2. \A grants \in Grants, f \in AnyFilter :
        rv_marker_query(f, grants) => reply'.call = "marker_query"
  BY DEF rv_marker_query, Answers
<1>3. \A grants \in Grants, plan \in AnyPlan :
        rv_session_run_query(plan, grants) => reply'.call = "run_query"
  BY DEF rv_session_run_query, Answers
<1>4. \A grants \in Grants, f \in AnySpan : FilterSpan(f, grants) => reply'.call = "filter"
  BY DEF FilterSpan, Answers
<1>5. /\ rv_package_reset => reply'.call = "reset"
      /\ \A f \in AnyFilter : InstrumentsOnRoute(f.route) => reply'.call = "instruments"
      /\ \A a \in Around : MarkersNear(a) => reply'.call = "markers_near"
      /\ \A str \in Name : rv_name_find(str) => reply'.call = "name_find"
  BY DEF rv_package_reset, InstrumentsOnRoute, MarkersNear, rv_name_find, Answers
<1> QED BY <1>1, <1>2, <1>3, <1>4, <1>5 DEF Next

(* A reset gives back all that builds, validations, queries and failures   *)
(* have taken: the rebind after it fails only if the environment refuses   *)
(* memory, or if no index would fit beside a first parse of the package    *)
(* (rv_package_reset, rv_session_rebind).                                  *)
THEOREM RoomAfterReset == Spec => ResetMakesRoom
<1> DEFINE A == /\ stale /\ reply'.call = "rebind" /\ reply'.arg = Plenty
                /\ rv_index_build(package.parsed, Plenty, Tabled).ok
                => reply'.ok
<1>1. SessionInv /\ [Next]_vars => [A]_vars
  <2> SUFFICES ASSUME SessionInv, Next, stale, reply'.call = "rebind", reply'.arg = Plenty,
                      rv_index_build(package.parsed, Plenty, Tabled).ok
               PROVE  reply'.ok
    OBVIOUS
  <2>1. PICK grants \in Grants : rv_session_rebind(grants)
    BY RepliesByName
  <2>2. /\ reply'.arg = grants
        /\ reply'.ok = Ensure(used, EmptyIndex, FALSE, grants).ok
    BY <2>1 DEF rv_session_rebind, Answers
  <2>3. Ensure(used, EmptyIndex, FALSE, grants) = rv_index_build(package.parsed, Plenty, Tabled)
    BY <2>2 DEF Ensure, SessionInv
  <2> QED BY <2>2, <2>3
<1> HIDE DEF A
<1>2. Spec => [][A]_vars
  BY <1>1, AlwaysSessionInv, PTL DEF Spec
<1> QED BY <1>2, PTL DEF A, ResetMakesRoom

-----------------------------------------------------------------------------
(***************************************************************************)
(* Filters.                                                                *)
(***************************************************************************)
(* With unique ids an id stands for one row.                               *)
LEMMA UniqueCell ==
  ASSUME NEW R, NEW rows \in Seq(R), UniqueIds(rows), IdMod - 1 \notin Ids(rows), NEW id \in Nat
  PROVE  /\ MapCell(rows, id) = 0 => id = 0 \/ \A i \in DOMAIN rows : rows[i].id # id
         /\ MapCell(rows, id) # 0 => /\ id # 0 /\ MapCell(rows, id) \in DOMAIN rows
                                     /\ rows[MapCell(rows, id)].id = id
                                     /\ \A i \in DOMAIN rows : rows[i].id = id => i = MapCell(rows, id)
<1>1. DOMAIN rows = 1 .. Len(rows) /\ Len(rows) \in Nat
  OBVIOUS
<1>4. id # 0 /\ RowsOf(rows, id) # {} => id \notin Unmapped
  BY DEF RowsOf, Ids, Unmapped
<1>2. CASE id = 0 \/ RowsOf(rows, id) = {}
  BY <1>2 DEF MapCell, RowsOf, Unmapped
<1>3. CASE id # 0 /\ RowsOf(rows, id) # {}
  <2>1. \A i, j \in RowsOf(rows, id) : i = j
    BY <1>3 DEF UniqueIds, RowsOf
  <2>2. PICK i : i \in RowsOf(rows, id)
    BY <1>3
  <2>3. i \in 1 .. Len(rows)
    BY <1>1, <2>2 DEF RowsOf
  <2>4. \A j \in RowsOf(rows, id) : j <= i
    BY <1>1, <2>1, <2>2, <2>3
  <2>5. MapCell(rows, id) \in RowsOf(rows, id)
    BY <1>3, <1>4, <2>2, <2>4 DEF MapCell
  <2>6. MapCell(rows, id) = i
    BY <2>1, <2>2, <2>5
  <2> QED BY <1>1, <1>3, <2>1, <2>3, <2>5, <2>6 DEF RowsOf
<1> QED BY <1>2, <1>3

(* A table has a row with an id if a lookup finds one.                     *)
LEMMA CellOfIds ==
  ASSUME NEW R, NEW rows \in Seq(R), IdMod - 1 \notin Ids(rows), NEW id \in Nat
  PROVE  MapCell(rows, id) # 0 <=> id \in Ids(rows) \ {0}
<1>1. DOMAIN rows = 1 .. Len(rows) /\ Len(rows) \in Nat
  OBVIOUS
<1>4. id # 0 /\ RowsOf(rows, id) # {} => id \notin Unmapped
  BY DEF RowsOf, Ids, Unmapped
<1>2. CASE id = 0 \/ RowsOf(rows, id) = {}
  BY <1>2 DEF MapCell, RowsOf, Ids, Unmapped
<1>3. CASE id # 0 /\ RowsOf(rows, id) # {}
  <2> DEFINE S == RowsOf(rows, id)
  <2>1. S \in SUBSET (0 .. Len(rows)) /\ S # {} /\ 0 \notin S
    BY <1>1, <1>3 DEF RowsOf
  <2>2. Max(S) \in S /\ \A i \in S : i <= Max(S)
    <3> HIDE DEF S
    <3> QED BY <1>1, <2>1, MaxIsMember
  <2>3. MapCell(rows, id) \in S
    BY <1>3, <1>4, <2>2 DEF MapCell
  <2>4. id \in Ids(rows)
    BY <1>3 DEF RowsOf, Ids
  <2> QED BY <1>3, <2>1, <2>3, <2>4
<1> QED BY <1>2, <1>3

(* What the tables say of a marker that a filter asks for, and of its wave *)
(* if that is asked for.                                                   *)
Wants(f, wave, m) ==
  /\ f.kind # 0 => m.kind = f.kind
  /\ m.severity >= f.severity
  /\ f.near # 0 \/ f.far # 0 => m.distance >= f.near
  /\ f.far > 0 => m.distance <= f.far
  /\ f.route # 0 \/ f.inst # 0 \/ wave => OnWindow(m, f.route, f.inst, wave)

(* With a whole index a marker passes the tests of a query if and only if  *)
(* it is wanted.                                                           *)
LEMMA PassesIsWanted ==
  ASSUME Tabled \in Tables, StoresHit(Tabled), NEW index0, IsWhole(index0, Tabled), UniqueIds(Windows),
         NEW m \in MarkRow, NEW f \in Filter, NEW wave \in BOOLEAN
  PROVE  Passes(index0, m, f) /\ (wave => HasWave(index0, m)) <=> Wants(f, wave, m)
<1> DEFINE k == MapCell(Windows, m.window)
           w == Windows[k]
<1>1. /\ Windows \in Seq(WindowRow) /\ DOMAIN Windows = 1 .. Len(Windows) /\ Len(Windows) \in Nat
      /\ Tabled.waves \in Seq(WaveRow)
      /\ IdMod - 1 \notin Ids(Windows) /\ IdMod - 1 \notin Ids(Tabled.waves)
  BY DEF Windows, Tables, StoresHit, Mapped
<1>2. m.window \in Nat /\ f.far \in Int /\ f.route \in Nat /\ f.inst \in Nat
  BY DEF MarkRow, Filter
<1>3. Found(index0, "windows", m.window) = k
  BY <1>2, FoundInTable DEF Mapped, Windows
<1>4. index0.nodes["windows"] = Windows
  <2>1. SubSeq(Windows, 1, Len(Windows)) = Windows
    BY <1>1, SubSeqFull
  <2> QED BY <2>1 DEF IsWhole, IsFilled, Indexed, Windows
<1>5. WindowIn(index0, m) = IF k = 0 THEN [route |-> 0, inst |-> 0, wave |-> 0] ELSE w
  BY <1>3, <1>4 DEF WindowIn
<1>6. Passes(index0, m, f) <=>
        /\ f.kind # 0 => m.kind = f.kind
        /\ m.severity >= f.severity
        /\ f.near # 0 \/ f.far # 0 => m.distance >= f.near
        /\ f.far > 0 => m.distance <= f.far
        /\ f.route \in {0, WindowIn(index0, m).route}
        /\ f.inst \in {0, WindowIn(index0, m).inst}
  BY <1>2 DEF Passes
<1>7. CASE k = 0
  <2>1. m.window = 0 \/ \A i \in DOMAIN Windows : Windows[i].id # m.window
    BY <1>1, <1>2, <1>7, UniqueCell
  <2>2. ~OnWindow(m, f.route, f.inst, wave)
    BY <2>1 DEF OnWindow, Windows
  <2>3. ~HasWave(index0, m)
    BY <1>3, <1>7 DEF HasWave
  <2>4. WindowIn(index0, m).route = 0 /\ WindowIn(index0, m).inst = 0
    BY <1>5, <1>7
  <2> HIDE DEF k
  <2> QED BY <1>6, <2>2, <2>3, <2>4 DEF Wants
<1>8. CASE k # 0
  <2>1. /\ m.window # 0 /\ k \in DOMAIN Windows /\ w.id = m.window
        /\ \A i \in DOMAIN Windows : Windows[i].id = m.window => i = k
    BY <1>1, <1>2, <1>8, UniqueCell
  <2>2. WindowIn(index0, m) = w
    BY <1>5, <1>8
  <2>3. w \in WindowRow
    <3> HIDE DEF k
    <3> QED BY <1>1, <2>1
  <2>4. w.wave \in Nat
    BY <2>3 DEF WindowRow
  <2>5. Found(index0, "waves", w.wave) = MapCell(Tabled.waves, w.wave)
    BY <2>4, FoundInTable DEF Mapped
  <2>6. HasWave(index0, m) <=> w.wave \in Ids(Tabled.waves) \ {0}
    <3>1. MapCell(Tabled.waves, w.wave) # 0 <=> w.wave \in Ids(Tabled.waves) \ {0}
      BY <1>1, <2>4, CellOfIds
    <3> HIDE DEF k
    <3> QED BY <1>3, <1>8, <2>2, <2>5, <3>1 DEF HasWave
  <2>7. OnWindow(m, f.route, f.inst, wave) <=>
          /\ f.route \in {0, w.route} /\ f.inst \in {0, w.inst}
          /\ wave => w.wave \in Ids(Tabled.waves) \ {0}
    <3> HIDE DEF k
    <3> QED BY <2>1 DEF OnWindow, Windows
  <2> HIDE DEF k, w
  <2> QED BY <1>6, <2>2, <2>6, <2>7 DEF Wants
<1> QED BY <1>7, <1>8

(* A whole index has the markers and windows of the package.               *)
LEMMA IndexedRows ==
  ASSUME Tabled \in Tables, NEW index0, IsWhole(index0, Tabled)
  PROVE  /\ index0.nodes["marks"] = Tabled.marks /\ Tabled.marks \in Seq(MarkRow)
         /\ index0.nodes["windows"] = Windows /\ Windows \in Seq(WindowRow)
<1>1. Tabled.marks \in Seq(MarkRow) /\ Windows \in Seq(WindowRow)
  BY DEF Tables, Windows
<1>2. /\ index0.nodes["marks"] = SubSeq(Tabled.marks, 1, Len(Tabled.marks))
      /\ index0.nodes["windows"] = SubSeq(Windows, 1, Len(Windows))
  BY DEF IsWhole, IsFilled, Indexed, Windows
<1> QED BY <1>1, <1>2, SubSeqFull

(* The markers that are wanted.                                            *)
LEMMA WantedRows ==
  ASSUME Tabled \in Tables, NEW f, NEW wave
  PROVE  Wanted(f, wave) = Accepted(Tabled.marks, {m \in ToSet(Tabled.marks) : Wants(f, wave, m)})
BY DEF Wanted, Wants

(* A marker query answers them.                                            *)
LEMMA QueryAnswers ==
  ASSUME Tabled \in Tables, StoresHit(Tabled), NEW index0, IsWhole(index0, Tabled), UniqueIds(Windows),
         NEW f \in Filter
  PROVE  rv_index_query_markers(index0, f) = Wanted(f, FALSE)
<1> DEFINE marks == Tabled.marks
<1>1. index0.nodes["marks"] = marks /\ \A m \in ToSet(marks) : m \in MarkRow
  BY IndexedRows DEF ToSet
<1>2. \A m \in ToSet(marks) : Passes(index0, m, f) <=> Wants(f, FALSE, m)
  BY <1>1, PassesIsWanted
<1> HIDE DEF marks
<1>3. {m \in ToSet(marks) : Passes(index0, m, f)} = {m \in ToSet(marks) : Wants(f, FALSE, m)}
  BY <1>2
<1> QED BY <1>1, <1>3, WantedRows DEF rv_index_query_markers, marks

(* A search answers those of its window within the radius.                 *)
LEMMA NearAnswers ==
  ASSUME Tabled \in Tables, NEW index0, IsWhole(index0, Tabled),
         NEW window \in Nat, NEW center \in Int, NEW radius \in Nat
  PROVE  rv_query_markers_near(index0, window, center, radius) =
           Accepted(Tabled.marks, {m \in ToSet(Tabled.marks) :
                                     /\ window # 0 => m.window = window
                                     /\ m.distance \in center - radius .. center + radius})
<1> DEFINE marks == Tabled.marks
<1>1. index0.nodes["marks"] = marks /\ \A m \in ToSet(marks) : m \in MarkRow
  BY IndexedRows DEF ToSet
<1>2. ASSUME NEW m \in ToSet(marks)
      PROVE  /\ window \in {0, m.window} <=> (window # 0 => m.window = window)
             /\ m.distance - center \in -radius .. radius
                  <=> m.distance \in center - radius .. center + radius
  <2>1. m.distance \in Int
    BY <1>1 DEF MarkRow
  <2> QED BY <2>1
<1> HIDE DEF marks
<1>3. {m \in ToSet(marks) : window \in {0, m.window} /\ m.distance - center \in -radius .. radius}
        = {m \in ToSet(marks) : /\ window # 0 => m.window = window
                                /\ m.distance \in center - radius .. center + radius}
  BY <1>2
<1> QED BY <1>1, <1>3 DEF rv_query_markers_near, marks

(* And so does a span filter that asks for a route or an instrument only.  *)
LEMMA SpanAnswers ==
  ASSUME Tabled \in Tables, NEW index0, IsWhole(index0, Tabled), 0 \notin Ids(Windows),
         NEW f, f.wavelength = 0, f.route # 0 \/ f.inst # 0
  PROVE  rv_span_filter_apply_to_markers(index0, rv_span_filter_windows(Tabled, f))
           = Wanted([route |-> f.route, inst |-> f.inst, kind |-> 0,
                     severity |-> 0, near |-> 0, far |-> 0], FALSE)
<1> DEFINE marks == Tabled.marks
           windows == rv_span_filter_windows(Tabled, f)
           fits(w) == f.route \in {0, w.route} /\ f.inst \in {0, w.inst}
           g == [route |-> f.route, inst |-> f.inst, kind |-> 0,
                 severity |-> 0, near |-> 0, far |-> 0]
<1>1. /\ index0.nodes["marks"] = marks /\ \A m \in ToSet(marks) : m \in MarkRow
      /\ Windows \in Seq(WindowRow) /\ DOMAIN Windows = 1 .. Len(Windows)
  BY IndexedRows DEF ToSet
<1>2. {w \in ToSet(Windows) : rv_span_filter_match_window(Tabled, w, f)}
        = {w \in ToSet(Windows) : fits(w)}
  BY DEF rv_span_filter_match_window
<1>3. windows = Accepted(Windows, {w \in ToSet(Windows) : fits(w)})
  BY <1>2 DEF rv_span_filter_windows, Windows
<1>4. ToSet(windows) = {Windows[i] : i \in {j \in 1 .. Len(Windows) : fits(Windows[j])}}
  <2> DEFINE S == {w \in ToSet(Windows) : fits(w)}
  <2>1. ToSet(windows) = {Windows[i] : i \in {j \in 1 .. Len(Windows) : Windows[j] \in S}}
    <3> HIDE DEF S
    <3> QED BY <1>1, <1>3, AcceptedRows DEF S
  <2>2. \A j \in 1 .. Len(Windows) : Windows[j] \in S <=> fits(Windows[j])
    BY <1>1 DEF ToSet
  <2> HIDE DEF S, windows, fits
  <2> QED BY <2>1, <2>2
<1> HIDE DEF windows
<1>5. \A m \in ToSet(marks) : m.window \in Ids(windows) <=> OnWindow(m, f.route, f.inst, FALSE)
  <2> TAKE m \in ToSet(marks)
  <2>1. Ids(windows) = {w.id : w \in ToSet(windows)}
    BY DEF Ids, ToSet
  <2>2. m.window \in Ids(windows) <=>
          \E i \in 1 .. Len(Windows) : fits(Windows[i]) /\ Windows[i].id = m.window
    <3> HIDE DEF fits
    <3> QED BY <1>4, <2>1
  <2>3. \A i \in 1 .. Len(Windows) : Windows[i].id # 0
    BY <1>1 DEF Ids
  <2> QED BY <1>1, <2>2, <2>3 DEF OnWindow, Windows
<1>6. \A m \in ToSet(marks) : m.window \in Ids(windows) <=> Wants(g, FALSE, m)
  <2> TAKE m \in ToSet(marks)
  <2>1. m.severity \in Nat
    BY <1>1 DEF MarkRow
  <2>2. /\ g.route = f.route /\ g.inst = f.inst
        /\ g.kind = 0 /\ g.severity = 0 /\ g.near = 0 /\ g.far = 0
    OBVIOUS
  <2> HIDE DEF g
  <2>3. Wants(g, FALSE, m) <=>
          /\ m.severity >= 0
          /\ f.route # 0 \/ f.inst # 0 => OnWindow(m, f.route, f.inst, FALSE)
    BY <2>2 DEF Wants
  <2>4. m.severity >= 0
    BY <2>1
  <2>5. Wants(g, FALSE, m) <=> OnWindow(m, f.route, f.inst, FALSE)
    BY <2>3, <2>4, Zenon
  <2>6. m.window \in Ids(windows) <=> OnWindow(m, f.route, f.inst, FALSE)
    BY <1>5
  <2> QED BY <2>5, <2>6, Zenon
<1> HIDE DEF marks, g
<1>7. {m \in ToSet(marks) : m.window \in Ids(windows)} = {m \in ToSet(marks) : Wants(g, FALSE, m)}
  BY <1>6
<1> QED BY <1>1, <1>7, WantedRows DEF rv_span_filter_apply_to_markers, marks, windows, g

(* The list that rv_query_instruments_on_route makes of its windows.       *)
InstsOf(windows) ==
  FoldLeft(LAMBDA seen, w : IF \E i \in DOMAIN seen : seen[i] = w.inst THEN seen
                            ELSE Append(seen, w.inst),
           << >>, windows)

(* Each instrument of the windows is listed, and once.                     *)
LEMMA InstsListedOnce ==
  ASSUME NEW rows \in Seq(WindowRow)
  PROVE  /\ ToSet(InstsOf(rows)) = {rows[i].inst : i \in 1 .. Len(rows)}
         /\ IsInjective(InstsOf(rows))
<1> DEFINE n == Len(rows)
           V == Seq(Nat)
           op(v, w) == IF \E i \in DOMAIN v : v[i] = w.inst THEN v ELSE Append(v, w.inst)
           H == [p \in V \X (1 .. n) |-> op(p[1], rows[p[2]])]
           eq(f) == [s \in SUBSET (1 .. n) |->
                       IF s = {} THEN << >> ELSE op(f[s \ {Max(s)}], rows[Max(s)])]
           iter == CHOOSE f : f = eq(f)
           P == [k \in 0 .. n |->
                   {v \in V : ToSet(v) = {rows[i].inst : i \in 1 .. k} /\ IsInjective(v)}]
<1>1. n \in Nat /\ DOMAIN rows = 1 .. n /\ << >> \in V
  OBVIOUS
<1>2. \A k \in 1 .. n : rows[k].inst \in Nat
  <2>1. \A k \in 1 .. n : rows[k] \in WindowRow
    OBVIOUS
  <2>2. \A w \in WindowRow : w.inst \in Nat
    BY DEF WindowRow
  <2> QED BY <2>1, <2>2
<1>3. \A v \in V, k \in 1 .. n : op(v, rows[k]) \in V
  <2> TAKE v \in V, k \in 1 .. n
  <2> QED BY <1>2, AppendType
<1>4. H \in [V \X (1 .. n) -> V] /\ \A v \in V, k \in 1 .. n : H[<<v, k>>] = op(v, rows[k])
  <2> HIDE DEF op, V, n
  <2>1. \A p \in V \X (1 .. n) : op(p[1], rows[p[2]]) \in V
    BY <1>3
  <2> QED BY <2>1
<1>5. \A s \in SUBSET (1 .. n) : s # {} => Max(s) \in 1 .. n
  BY <1>1, MaxIsPosition
<1>6. \A s \in SUBSET (1 .. n) : s \ {Max(s)} \in SUBSET (1 .. n)
  OBVIOUS
<1>7. PICK f \in [SUBSET (1 .. n) -> V] : Solves(f, n, << >>, H)
  <2> HIDE DEF H, n, V
  <2> QED BY <1>1, <1>4, FoldExists
<1>8. f = eq(f)
  <2>1. \A s \in SUBSET (1 .. n) :
          f[s] = IF s = {} THEN << >> ELSE op(f[s \ {Max(s)}], rows[Max(s)])
    <3> HIDE DEF H, op, n, V
    <3> TAKE s \in SUBSET (1 .. n)
    <3>1. f[s] = IF s = {} THEN << >> ELSE H[<<f[s \ {Max(s)}], Max(s)>>]
      BY <1>7 DEF Solves
    <3>2. s # {} => f[s \ {Max(s)}] \in V /\ Max(s) \in 1 .. n
      BY <1>5, <1>6, <1>7
    <3>3. s # {} => H[<<f[s \ {Max(s)}], Max(s)>>] = op(f[s \ {Max(s)}], rows[Max(s)])
      BY <1>4, <3>2
    <3> QED BY <3>1, <3>3
  <2> HIDE DEF op, n
  <2> QED BY <1>7, <2>1
<1>9. iter = eq(iter)
  <2> HIDE DEF eq
  <2> QED BY <1>8
<1>10. Follows(iter, n, V, << >>, H)
  <2>1. \A s \in SUBSET (1 .. n) :
          iter[s] = IF s = {} THEN << >> ELSE op(iter[s \ {Max(s)}], rows[Max(s)])
    <3> DEFINE g == iter
    <3>1. g = eq(g)
      BY <1>9
    <3> HIDE DEF g, op, n
    <3>2. \A s \in SUBSET (1 .. n) :
            g[s] = IF s = {} THEN << >> ELSE op(g[s \ {Max(s)}], rows[Max(s)])
      BY <3>1
    <3> QED BY <3>2 DEF g
  <2> HIDE DEF iter, H, op, n, V
  <2> QED BY <1>4, <1>5, <1>6, <2>1 DEF Follows
<1>11. << >> \in P[0]
  <2>1. ToSet(<< >>) = {} /\ {rows[i].inst : i \in 1 .. 0} = {} /\ IsInjective(<< >>)
    BY DEF ToSet, IsInjective
  <2>2. 0 \in 0 .. n
    BY <1>1
  <2> HIDE DEF n, V
  <2> QED BY <1>1, <2>1, <2>2
<1>12. \A k \in 1 .. n, v \in V : v \in P[k - 1] => H[<<v, k>>] \in P[k]
  <2> TAKE k \in 1 .. n, v \in V
  <2> HAVE v \in P[k - 1]
  <2> DEFINE x == rows[k].inst
             Before == {rows[i].inst : i \in 1 .. k - 1}
  <2>1. k \in 0 .. n /\ k - 1 \in 0 .. n
    OBVIOUS
  <2>2. ToSet(v) = Before /\ IsInjective(v)
    <3> HIDE DEF n, V
    <3> QED BY <2>1
  <2>3. {rows[i].inst : i \in 1 .. k} = Before \cup {x}
    <3>1. \A i \in 1 .. k : i = k \/ i \in 1 .. k - 1
      OBVIOUS
    <3>2. k \in 1 .. k /\ \A i \in 1 .. k - 1 : i \in 1 .. k
      OBVIOUS
    <3> QED BY <3>1, <3>2
  <2>4. CASE \E i \in DOMAIN v : v[i] = x
    <3>1. op(v, rows[k]) = v /\ x \in ToSet(v)
      BY <2>4 DEF ToSet
    <3> HIDE DEF x, Before, op, H, n, V
    <3> QED BY <1>4, <2>1, <2>2, <2>3, <3>1
  <2>5. CASE ~ \E i \in DOMAIN v : v[i] = x
    <3> DEFINE b == Append(v, x)
               l == Len(v)
    <3>1. op(v, rows[k]) = b
      BY <2>5
    <3>2. /\ l \in Nat /\ DOMAIN v = 1 .. l /\ DOMAIN b = 1 .. l + 1
          /\ b[l + 1] = x /\ \A i \in 1 .. l : b[i] = v[i]
      OBVIOUS
    <3>3. /\ \A i \in 1 .. l + 1 : i = l + 1 \/ i \in 1 .. l
          /\ l + 1 \in 1 .. l + 1 /\ \A i \in 1 .. l : i \in 1 .. l + 1
      BY <3>2
    <3> HIDE DEF b, l, x
    <3>4. ToSet(b) = ToSet(v) \cup {x}
      BY <3>2, <3>3 DEF ToSet
    <3>5. IsInjective(b)
      BY <2>2, <2>5, <3>2, <3>3 DEF IsInjective
    <3> HIDE DEF Before, op, H, n, V
    <3>6. b \in V
      BY <1>3, <3>1
    <3> QED BY <1>4, <2>1, <2>2, <2>3, <3>1, <3>4, <3>5, <3>6 DEF x
  <2> QED BY <2>4, <2>5
<1>13. iter[1 .. n] \in P[n]
  <2> HIDE DEF iter, H, P, n, V, op
  <2> QED BY <1>1, <1>4, <1>10, <1>11, <1>12, FoldReaches
<1>14. InstsOf(rows) = iter[1 .. n]
  BY <1>1 DEF InstsOf, FoldLeft, MapThenFoldSet
<1>15. n \in 0 .. n
  BY <1>1
<1> HIDE DEF iter
<1> QED BY <1>13, <1>14, <1>15

(* So are those of the windows of a route.                                 *)
LEMMA InstrumentsAnswer ==
  ASSUME Tabled \in Tables, NEW index0, IsWhole(index0, Tabled), NEW route
  PROVE  /\ ToSet(rv_query_instruments_on_route(index0, route)) =
              {Windows[i].inst : i \in {j \in DOMAIN Windows : route \in {0, Windows[j].route}}}
         /\ IsInjective(rv_query_instruments_on_route(index0, route))
<1> DEFINE S == {w \in ToSet(Windows) : route \in {0, w.route}}
           rows == Accepted(Windows, S)
<1>1. /\ index0.nodes["windows"] = Windows /\ Windows \in Seq(WindowRow)
      /\ DOMAIN Windows = 1 .. Len(Windows)
  BY IndexedRows
<1>2. rv_query_windows_for_route(index0, route) = rows
  BY <1>1 DEF rv_query_windows_for_route
<1>3. rv_query_instruments_on_route(index0, route) = InstsOf(rows)
  BY <1>2 DEF rv_query_instruments_on_route, InstsOf
<1>4. \A j \in 1 .. Len(Windows) : Windows[j] \in S <=> route \in {0, Windows[j].route}
  BY <1>1 DEF ToSet
<1> HIDE DEF S
<1>5. /\ rows \in Seq(WindowRow) /\ DOMAIN rows = 1 .. Len(rows)
      /\ ToSet(rows) = {Windows[i] : i \in {j \in 1 .. Len(Windows) : Windows[j] \in S}}
  BY <1>1, AcceptedRows
<1> HIDE DEF rows
<1>6. ToSet(InstsOf(rows)) = {rows[i].inst : i \in 1 .. Len(rows)} /\ IsInjective(InstsOf(rows))
  BY <1>5, InstsListedOnce
<1>7. {rows[i].inst : i \in 1 .. Len(rows)} = {w.inst : w \in ToSet(rows)}
  BY <1>5 DEF ToSet
<1>8. {w.inst : w \in ToSet(rows)}
        = {Windows[i].inst : i \in {j \in DOMAIN Windows : route \in {0, Windows[j].route}}}
  BY <1>1, <1>4, <1>5
<1> QED BY <1>3, <1>6, <1>7, <1>8

(* With unique window ids a marker query answers exactly the markers its   *)
(* filter asks for, in table order; a span filter answers the same where   *)
(* it asks for the same; a search answers the markers of its window within *)
(* the radius; and the instruments of a route are those of its windows,    *)
(* each once; unless the package has the id 2^32 - 1, whose store misses   *)
(* its map (rv_index_query_markers, rv_span_filter_apply_to_markers,       *)
(* rv_query_markers_near, rv_query_instruments_on_route).                  *)
THEOREM AnswersFromTables == Spec => AnswersMatchTables
<1> DEFINE Marker == reply'.call = "marker_query" /\ reply'.ok /\ UniqueIds(Windows) =>
                       reply'.answer = Wanted(reply'.arg, FALSE)
           Near == reply'.call = "markers_near" =>
                     LET a == reply'.arg
                     IN  reply'.answer =
                           Accepted(Tabled.marks, {m \in ToSet(Tabled.marks) :
                                                     /\ a[1] # 0 => m.window = a[1]
                                                     /\ m.distance \in a[2] - a[3] .. a[2] + a[3]})
           Span == reply'.call = "filter" /\ reply'.ok /\ UniqueIds(Windows) /\ 0 \notin Ids(Windows) =>
                     LET f == reply'.arg
                     IN  f.wavelength = 0 /\ (f.route # 0 \/ f.inst # 0) =>
                           reply'.answer = Wanted([route |-> f.route, inst |-> f.inst, kind |-> 0,
                                                   severity |-> 0, near |-> 0, far |-> 0], FALSE)
           Insts == reply'.call = "instruments" =>
                      /\ ToSet(reply'.answer) =
                           {Windows[i].inst :
                              i \in {j \in DOMAIN Windows : reply'.arg \in {0, Windows[j].route}}}
                      /\ IsInjective(reply'.answer)
           A == StoresHit(Tabled) => Marker /\ Near /\ Span /\ Insts
<1>1. ASSUME SessionInv, Next, StoresHit(Tabled),
             reply'.call = "marker_query", reply'.ok, UniqueIds(Windows)
      PROVE  reply'.answer = Wanted(reply'.arg, FALSE)
  <2>1. PICK grants \in Grants, f \in AnyFilter : rv_marker_query(f, grants)
    BY <1>1, RepliesByName
  <2> DEFINE e == Ensure(used, index, index_ready, grants)
  <2>2. /\ reply'.arg = f /\ reply'.ok = e.ok
        /\ reply'.answer = IF e.ok THEN rv_index_query_markers(e.index, f) ELSE << >>
    BY <2>1 DEF rv_marker_query, Answers
  <2>3. e.ok => IsWhole(e.index, Tabled)
    BY <1>1, GrantsAssumption, EnsureWorks
  <2>4. f \in Filter /\ Tabled \in Tables
    BY <1>1, FilterAssumption, TabledType
  <2> HIDE DEF e
  <2>5. rv_index_query_markers(e.index, f) = Wanted(f, FALSE)
    BY <1>1, <2>2, <2>3, <2>4, QueryAnswers
  <2> QED BY <1>1, <2>2, <2>5
<1>2. ASSUME SessionInv, Next, reply'.call = "filter", reply'.ok, 0 \notin Ids(Windows),
             reply'.arg.wavelength = 0, reply'.arg.route # 0 \/ reply'.arg.inst # 0
      PROVE  reply'.answer = Wanted([route |-> reply'.arg.route, inst |-> reply'.arg.inst,
                                     kind |-> 0, severity |-> 0, near |-> 0, far |-> 0], FALSE)
  <2>1. PICK grants \in Grants, f \in AnySpan : FilterSpan(f, grants)
    BY <1>2, RepliesByName
  <2> DEFINE windows == rv_span_filter_windows(Tabled, f)
  <2>2. /\ reply'.arg = f
        /\ reply'.answer = rv_span_filter_apply_to_markers(index, windows)
    BY <1>2, <2>1 DEF FilterSpan, Answers
  <2>3. IsWhole(index, Tabled) /\ Tabled \in Tables
    BY <1>2, <2>1, TabledType DEF FilterSpan, Ready, SessionInv
  <2> QED BY <1>2, <2>2, <2>3, SpanAnswers
<1>3. ASSUME SessionInv, Next, reply'.call = "instruments"
      PROVE  /\ ToSet(reply'.answer) =
                  {Windows[i].inst :
                     i \in {j \in DOMAIN Windows : reply'.arg \in {0, Windows[j].route}}}
             /\ IsInjective(reply'.answer)
  <2>1. PICK f \in AnyFilter : InstrumentsOnRoute(f.route)
    BY <1>3, RepliesByName
  <2>2. /\ reply'.arg = f.route
        /\ reply'.answer = rv_query_instruments_on_route(index, f.route)
    BY <2>1 DEF InstrumentsOnRoute, Answers
  <2>3. IsWhole(index, Tabled) /\ Tabled \in Tables
    BY <1>3, <2>1, TabledType DEF InstrumentsOnRoute, Ready, SessionInv
  <2> QED BY <2>2, <2>3, InstrumentsAnswer
<1>6. ASSUME SessionInv, Next, reply'.call = "markers_near" PROVE Near
  <2>1. PICK a \in Around : MarkersNear(a)
    BY <1>6, RepliesByName
  <2>2. reply'.arg = a /\ reply'.answer = rv_query_markers_near(index, a[1], a[2], a[3])
    BY <2>1 DEF MarkersNear, Answers
  <2>3. IsWhole(index, Tabled) /\ Tabled \in Tables
    BY <1>6, <2>1, TabledType DEF MarkersNear, Ready, SessionInv
  <2>4. a[1] \in Nat /\ a[2] \in Int /\ a[3] \in Nat
    BY FilterAssumption
  <2> QED BY <2>2, <2>3, <2>4, NearAnswers
<1>4. SessionInv /\ [Next]_vars => [A]_vars
  <2>1. SessionInv /\ Next /\ StoresHit(Tabled) => Marker
    BY <1>1
  <2>4. SessionInv /\ Next => Near
    BY <1>6
  <2>2. SessionInv /\ Next => Span
    BY <1>2
  <2>3. SessionInv /\ Next => Insts
    BY <1>3
  <2> HIDE DEF Marker, Near, Span, Insts
  <2> QED BY <2>1, <2>2, <2>3, <2>4
<1> HIDE DEF A
<1>5. Spec => [][A]_vars
  BY <1>4, AlwaysSessionInv, PTL DEF Spec
<1> QED BY <1>5, PTL DEF A, AnswersMatchTables

-----------------------------------------------------------------------------
(***************************************************************************)
(* Query plans.                                                            *)
(***************************************************************************)
(* A query plan answers some of the wanted markers, all of them if no more *)
(* than the limit pass the filter, and never more than the limit.          *)
LEMMA ExecutedAnswers ==
  ASSUME Tabled \in Tables, StoresHit(Tabled), NEW index0, IsWhole(index0, Tabled), UniqueIds(Windows),
         NEW plan \in QueryPlan, NEW r \in Executed(index0, plan)
  PROVE  /\ r \in Seq(MarkRow) /\ Len(r) <= LimitOf(plan) /\ InOrder(r, plan.by)
         /\ Wanted(plan.filter, plan.wave) \in Seq(MarkRow)
         /\ Embeds(r, Wanted(plan.filter, plan.wave))
         /\ Len(Wanted(plan.filter, FALSE)) <= LimitOf(plan) =>
              Len(r) = Len(Wanted(plan.filter, plan.wave))
<1> DEFINE f == plan.filter
           marks == Tabled.marks
           limit == LimitOf(plan)
           S(wave) == {m \in ToSet(marks) : Wants(f, wave, m)}
           all == Accepted(marks, S(FALSE))
           wanted == Accepted(marks, S(plan.wave))
           first == FirstOf(all, limit)
           kept == IF plan.wave THEN KeepWithWave(index0, first) ELSE first
<1>1. /\ f \in Filter /\ plan.wave \in BOOLEAN /\ plan.by \in {"distance", "severity", "none"}
      /\ limit \in Nat
  BY LimitAssumption DEF QueryPlan, LimitOf
<1>2. marks \in Seq(MarkRow) /\ DOMAIN marks = 1 .. Len(marks) /\ \A m \in ToSet(marks) : m \in MarkRow
  BY IndexedRows DEF ToSet
<1>3. Wanted(f, FALSE) = all /\ Wanted(f, plan.wave) = wanted
  BY WantedRows
<1>4. rv_index_query_markers(index0, f) = all
  BY <1>1, <1>3, QueryAnswers
<1>5. r \in Arrangements(kept, plan.by)
  BY <1>4 DEF Executed
<1>6. \A m \in ToSet(marks), wave \in BOOLEAN :
        Passes(index0, m, f) /\ (wave => HasWave(index0, m)) <=> Wants(f, wave, m)
  BY <1>1, <1>2, PassesIsWanted
<1>7. \A m : m \in S(plan.wave) <=> m \in S(FALSE) /\ (plan.wave => HasWave(index0, m))
  <2>1. \A m \in ToSet(marks) : Passes(index0, m, f) <=> Wants(f, FALSE, m)
    BY <1>6
  <2>2. \A m \in ToSet(marks) :
          Passes(index0, m, f) /\ (plan.wave => HasWave(index0, m)) <=> Wants(f, plan.wave, m)
    BY <1>1, <1>6
  <2> HIDE DEF marks
  <2> QED BY <2>1, <2>2
<1> HIDE DEF S
<1>8. /\ all \in Seq(MarkRow) /\ wanted \in Seq(MarkRow)
      /\ Embeds(all, marks) /\ Embeds(wanted, marks)
  BY <1>2, AcceptedRows, AcceptedEmbeds
<1>9. /\ \A i \in 1 .. Len(all) : all[i] \in S(FALSE)
      /\ \A i \in 1 .. Len(wanted) : wanted[i] \in S(plan.wave)
  <2>1. /\ \A i \in 1 .. Len(all) : all[i] \in ToSet(all)
        /\ \A i \in 1 .. Len(wanted) : wanted[i] \in ToSet(wanted)
    <3> HIDE DEF all, wanted
    <3> QED BY <1>8 DEF ToSet
  <2>2. /\ ToSet(all) = {marks[i] : i \in {j \in 1 .. Len(marks) : marks[j] \in S(FALSE)}}
        /\ ToSet(wanted) = {marks[i] : i \in {j \in 1 .. Len(marks) : marks[j] \in S(plan.wave)}}
    <3> HIDE DEF marks
    <3> QED BY <1>2, AcceptedRows
  <2> HIDE DEF all, wanted, marks
  <2> QED BY <2>1, <2>2
<1>10. /\ first \in Seq(MarkRow) /\ Len(first) <= limit /\ Embeds(first, all)
       /\ Len(all) <= limit => first = all
  <2> HIDE DEF all, limit
  <2> QED BY <1>1, <1>8, FirstOfEmbeds
<1> HIDE DEF first
<1>11. /\ kept \in Seq(MarkRow) /\ Embeds(kept, first)
       /\ \A i \in 1 .. Len(kept) : plan.wave => HasWave(index0, kept[i])
  <2>1. CASE plan.wave
    <3> DEFINE W == WithWave(index0, first)
    <3>1. kept = Accepted(first, W)
      BY <2>1 DEF KeepWithWave
    <3>2. \A i \in 1 .. Len(first) : first[i] \in W => HasWave(index0, first[i])
      BY <1>10 DEF WithWave
    <3> HIDE DEF W, kept
    <3>3. /\ kept \in Seq(MarkRow) /\ Embeds(kept, first)
          /\ ToSet(kept) = {first[i] : i \in {j \in 1 .. Len(first) : first[j] \in W}}
      BY <1>10, <3>1, AcceptedRows, AcceptedEmbeds
    <3>4. \A i \in 1 .. Len(kept) : kept[i] \in ToSet(kept)
      BY <3>3 DEF ToSet
    <3> QED BY <3>2, <3>3, <3>4
  <2>2. CASE ~plan.wave
    <3>1. kept = first
      BY <2>2
    <3>2. Embeds(first, first)
      <4>1. Places(first, first, [i \in 1 .. Len(first) |-> i])
        BY DEF Places
      <4> QED BY <4>1 DEF Embeds
    <3> QED BY <1>10, <2>2, <3>1, <3>2
  <2> QED BY <2>1, <2>2
<1>12. r \in Seq(MarkRow) /\ Len(r) = Len(kept) /\ Embeds(r, kept) /\ InOrder(r, plan.by)
  <2> HIDE DEF kept
  <2> QED BY <1>1, <1>5, <1>11, ArrangementsEmbed
<1>13. Embeds(kept, all) /\ Embeds(kept, marks)
  <2> HIDE DEF kept, all, marks
  <2>1. Embeds(kept, all)
    BY <1>8, <1>10, <1>11, EmbedsInBoth
  <2> QED BY <1>2, <1>8, <1>11, <2>1, EmbedsInBoth
<1>14. \A i \in 1 .. Len(kept) : kept[i] \in S(plan.wave)
  <2> HIDE DEF kept, all
  <2> TAKE i \in 1 .. Len(kept)
  <2>1. PICK q : Places(kept, all, q)
    BY <1>13 DEF Embeds
  <2>2. q[i] \in 1 .. Len(all) /\ kept[i] = all[q[i]]
    BY <2>1 DEF Places
  <2>3. kept[i] \in S(FALSE)
    BY <1>9, <2>2
  <2> QED BY <1>7, <1>11, <2>3
<1>15. Embeds(kept, wanted)
  <2> HIDE DEF kept, marks
  <2> QED BY <1>2, <1>11, <1>13, <1>14, EmbedsInAccepted
<1>16. Embeds(r, wanted)
  <2> HIDE DEF kept, wanted
  <2> QED BY <1>8, <1>11, <1>12, <1>15, EmbedsInBoth
<1>17. Len(kept) <= Len(first)
  <2> HIDE DEF kept
  <2> QED BY <1>10, <1>11, EmbeddedIsSmaller
<1>18. Len(r) <= limit
  <2> HIDE DEF kept, limit
  <2> QED BY <1>1, <1>10, <1>11, <1>12, <1>17
<1>19. ASSUME Len(all) <= limit PROVE Len(kept) = Len(wanted)
  <2>1. first = all
    BY <1>10, <1>19
  <2>2. CASE ~plan.wave
    <3>1. kept = all
      BY <2>1, <2>2
    <3>2. wanted = all
      BY <1>1, <2>2
    <3> QED BY <3>1, <3>2
  <2>3. CASE plan.wave
    <3> DEFINE W == WithWave(index0, first)
    <3>1. kept = Accepted(all, W)
      BY <2>1, <2>3 DEF KeepWithWave
    <3>2. Embeds(wanted, all)
      <4>1. \A i \in 1 .. Len(wanted) : wanted[i] \in S(FALSE)
        BY <1>7, <1>9
      <4> HIDE DEF wanted, marks
      <4> QED BY <1>2, <1>8, <4>1, EmbedsInAccepted
    <3> HIDE DEF kept, wanted, all
    <3>3. ASSUME NEW i \in 1 .. Len(wanted) PROVE wanted[i] \in W
      <4>1. PICK q : Places(wanted, all, q)
        BY <3>2 DEF Embeds
      <4>2. q[i] \in 1 .. Len(all) /\ wanted[i] = all[q[i]]
        BY <4>1 DEF Places
      <4>3. wanted[i] \in ToSet(first)
        BY <1>8, <2>1, <4>2 DEF ToSet
      <4>4. HasWave(index0, wanted[i])
        BY <1>7, <1>9, <2>3
      <4> QED BY <4>3, <4>4 DEF WithWave
    <3> HIDE DEF W
    <3>4. Embeds(wanted, kept)
      BY <1>8, <3>1, <3>2, <3>3, EmbedsInAccepted
    <3>5. Len(wanted) <= Len(kept) /\ Len(kept) <= Len(wanted)
      BY <1>8, <1>11, <1>15, <3>4, EmbeddedIsSmaller
    <3>6. Len(wanted) \in Nat /\ Len(kept) \in Nat
      BY <1>8, <1>11
    <3> QED BY <3>5, <3>6
  <2> QED BY <2>2, <2>3
<1> HIDE DEF all, wanted, kept, limit
<1>20. Len(all) <= limit => Len(r) = Len(wanted)
  BY <1>12, <1>19
<1> QED BY <1>3, <1>8, <1>12, <1>16, <1>18, <1>20 DEF limit

(* A query plan answers at most as many markers as its limit, sorted as it *)
(* asks, none that its filter does not ask for or, with require_wave, that *)
(* has no wave, none more often than the table has it, and all of them if  *)
(* no more markers than the limit pass the filter; given unique window ids *)
(* and that no store of the build missed its map (rv_query_execute).       *)
THEOREM QueryResultsSound == Spec => QueryResultIsSound
<1> DEFINE A == reply'.call = "run_query" /\ reply'.ok /\ UniqueIds(Windows) /\ StoresHit(Tabled) =>
                  LET plan == reply'.arg
                      wanted == Wanted(plan.filter, plan.wave)
                  IN  /\ Len(reply'.answer) <= LimitOf(plan)
                      /\ InOrder(reply'.answer, plan.by)
                      /\ \A i \in DOMAIN reply'.answer :
                           Times(reply'.answer, reply'.answer[i]) <= Times(wanted, reply'.answer[i])
                      /\ Len(Wanted(plan.filter, FALSE)) <= LimitOf(plan) =>
                           Len(reply'.answer) = Len(wanted)
<1>1. ASSUME SessionInv, Next, reply'.call = "run_query", reply'.ok,
             UniqueIds(Windows), StoresHit(Tabled)
      PROVE  A
  <2>1. PICK grants \in Grants, plan \in AnyPlan : rv_session_run_query(plan, grants)
    BY <1>1, RepliesByName
  <2> DEFINE e == Ensure(used, index, index_ready, grants)
             markers == Take(e, InfoSize * LimitOf(plan), 8)
             windows == Len(e.index.nodes["windows"])
             w == Take(markers, 4 * (IF windows = 0 THEN 1 ELSE windows), 4)
  <2>2. e \in Work /\ (e.ok => IsWhole(e.index, Tabled))
    BY <1>1, GrantsAssumption, EnsureWorks
  <2>3. w.ok => e.ok
    BY <2>2, QueryTakes
  <2>4. IF w.ok THEN \E answer \in Executed(e.index, plan) : Answers("run_query", plan, TRUE, answer)
        ELSE Answers("run_query", plan, FALSE, << >>)
    BY <2>1 DEF rv_session_run_query
  <2> HIDE DEF w, e
  <2>5. /\ e.ok /\ reply'.arg = plan /\ reply'.answer \in Executed(e.index, plan)
    BY <1>1, <2>3, <2>4 DEF Answers
  <2>6. plan \in QueryPlan /\ Tabled \in Tables /\ IsWhole(e.index, Tabled)
    BY <1>1, <2>2, <2>5, FilterAssumption, TabledType
  <2> DEFINE r == reply'.answer
             wanted == Wanted(plan.filter, plan.wave)
  <2> HIDE DEF r, wanted
  <2>7. /\ r \in Seq(MarkRow) /\ Len(r) <= LimitOf(plan) /\ InOrder(r, plan.by)
        /\ wanted \in Seq(MarkRow) /\ Embeds(r, wanted)
        /\ Len(Wanted(plan.filter, FALSE)) <= LimitOf(plan) => Len(r) = Len(wanted)
    BY <1>1, <2>5, <2>6, ExecutedAnswers DEF r, wanted
  <2>8. \A m : Times(r, m) <= Times(wanted, m)
    BY <2>7, EmbeddedIsSmaller
  <2> QED BY <2>5, <2>7, <2>8 DEF r, wanted
<1>2. SessionInv /\ [Next]_vars => [A]_vars
  <2> SUFFICES ASSUME SessionInv, Next PROVE A
    OBVIOUS
  <2>1. CASE reply'.call = "run_query" /\ reply'.ok /\ UniqueIds(Windows) /\ StoresHit(Tabled)
    BY <1>1, <2>1
  <2>2. CASE ~(reply'.call = "run_query" /\ reply'.ok /\ UniqueIds(Windows) /\ StoresHit(Tabled))
    BY <2>2
  <2> QED BY <2>1, <2>2
<1> HIDE DEF A
<1>3. Spec => [][A]_vars
  BY <1>2, AlwaysSessionInv, PTL DEF Spec
<1> QED BY <1>3, PTL DEF A, QueryResultIsSound

-----------------------------------------------------------------------------
(***************************************************************************)
(* Names.                                                                  *)
(***************************************************************************)
(* The hash table has room for more than all names.                        *)
LEMMA BucketsSuffice ==
  ASSUME NEW count \in Nat
  PROVE  Buckets(count) \in Nat /\ Buckets(count) > count
<1> DEFINE sizes == {Doubled[k] : k \in 0 .. count + LeastBuckets}
           large == {n \in sizes : n >= 2 * count + LeastBuckets}
<1>1. LeastBuckets \in Nat \ {0}
  BY HashAssumption
<1>2. /\ \A k \in Nat : Doubled[k] \in Nat \ {0}
      /\ Doubled[LeastBuckets + count] >= 2 * count + LeastBuckets
  BY <1>1, DoubledGrows
<1>3. sizes \in SUBSET Nat
  BY <1>1, <1>2
<1>4. Doubled[LeastBuckets + count] \in sizes
  <2>1. LeastBuckets + count \in 0 .. count + LeastBuckets
    BY <1>1
  <2> QED BY <2>1
<1> HIDE DEF sizes
<1>5. large \in SUBSET Nat /\ large # {}
  BY <1>2, <1>3, <1>4
<1>6. Min(large) \in large
  <2> HIDE DEF large
  <2> QED BY <1>5, MinIsMember
<1>7. Min(large) \in Nat /\ Min(large) >= 2 * count + LeastBuckets
  BY <1>3, <1>6
<1>8. Buckets(count) = Min(large)
  BY DEF Buckets, sizes
<1> HIDE DEF large
<1> QED BY <1>1, <1>7, <1>8

(* A search tries every bucket.                                            *)
LEMMA ProbesReach ==
  ASSUME NEW size \in Nat \ {0}, NEW str \in Name
  PROVE  /\ \A k \in 0 .. size - 1 : Probe(size, str, k) \in 0 .. size - 1
         /\ \A x \in 0 .. size - 1 : \E k \in 0 .. size - 1 : Probe(size, str, k) = x
<1> DEFINE h == Hash[str]
           r == h % size
           d == h \div size
<1>1. h \in Nat
  BY HashAssumption
<1> HIDE DEF h
<1>2. r \in 0 .. size - 1 /\ d \in Nat /\ h = (size * d) + r
  BY <1>1
<1>3. ASSUME NEW k \in 0 .. size - 1 PROVE Probe(size, str, k) \in 0 .. size - 1
  <2>1. h + k \in Nat
    BY <1>1
  <2>2. (h + k) % size \in 0 .. size - 1
    BY <2>1
  <2> QED BY <2>2 DEF Probe, h
<1>4. ASSUME NEW x \in 0 .. size - 1
      PROVE  \E k \in 0 .. size - 1 : Probe(size, str, k) = x
  <2> HIDE DEF r, d
  <2>1. CASE x >= r
    <3>1. x - r \in 0 .. size - 1
      BY <1>2, <2>1
    <3>2. h + (x - r) = (size * d) + x
      BY <1>2, <2>1
    <3>3. ((size * d) + x) % size = x
      BY <1>2
    <3>4. Probe(size, str, x - r) = x
      BY <3>2, <3>3 DEF Probe, h
    <3> QED BY <3>1, <3>4
  <2>2. CASE x < r
    <3>1. (x + size) - r \in 0 .. size - 1
      BY <1>2, <2>2
    <3>2. h + ((x + size) - r) = (size * (d + 1)) + x
      <4>1. size * (d + 1) = (size * d) + size
        BY <1>2
      <4> QED BY <1>2, <4>1
    <3>3. d + 1 \in Nat
      BY <1>2
    <3>4. ((size * (d + 1)) + x) % size = x
      <4> DEFINE e == d + 1
      <4>1. e \in Nat
        BY <3>3
      <4> HIDE DEF e
      <4>2. ((size * e) + x) % size = x
        BY <4>1
      <4> QED BY <4>2 DEF e
    <3>5. Probe(size, str, (x + size) - r) = x
      BY <3>2, <3>4 DEF Probe, h
    <3> QED BY <3>1, <3>5
  <2> QED BY <1>2, <2>1, <2>2
<1> QED BY <1>3, <1>4

(* The hash table after k names: each of them is found by its probes       *)
(* before any free bucket.                                                 *)
Hashed(bucket, size, names, k) ==
  /\ bucket \in [0 .. size - 1 -> 0 .. k]
  /\ \A x, y \in 0 .. size - 1 : bucket[x] = bucket[y] /\ bucket[x] # 0 => x = y
  /\ \A i \in 1 .. k : \E p \in 0 .. size - 1 :
       /\ bucket[Probe(size, names[i].str, p)] = i
       /\ \A q \in 0 .. size - 1 : q < p => bucket[Probe(size, names[i].str, q)] # 0

(* A bucket is free as long as there are more buckets than names.          *)
LEMMA FreeBucket ==
  ASSUME NEW size \in Nat, NEW k \in Nat, k < size, NEW names, NEW bucket,
         Hashed(bucket, size, names, k)
  PROVE  \E x \in 0 .. size - 1 : bucket[x] = 0
<1> SUFFICES ASSUME \A x \in 0 .. size - 1 : bucket[x] # 0 PROVE FALSE
  OBVIOUS
<1>1. \A x \in 0 .. size - 1 : bucket[x] \in 1 .. k
  BY DEF Hashed
<1>2. bucket \in [0 .. size - 1 -> 1 .. k]
  BY <1>1 DEF Hashed
<1>3. bucket \in Injection(0 .. size - 1, 1 .. k)
  <2>1. \A x, y \in 0 .. size - 1 : bucket[x] = bucket[y] => x = y
    BY DEF Hashed
  <2> QED BY <1>2, <2>1, Fun_IsInj
<1>4. IsFiniteSet(1 .. k) /\ Cardinality(1 .. k) = k
  <2>1. 1 \in Int /\ k \in Int
    OBVIOUS
  <2>2. IsFiniteSet(1 .. k) /\ Cardinality(1 .. k) = IF 1 > k THEN 0 ELSE k - 1 + 1
    BY <2>1, FS_Interval
  <2> QED BY <2>2
<1>5. Cardinality(0 .. size - 1) = size
  <2>1. 0 \in Int /\ size - 1 \in Int
    OBVIOUS
  <2>2. Cardinality(0 .. size - 1) = IF 0 > size - 1 THEN 0 ELSE (size - 1) - 0 + 1
    BY <2>1, FS_Interval
  <2> QED BY <2>2
<1>6. Cardinality(0 .. size - 1) <= Cardinality(1 .. k)
  BY <1>3, <1>4, FS_Injection
<1> QED BY <1>4, <1>5, <1>6

(* The next name takes the first free bucket of its probes.                *)
LEMMA InsertKeeps ==
  ASSUME NEW names \in Seq(NameRow), NEW size \in Nat \ {0}, NEW k \in 1 .. Len(names),
         Len(names) < size, NEW bucket, Hashed(bucket, size, names, k - 1)
  PROVE  Hashed(Insert(bucket, size, names, k), size, names, k)
<1> DEFINE str == names[k].str
           free == {j \in 0 .. size - 1 : bucket[Probe(size, str, j)] = 0}
           p == Min(free)
           at == Probe(size, str, p)
           b == [bucket EXCEPT ![at] = k]
<1>1. k \in Nat /\ k - 1 \in Nat /\ k - 1 < size /\ Len(names) \in Nat
  OBVIOUS
<1>2. \A i \in 1 .. k : names[i].str \in Name
  <2>1. \A i \in 1 .. k : names[i] \in NameRow
    OBVIOUS
  <2>2. \A row \in NameRow : row.str \in Name
    BY DEF NameRow
  <2> QED BY <2>1, <2>2
<1>3. str \in Name
  BY <1>2
<1>4. PICK x \in 0 .. size - 1 : bucket[x] = 0
  BY <1>1, FreeBucket
<1>5. PICK j \in 0 .. size - 1 : Probe(size, str, j) = x
  <2> HIDE DEF str
  <2> QED BY <1>3, ProbesReach
<1>6. free \in SUBSET Nat /\ free # {}
  BY <1>4, <1>5
<1>7. p \in free /\ \A i \in free : p <= i
  <2> HIDE DEF free
  <2> QED BY <1>6, MinIsMember
<1>8. /\ p \in 0 .. size - 1 /\ bucket[at] = 0
      /\ \A q \in 0 .. size - 1 : q < p => bucket[Probe(size, str, q)] # 0
  <2>1. p \in 0 .. size - 1 /\ bucket[at] = 0
    BY <1>7
  <2>2. ASSUME NEW q \in 0 .. size - 1, q < p PROVE bucket[Probe(size, str, q)] # 0
    <3>1. q \notin free
      <4> HIDE DEF free, p
      <4>1. p \in Nat
        BY <1>6, <1>7
      <4> QED BY <1>7, <2>2, <4>1
    <3> QED BY <3>1
  <2> QED BY <2>1, <2>2
<1>9. at \in 0 .. size - 1
  <2> HIDE DEF str, p
  <2> QED BY <1>3, <1>8, ProbesReach
<1>10. Insert(bucket, size, names, k) = b
  BY DEF Insert
<1> HIDE DEF free, p, at
<1>11. b \in [0 .. size - 1 -> 0 .. k] /\ b[at] = k
       /\ \A y \in 0 .. size - 1 : y # at => b[y] = bucket[y]
  <2>1. \A y \in 0 .. size - 1 : bucket[y] \in 0 .. k
    BY DEF Hashed
  <2> QED BY <1>1, <1>9, <2>1 DEF Hashed
<1>12. \A y \in 0 .. size - 1 : bucket[y] # k
  BY DEF Hashed
<1> HIDE DEF b
<1>13. \A y, z \in 0 .. size - 1 : b[y] = b[z] /\ b[y] # 0 => y = z
  <2>1. \A y, z \in 0 .. size - 1 : bucket[y] = bucket[z] /\ bucket[y] # 0 => y = z
    BY DEF Hashed
  <2> TAKE y, z \in 0 .. size - 1
  <2>2. CASE y # at /\ z # at
    BY <1>11, <2>1, <2>2
  <2>3. CASE y = at \/ z = at
    BY <1>11, <1>12, <2>3
  <2> QED BY <2>2, <2>3
<1>14. \A y \in 0 .. size - 1 : bucket[y] # 0 => b[y] = bucket[y] /\ b[y] # 0
  BY <1>8, <1>11
<1>15. ASSUME NEW i \in 1 .. k
       PROVE  \E r \in 0 .. size - 1 :
                /\ b[Probe(size, names[i].str, r)] = i
                /\ \A q \in 0 .. size - 1 : q < r => b[Probe(size, names[i].str, q)] # 0
  <2>1. \A q \in 0 .. size - 1 : Probe(size, names[i].str, q) \in 0 .. size - 1
    BY <1>2, ProbesReach
  <2>2. CASE i = k
    <3>1. b[Probe(size, names[i].str, p)] = i
      BY <1>11, <2>2 DEF at
    <3>2. \A q \in 0 .. size - 1 : q < p => b[Probe(size, names[i].str, q)] # 0
      BY <1>8, <1>14, <2>1, <2>2
    <3> QED BY <1>8, <3>1, <3>2
  <2>3. CASE i # k
    <3>1. i \in 1 .. k - 1 /\ i # 0
      BY <2>3
    <3>2. PICK r \in 0 .. size - 1 :
            /\ bucket[Probe(size, names[i].str, r)] = i
            /\ \A q \in 0 .. size - 1 : q < r => bucket[Probe(size, names[i].str, q)] # 0
      BY <3>1 DEF Hashed
    <3>3. b[Probe(size, names[i].str, r)] = i
      BY <1>14, <2>1, <3>1, <3>2
    <3>4. \A q \in 0 .. size - 1 : q < r => b[Probe(size, names[i].str, q)] # 0
      BY <1>14, <2>1, <3>2
    <3> QED BY <3>3, <3>4
  <2> QED BY <2>2, <2>3
<1>16. Hashed(b, size, names, k)
  BY <1>11, <1>13, <1>15 DEF Hashed
<1> QED BY <1>10, <1>16

(* Building the table inserts the names one after the other.               *)
LEMMA BucketsHashed ==
  ASSUME NEW names \in Seq(NameRow)
  PROVE  Hashed(BucketsOf(names), Buckets(Len(names)), names, Len(names))
<1> DEFINE n == Len(names)
           size == Buckets(Len(names))
           V == [0 .. size - 1 -> 0 .. n]
           start == [b \in 0 .. size - 1 |-> 0]
           positions == [i \in DOMAIN names |-> i]
           op(v, i) == Insert(v, size, names, i)
           H == [p \in V \X (1 .. n) |-> op(p[1], p[2])]
           eq(f) == [s \in SUBSET (1 .. n) |->
                       IF s = {} THEN start ELSE op(f[s \ {Max(s)}], positions[Max(s)])]
           iter == CHOOSE f : f = eq(f)
           P == [k \in 0 .. n |-> {v \in V : Hashed(v, size, names, k)}]
<1>1. n \in Nat /\ DOMAIN names = 1 .. n /\ DOMAIN positions = 1 .. n
  OBVIOUS
<1>2. size \in Nat \ {0} /\ n < size
  BY <1>1, BucketsSuffice
<1>3. start \in V
  <2>1. 0 \in 0 .. n
    BY <1>1
  <2> HIDE DEF n, size
  <2> QED BY <2>1
<1>4. \A v \in V, k \in 1 .. n : op(v, k) \in V
  <2> TAKE v \in V, k \in 1 .. n
  <2>1. k \in 0 .. n
    BY <1>1
  <2> HIDE DEF size, n
  <2> QED BY <2>1 DEF Insert
<1>5. \A v \in V, k \in 1 .. n :
        Hashed(v, size, names, k - 1) => Hashed(op(v, k), size, names, k)
  <2> HIDE DEF size
  <2> QED BY <1>2, InsertKeeps
<1>6. H \in [V \X (1 .. n) -> V] /\ \A v \in V, k \in 1 .. n : H[<<v, k>>] = op(v, k)
  <2> HIDE DEF op, V, n
  <2>1. \A p \in V \X (1 .. n) : op(p[1], p[2]) \in V
    BY <1>4
  <2> QED BY <2>1
<1>7. \A s \in SUBSET (1 .. n) : s # {} => Max(s) \in 1 .. n
  BY <1>1, MaxIsPosition
<1>8. PICK f \in [SUBSET (1 .. n) -> V] : Solves(f, n, start, H)
  <2> HIDE DEF H, n, start, V
  <2> QED BY <1>1, <1>3, <1>6, FoldExists
<1>9. \A s \in SUBSET (1 .. n) : s # {} => positions[Max(s)] = Max(s) /\ s \ {Max(s)} \in SUBSET (1 .. n)
  BY <1>1, <1>7
<1>10. f = eq(f)
  <2>1. \A s \in SUBSET (1 .. n) :
          f[s] = IF s = {} THEN start ELSE op(f[s \ {Max(s)}], positions[Max(s)])
    <3> HIDE DEF H, op, positions, start, n, V
    <3> TAKE s \in SUBSET (1 .. n)
    <3>1. f[s] = IF s = {} THEN start ELSE H[<<f[s \ {Max(s)}], Max(s)>>]
      BY <1>8 DEF Solves
    <3>2. s # {} => f[s \ {Max(s)}] \in V /\ Max(s) \in 1 .. n /\ positions[Max(s)] = Max(s)
      BY <1>7, <1>8, <1>9
    <3>3. s # {} => H[<<f[s \ {Max(s)}], Max(s)>>] = op(f[s \ {Max(s)}], Max(s))
      BY <1>6, <3>2
    <3> QED BY <3>1, <3>2, <3>3
  <2> HIDE DEF op, positions, start, n, V
  <2> QED BY <1>8, <2>1
<1>11. iter = eq(iter)
  <2> HIDE DEF eq
  <2> QED BY <1>10
<1>12. Follows(iter, n, V, start, H)
  <2>1. \A s \in SUBSET (1 .. n) :
          iter[s] = IF s = {} THEN start ELSE op(iter[s \ {Max(s)}], positions[Max(s)])
    <3> DEFINE g == iter
    <3>1. g = eq(g)
      BY <1>11
    <3> HIDE DEF g, op, positions, start, n
    <3>2. \A s \in SUBSET (1 .. n) :
            g[s] = IF s = {} THEN start ELSE op(g[s \ {Max(s)}], positions[Max(s)])
      BY <3>1
    <3> QED BY <3>2 DEF g
  <2> HIDE DEF iter, H, op, positions, start, n, V
  <2> QED BY <1>6, <1>7, <1>9, <2>1 DEF Follows
<1>13. start \in P[0]
  <2>1. 0 \in 0 .. n
    BY <1>1
  <2>2. Hashed(start, size, names, 0)
    <3> HIDE DEF size, n
    <3> QED BY DEF Hashed
  <2> HIDE DEF start, V, size, n
  <2> QED BY <1>3, <2>1, <2>2
<1>14. \A k \in 1 .. n, v \in V : v \in P[k - 1] => H[<<v, k>>] \in P[k]
  <2>1. \A k \in 1 .. n : k \in 0 .. n /\ k - 1 \in 0 .. n
    BY <1>1
  <2> HIDE DEF op, H, n, V, size
  <2> QED BY <1>4, <1>5, <1>6, <2>1
<1>15. iter[1 .. n] \in P[n]
  <2> HIDE DEF iter, H, P, start, n, V, op
  <2> QED BY <1>1, <1>3, <1>6, <1>12, <1>13, <1>14, FoldReaches
<1>16. BucketsOf(names) = iter[1 .. n]
  <2> HIDE DEF size
  <2> QED BY <1>1 DEF BucketsOf, FoldLeft, MapThenFoldSet, size
<1>17. n \in 0 .. n
  BY <1>1
<1> HIDE DEF iter
<1> QED BY <1>15, <1>16, <1>17

(* A search finds a row of the string if there is one, and nothing         *)
(* otherwise.                                                              *)
LEMMA SearchFinds ==
  ASSUME NEW names \in Seq(NameRow), NEW str \in Name, NEW c, c = FindString(names, str)
  PROVE  /\ c \in 0 .. Len(names)
         /\ c # 0 => names[c].str = str
         /\ c # 0 <=> str \in {names[i].str : i \in DOMAIN names}
<1> DEFINE n == Len(names)
           bucket == BucketsOf(names)
           size == Buckets(Len(names))
           at(k) == bucket[Probe(size, str, k)]
           ends == {k \in 0 .. size - 1 : at(k) = 0 \/ names[at(k)].str = str}
           m == Min(ends)
<1>1. n \in Nat /\ DOMAIN names = 1 .. n
  OBVIOUS
<1>2. size \in Nat \ {0} /\ n < size
  BY <1>1, BucketsSuffice
<1>3. Hashed(bucket, size, names, n)
  BY BucketsHashed
<1>4. c = IF ends = {} THEN 0 ELSE at(m)
  BY DEF FindString
<1> HIDE DEF bucket, size
<1>5. \A k \in 0 .. size - 1 : at(k) \in 0 .. n
  BY <1>2, <1>3, ProbesReach DEF Hashed
<1>6. ends # {}
  <2>1. PICK x \in 0 .. size - 1 : bucket[x] = 0
    <3> HIDE DEF n
    <3> QED BY <1>1, <1>2, <1>3, FreeBucket
  <2>2. PICK k \in 0 .. size - 1 : Probe(size, str, k) = x
    BY <1>2, ProbesReach
  <2> QED BY <2>1, <2>2
<1>7. m \in ends /\ \A k \in ends : m <= k
  <2>1. ends \in SUBSET Nat
    BY <1>2
  <2> HIDE DEF ends
  <2> QED BY <1>6, <2>1, MinIsMember
<1>8. /\ m \in 0 .. size - 1 /\ c = at(m) /\ c \in 0 .. n
      /\ c # 0 => names[c].str = str
  <2>1. m \in 0 .. size - 1 /\ (at(m) = 0 \/ names[at(m)].str = str)
    BY <1>7
  <2> HIDE DEF m
  <2> QED BY <1>4, <1>5, <1>6, <2>1
<1>9. ASSUME NEW i \in 1 .. n, names[i].str = str PROVE c # 0
  <2>1. PICK p \in 0 .. size - 1 :
          at(p) = i /\ \A q \in 0 .. size - 1 : q < p => at(q) # 0
    BY <1>3, <1>9 DEF Hashed
  <2>2. p \in ends
    BY <1>9, <2>1
  <2>3. m <= p
    BY <1>7, <2>2
  <2> HIDE DEF m, ends
  <2>4. m = p \/ m < p
    BY <1>2, <1>8, <2>3
  <2> QED BY <1>8, <2>1, <2>4
<1> QED BY <1>1, <1>8, <1>9

(* THEOREM: a name is found if and only if the package has it, and looking *)
(* up its id yields it again unless another row has that id                *)
(* (rv_dict_by_str, rv_dict_by_id, rv_decode_snam).                        *)
THEOREM NamesFound == Spec => NamesAreFound
<1> DEFINE names == Tabled.names
           A == reply'.call = "name_find" =>
                  /\ reply'.ok <=> reply'.arg \in {names[i].str : i \in DOMAIN names}
                  /\ reply'.ok /\ (\A i, j \in RowsOf(names, reply'.answer[1]) : i = j) =>
                       reply'.answer[2] = reply'.arg
<1>1. ASSUME SessionInv, Next, reply'.call = "name_find"
      PROVE  A
  <2>1. PICK str \in Name : rv_name_find(str)
    BY <1>1, RepliesByName
  <2> DEFINE k == FindString(names, str)
             id == names[k].id
             rows == RowsOf(names, id)
             first == Min(rows)
  <2>2. names \in Seq(NameRow)
    BY <1>1, TabledType DEF Tables
  <2>3. /\ reply'.arg = str /\ reply'.ok = (k # 0)
        /\ reply'.answer = IF k = 0 THEN << >> ELSE <<id, names[first].str>>
    BY <2>1 DEF rv_name_find, Answers
  <2> HIDE DEF names, k
  <2>4. /\ k \in 0 .. Len(names)
        /\ k # 0 => names[k].str = str
        /\ k # 0 <=> str \in {names[i].str : i \in DOMAIN names}
    BY <2>2, SearchFinds DEF k
  <2>5. ASSUME k # 0, \A i, j \in RowsOf(names, reply'.answer[1]) : i = j
        PROVE  reply'.answer[2] = reply'.arg
    <3>1. reply'.answer[1] = id /\ reply'.answer[2] = names[first].str
      BY <2>3, <2>5
    <3>2. k \in DOMAIN names /\ rows \in SUBSET Nat /\ k \in rows
      BY <2>2, <2>4, <2>5 DEF RowsOf
    <3> HIDE DEF rows
    <3>3. first \in rows
      BY <3>2, MinIsMember
    <3>4. first = k
      BY <2>5, <3>1, <3>2, <3>3 DEF rows
    <3> HIDE DEF first
    <3> QED BY <2>3, <2>4, <2>5, <3>1, <3>4
  <2> QED BY <2>3, <2>4, <2>5
<1>2. SessionInv /\ [Next]_vars => [A]_vars
  <2> HIDE DEF A
  <2>1. Next /\ SessionInv /\ reply'.call # "name_find" => A
    BY DEF A
  <2> QED BY <1>1, <2>1
<1> HIDE DEF A
<1>3. Spec => [][A]_vars
  BY <1>2, AlwaysSessionInv, PTL DEF Spec
<1> QED BY <1>3, PTL DEF A, NamesAreFound
=============================================================================
