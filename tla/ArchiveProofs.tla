---------------------------- MODULE ArchiveProofs ----------------------------
(***************************************************************************)
(* Proofs about Archive.                                                   *)
(***************************************************************************)
EXTENDS Archive, DataProofs, SequenceTheorems

-----------------------------------------------------------------------------
(***************************************************************************)
(* The rows that a client ever sees are narrower than their types say: ids *)
(* and the references that a merge biases have IdMod values, and no name   *)
(* has id 0 or is longer than a builder keeps.  A merge depends on it, so  *)
(* the invariant is about these rows.                                      *)
(***************************************************************************)
Id == {n \in Nat : n < IdMod}
Short == {s \in Name : Clip[s] = s}

NameRec   == [id : Nat \ {0}, str : Short]
RouteRec  == [id : Id, site : Nat, far : Nat, ok : BOOLEAN]
InstRec   == [id : Id, model : Nat, serial : Nat, wavelength : Nat]
CalibRec  == [id : Id, inst : Id]
WindowRec == [id : Id, route : Id, inst : Id, calib : Id, wave : Id, ok : BOOLEAN]
WaveRec   == [id : Id, window : Id, samples : Nat, ok : BOOLEAN]
MarkRec   == [id : Id, window : Id, label : Nat, kind : Nat, severity : Nat, distance : Int,
              loss : Int, ok : BOOLEAN]
LinkRec   == [id : Id, from_kind : Nat, from : Id, to_kind : Nat, to : Id]
NoteRec   == [id : Id, target_kind : Nat, target : Id, text : Nat]

RecOf == [names |-> NameRec, routes |-> RouteRec, insts |-> InstRec, calibs |-> CalibRec,
          windows |-> WindowRec, waves |-> WaveRec, marks |-> MarkRec, links |-> LinkRec,
          notes |-> NoteRec]

Parsed == [names : Seq(NameRec), routes : Seq(RouteRec), insts : Seq(InstRec),
           calibs : Seq(CalibRec), windows : Seq(WindowRec), waves : Seq(WaveRec),
           marks : Seq(MarkRec), links : Seq(LinkRec), notes : Seq(NoteRec),
           summ : SummRow \cup {NoSumm}]

Built == [names : Seq(NameRec), routes : Seq(RouteRec), insts : Seq(InstRec),
          calibs : Seq(CalibRec), windows : Seq(WindowRec), waves : Seq(WaveRec),
          marks : Seq(MarkRec), links : Seq(LinkRec), notes : Seq(NoteRec),
          next : Nat \ {0}, version : Nat]

USE DEF Id, Short


-----------------------------------------------------------------------------
(***************************************************************************)
(* The folds of the model, one lemma each: a fold whose step stays in V    *)
(* runs through members of V, one position after the other.                *)
(***************************************************************************)

(* AddRows adds one row after the other; r is the builder in between.      *)
RowsAdded(r, w, table, rows, last) ==
  /\ r[0] = w /\ r[Len(rows)] = last
  /\ \A k \in 1 .. Len(rows) : r[k] = AddRow(r[k - 1], table, rows[k])

(* Adding rows one by one runs through values of the same set.             *)
LEMMA AddRowsRun ==
  ASSUME NEW V, NEW w \in V, NEW table, NEW R, NEW rows \in Seq(R),
         \A v \in V, x \in R : AddRow(v, table, x) \in V
  PROVE  \E r \in [0 .. Len(rows) -> V] :
           RowsAdded(r, w, table, rows, AddRows(w, table, rows))
<1> DEFINE n == Len(rows)
           op(v, x) == AddRow(v, table, x)
           H == [p \in V \X (1 .. n) |-> op(p[1], rows[p[2]])]
           eq(f) == [s \in SUBSET (1 .. n) |->
                       IF s = {} THEN w ELSE op(f[s \ {Max(s)}], rows[Max(s)])]
           iter == CHOOSE f : f = eq(f)
<1>1. n \in Nat /\ DOMAIN rows = 1 .. n /\ H \in [V \X (1 .. n) -> V]
  OBVIOUS
<1>2. \A s \in SUBSET (1 .. n) : s # {} => Max(s) \in 1 .. n
  <2> TAKE s \in SUBSET (1 .. n)
  <2>1. s \in SUBSET (0 .. n)
    BY <1>1
  <2> HIDE DEF n
  <2>2. s # {} => Max(s) \in s
    BY <1>1, <2>1, MaxIsMember
  <2> QED BY <2>2
<1>3. PICK f \in [SUBSET (1 .. n) -> V] : Solves(f, n, w, H)
  <2> HIDE DEF H, n
  <2> QED BY <1>1, FoldExists
<1>4. f = eq(f)
  BY <1>2, <1>3 DEF Solves
<1>5. iter = eq(iter)
  <2> HIDE DEF eq
  <2> QED BY <1>4
<1>6. Follows(iter, n, V, w, H)
  <2> HIDE DEF iter
  <2> QED BY <1>2, <1>5 DEF Follows
<1>7. AddRows(w, table, rows) = iter[1 .. n]
  BY <1>1 DEF AddRows, FoldLeft, MapThenFoldSet
<1>8. \A k \in 1 .. n, v \in V : H[<<v, k>>] = AddRow(v, table, rows[k])
  OBVIOUS
<1>9. PICK r \in [0 .. n -> V] : Runs(r, n, w, H, iter[1 .. n])
  <2> HIDE DEF H, n, iter
  <2> QED BY <1>1, <1>6, FoldPrefixes
<1>10. \A k \in 1 .. n : k - 1 \in 0 .. n
  BY <1>1
<1>11. \A k \in 1 .. n : r[k] = AddRow(r[k - 1], table, rows[k])
  <2> HIDE DEF H, n, iter
  <2> QED BY <1>8, <1>9, <1>10 DEF Runs
<1>12. r[0] = w /\ r[n] = AddRows(w, table, rows)
  <2> HIDE DEF H, n, iter
  <2> QED BY <1>7, <1>9 DEF Runs
<1>13. RowsAdded(r, w, table, rows, AddRows(w, table, rows))
  BY <1>11, <1>12 DEF RowsAdded
<1> QED BY <1>9, <1>13

(* AddEach adds rows of any tables.                                        *)
LEMMA AddEachStays ==
  ASSUME NEW V, NEW w \in V, NEW R, NEW rows \in Seq(R),
         \A v \in V, x \in R : AddRow(v, x[1], x[2]) \in V
  PROVE  AddEach(w, rows) \in V
<1> DEFINE n == Len(rows)
           op(v, x) == AddRow(v, x[1], x[2])
           H == [p \in V \X (1 .. n) |-> op(p[1], rows[p[2]])]
           eq(f) == [s \in SUBSET (1 .. n) |->
                       IF s = {} THEN w ELSE op(f[s \ {Max(s)}], rows[Max(s)])]
           iter == CHOOSE f : f = eq(f)
<1>1. n \in Nat /\ DOMAIN rows = 1 .. n /\ H \in [V \X (1 .. n) -> V]
  OBVIOUS
<1>2. \A s \in SUBSET (1 .. n) : s # {} => Max(s) \in 1 .. n
  BY <1>1, MaxIsPosition
<1>3. PICK f \in [SUBSET (1 .. n) -> V] : Solves(f, n, w, H)
  <2> HIDE DEF H, n
  <2> QED BY <1>1, FoldExists
<1>4. f = eq(f)
  BY <1>2, <1>3 DEF Solves
<1>5. iter = eq(iter)
  <2> HIDE DEF eq
  <2> QED BY <1>4
<1>6. Follows(iter, n, V, w, H)
  <2> HIDE DEF iter
  <2> QED BY <1>2, <1>5 DEF Follows
<1>7. AddEach(w, rows) = iter[1 .. n]
  BY <1>1 DEF AddEach, FoldLeft, MapThenFoldSet
<1>8. iter[1 .. n] \in V
  <2> HIDE DEF H, n, iter
  <2> QED BY <1>1, <1>6, FoldStays
<1> QED BY <1>7, <1>8

(* The names of a side are added one after the other.                      *)
MergedNames(w, rows) == FoldLeft(LAMBDA acc, r : AddName(acc, r.str).w, w, rows)

(* A fold of names keeps what one name keeps.                              *)
LEMMA NamesFoldStays ==
  ASSUME NEW V, NEW w \in V, NEW R, NEW rows \in Seq(R),
         \A v \in V, x \in R : AddName(v, x.str).w \in V
  PROVE  /\ MergedNames(w, rows) \in V
         /\ \A P : /\ w \in P[0]
                   /\ \A k \in 1 .. Len(rows), v \in V :
                        v \in P[k - 1] => AddName(v, rows[k].str).w \in P[k]
                   => MergedNames(w, rows) \in P[Len(rows)]
<1> DEFINE n == Len(rows)
           op(v, x) == AddName(v, x.str).w
           H == [p \in V \X (1 .. n) |-> op(p[1], rows[p[2]])]
           eq(f) == [s \in SUBSET (1 .. n) |->
                       IF s = {} THEN w ELSE op(f[s \ {Max(s)}], rows[Max(s)])]
           iter == CHOOSE f : f = eq(f)
<1>1. n \in Nat /\ DOMAIN rows = 1 .. n /\ H \in [V \X (1 .. n) -> V]
  OBVIOUS
<1>2. \A s \in SUBSET (1 .. n) : s # {} => Max(s) \in 1 .. n
  BY <1>1, MaxIsPosition
<1>3. PICK f \in [SUBSET (1 .. n) -> V] : Solves(f, n, w, H)
  <2> HIDE DEF H, n
  <2> QED BY <1>1, FoldExists
<1>4. f = eq(f)
  <2>1. \A s \in SUBSET (1 .. n) :
          f[s] = IF s = {} THEN w ELSE op(f[s \ {Max(s)}], rows[Max(s)])
    BY <1>2, <1>3 DEF Solves
  <2> HIDE DEF op
  <2> QED BY <1>3, <2>1
<1>5. iter = eq(iter)
  <2> HIDE DEF eq
  <2> QED BY <1>4
<1>6. Follows(iter, n, V, w, H)
  <2> HIDE DEF iter
  <2> QED BY <1>2, <1>5 DEF Follows
<1>7. MergedNames(w, rows) = iter[1 .. n]
  BY <1>1 DEF MergedNames, FoldLeft, MapThenFoldSet
<1>8. iter[1 .. n] \in V
  <2> HIDE DEF H, n, iter
  <2> QED BY <1>1, <1>6, FoldStays
<1>9. ASSUME NEW P, w \in P[0],
             \A k \in 1 .. n, v \in V : v \in P[k - 1] => AddName(v, rows[k].str).w \in P[k]
      PROVE  iter[1 .. n] \in P[n]
  <2>1. \A k \in 1 .. n, v \in V : H[<<v, k>>] = AddName(v, rows[k].str).w
    OBVIOUS
  <2> HIDE DEF H, n, iter
  <2>2. \A k \in 1 .. n, v \in V : v \in P[k - 1] => H[<<v, k>>] \in P[k]
    BY <1>9, <2>1
  <2> QED BY <1>1, <1>6, <1>9, <2>2, FoldReaches
<1> QED BY <1>7, <1>8, <1>9

(* Routes, ...                                                             *)
MergedRoutes(w, t, rows, bias) == FoldLeft(LAMBDA acc, r : MergeRoute(acc, t, r, bias), w, rows)

(* A fold of routes keeps what one route keeps.                            *)
LEMMA RoutesFoldStays ==
  ASSUME NEW V, NEW w \in V, NEW t, NEW bias, NEW R, NEW rows \in Seq(R),
         \A v \in V, x \in R : MergeRoute(v, t, x, bias) \in V
  PROVE  /\ MergedRoutes(w, t, rows, bias) \in V
         /\ \A P : /\ w \in P[0]
                   /\ \A k \in 1 .. Len(rows), v \in V :
                        v \in P[k - 1] => MergeRoute(v, t, rows[k], bias) \in P[k]
                   => MergedRoutes(w, t, rows, bias) \in P[Len(rows)]
<1> DEFINE n == Len(rows)
           op(v, x) == MergeRoute(v, t, x, bias)
           H == [p \in V \X (1 .. n) |-> op(p[1], rows[p[2]])]
           eq(f) == [s \in SUBSET (1 .. n) |->
                       IF s = {} THEN w ELSE op(f[s \ {Max(s)}], rows[Max(s)])]
           iter == CHOOSE f : f = eq(f)
<1>1. n \in Nat /\ DOMAIN rows = 1 .. n /\ H \in [V \X (1 .. n) -> V]
  OBVIOUS
<1>2. \A s \in SUBSET (1 .. n) : s # {} => Max(s) \in 1 .. n
  BY <1>1, MaxIsPosition
<1>3. PICK f \in [SUBSET (1 .. n) -> V] : Solves(f, n, w, H)
  <2> HIDE DEF H, n
  <2> QED BY <1>1, FoldExists
<1>4. f = eq(f)
  BY <1>2, <1>3 DEF Solves
<1>5. iter = eq(iter)
  <2> HIDE DEF eq
  <2> QED BY <1>4
<1>6. Follows(iter, n, V, w, H)
  <2> HIDE DEF iter
  <2> QED BY <1>2, <1>5 DEF Follows
<1>7. MergedRoutes(w, t, rows, bias) = iter[1 .. n]
  BY <1>1 DEF MergedRoutes, FoldLeft, MapThenFoldSet
<1>8. iter[1 .. n] \in V
  <2> HIDE DEF H, n, iter
  <2> QED BY <1>1, <1>6, FoldStays
<1>9. ASSUME NEW P, w \in P[0],
             \A k \in 1 .. n, v \in V : v \in P[k - 1] => MergeRoute(v, t, rows[k], bias) \in P[k]
      PROVE  iter[1 .. n] \in P[n]
  <2>1. \A k \in 1 .. n, v \in V : H[<<v, k>>] = MergeRoute(v, t, rows[k], bias)
    OBVIOUS
  <2> HIDE DEF H, n, iter
  <2>2. \A k \in 1 .. n, v \in V : v \in P[k - 1] => H[<<v, k>>] \in P[k]
    BY <1>9, <2>1
  <2> QED BY <1>1, <1>6, <1>9, <2>2, FoldReaches
<1> QED BY <1>7, <1>8, <1>9

(* ... instruments, ...                                                    *)
MergedInsts(w, t, rows, bias) == FoldLeft(LAMBDA acc, r : MergeInst(acc, t, r, bias), w, rows)

(* A fold of instruments keeps what one instrument keeps.                  *)
LEMMA InstsFoldStays ==
  ASSUME NEW V, NEW w \in V, NEW t, NEW bias, NEW R, NEW rows \in Seq(R),
         \A v \in V, x \in R : MergeInst(v, t, x, bias) \in V
  PROVE  /\ MergedInsts(w, t, rows, bias) \in V
         /\ \A P : /\ w \in P[0]
                   /\ \A k \in 1 .. Len(rows), v \in V :
                        v \in P[k - 1] => MergeInst(v, t, rows[k], bias) \in P[k]
                   => MergedInsts(w, t, rows, bias) \in P[Len(rows)]
<1> DEFINE n == Len(rows)
           op(v, x) == MergeInst(v, t, x, bias)
           H == [p \in V \X (1 .. n) |-> op(p[1], rows[p[2]])]
           eq(f) == [s \in SUBSET (1 .. n) |->
                       IF s = {} THEN w ELSE op(f[s \ {Max(s)}], rows[Max(s)])]
           iter == CHOOSE f : f = eq(f)
<1>1. n \in Nat /\ DOMAIN rows = 1 .. n /\ H \in [V \X (1 .. n) -> V]
  OBVIOUS
<1>2. \A s \in SUBSET (1 .. n) : s # {} => Max(s) \in 1 .. n
  BY <1>1, MaxIsPosition
<1>3. PICK f \in [SUBSET (1 .. n) -> V] : Solves(f, n, w, H)
  <2> HIDE DEF H, n
  <2> QED BY <1>1, FoldExists
<1>4. f = eq(f)
  BY <1>2, <1>3 DEF Solves
<1>5. iter = eq(iter)
  <2> HIDE DEF eq
  <2> QED BY <1>4
<1>6. Follows(iter, n, V, w, H)
  <2> HIDE DEF iter
  <2> QED BY <1>2, <1>5 DEF Follows
<1>7. MergedInsts(w, t, rows, bias) = iter[1 .. n]
  BY <1>1 DEF MergedInsts, FoldLeft, MapThenFoldSet
<1>8. iter[1 .. n] \in V
  <2> HIDE DEF H, n, iter
  <2> QED BY <1>1, <1>6, FoldStays
<1>9. ASSUME NEW P, w \in P[0],
             \A k \in 1 .. n, v \in V : v \in P[k - 1] => MergeInst(v, t, rows[k], bias) \in P[k]
      PROVE  iter[1 .. n] \in P[n]
  <2>1. \A k \in 1 .. n, v \in V : H[<<v, k>>] = MergeInst(v, t, rows[k], bias)
    OBVIOUS
  <2> HIDE DEF H, n, iter
  <2>2. \A k \in 1 .. n, v \in V : v \in P[k - 1] => H[<<v, k>>] \in P[k]
    BY <1>9, <2>1
  <2> QED BY <1>1, <1>6, <1>9, <2>2, FoldReaches
<1> QED BY <1>7, <1>8, <1>9

(* ... waves, ...                                                          *)
MergedWaves(w, rows, bias) == FoldLeft(LAMBDA acc, r : MergeWave(acc, r, bias), w, rows)

(* A fold of waves keeps what one wave keeps.                              *)
LEMMA WavesFoldStays ==
  ASSUME NEW V, NEW w \in V, NEW bias, NEW R, NEW rows \in Seq(R),
         \A v \in V, x \in R : MergeWave(v, x, bias) \in V
  PROVE  /\ MergedWaves(w, rows, bias) \in V
         /\ \A P : /\ w \in P[0]
                   /\ \A k \in 1 .. Len(rows), v \in V :
                        v \in P[k - 1] => MergeWave(v, rows[k], bias) \in P[k]
                   => MergedWaves(w, rows, bias) \in P[Len(rows)]
<1> DEFINE n == Len(rows)
           op(v, x) == MergeWave(v, x, bias)
           H == [p \in V \X (1 .. n) |-> op(p[1], rows[p[2]])]
           eq(f) == [s \in SUBSET (1 .. n) |->
                       IF s = {} THEN w ELSE op(f[s \ {Max(s)}], rows[Max(s)])]
           iter == CHOOSE f : f = eq(f)
<1>1. n \in Nat /\ DOMAIN rows = 1 .. n /\ H \in [V \X (1 .. n) -> V]
  OBVIOUS
<1>2. \A s \in SUBSET (1 .. n) : s # {} => Max(s) \in 1 .. n
  BY <1>1, MaxIsPosition
<1>3. PICK f \in [SUBSET (1 .. n) -> V] : Solves(f, n, w, H)
  <2> HIDE DEF H, n
  <2> QED BY <1>1, FoldExists
<1>4. f = eq(f)
  BY <1>2, <1>3 DEF Solves
<1>5. iter = eq(iter)
  <2> HIDE DEF eq
  <2> QED BY <1>4
<1>6. Follows(iter, n, V, w, H)
  <2> HIDE DEF iter
  <2> QED BY <1>2, <1>5 DEF Follows
<1>7. MergedWaves(w, rows, bias) = iter[1 .. n]
  BY <1>1 DEF MergedWaves, FoldLeft, MapThenFoldSet
<1>8. iter[1 .. n] \in V
  <2> HIDE DEF H, n, iter
  <2> QED BY <1>1, <1>6, FoldStays
<1>9. ASSUME NEW P, w \in P[0],
             \A k \in 1 .. n, v \in V : v \in P[k - 1] => MergeWave(v, rows[k], bias) \in P[k]
      PROVE  iter[1 .. n] \in P[n]
  <2>1. \A k \in 1 .. n, v \in V : H[<<v, k>>] = MergeWave(v, rows[k], bias)
    OBVIOUS
  <2> HIDE DEF H, n, iter
  <2>2. \A k \in 1 .. n, v \in V : v \in P[k - 1] => H[<<v, k>>] \in P[k]
    BY <1>9, <2>1
  <2> QED BY <1>1, <1>6, <1>9, <2>2, FoldReaches
<1> QED BY <1>7, <1>8, <1>9

(* ... markers, ...                                                        *)
MergedMarks(w, t, rows, opt, bias) == FoldLeft(LAMBDA acc, r : MergeMark(acc, t, r, opt, bias), w, rows)

(* A fold of markers keeps what one marker keeps.                          *)
LEMMA MarksFoldStays ==
  ASSUME NEW V, NEW w \in V, NEW t, NEW opt, NEW bias, NEW R, NEW rows \in Seq(R),
         \A v \in V, x \in R : MergeMark(v, t, x, opt, bias) \in V
  PROVE  /\ MergedMarks(w, t, rows, opt, bias) \in V
         /\ \A P : /\ w \in P[0]
                   /\ \A k \in 1 .. Len(rows), v \in V :
                        v \in P[k - 1] => MergeMark(v, t, rows[k], opt, bias) \in P[k]
                   => MergedMarks(w, t, rows, opt, bias) \in P[Len(rows)]
<1> DEFINE n == Len(rows)
           op(v, x) == MergeMark(v, t, x, opt, bias)
           H == [p \in V \X (1 .. n) |-> op(p[1], rows[p[2]])]
           eq(f) == [s \in SUBSET (1 .. n) |->
                       IF s = {} THEN w ELSE op(f[s \ {Max(s)}], rows[Max(s)])]
           iter == CHOOSE f : f = eq(f)
<1>1. n \in Nat /\ DOMAIN rows = 1 .. n /\ H \in [V \X (1 .. n) -> V]
  OBVIOUS
<1>2. \A s \in SUBSET (1 .. n) : s # {} => Max(s) \in 1 .. n
  BY <1>1, MaxIsPosition
<1>3. PICK f \in [SUBSET (1 .. n) -> V] : Solves(f, n, w, H)
  <2> HIDE DEF H, n
  <2> QED BY <1>1, FoldExists
<1>4. f = eq(f)
  BY <1>2, <1>3 DEF Solves
<1>5. iter = eq(iter)
  <2> HIDE DEF eq
  <2> QED BY <1>4
<1>6. Follows(iter, n, V, w, H)
  <2> HIDE DEF iter
  <2> QED BY <1>2, <1>5 DEF Follows
<1>7. MergedMarks(w, t, rows, opt, bias) = iter[1 .. n]
  BY <1>1 DEF MergedMarks, FoldLeft, MapThenFoldSet
<1>8. iter[1 .. n] \in V
  <2> HIDE DEF H, n, iter
  <2> QED BY <1>1, <1>6, FoldStays
<1>9. ASSUME NEW P, w \in P[0],
             \A k \in 1 .. n, v \in V : v \in P[k - 1] => MergeMark(v, t, rows[k], opt, bias) \in P[k]
      PROVE  iter[1 .. n] \in P[n]
  <2>1. \A k \in 1 .. n, v \in V : H[<<v, k>>] = MergeMark(v, t, rows[k], opt, bias)
    OBVIOUS
  <2> HIDE DEF H, n, iter
  <2>2. \A k \in 1 .. n, v \in V : v \in P[k - 1] => H[<<v, k>>] \in P[k]
    BY <1>9, <2>1
  <2> QED BY <1>1, <1>6, <1>9, <2>2, FoldReaches
<1> QED BY <1>7, <1>8, <1>9

(* ... and notes.                                                          *)
MergedNotes(w, t, rows, bias) == FoldLeft(LAMBDA acc, r : MergeNote(acc, t, r, bias), w, rows)

(* A fold of notes keeps what one note keeps.                              *)
LEMMA NotesFoldStays ==
  ASSUME NEW V, NEW w \in V, NEW t, NEW bias, NEW R, NEW rows \in Seq(R),
         \A v \in V, x \in R : MergeNote(v, t, x, bias) \in V
  PROVE  MergedNotes(w, t, rows, bias) \in V
<1> DEFINE n == Len(rows)
           op(v, x) == MergeNote(v, t, x, bias)
           H == [p \in V \X (1 .. n) |-> op(p[1], rows[p[2]])]
           eq(f) == [s \in SUBSET (1 .. n) |->
                       IF s = {} THEN w ELSE op(f[s \ {Max(s)}], rows[Max(s)])]
           iter == CHOOSE f : f = eq(f)
<1>1. n \in Nat /\ DOMAIN rows = 1 .. n /\ H \in [V \X (1 .. n) -> V]
  OBVIOUS
<1>2. \A s \in SUBSET (1 .. n) : s # {} => Max(s) \in 1 .. n
  BY <1>1, MaxIsPosition
<1>3. PICK f \in [SUBSET (1 .. n) -> V] : Solves(f, n, w, H)
  <2> HIDE DEF H, n
  <2> QED BY <1>1, FoldExists
<1>4. f = eq(f)
  BY <1>2, <1>3 DEF Solves
<1>5. iter = eq(iter)
  <2> HIDE DEF eq
  <2> QED BY <1>4
<1>6. Follows(iter, n, V, w, H)
  <2> HIDE DEF iter
  <2> QED BY <1>2, <1>5 DEF Follows
<1>7. MergedNotes(w, t, rows, bias) = iter[1 .. n]
  BY <1>1 DEF MergedNotes, FoldLeft, MapThenFoldSet
<1>8. iter[1 .. n] \in V
  <2> HIDE DEF H, n, iter
  <2> QED BY <1>1, <1>6, FoldStays
<1> QED BY <1>7, <1>8

-----------------------------------------------------------------------------
(***************************************************************************)
(* The builder.                                                            *)
(***************************************************************************)
Work == [b : Built, mem : Int, ok : BOOLEAN]

(* The names of a builder: ids count up, strings are cut and differ.       *)
Interned(b) ==
  /\ \A i \in DOMAIN b.names : b.names[i].id < b.next /\ Clip[b.names[i].str] = b.names[i].str
  /\ \A i, j \in DOMAIN b.names :
       b.names[i].str = b.names[j].str \/ b.names[i].id = b.names[j].id => i = j

(* v is w with the row added to the table, or as it was if that fails.     *)
Added(w, v, table, row) ==
  /\ v \in Work
  /\ \A other \in RowTables : other # table => v.b[other] = w.b[other]
  /\ v.b.next = w.b.next /\ v.b.version = w.b.version
  /\ v.ok => w.ok
  /\ v.b[table] = IF v.ok THEN Append(w.b[table], row) ELSE w.b[table]

(* A sequence with an element more.                                        *)
LEMMA AppendIsTyped ==
  ASSUME NEW S, NEW s \in Seq(S), NEW x \in S
  PROVE  Append(s, x) \in Seq(S)
OBVIOUS

(* A builder with other rows in one table, ...                             *)
Replaced(b, table, rows) == [b EXCEPT ![table] = rows]

(* A builder with one table replaced is a builder, and the rest of it is   *)
(* as it was.                                                              *)
LEMMA TableReplaced ==
  ASSUME NEW b \in Built, NEW table \in RowTables, NEW rows \in Seq(RecOf[table])
  PROVE  LET c == Replaced(b, table, rows)
         IN  /\ c \in Built /\ c[table] = rows
             /\ \A other \in RowTables : other # table => c[other] = b[other]
             /\ c.next = b.next /\ c.version = b.version
<1> DEFINE c == Replaced(b, table, rows)
<1> SUFFICES /\ c \in Built /\ c[table] = rows
             /\ \A other \in RowTables : other # table => c[other] = b[other]
             /\ c.next = b.next /\ c.version = b.version
  OBVIOUS
<1>0. c = [b EXCEPT ![table] = rows]
  BY DEF Replaced
<1> HIDE DEF c
<1>1. CASE table = "names"
  BY <1>0, <1>1 DEF Built, RowOf, RecOf, RowTables
<1>2. CASE table = "routes"
  BY <1>0, <1>2 DEF Built, RowOf, RecOf, RowTables
<1>3. CASE table = "insts"
  BY <1>0, <1>3 DEF Built, RowOf, RecOf, RowTables
<1>4. CASE table = "calibs"
  BY <1>0, <1>4 DEF Built, RowOf, RecOf, RowTables
<1>5. CASE table = "windows"
  BY <1>0, <1>5 DEF Built, RowOf, RecOf, RowTables
<1>6. CASE table = "waves"
  BY <1>0, <1>6 DEF Built, RowOf, RecOf, RowTables
<1>7. CASE table = "marks"
  BY <1>0, <1>7 DEF Built, RowOf, RecOf, RowTables
<1>8. CASE table = "links"
  BY <1>0, <1>8 DEF Built, RowOf, RecOf, RowTables
<1>9. CASE table = "notes"
  BY <1>0, <1>9 DEF Built, RowOf, RecOf, RowTables
<1> QED BY <1>1, <1>2, <1>3, <1>4, <1>5, <1>6, <1>7, <1>8, <1>9 DEF RowTables, RowOf, RecOf

(* ... with another number for the next name, ...                          *)
LEMMA NextReplaced ==
  ASSUME NEW b \in Built, NEW n \in Nat \ {0}, NEW c, c = [b EXCEPT !.next = n]
  PROVE  /\ c \in Built /\ \A table \in RowTables : c[table] = b[table]
         /\ c.next = n /\ c.version = b.version /\ c.names = b.names
<1>1. c \in Built /\ c.next = n /\ c.version = b.version /\ c.names = b.names
  BY DEF Built
<1>2. \A table \in RowTables : c[table] = b[table]
  BY DEF Built, RowTables, RowOf, RecOf
<1> QED BY <1>1, <1>2

(* ... and of another version.                                             *)
LEMMA VersionReplaced ==
  ASSUME NEW b \in Built, NEW n \in Nat, NEW c, c = [b EXCEPT !.version = n]
  PROVE  /\ c \in Built /\ \A table \in RowTables : c[table] = b[table]
         /\ c.next = b.next /\ c.version = n /\ c.names = b.names
<1>1. c \in Built /\ c.next = b.next /\ c.version = n /\ c.names = b.names
  BY DEF Built
<1>2. \A table \in RowTables : c[table] = b[table]
  BY DEF Built, RowTables, RowOf, RecOf
<1> QED BY <1>1, <1>2

(* The tables of a builder have rows of their kind.                        *)
LEMMA TableOfBuilder ==
  ASSUME NEW b \in Built, NEW table \in RowTables
  PROVE  b[table] \in Seq(RecOf[table])
BY DEF Built, RowOf, RecOf, RowTables

(* rv_builder_add_route and its like.                                      *)
LEMMA AddRowAdds ==
  ASSUME NEW w \in Work, NEW table \in RowTables, NEW row \in RecOf[table]
  PROVE  Added(w, AddRow(w, table, row), table, row)
<1> DEFINE full == ArrayIsFull(Len(w.b[table]))
           rows == Append(w.b[table], row)
           mem == IF full THEN w.mem - 1 ELSE w.mem
           b == Replaced(w.b, table, rows)
           v == AddRow(w, table, row)
<1> SUFFICES Added(w, v, table, row)
  OBVIOUS
<1> HIDE DEF v
<1>1. w.b \in Built /\ w.mem \in Int /\ w.ok \in BOOLEAN
  BY DEF Work
<1>2. CASE ~w.ok
  <2>1. v = w
    BY <1>2 DEF AddRow, v
  <2> QED BY <1>2, <2>1 DEF Added
<1>3. CASE w.ok /\ full /\ w.mem = 0
  <2>1. v = [w EXCEPT !.ok = FALSE]
    BY <1>3 DEF AddRow, v
  <2>2. v \in Work /\ v.b = w.b /\ ~v.ok
    BY <2>1 DEF Work
  <2> QED BY <2>2 DEF Added
<1>4. CASE w.ok /\ ~(full /\ w.mem = 0)
  <2>1. v = [w EXCEPT !.b[table] = rows, !.mem = mem]
    BY <1>4 DEF AddRow, v
  <2>2. mem \in Int
    BY <1>1
  <2>3. rows \in Seq(RecOf[table])
    BY <1>1, TableOfBuilder, AppendIsTyped
  <2>4. b = [w.b EXCEPT ![table] = rows]
    BY DEF Replaced
  <2> HIDE DEF rows, mem
  <2>5. v = [b |-> b, mem |-> mem, ok |-> w.ok]
    BY <2>1, <2>2, <2>4 DEF Work
  <2>6. /\ b \in Built /\ b[table] = rows /\ b.next = w.b.next /\ b.version = w.b.version
        /\ \A other \in RowTables : other # table => b[other] = w.b[other]
    BY <1>1, <2>3, TableReplaced
  <2> HIDE DEF b
  <2>7. v \in Work /\ v.b = b /\ v.ok
    BY <1>1, <1>4, <2>2, <2>5, <2>6 DEF Work
  <2> QED BY <1>4, <2>6, <2>7 DEF Added, rows
<1> QED BY <1>1, <1>2, <1>3, <1>4

(***************************************************************************)
(* v is w with the tables T changed, and all its names interned still.     *)
(***************************************************************************)
Keeps(w, v, T) ==
  /\ v \in Work /\ Interned(v.b)
  /\ v.b.version = w.b.version
  /\ \A other \in RowTables : other \notin T => v.b[other] = w.b[other]
  /\ v.ok => w.ok

(* Two calls in a row change the tables that either of them changes.       *)
LEMMA KeepsIsTransitive ==
  ASSUME NEW u, NEW v, NEW w, NEW S, NEW T, Keeps(u, v, S), Keeps(v, w, T)
  PROVE  Keeps(u, w, S \cup T)
BY DEF Keeps

(* A call may be said to change more tables than it does.                  *)
LEMMA KeepsIsMonotone ==
  ASSUME NEW v, NEW w, NEW S, NEW T, Keeps(v, w, S), S \subseteq T
  PROVE  Keeps(v, w, T)
BY DEF Keeps

(* A call that does nothing keeps a builder.                               *)
LEMMA KeepsItself ==
  ASSUME NEW w \in Work, Interned(w.b), NEW T
  PROVE  Keeps(w, w, T)
BY DEF Keeps

(* A row in any table but the names leaves the names as they are.          *)
LEMMA AddRowKeeps ==
  ASSUME NEW w \in Work, Interned(w.b),
         NEW table \in RowTables \ {"names"}, NEW row \in RecOf[table]
  PROVE  Keeps(w, AddRow(w, table, row), {table})
<1> DEFINE v == AddRow(w, table, row)
<1>1. Added(w, v, table, row)
  BY AddRowAdds
<1> HIDE DEF v
<1>2. v.b["names"] = w.b["names"] /\ v.b.next = w.b.next
  BY <1>1 DEF Added, RowTables, RowOf, RecOf
<1>3. w.b \in Built /\ v.b \in Built /\ v \in Work
  BY <1>1 DEF Added, Work
<1>4. v.b.names = w.b.names
  BY <1>2, <1>3 DEF Built
<1>5. Interned(v.b)
  BY <1>2, <1>4 DEF Interned
<1> QED BY <1>1, <1>5 DEF Keeps, Added, v

(* rv_builder_add_name.                                                    *)
LEMMA AddNameKeeps ==
  ASSUME NEW w \in Work, Interned(w.b), NEW str \in Name
  PROVE  Keeps(w, AddName(w, str).w, {"names"}) /\ AddName(w, str).id \in Nat
<1> DEFINE s == Clip[str]
           found == {i \in DOMAIN w.b.names : w.b.names[i].str = s}
           row == [id |-> w.b.next, str |-> s]
           added == AddRow(w, "names", row)
           more == [added EXCEPT !.b.next = @ + 1]
<1>1. /\ w.b \in Built /\ w.ok \in BOOLEAN /\ w.b.names \in Seq(NameRec) /\ w.b.next \in Nat \ {0}
      /\ s \in Name /\ Clip[s] = s
  BY ClipAssumption DEF Work, Built
<1>2. row \in NameRec /\ row.id = w.b.next /\ row.str = s
  BY <1>1 DEF NameRec
<1>3. "names" \in RowTables /\ RecOf["names"] = NameRec
  BY DEF RowTables, RowOf, RecOf
<1>4. Added(w, added, "names", row)
  <2> HIDE DEF row
  <2> QED BY <1>2, <1>3, AddRowAdds
<1>5. CASE ~w.ok
  BY <1>5, KeepsItself DEF AddName
<1>6. CASE w.ok /\ found # {}
  <2>1. found \in SUBSET Nat /\ \A i \in found : i \in DOMAIN w.b.names
    BY <1>1
  <2>2. Min(found) \in DOMAIN w.b.names
    <3> HIDE DEF found
    <3> QED BY <1>6, <2>1, MinIsMember
  <2>3. w.b.names[Min(found)].id \in Nat
    <3> HIDE DEF found
    <3>1. w.b.names[Min(found)] \in NameRec
      BY <1>1, <2>2
    <3> QED BY <3>1 DEF NameRec
  <2>4. AddName(w, str) = [w |-> w, id |-> w.b.names[Min(found)].id]
    BY <1>6 DEF AddName
  <2> HIDE DEF found
  <2> QED BY <2>3, <2>4, KeepsItself
<1>7. CASE w.ok /\ found = {} /\ ~added.ok
  <2>1. AddName(w, str) = [w |-> added, id |-> 0]
    BY <1>7 DEF AddName
  <2> HIDE DEF added, row
  <2>2. /\ added \in Work /\ added.b.names = w.b.names /\ added.b.next = w.b.next
        /\ added.b.version = w.b.version
        /\ \A other \in RowTables : other # "names" => added.b[other] = w.b[other]
    BY <1>4, <1>7 DEF Added
  <2>3. Keeps(w, added, {"names"})
    BY <1>7, <2>2 DEF Keeps, Interned
  <2> QED BY <2>1, <2>3
<1>8. CASE w.ok /\ found = {} /\ added.ok
  <2>1. AddName(w, str) = [w |-> more, id |-> w.b.next]
    BY <1>8 DEF AddName
  <2> HIDE DEF added, row
  <2>2. /\ added \in Work /\ added.b.names = Append(w.b.names, row) /\ added.b.next = w.b.next
        /\ added.b.version = w.b.version
        /\ \A other \in RowTables : other # "names" => added.b[other] = w.b[other]
    BY <1>4, <1>8 DEF Added
  <2>3. added.b \in Built /\ added.ok \in BOOLEAN /\ added.mem \in Int
    BY <2>2 DEF Work
  <2> DEFINE next == w.b.next + 1
             b == [added.b EXCEPT !.next = next]
  <2>4. next \in Nat \ {0} /\ b = [added.b EXCEPT !.next = next] /\ added.b.next + 1 = next
    BY <1>1, <2>2
  <2> HIDE DEF next
  <2>5. more = [b |-> b, mem |-> added.mem, ok |-> added.ok]
    BY <2>2, <2>4 DEF Work
  <2> HIDE DEF more, b
  <2>6. /\ b \in Built /\ b.names = added.b.names /\ b.next = next
        /\ b.version = added.b.version
        /\ \A other \in RowTables : b[other] = added.b[other]
    BY <2>3, <2>4, NextReplaced
  <2>7. more \in Work /\ more.b = b /\ more.ok
    BY <1>8, <2>3, <2>5, <2>6 DEF Work
  <2>8. Interned(b)
    <3>1. \A i \in DOMAIN b.names :
            \/ i \in DOMAIN w.b.names /\ b.names[i] = w.b.names[i]
            \/ i = Len(w.b.names) + 1 /\ b.names[i] = row
      BY <1>1, <2>2, <2>6
    <3>2. \A i \in DOMAIN w.b.names : w.b.names[i] \in NameRec
      BY <1>1
    <3>3. \A i \in DOMAIN w.b.names : /\ w.b.names[i].id < w.b.next /\ w.b.names[i].id \in Nat
                                       /\ w.b.names[i].str # s
      BY <1>8, <3>2 DEF Interned, NameRec
    <3>4. ASSUME NEW i \in DOMAIN b.names
          PROVE  b.names[i].id < b.next /\ Clip[b.names[i].str] = b.names[i].str
      BY <1>1, <1>2, <2>6, <3>1, <3>3 DEF Interned, next
    <3>5. ASSUME NEW i \in DOMAIN b.names, NEW j \in DOMAIN b.names,
                 b.names[i].str = b.names[j].str \/ b.names[i].id = b.names[j].id
          PROVE  i = j
      <4>1. CASE i \in DOMAIN w.b.names /\ j \in DOMAIN w.b.names
        BY <1>1, <3>1, <3>5, <4>1 DEF Interned
      <4>2. CASE ~(i \in DOMAIN w.b.names /\ j \in DOMAIN w.b.names)
        BY <1>1, <1>2, <3>1, <3>3, <3>5, <4>2
      <4> QED BY <4>1, <4>2
    <3> QED BY <3>4, <3>5 DEF Interned
  <2>9. Keeps(w, more, {"names"})
    BY <1>8, <2>2, <2>6, <2>7, <2>8 DEF Keeps
  <2> QED BY <1>1, <2>1, <2>9
<1> QED BY <1>1, <1>5, <1>6, <1>7, <1>8

(* A copy of samples is taken from the memory before the row is added.     *)
LEMMA AddWaveCopyKeeps ==
  ASSUME NEW w \in Work, Interned(w.b), NEW row \in WaveRec
  PROVE  Keeps(w, AddWaveCopy(w, row), {"waves"})
<1> DEFINE v == AddWaveCopy(w, row)
           less == [w EXCEPT !.mem = @ - 1]
<1>1. "waves" \in RowTables \ {"names"} /\ RecOf["waves"] = WaveRec
  BY DEF RowTables, RowOf, RecOf
<1>2. w.b \in Built /\ w.mem \in Int /\ w.ok \in BOOLEAN
  BY DEF Work
<1>3. less \in Work /\ less.b = w.b /\ less.ok = w.ok
  <2>1. w.mem - 1 \in Int
    BY <1>2
  <2>2. less = [b |-> w.b, mem |-> w.mem - 1, ok |-> w.ok]
    BY <2>1 DEF Work
  <2> HIDE DEF less
  <2> QED BY <1>2, <2>1, <2>2 DEF Work
<1>4. CASE v = [w EXCEPT !.ok = FALSE]
  <2>1. v \in Work /\ v.b = w.b /\ ~v.ok
    BY <1>4 DEF Work
  <2> HIDE DEF v
  <2>2. Keeps(w, v, {"waves"})
    BY <2>1 DEF Keeps
  <2> QED BY <2>2 DEF v
<1>5. CASE v = AddRow(less, "waves", row)
  <2> HIDE DEF v, less
  <2>1. Keeps(less, AddRow(less, "waves", row), {"waves"})
    BY <1>1, <1>3, <1>5, AddRowKeeps
  <2>2. Keeps(w, v, {"waves"})
    BY <1>3, <1>5, <2>1 DEF Keeps
  <2> QED BY <2>2 DEF v
<1>6. v = [w EXCEPT !.ok = FALSE] \/ v = AddRow(less, "waves", row)
  BY DEF AddWaveCopy
<1> QED BY <1>4, <1>5, <1>6

(* rv_dict_by_id leads to an entry with the id.                            *)
LEMMA FoundName ==
  ASSUME NEW t \in Parsed, NEW id \in Nat
  PROVE  /\ FindName(t, id) # 0 => FindName(t, id) \in DOMAIN t.names
         /\ FindName(t, id) = 0 <=> RowsOf(t.names, id) = {}
<1>1. t.names \in Seq(NameRec)
  BY DEF Parsed
<1>2. RowsOf(t.names, id) \in SUBSET Nat /\ \A k \in RowsOf(t.names, id) : k \in DOMAIN t.names
  BY <1>1 DEF RowsOf
<1>3. 0 \notin DOMAIN t.names
  BY <1>1
<1>4. CASE RowsOf(t.names, id) = {}
  BY <1>4 DEF FindName
<1>5. CASE RowsOf(t.names, id) # {}
  <2>1. Min(RowsOf(t.names, id)) \in RowsOf(t.names, id)
    BY <1>2, <1>5, MinIsMember
  <2>2. FindName(t, id) = Min(RowsOf(t.names, id))
    BY <1>5 DEF FindName
  <2> QED BY <1>2, <1>3, <1>5, <2>1, <2>2
<1> QED BY <1>4, <1>5

(* rv_merge_map_name swallows a refusal.                                   *)
LEMMA MapNameKeeps ==
  ASSUME NEW w \in Work, Interned(w.b), NEW t \in Parsed, NEW id \in Nat
  PROVE  /\ Keeps(w, MapName(w, t, id).w, {"names"})
         /\ MapName(w, t, id).id \in Nat
         /\ MapName(w, t, id).w.ok <=> w.ok
<1> DEFINE k == FindName(t, id)
           found == AddName(w, t.names[k].str)
           other == [found.w EXCEPT !.ok = w.ok]
<1>1. CASE id = 0 \/ k = 0
  <2>1. MapName(w, t, id) = [w |-> w, id |-> 0]
    BY <1>1 DEF MapName
  <2>2. [w |-> w, id |-> 0].w = w /\ [w |-> w, id |-> 0].id = 0
    OBVIOUS
  <2> QED BY <2>1, <2>2, KeepsItself
<1>2. CASE ~(id = 0 \/ k = 0)
  <2>1. t.names \in Seq(NameRec)
    BY DEF Parsed
  <2>2. t.names[k] \in NameRec
    BY <1>2, <2>1, FoundName
  <2>3. t.names[k].str \in Name
    BY <2>2 DEF NameRec
  <2>4. MapName(w, t, id) = [w |-> other, id |-> found.id]
    BY <1>2 DEF MapName
  <2> HIDE DEF k
  <2>5. Keeps(w, found.w, {"names"}) /\ found.id \in Nat
    BY <2>3, AddNameKeeps
  <2> HIDE DEF found
  <2>6. other \in Work /\ other.b = found.w.b /\ other.ok = w.ok
    BY <2>5 DEF Keeps, Work
  <2>7. [w |-> other, id |-> found.id].w = other /\ [w |-> other, id |-> found.id].id = found.id
    OBVIOUS
  <2> HIDE DEF other
  <2>8. Keeps(w, other, {"names"})
    BY <2>5, <2>6 DEF Keeps
  <2> QED BY <2>4, <2>5, <2>6, <2>7, <2>8
<1> QED BY <1>1, <1>2

(* AddNames finds or adds one name after the other, and has an id of each. *)
NamesAdded(r, w, strings, last) ==
  /\ r[0] = [w |-> w, ids |-> << >>] /\ r[Len(strings)] = last
  /\ \A k \in 1 .. Len(strings) :
       r[k] = [w |-> AddName(r[k - 1].w, strings[k]).w,
               ids |-> Append(r[k - 1].ids, AddName(r[k - 1].w, strings[k]).id)]

(* Interning names one by one runs through values of the same set, with    *)
(* their ids.                                                              *)
LEMMA AddNamesRun ==
  ASSUME NEW V, NEW w \in V, NEW strings \in Seq(Name),
         \A v \in V, s \in Name : AddName(v, s).w \in V /\ AddName(v, s).id \in Nat
  PROVE  \E r \in [0 .. Len(strings) -> [w : V, ids : Seq(Nat)]] :
           NamesAdded(r, w, strings, AddNames(w, strings))
<1> DEFINE n == Len(strings)
           U == [w : V, ids : Seq(Nat)]
           base == [w |-> w, ids |-> << >>]
           op(v, s) == [w |-> AddName(v.w, s).w, ids |-> Append(v.ids, AddName(v.w, s).id)]
           H == [p \in U \X (1 .. n) |-> op(p[1], strings[p[2]])]
           eq(f) == [s \in SUBSET (1 .. n) |->
                       IF s = {} THEN base ELSE op(f[s \ {Max(s)}], strings[Max(s)])]
           iter == CHOOSE f : f = eq(f)
<1>1. n \in Nat /\ DOMAIN strings = 1 .. n /\ base \in U
  OBVIOUS
<1>2. ASSUME NEW u \in U, NEW s \in Name PROVE op(u, s) \in U
  BY <1>2
<1>3. H \in [U \X (1 .. n) -> U]
  <2>1. ASSUME NEW p \in U \X (1 .. n) PROVE op(p[1], strings[p[2]]) \in U
    <3>1. p[1] \in U /\ strings[p[2]] \in Name
      BY <1>1
    <3> HIDE DEF op, U
    <3> QED BY <3>1, <1>2
  <2> HIDE DEF op, U
  <2> QED BY <2>1
<1> HIDE DEF U, base
<1>4. \A s \in SUBSET (1 .. n) : s # {} => Max(s) \in 1 .. n
  BY <1>1, MaxIsPosition
<1>5. PICK f \in [SUBSET (1 .. n) -> U] : Solves(f, n, base, H)
  <2> HIDE DEF H, n
  <2> QED BY <1>1, <1>3, FoldExists
<1>6. f = eq(f)
  <2> HIDE DEF op
  <2> QED BY <1>4, <1>5 DEF Solves
<1>7. iter = eq(iter)
  <2> HIDE DEF eq
  <2> QED BY <1>6
<1>8. Follows(iter, n, U, base, H)
  <2> HIDE DEF iter, op
  <2> QED BY <1>4, <1>7 DEF Follows
<1>9. AddNames(w, strings) = iter[1 .. n]
  BY <1>1 DEF AddNames, FoldLeft, MapThenFoldSet, base
<1>10. PICK r \in [0 .. n -> U] : Runs(r, n, base, H, iter[1 .. n])
  <2> HIDE DEF H, n, iter
  <2> QED BY <1>1, <1>3, <1>8, FoldPrefixes
<1>11. \A k \in 1 .. n : k - 1 \in 0 .. n
  BY <1>1
<1>12. \A k \in 1 .. n, v \in U : H[<<v, k>>] = op(v, strings[k])
  <2> HIDE DEF op
  <2> QED OBVIOUS
<1>13. \A k \in 1 .. n : r[k] = op(r[k - 1], strings[k])
  <2> HIDE DEF H, n, iter, op
  <2> QED BY <1>10, <1>11, <1>12 DEF Runs
<1>14. r[0] = base /\ r[n] = AddNames(w, strings)
  <2> HIDE DEF H, n, iter
  <2> QED BY <1>9, <1>10 DEF Runs
<1>15. NamesAdded(r, w, strings, AddNames(w, strings))
  BY <1>13, <1>14 DEF NamesAdded, base
<1> QED BY <1>10, <1>15 DEF U

(* Interning several names keeps what interning one keeps, and gives an    *)
(* id for each.                                                            *)
LEMMA AddNamesStays ==
  ASSUME NEW V, NEW w \in V, NEW strings \in Seq(Name),
         \A v \in V, s \in Name : AddName(v, s).w \in V /\ AddName(v, s).id \in Nat
  PROVE  /\ AddNames(w, strings).w \in V
         /\ AddNames(w, strings).ids \in [1 .. Len(strings) -> Nat]
<1> DEFINE n == Len(strings)
           last == AddNames(w, strings)
<1>1. PICK r \in [0 .. n -> [w : V, ids : Seq(Nat)]] : NamesAdded(r, w, strings, last)
  BY AddNamesRun
<1> DEFINE G == {k \in 0 .. n : Len(r[k].ids) = k}
<1>2. n \in Nat
  OBVIOUS
<1> HIDE DEF n, last
<1>3. 0 \in G
  BY <1>1, <1>2 DEF NamesAdded
<1>4. ASSUME NEW k \in 1 .. n, k - 1 \in G PROVE k \in G
  <2> DEFINE a == AddName(r[k - 1].w, strings[k])
  <2>0. r[k] = [w |-> a.w, ids |-> Append(r[k - 1].ids, a.id)]
    BY <1>1 DEF NamesAdded, n
  <2> HIDE DEF a
  <2>1. r[k].ids = Append(r[k - 1].ids, a.id)
    BY <2>0
  <2>2. r[k - 1].ids \in Seq(Nat) /\ Len(r[k - 1].ids) = k - 1
    <3>1. r[k - 1] \in [w : V, ids : Seq(Nat)]
      BY <1>1, <1>2
    <3> QED BY <1>4, <3>1
  <2>3. Len(r[k].ids) = k
    BY <1>2, <2>1, <2>2
  <2> QED BY <1>2, <2>3
<1>5. \A k \in 0 .. n : k \in G
  <2> HIDE DEF G
  <2> QED BY <1>2, <1>3, <1>4, PrefixInduction
<1>6. r[n] = last /\ r[n] \in [w : V, ids : Seq(Nat)]
  BY <1>1, <1>2 DEF NamesAdded, n
<1>7. last.w \in V /\ last.ids \in Seq(Nat) /\ Len(last.ids) = n
  BY <1>2, <1>5, <1>6
<1> QED BY <1>7 DEF n, last

(* A row of any table but the names, with its table.                       *)
AnyRow == UNION {{table} \X RecOf[table] : table \in RowTables \ {"names"}}

(* A row of a table other than the names is a row a client may add.        *)
LEMMA AnyRowIs ==
  ASSUME NEW table \in RowTables \ {"names"}, NEW row \in RecOf[table]
  PROVE  <<table, row>> \in AnyRow
BY DEF AnyRow

(* Rows of any kind leave the names interned.                              *)
LEMMA AddEachKeeps ==
  ASSUME NEW w, NEW v, Keeps(w, v, RowTables), NEW rows \in Seq(AnyRow)
  PROVE  Keeps(w, AddEach(v, rows), RowTables)
<1> DEFINE V == {u \in Work : Keeps(w, u, RowTables)}
<1>1. ASSUME NEW u \in V, NEW x \in AnyRow PROVE AddRow(u, x[1], x[2]) \in V
  <2>1. PICK table \in RowTables \ {"names"} : x \in {table} \X RecOf[table]
    BY <1>1 DEF AnyRow
  <2>2. u \in Work /\ Interned(u.b) /\ Keeps(w, u, RowTables)
    BY <1>1 DEF Keeps
  <2>3. Keeps(u, AddRow(u, table, x[2]), {table})
    BY <2>1, <2>2, AddRowKeeps
  <2>4. Keeps(w, AddRow(u, table, x[2]), RowTables)
    BY <2>2, <2>3 DEF Keeps
  <2> QED BY <2>1, <2>4 DEF Keeps
<1>2. v \in V
  BY DEF Keeps
<1>3. AddEach(v, rows) \in V
  <2> HIDE DEF V
  <2> QED BY <1>1, <1>2, AddEachStays
<1> QED BY <1>3

(* rv_builder_demo_span.                                                   *)
LEMMA DemoSpanKeeps ==
  ASSUME NEW w \in Work, Interned(w.b), NEW site \in Name, NEW far \in Name, NEW model \in Name,
         NEW serial \in Name, NEW label \in Name, NEW samples \in Nat
  PROVE  Keeps(w, DemoSpan(w, site, far, model, serial, label, samples), RowTables)
<1> DEFINE V == {v \in Work : Keeps(w, v, RowTables)}
           strings == <<site, far, model, serial, label>>
           names == AddNames(w, strings)
           id == names.ids
           route == [id |-> 1, site |-> id[1], far |-> id[2], ok |-> TRUE]
           inst == [id |-> 1, model |-> id[3], serial |-> id[4], wavelength |-> 1550]
           calib == [id |-> 1, inst |-> 1]
           span == [id |-> 1, route |-> 1, inst |-> 1, calib |-> 1, wave |-> 1, ok |-> TRUE]
           first == <<<<"routes", route>>, <<"insts", inst>>, <<"calibs", calib>>, <<"windows", span>>>>
           window == AddEach(names.w, first)
           buffer == IF window.mem = 0 THEN [window EXCEPT !.ok = FALSE]
                     ELSE [window EXCEPT !.mem = @ - 1]
           row == [id |-> 1, window |-> 1, samples |-> samples, ok |-> TRUE]
           wave == AddWaveCopy(buffer, row)
           mark == [id |-> 1, window |-> 1, label |-> id[5], kind |-> 1, severity |-> 20,
                    distance |-> 10, loss |-> 3, ok |-> TRUE]
           link == [id |-> 1, from_kind |-> 1, from |-> 1, to_kind |-> 2, to |-> 1]
           second == <<<<"marks", mark>>, <<"links", link>>>>
<1>1. DemoSpan(w, site, far, model, serial, label, samples) = AddEach(wave, second)
  BY DEF DemoSpan
<1>2. names.w \in V /\ id \in [1 .. 5 -> Nat]
  <2>1. strings \in Seq(Name) /\ Len(strings) = 5
    OBVIOUS
  <2>2. w \in V
    BY KeepsItself
  <2>3. ASSUME NEW v \in V, NEW s \in Name
        PROVE  AddName(v, s).w \in V /\ AddName(v, s).id \in Nat
    <3>1. v \in Work /\ Interned(v.b) /\ Keeps(w, v, RowTables)
      BY DEF Keeps
    <3>2. Keeps(v, AddName(v, s).w, {"names"}) /\ AddName(v, s).id \in Nat
      BY <3>1, AddNameKeeps
    <3>3. Keeps(w, AddName(v, s).w, RowTables)
      BY <3>1, <3>2 DEF Keeps, RowTables, RowOf, RecOf
    <3> QED BY <3>2, <3>3 DEF Keeps
  <2> HIDE DEF V, strings
  <2>4. names.w \in V /\ names.ids \in [1 .. Len(strings) -> Nat]
    BY <2>1, <2>2, <2>3, AddNamesStays
  <2> QED BY <2>1, <2>4
<1> HIDE DEF names
<1>3. Keeps(w, window, RowTables)
  <2>1. id[1] \in Nat /\ id[2] \in Nat /\ id[3] \in Nat /\ id[4] \in Nat
    BY <1>2
  <2> HIDE DEF id
  <2>2. route \in RouteRec /\ inst \in InstRec /\ calib \in CalibRec /\ span \in WindowRec
    BY <2>1, WidthAssumption DEF RouteRec, InstRec, CalibRec, WindowRec
  <2> HIDE DEF route, inst, calib, span
  <2>3. /\ {"routes", "insts", "calibs", "windows"} \subseteq RowTables \ {"names"}
        /\ RecOf["routes"] = RouteRec /\ RecOf["insts"] = InstRec
        /\ RecOf["calibs"] = CalibRec /\ RecOf["windows"] = WindowRec
    BY DEF RowTables, RowOf, RecOf
  <2>4. /\ <<"routes", route>> \in AnyRow /\ <<"insts", inst>> \in AnyRow
        /\ <<"calibs", calib>> \in AnyRow /\ <<"windows", span>> \in AnyRow
    BY <2>2, <2>3, AnyRowIs
  <2>5. first \in Seq(AnyRow)
    BY <2>4
  <2> HIDE DEF first
  <2> QED BY <1>2, <2>5, AddEachKeeps
<1> HIDE DEF window
<1>4. Keeps(w, buffer, RowTables)
  <2>1. window \in Work /\ window.mem \in Int
    BY <1>3 DEF Keeps, Work
  <2> DEFINE less == window.mem - 1
  <2>2. less \in Int
    BY <2>1
  <2>3. \/ buffer = [window EXCEPT !.ok = FALSE]
        \/ buffer = [window EXCEPT !.mem = less]
    OBVIOUS
  <2> HIDE DEF less, buffer
  <2>4. buffer \in Work /\ buffer.b = window.b /\ (buffer.ok => window.ok)
    BY <2>1, <2>2, <2>3 DEF Work
  <2> QED BY <1>3, <2>4 DEF Keeps
<1> HIDE DEF buffer
<1>5. Keeps(w, wave, RowTables)
  <2>1. row \in WaveRec
    BY WidthAssumption DEF WaveRec
  <2> HIDE DEF row
  <2>2. Keeps(buffer, wave, {"waves"})
    BY <1>4, <2>1, AddWaveCopyKeeps DEF Keeps
  <2> HIDE DEF wave
  <2>3. "waves" \in RowTables
    BY DEF RowTables, RowOf, RecOf
  <2> QED BY <1>4, <2>2, <2>3 DEF Keeps
<1> HIDE DEF wave
<1>6. second \in Seq(AnyRow)
  <2>1. id[5] \in Nat
    BY <1>2
  <2> HIDE DEF id
  <2>2. mark \in MarkRec /\ link \in LinkRec
    BY <2>1, WidthAssumption DEF MarkRec, LinkRec
  <2> HIDE DEF mark, link
  <2>3. /\ {"marks", "links"} \subseteq RowTables \ {"names"}
        /\ RecOf["marks"] = MarkRec /\ RecOf["links"] = LinkRec
    BY DEF RowTables, RowOf, RecOf
  <2>4. <<"marks", mark>> \in AnyRow /\ <<"links", link>> \in AnyRow
    BY <2>2, <2>3, AnyRowIs
  <2> QED BY <2>4
<1> HIDE DEF second
<1>7. Keeps(w, AddEach(wave, second), RowTables)
  BY <1>5, <1>6, AddEachKeeps
<1> QED BY <1>1, <1>7

-----------------------------------------------------------------------------
(***************************************************************************)
(* A merge.                                                                *)
(***************************************************************************)

(* Biased ids are ids.                                                     *)
LEMMA BiasedIsId ==
  ASSUME NEW id \in Nat, NEW bias \in Nat
  PROVE  Biased(id, bias) \in Id
<1>1. id + bias \in Nat /\ IdMod \in Nat /\ IdMod > 0
  BY WidthAssumption
<1> DEFINE sum == id + bias
<1>2. Biased(id, bias) = sum % IdMod
  BY DEF Biased
<1> HIDE DEF sum
<1> QED BY <1>1, <1>2 DEF sum

(* rv_merge_side on one route, ...                                         *)
LEMMA MergeRouteKeeps ==
  ASSUME NEW w \in Work, Interned(w.b), NEW t \in Parsed, NEW r \in RouteRec, NEW bias \in Nat
  PROVE  Keeps(w, MergeRoute(w, t, r, bias), {"names", "routes"})
<1> DEFINE site == MapName(w, t, r.site)
           far == MapName(site.w, t, r.far)
           id == Biased(r.id, bias)
           row == [id |-> id, site |-> site.id, far |-> far.id, ok |-> r.ok]
<1>1. MergeRoute(w, t, r, bias) = AddRow(far.w, "routes", row)
  BY DEF MergeRoute
<1>2. r.id \in Nat /\ r.site \in Nat /\ r.far \in Nat /\ r.ok \in BOOLEAN
  BY DEF RouteRec
<1>3. Keeps(w, site.w, {"names"}) /\ site.id \in Nat
  BY <1>2, MapNameKeeps
<1> HIDE DEF site
<1>4. site.w \in Work /\ Interned(site.w.b)
  BY <1>3 DEF Keeps
<1>5. Keeps(site.w, far.w, {"names"}) /\ far.id \in Nat
  BY <1>2, <1>4, MapNameKeeps
<1> HIDE DEF far
<1>6. id \in Id
  BY <1>2, BiasedIsId
<1> HIDE DEF id
<1>7. row \in RecOf["routes"] /\ "routes" \in RowTables \ {"names"}
  BY <1>2, <1>3, <1>5, <1>6 DEF RouteRec, RowOf, RecOf, RowTables
<1> HIDE DEF row
<1>8. Keeps(far.w, AddRow(far.w, "routes", row), {"routes"})
  BY <1>5, <1>7, AddRowKeeps DEF Keeps
<1>9. Keeps(w, AddRow(far.w, "routes", row), {"names", "routes"})
  BY <1>3, <1>5, <1>8 DEF Keeps
<1> QED BY <1>1, <1>9

(* ... an instrument, ...                                                  *)
LEMMA MergeInstKeeps ==
  ASSUME NEW w \in Work, Interned(w.b), NEW t \in Parsed, NEW r \in InstRec, NEW bias \in Nat
  PROVE  Keeps(w, MergeInst(w, t, r, bias), {"names", "insts"})
<1> DEFINE model == MapName(w, t, r.model)
           serial == MapName(model.w, t, r.serial)
           id == Biased(r.id, bias)
           row == [id |-> id, model |-> model.id, serial |-> serial.id, wavelength |-> r.wavelength]
<1>1. MergeInst(w, t, r, bias) = AddRow(serial.w, "insts", row)
  BY DEF MergeInst
<1>2. r.id \in Nat /\ r.model \in Nat /\ r.serial \in Nat /\ r.wavelength \in Nat
  BY DEF InstRec
<1>3. Keeps(w, model.w, {"names"}) /\ model.id \in Nat
  BY <1>2, MapNameKeeps
<1> HIDE DEF model
<1>4. model.w \in Work /\ Interned(model.w.b)
  BY <1>3 DEF Keeps
<1>5. Keeps(model.w, serial.w, {"names"}) /\ serial.id \in Nat
  BY <1>2, <1>4, MapNameKeeps
<1> HIDE DEF serial
<1>6. id \in Id
  BY <1>2, BiasedIsId
<1> HIDE DEF id
<1>7. row \in RecOf["insts"] /\ "insts" \in RowTables \ {"names"}
  BY <1>2, <1>3, <1>5, <1>6 DEF InstRec, RowOf, RecOf, RowTables
<1> HIDE DEF row
<1>8. Keeps(serial.w, AddRow(serial.w, "insts", row), {"insts"})
  BY <1>5, <1>7, AddRowKeeps DEF Keeps
<1>9. Keeps(w, AddRow(serial.w, "insts", row), {"names", "insts"})
  BY <1>3, <1>5, <1>8 DEF Keeps
<1> QED BY <1>1, <1>9

(* ... a wave, ...                                                         *)
LEMMA MergeWaveKeeps ==
  ASSUME NEW w \in Work, Interned(w.b), NEW r \in WaveRec, NEW bias \in Nat
  PROVE  Keeps(w, MergeWave(w, r, bias), {"waves"})
<1> DEFINE id == Biased(r.id, bias)
           window == Biased(r.window, bias)
           row == [r EXCEPT !.id = id, !.window = window]
<1>1. \/ MergeWave(w, r, bias) = w
      \/ MergeWave(w, r, bias) = AddWaveCopy(w, row)
  BY DEF MergeWave, WaveRec
<1>2. id \in Id /\ window \in Id
  BY BiasedIsId DEF WaveRec
<1> HIDE DEF id, window
<1>3. row \in WaveRec
  BY <1>2 DEF WaveRec
<1> HIDE DEF row
<1> QED BY <1>1, <1>3, AddWaveCopyKeeps, KeepsItself

(* ... and a note.                                                         *)
LEMMA MergeNoteKeeps ==
  ASSUME NEW w \in Work, Interned(w.b), NEW t \in Parsed, NEW n \in NoteRec, NEW bias \in Nat
  PROVE  Keeps(w, MergeNote(w, t, n, bias), {"names", "notes"})
<1> DEFINE text == MapName(w, t, n.text)
           id == Biased(n.id, bias)
           target == Biased(n.target, bias)
           row == [n EXCEPT !.id = id, !.target = target, !.text = text.id]
<1>1. MergeNote(w, t, n, bias) = AddRow(text.w, "notes", row)
  BY DEF MergeNote, NoteRec
<1>2. n.text \in Nat /\ n.id \in Nat /\ n.target \in Nat
  BY DEF NoteRec
<1>3. Keeps(w, text.w, {"names"}) /\ text.id \in Nat
  BY <1>2, MapNameKeeps
<1> HIDE DEF text
<1>4. id \in Id /\ target \in Id
  BY <1>2, BiasedIsId
<1> HIDE DEF id, target
<1>5. row \in NoteRec
  BY <1>3, <1>4 DEF NoteRec
<1> HIDE DEF row
<1>6. row \in RecOf["notes"] /\ "notes" \in RowTables \ {"names"}
  BY <1>5 DEF RowOf, RecOf, RowTables
<1>7. Keeps(text.w, AddRow(text.w, "notes", row), {"notes"})
  BY <1>3, <1>6, AddRowKeeps DEF Keeps
<1>8. Keeps(w, AddRow(text.w, "notes", row), {"names", "notes"})
  BY <1>3, <1>7 DEF Keeps
<1> QED BY <1>1, <1>8

(* Every marker of a builder has a window.                                 *)
Linked(b) == \A i \in DOMAIN b.marks : b.marks[i].window \in Ids(b.windows)

(* The windows of t are in v, unless the call has failed.                  *)
HasWindows(v, t, bias) ==
  v.ok => \A i \in DOMAIN t.windows : Biased(t.windows[i].id, bias) \in Ids(v.b.windows)

(* A marker is added without a window only if markers may be unlinked.     *)
LEMMA MergeMarkKeeps ==
  ASSUME NEW w \in Work, Interned(w.b), NEW t \in Parsed, NEW m \in MarkRec, NEW bias \in Nat,
         NEW opt
  PROVE  /\ Keeps(w, MergeMark(w, t, m, opt, bias), {"names", "marks"})
         /\ opt.drop_unlinked /\ Linked(w.b) /\ HasWindows(w, t, bias)
              => Linked(MergeMark(w, t, m, opt, bias).b)
<1> DEFINE label == MapName(w, t, m.label)
           id == Biased(m.id, bias)
           window == Biased(m.window, bias)
           row == [m EXCEPT !.id = id, !.window = window, !.label = label.id]
           v == AddRow(label.w, "marks", row)
<1>1. /\ MergeMark(w, t, m, opt, bias) =
           IF opt.drop_unlinked /\ m.window \notin Ids(t.windows) THEN label.w ELSE v
  BY DEF MergeMark, MarkRec
<1>2. m.label \in Nat /\ m.id \in Nat /\ m.window \in Nat
  BY DEF MarkRec
<1>3. Keeps(w, label.w, {"names"}) /\ label.id \in Nat /\ (label.w.ok <=> w.ok)
  BY <1>2, MapNameKeeps
<1> HIDE DEF label
<1>4. id \in Id /\ window \in Id
  BY <1>2, BiasedIsId
<1>5. row \in MarkRec /\ row.window = window
  <2> HIDE DEF id, window
  <2> QED BY <1>3, <1>4 DEF MarkRec
<1> HIDE DEF row, id
<1>6. /\ RecOf["marks"] = MarkRec /\ "marks" \in RowTables \ {"names"}
      /\ {"windows", "marks"} \subseteq RowTables
  BY DEF RowOf, RecOf, RowTables
<1>7. label.w \in Work /\ Interned(label.w.b)
  BY <1>3 DEF Keeps
<1>8. Keeps(label.w, v, {"marks"}) /\ Added(label.w, v, "marks", row)
  BY <1>5, <1>6, <1>7, AddRowKeeps, AddRowAdds
<1> HIDE DEF v
<1>9. Keeps(w, MergeMark(w, t, m, opt, bias), {"names", "marks"})
  <2>1. Keeps(w, v, {"names", "marks"}) /\ Keeps(w, label.w, {"names", "marks"})
    BY <1>3, <1>8 DEF Keeps
  <2> QED BY <1>1, <2>1
<1>10. ASSUME opt.drop_unlinked, Linked(w.b), HasWindows(w, t, bias)
       PROVE  Linked(MergeMark(w, t, m, opt, bias).b)
  <2>1. /\ w.b \in Built /\ label.w.b \in Built /\ v.b \in Built
        /\ w.b.marks \in Seq(MarkRec)
    BY <1>7, <1>8 DEF Work, Keeps, Built
  <2>2. label.w.b.marks = w.b.marks /\ label.w.b.windows = w.b.windows
    BY <1>3, <1>6, <2>1 DEF Keeps, Built
  <2>3. Linked(label.w.b)
    BY <1>10, <2>2 DEF Linked
  <2>4. v.b.windows = w.b.windows
    BY <1>6, <1>8, <2>1, <2>2 DEF Keeps, Built
  <2>5. v.b.marks = IF v.ok THEN Append(w.b.marks, row) ELSE w.b.marks
    BY <1>8, <2>1, <2>2 DEF Added, Built
  <2>6. v.ok => w.ok
    BY <1>3, <1>8 DEF Added
  <2>7. CASE m.window \in Ids(t.windows)
    <3>1. PICK k \in DOMAIN t.windows : t.windows[k].id = m.window
      BY <2>7 DEF Ids
    <3>2. v.ok => window \in Ids(v.b.windows)
      BY <1>10, <2>4, <2>6, <3>1 DEF HasWindows
    <3> HIDE DEF window
    <3>3. \A i \in DOMAIN v.b.marks :
            \/ i \in DOMAIN w.b.marks /\ v.b.marks[i] = w.b.marks[i]
            \/ v.ok /\ v.b.marks[i] = row
      BY <2>1, <2>5
    <3>4. Linked(v.b)
      BY <1>5, <1>10, <2>4, <3>2, <3>3 DEF Linked
    <3> QED BY <1>1, <2>7, <3>4
  <2>8. CASE m.window \notin Ids(t.windows)
    BY <1>1, <1>10, <2>3, <2>8
  <2> QED BY <2>7, <2>8
<1> QED BY <1>9, <1>10

(* The windows of a side are added before its waves and markers.           *)
LEMMA WindowsAdded ==
  ASSUME NEW w \in Work, Interned(w.b), NEW t \in Parsed, NEW bias \in Nat, NEW v,
         v = AddRows(w, "windows", [i \in DOMAIN t.windows |-> BiasedWindow(t.windows[i], bias)])
  PROVE  /\ Keeps(w, v, {"windows"}) /\ HasWindows(v, t, bias)
         /\ Ids(w.b.windows) \subseteq Ids(v.b.windows)
<1> DEFINE rows == [i \in DOMAIN t.windows |-> BiasedWindow(t.windows[i], bias)]
           n == Len(rows)
           V == {u \in Work : Keeps(w, u, {"windows"})}
<1>1. /\ rows \in Seq(WindowRec) /\ DOMAIN rows = 1 .. n /\ DOMAIN t.windows = 1 .. n /\ n \in Nat
      /\ \A i \in 1 .. n : rows[i].id = Biased(t.windows[i].id, bias)
  <2>1. t.windows \in Seq(WindowRec)
    BY DEF Parsed
  <2>2. ASSUME NEW i \in DOMAIN t.windows
        PROVE  /\ BiasedWindow(t.windows[i], bias) \in WindowRec
               /\ BiasedWindow(t.windows[i], bias).id = Biased(t.windows[i].id, bias)
    <3> DEFINE r == t.windows[i]
               id == Biased(r.id, bias)
               route == Biased(r.route, bias)
               inst == Biased(r.inst, bias)
               calib == Biased(r.calib, bias)
               wave == Biased(r.wave, bias)
    <3>1. r \in WindowRec
      BY <2>1
    <3>2. BiasedWindow(r, bias) = [r EXCEPT !.id = id, !.route = route, !.inst = inst,
                                            !.calib = calib, !.wave = wave]
      <4> HIDE DEF r
      <4> QED BY <3>1, Zenon DEF BiasedWindow, WindowRec
    <3>3. id \in Id /\ route \in Id /\ inst \in Id /\ calib \in Id /\ wave \in Id
      BY <3>1, BiasedIsId DEF WindowRec
    <3>4. BiasedWindow(r, bias).id = id /\ BiasedWindow(r, bias) \in WindowRec
      <4> HIDE DEF id, route, inst, calib, wave, r
      <4> QED BY <3>1, <3>2, <3>3 DEF WindowRec
    <3> QED BY <3>4
  <2>3. t.windows = [i \in 1 .. Len(t.windows) |-> t.windows[i]] /\ Len(t.windows) \in Nat
    BY <2>1
  <2> QED BY <2>2, <2>3
<1> HIDE DEF rows
<1>2. "windows" \in RowTables \ {"names"} /\ RecOf["windows"] = WindowRec
  BY DEF RowTables, RowOf, RecOf
<1>3. w \in V
  BY KeepsItself
<1>4. ASSUME NEW u \in V, NEW x \in WindowRec PROVE AddRow(u, "windows", x) \in V
  <2>1. u \in Work /\ Interned(u.b) /\ Keeps(w, u, {"windows"})
    BY <1>4 DEF Keeps
  <2>2. Keeps(u, AddRow(u, "windows", x), {"windows"})
    BY <1>2, <2>1, AddRowKeeps
  <2>3. Keeps(w, AddRow(u, "windows", x), {"windows"})
    BY <2>1, <2>2 DEF Keeps
  <2> QED BY <2>3 DEF Keeps
<1>5. PICK r \in [0 .. n -> V] : RowsAdded(r, w, "windows", rows, v)
  <2> HIDE DEF V
  <2> QED BY <1>1, <1>3, <1>4, AddRowsRun DEF rows
<1>6. /\ r[0] = w /\ r[n] = v
      /\ \A k \in 1 .. n : r[k] = AddRow(r[k - 1], "windows", rows[k])
  BY <1>5 DEF RowsAdded
<1> DEFINE G == {k \in 0 .. n :
                   /\ Ids(w.b.windows) \subseteq Ids(r[k].b.windows)
                   /\ r[k].ok => \A i \in 1 .. k : rows[i].id \in Ids(r[k].b.windows)}
<1>7. 0 \in G
  BY <1>1, <1>6
<1>8. ASSUME NEW k \in 1 .. n, k - 1 \in G PROVE k \in G
  <2>1. r[k - 1] \in V /\ rows[k] \in WindowRec
    BY <1>1
  <2>2. Added(r[k - 1], r[k], "windows", rows[k])
    BY <1>2, <1>6, <2>1, AddRowAdds DEF Keeps
  <2> DEFINE old == r[k - 1].b.windows
             new == r[k].b.windows
  <2>3. old \in Seq(WindowRec) /\ new = (IF r[k].ok THEN Append(old, rows[k]) ELSE old)
    <3>1. r[k - 1].b \in Built /\ r[k].b \in Built
      BY <2>1, <2>2 DEF Added, Work
    <3>2. old \in Seq(WindowRec) /\ old = r[k - 1].b["windows"] /\ new = r[k].b["windows"]
      BY <3>1 DEF Built
    <3> QED BY <2>2, <3>2 DEF Added
  <2>4. r[k].ok => r[k - 1].ok
    BY <2>2 DEF Added
  <2> HIDE DEF V
  <2>5. Ids(old) \subseteq Ids(new) /\ (r[k].ok => rows[k].id \in Ids(new))
    <3> HIDE DEF old, new
    <3>1. CASE r[k].ok
      <4>1. new = Append(old, rows[k])
        BY <2>3, <3>1
      <4>2. /\ \A i \in DOMAIN old : i \in DOMAIN new /\ new[i] = old[i]
            /\ Len(old) + 1 \in DOMAIN new /\ new[Len(old) + 1] = rows[k]
        BY <2>3, <4>1
      <4> QED BY <4>2 DEF Ids
    <3>2. CASE ~r[k].ok
      BY <2>3, <3>2
    <3> QED BY <3>1, <3>2
  <2>6. /\ Ids(w.b.windows) \subseteq Ids(old)
        /\ r[k - 1].ok => \A i \in 1 .. (k - 1) : rows[i].id \in Ids(old)
    BY <1>8
  <2>7. k \in 0 .. n /\ \A i \in 1 .. k : i = k \/ i \in 1 .. (k - 1)
    BY <1>1
  <2>8. Ids(w.b.windows) \subseteq Ids(new)
    BY <2>5, <2>6
  <2>9. r[k].ok => \A i \in 1 .. k : rows[i].id \in Ids(new)
    <3> HIDE DEF old, new
    <3> QED BY <2>4, <2>5, <2>6, <2>7
  <2> QED BY <2>7, <2>8, <2>9
<1>9. \A k \in 0 .. n : k \in G
  <2> HIDE DEF G
  <2> QED BY <1>1, <1>7, <1>8, PrefixInduction
<1>10. n \in G
  <2> HIDE DEF G
  <2> QED BY <1>1, <1>9
<1>11. Ids(w.b.windows) \subseteq Ids(v.b.windows)
  BY <1>6, <1>10
<1>12. HasWindows(v, t, bias)
  BY <1>1, <1>6, <1>10 DEF HasWindows
<1>13. v \in V
  <2> HIDE DEF V
  <2> QED BY <1>1, <1>5, <1>6
<1> QED BY <1>11, <1>12, <1>13

(* Calibrations, windows and links are copied without their names.         *)
LEMMA AddRowsKeeps ==
  ASSUME NEW w \in Work, Interned(w.b), NEW table \in RowTables \ {"names"},
         NEW rows \in Seq(RecOf[table])
  PROVE  Keeps(w, AddRows(w, table, rows), {table})
<1> DEFINE V == {u \in Work : Keeps(w, u, {table})}
           v == AddRows(w, table, rows)
           n == Len(rows)
<1>1. w \in V
  BY KeepsItself
<1>2. ASSUME NEW u \in V, NEW x \in RecOf[table] PROVE AddRow(u, table, x) \in V
  <2>1. u \in Work /\ Interned(u.b) /\ Keeps(w, u, {table})
    BY <1>2 DEF Keeps
  <2>2. Keeps(u, AddRow(u, table, x), {table})
    BY <2>1, AddRowKeeps
  <2>3. Keeps(w, AddRow(u, table, x), {table})
    BY <2>1, <2>2 DEF Keeps
  <2> QED BY <2>3 DEF Keeps
<1>3. PICK r \in [0 .. n -> V] : RowsAdded(r, w, table, rows, v)
  <2> HIDE DEF V
  <2> QED BY <1>1, <1>2, AddRowsRun
<1>4. r[n] = v /\ n \in 0 .. n
  BY <1>3 DEF RowsAdded
<1>5. v \in V
  <2> HIDE DEF V, v, n
  <2> QED BY <1>3, <1>4
<1> QED BY <1>5

(* What leaves the markers and loses no window leaves them linked.         *)
LEMMA LinkedStays ==
  ASSUME NEW u \in Work, NEW T, NEW v, Keeps(u, v, T), "marks" \notin T,
         Ids(u.b.windows) \subseteq Ids(v.b.windows), Linked(u.b)
  PROVE  Linked(v.b)
<1>1. u.b \in Built /\ v.b \in Built /\ "marks" \in RowTables
  BY DEF Keeps, Work, RowTables, RowOf, RecOf
<1>2. v.b.marks = u.b.marks
  BY <1>1 DEF Keeps, Built
<1> QED BY <1>2 DEF Linked

(* A step that keeps all tables but some others keeps the windows.         *)
LEMMA WindowsStay ==
  ASSUME NEW u \in Work, NEW T, NEW v, Keeps(u, v, T), "windows" \notin T
  PROVE  v.b.windows = u.b.windows
<1>1. u.b \in Built /\ v.b \in Built /\ "windows" \in RowTables
  BY DEF Keeps, Work, RowTables, RowOf, RecOf
<1> QED BY <1>1 DEF Keeps, Built

-----------------------------------------------------------------------------
(***************************************************************************)
(* What a merge that succeeds has copied.                                  *)
(***************************************************************************)

(* The names of a builder have every string of a side.                     *)
HasNames(names, t) == \A k \in DOMAIN t.names : \E i \in DOMAIN names : names[i].str = t.names[k].str

(* A name id of a side and a name id of a builder mean the same string;    *)
(* what means nothing becomes 0.                                           *)
SameName(t, id, names, new) ==
  IF FindName(t, id) = 0 THEN new = 0
  ELSE \E i \in DOMAIN names : names[i].id = new /\ names[i].str = t.names[FindName(t, id)].str

(* The row s of a builder is the image of row r of a side.                 *)
Like(table, t, r, names, s, bias) ==
  /\ s.id = Biased(r.id, bias)
  /\ table = "routes" => SameName(t, r.site, names, s.site) /\ SameName(t, r.far, names, s.far)
  /\ table = "insts" => SameName(t, r.model, names, s.model) /\ s.wavelength = r.wavelength
  /\ table = "windows" => /\ s.route = Biased(r.route, bias) /\ s.inst = Biased(r.inst, bias)
                          /\ s.wave = Biased(r.wave, bias)
  /\ table = "marks" => /\ s.window = Biased(r.window, bias) /\ SameName(t, r.label, names, s.label)
                        /\ s.distance = r.distance /\ s.loss = r.loss /\ s.severity = r.severity

(* The first k rows of a side are copied behind the old ones, in order.    *)
Copied(table, t, bias, old, rows, names, k) ==
  /\ Len(rows) = Len(old) + k
  /\ \A i \in 1 .. Len(old) : rows[i] = old[i]
  /\ \A i \in 1 .. k : Like(table, t, t[table][i], names, rows[Len(old) + i], bias)

(* The wave s of a builder is the image of wave r of a side.               *)
IsImage(r, s, bias) == s.id = Biased(r.id, bias) /\ s.samples = r.samples

(* Behind the old waves are the images of those of the first k waves that  *)
(* have samples, in order.                                                 *)
WavesLike(t, bias, old, rows, k) ==
  /\ Len(old) <= Len(rows) /\ \A i \in 1 .. Len(old) : rows[i] = old[i]
  /\ \E at \in [Len(old) + 1 .. Len(rows) -> 1 .. k] :
       /\ \A i, j \in Len(old) + 1 .. Len(rows) : i < j => at[i] < at[j]
       /\ \A j \in Len(old) + 1 .. Len(rows) : IsImage(t.waves[at[j]], rows[j], bias)
       /\ \A i \in 1 .. k : t.waves[i].samples # 0 =>
            \E j \in Len(old) + 1 .. Len(rows) : at[j] = i

(* Nothing is copied at first, ...                                         *)
LEMMA CopiesNone ==
  ASSUME NEW R, NEW old \in Seq(R), NEW table, NEW t, NEW bias, NEW names
  PROVE  Copied(table, t, bias, old, old, names, 0)
<1>1. Len(old) \in Nat
  OBVIOUS
<1> QED BY <1>1 DEF Copied

(* ... and each step copies one row more.                                  *)
LEMMA CopiesOneMore ==
  ASSUME NEW R, NEW old \in Seq(R), NEW rows \in Seq(R), NEW s \in R, NEW table, NEW t, NEW bias,
         NEW names, NEW k \in Nat \ {0}, Copied(table, t, bias, old, rows, names, k - 1),
         Like(table, t, t[table][k], names, s, bias)
  PROVE  Copied(table, t, bias, old, Append(rows, s), names, k)
<1> DEFINE new == Append(rows, s)
<1>1. Len(old) \in Nat /\ Len(rows) \in Nat /\ Len(rows) = Len(old) + (k - 1)
  BY LenProperties DEF Copied
<1>2. Len(new) = Len(old) + k /\ new[Len(old) + k] = s
  BY <1>1
<1>3. \A i \in 1 .. Len(rows) : new[i] = rows[i]
  OBVIOUS
<1> HIDE DEF new
<1>4. \A i \in 1 .. Len(old) : new[i] = old[i]
  <2> TAKE i \in 1 .. Len(old)
  <2>1. i \in 1 .. Len(rows)
    BY <1>1
  <2> QED BY <1>3, <2>1 DEF Copied
<1>5. \A i \in 1 .. k : Like(table, t, t[table][i], names, new[Len(old) + i], bias)
  <2> TAKE i \in 1 .. k
  <2>1. CASE i = k
    BY <1>2, <2>1
  <2>2. CASE i # k
    <3>1. i \in 1 .. (k - 1) /\ Len(old) + i \in 1 .. Len(rows)
      BY <1>1, <2>2
    <3>2. Like(table, t, t[table][i], names, rows[Len(old) + i], bias)
      BY <3>1 DEF Copied
    <3> QED BY <1>3, <3>1, <3>2
  <2> QED BY <2>1, <2>2
<1> QED BY <1>2, <1>4, <1>5 DEF Copied, new

(* A name that the builder has is found, and nothing changes.              *)
LEMMA MapNameFinds ==
  ASSUME NEW w \in Work, w.ok, NEW t \in Parsed, NEW id \in Nat, HasNames(w.b.names, t)
  PROVE  /\ MapName(w, t, id).w = w
         /\ SameName(t, id, w.b.names, MapName(w, t, id).id)
<1> DEFINE k == FindName(t, id)
           str == t.names[k].str
           found == {i \in DOMAIN w.b.names : w.b.names[i].str = str}
<1>1. t.names \in Seq(NameRec) /\ w.b.names \in Seq(NameRec)
  BY DEF Parsed, Work, Built
<1>2. id = 0 => k = 0
  <2>1. \A i \in DOMAIN t.names : t.names[i] \in NameRec
    BY <1>1
  <2>2. RowsOf(t.names, 0) = {}
    BY <2>1 DEF RowsOf, NameRec
  <2> QED BY <2>2, FoundName
<1>3. CASE k = 0
  <2>1. MapName(w, t, id) = [w |-> w, id |-> 0]
    BY <1>3 DEF MapName
  <2>2. [w |-> w, id |-> 0].w = w /\ [w |-> w, id |-> 0].id = 0
    OBVIOUS
  <2> QED BY <1>3, <2>1, <2>2 DEF SameName
<1>4. CASE k # 0
  <2>1. k \in DOMAIN t.names
    BY <1>4, FoundName
  <2>2. t.names[k] \in NameRec
    BY <1>1, <2>1
  <2>3. Clip[str] = str
    BY <2>2 DEF NameRec
  <2>4. found # {} /\ found \in SUBSET Nat /\ \A i \in found : i \in DOMAIN w.b.names
    BY <1>1, <2>1 DEF HasNames
  <2>5. Min(found) \in found
    <3> HIDE DEF found
    <3> QED BY <2>4, MinIsMember
  <2> DEFINE new == w.b.names[Min(found)].id
  <2>6. AddName(w, str) = [w |-> w, id |-> new]
    <3> HIDE DEF str
    <3> QED BY <2>3, <2>4 DEF AddName
  <2> HIDE DEF new
  <2>7. MapName(w, t, id) = [w |-> [w EXCEPT !.ok = w.ok], id |-> new]
    BY <1>2, <1>4, <2>6 DEF MapName
  <2>8. [w EXCEPT !.ok = w.ok] = w
    BY DEF Work
  <2>9. MapName(w, t, id).w = w /\ MapName(w, t, id).id = new
    BY <2>7, <2>8
  <2>10. SameName(t, id, w.b.names, new)
    BY <1>4, <2>4, <2>5 DEF SameName, new
  <2> QED BY <2>9, <2>10
<1> QED BY <1>3, <1>4

(* What a successful addition to a table leaves.                           *)
Appended(w, v, table, s) ==
  /\ w.ok /\ v.b.names = w.b.names
  /\ v.b[table] = Append(w.b[table], s)

(* A row that is added to a table is behind the others.                    *)
LEMMA AddRowAppends ==
  ASSUME NEW w \in Work, NEW table \in RowTables \ {"names"}, NEW row \in RecOf[table],
         AddRow(w, table, row).ok
  PROVE  Appended(w, AddRow(w, table, row), table, row)
<1> DEFINE v == AddRow(w, table, row)
<1>1. Added(w, v, table, row)
  BY AddRowAdds
<1>2. v.ok
  OBVIOUS
<1> HIDE DEF v
<1>3. w.b \in Built /\ v.b \in Built /\ v.b["names"] = w.b["names"]
  BY <1>1 DEF Added, Work, RowTables, RowOf
<1>4. v.b.names = w.b.names
  BY <1>3 DEF Built
<1> QED BY <1>1, <1>2, <1>4 DEF Added, Appended, v

(* rv_merge_side, when the names are there: a route, ...                   *)
LEMMA MergeRouteCopies ==
  ASSUME NEW w \in Work, Interned(w.b), NEW t \in Parsed, NEW r \in RouteRec, NEW bias \in Nat,
         HasNames(w.b.names, t), MergeRoute(w, t, r, bias).ok
  PROVE  \E s \in RouteRec : /\ Appended(w, MergeRoute(w, t, r, bias), "routes", s)
                             /\ Like("routes", t, r, w.b.names, s, bias)
<1> DEFINE site == MapName(w, t, r.site)
           far == MapName(site.w, t, r.far)
           id == Biased(r.id, bias)
           row == [id |-> id, site |-> site.id, far |-> far.id, ok |-> r.ok]
<1>1. MergeRoute(w, t, r, bias) = AddRow(far.w, "routes", row)
  BY DEF MergeRoute
<1>2. r.id \in Nat /\ r.site \in Nat /\ r.far \in Nat /\ r.ok \in BOOLEAN /\ w.ok
  BY MergeRouteKeeps DEF RouteRec, Keeps
<1>3. site.w = w /\ site.id \in Nat /\ SameName(t, r.site, w.b.names, site.id)
  BY <1>2, MapNameKeeps, MapNameFinds
<1> HIDE DEF site
<1>4. far.w = w /\ far.id \in Nat /\ SameName(t, r.far, w.b.names, far.id)
  BY <1>2, <1>3, MapNameKeeps, MapNameFinds
<1> HIDE DEF far
<1>5. id \in Id
  BY <1>2, BiasedIsId
<1>6. row \in RouteRec /\ Like("routes", t, r, w.b.names, row, bias)
  <2>1. row.id = id /\ row.site = site.id /\ row.far = far.id
    OBVIOUS
  <2>2. row \in RouteRec
    <3> HIDE DEF id
    <3> QED BY <1>2, <1>3, <1>4, <1>5 DEF RouteRec
  <2> HIDE DEF row
  <2> QED BY <1>3, <1>4, <2>1, <2>2 DEF Like
<1> HIDE DEF row
<1>7. RecOf["routes"] = RouteRec /\ "routes" \in RowTables \ {"names"}
  BY DEF RowOf, RecOf, RowTables
<1> QED BY <1>1, <1>4, <1>6, <1>7, AddRowAppends

(* ... an instrument, ...                                                  *)
LEMMA MergeInstCopies ==
  ASSUME NEW w \in Work, Interned(w.b), NEW t \in Parsed, NEW r \in InstRec, NEW bias \in Nat,
         HasNames(w.b.names, t), MergeInst(w, t, r, bias).ok
  PROVE  \E s \in InstRec : /\ Appended(w, MergeInst(w, t, r, bias), "insts", s)
                            /\ Like("insts", t, r, w.b.names, s, bias)
<1> DEFINE model == MapName(w, t, r.model)
           serial == MapName(model.w, t, r.serial)
           id == Biased(r.id, bias)
           row == [id |-> id, model |-> model.id, serial |-> serial.id, wavelength |-> r.wavelength]
<1>1. MergeInst(w, t, r, bias) = AddRow(serial.w, "insts", row)
  BY DEF MergeInst
<1>2. r.id \in Nat /\ r.model \in Nat /\ r.serial \in Nat /\ r.wavelength \in Nat /\ w.ok
  BY MergeInstKeeps DEF InstRec, Keeps
<1>3. model.w = w /\ model.id \in Nat /\ SameName(t, r.model, w.b.names, model.id)
  BY <1>2, MapNameKeeps, MapNameFinds
<1> HIDE DEF model
<1>4. serial.w = w /\ serial.id \in Nat
  BY <1>2, <1>3, MapNameKeeps, MapNameFinds
<1> HIDE DEF serial
<1>5. id \in Id
  BY <1>2, BiasedIsId
<1>6. row \in InstRec /\ Like("insts", t, r, w.b.names, row, bias)
  <2>1. row.id = id /\ row.model = model.id /\ row.wavelength = r.wavelength
    OBVIOUS
  <2>2. row \in InstRec
    <3> HIDE DEF id
    <3> QED BY <1>2, <1>3, <1>4, <1>5 DEF InstRec
  <2> HIDE DEF row
  <2> QED BY <1>3, <2>1, <2>2 DEF Like
<1> HIDE DEF row
<1>7. RecOf["insts"] = InstRec /\ "insts" \in RowTables \ {"names"}
  BY DEF RowOf, RecOf, RowTables
<1> QED BY <1>1, <1>4, <1>6, <1>7, AddRowAppends

(* ... a wave, if it has samples, ...                                      *)
LEMMA MergeWaveCopies ==
  ASSUME NEW w \in Work, NEW r \in WaveRec, r.samples # 0, NEW bias \in Nat,
         MergeWave(w, r, bias).ok
  PROVE  \E s \in WaveRec : /\ Appended(w, MergeWave(w, r, bias), "waves", s)
                            /\ IsImage(r, s, bias)
<1> DEFINE id == Biased(r.id, bias)
           window == Biased(r.window, bias)
           row == [r EXCEPT !.id = id, !.window = window]
           less == [w EXCEPT !.mem = @ - 1]
<1>1. r.samples # 0 /\ r.id \in Nat /\ r.window \in Nat
  BY DEF WaveRec
<1>2. id \in Id /\ window \in Id
  BY <1>1, BiasedIsId
<1>3. MergeWave(w, r, bias) = AddWaveCopy(w, row)
  BY <1>1 DEF MergeWave, WaveRec
<1>4. row \in WaveRec /\ row.id = id /\ row.samples = r.samples
  <2> HIDE DEF id, window
  <2> QED BY <1>2 DEF WaveRec
<1>5. IsImage(r, row, bias)
  <2> HIDE DEF row
  <2> QED BY <1>4 DEF IsImage
<1>6. ~[w EXCEPT !.ok = FALSE].ok
  BY DEF Work
<1>7. AddWaveCopy(w, row) = AddRow(less, "waves", row)
  <2> HIDE DEF row, less
  <2> QED BY <1>3, <1>6 DEF AddWaveCopy, less
<1> HIDE DEF row
<1>8. less \in Work /\ less.b = w.b /\ less.ok = w.ok
  <2>1. w.b \in Built /\ w.mem - 1 \in Int /\ w.ok \in BOOLEAN
    BY DEF Work
  <2>2. less = [b |-> w.b, mem |-> w.mem - 1, ok |-> w.ok]
    BY <2>1 DEF Work
  <2> HIDE DEF less
  <2> QED BY <2>1, <2>2 DEF Work
<1> HIDE DEF less
<1>9. RecOf["waves"] = WaveRec /\ "waves" \in RowTables \ {"names"}
  BY DEF RowOf, RecOf, RowTables
<1>10. Appended(less, AddRow(less, "waves", row), "waves", row)
  BY <1>3, <1>4, <1>7, <1>8, <1>9, AddRowAppends
<1> QED BY <1>3, <1>4, <1>5, <1>7, <1>8, <1>10 DEF Appended

(* ... and a marker, if it is not dropped.                                 *)
LEMMA MergeMarkCopies ==
  ASSUME NEW w \in Work, Interned(w.b), NEW t \in Parsed, NEW m \in MarkRec, NEW bias \in Nat,
         NEW opt, HasNames(w.b.names, t), MergeMark(w, t, m, opt, bias).ok
  PROVE  \/ MergeMark(w, t, m, opt, bias) = w /\ m.window \notin Ids(t.windows)
         \/ \E s \in MarkRec : /\ Appended(w, MergeMark(w, t, m, opt, bias), "marks", s)
                               /\ Like("marks", t, m, w.b.names, s, bias)
<1> DEFINE label == MapName(w, t, m.label)
           id == Biased(m.id, bias)
           window == Biased(m.window, bias)
           row == [m EXCEPT !.id = id, !.window = window, !.label = label.id]
<1>1. MergeMark(w, t, m, opt, bias) =
        IF opt.drop_unlinked /\ m.window \notin Ids(t.windows) THEN label.w
        ELSE AddRow(label.w, "marks", row)
  BY DEF MergeMark, MarkRec
<1>2. m.label \in Nat /\ m.id \in Nat /\ m.window \in Nat /\ w.ok
  BY MergeMarkKeeps DEF MarkRec, Keeps
<1>3. label.w = w /\ label.id \in Nat /\ SameName(t, m.label, w.b.names, label.id)
  BY <1>2, MapNameKeeps, MapNameFinds
<1> HIDE DEF label
<1>4. id \in Id /\ window \in Id
  BY <1>2, BiasedIsId
<1>5. /\ row \in MarkRec /\ row.id = id /\ row.window = window /\ row.label = label.id
      /\ row.distance = m.distance /\ row.loss = m.loss /\ row.severity = m.severity
  <2> HIDE DEF id, window
  <2> QED BY <1>3, <1>4 DEF MarkRec
<1>6. Like("marks", t, m, w.b.names, row, bias)
  <2> HIDE DEF row
  <2> QED BY <1>3, <1>5 DEF Like
<1> HIDE DEF row
<1>7. RecOf["marks"] = MarkRec /\ "marks" \in RowTables \ {"names"}
  BY DEF RowOf, RecOf, RowTables
<1>8. CASE opt.drop_unlinked /\ m.window \notin Ids(t.windows)
  BY <1>1, <1>3, <1>8
<1>9. CASE ~(opt.drop_unlinked /\ m.window \notin Ids(t.windows))
  <2>1. MergeMark(w, t, m, opt, bias) = AddRow(w, "marks", row)
    BY <1>1, <1>3, <1>9
  <2> QED BY <1>5, <1>6, <1>7, <2>1, AddRowAppends
<1> QED BY <1>8, <1>9

(* A table begins with the rows of another.                                *)
Begins(old, rows) == \A i \in DOMAIN old : i \in DOMAIN rows /\ rows[i] = old[i]

(* A name that was added or found is there, behind the others.             *)
LEMMA AddNameAdds ==
  ASSUME NEW w \in Work, NEW str \in Short, AddName(w, str).w.ok
  PROVE  /\ w.ok /\ Begins(w.b.names, AddName(w, str).w.b.names)
         /\ \E i \in DOMAIN AddName(w, str).w.b.names : AddName(w, str).w.b.names[i].str = str
<1> DEFINE found == {i \in DOMAIN w.b.names : w.b.names[i].str = str}
           row == [id |-> w.b.next, str |-> str]
           added == AddRow(w, "names", row)
           more == [added EXCEPT !.b.next = @ + 1]
           names == AddName(w, str).w.b.names
<1> SUFFICES w.ok /\ Begins(w.b.names, names) /\ \E i \in DOMAIN names : names[i].str = str
  OBVIOUS
<1>1. w.b \in Built /\ w.b.names \in Seq(NameRec) /\ Clip[str] = str
  BY DEF Work, Built
<1>2. row \in NameRec /\ row.str = str
  BY <1>1 DEF NameRec, Built
<1>3. RecOf["names"] = NameRec /\ "names" \in RowTables
  BY DEF RowOf, RecOf, RowTables
<1>4. Added(w, added, "names", row)
  <2> HIDE DEF row
  <2> QED BY <1>2, <1>3, AddRowAdds
<1>5. w.ok
  BY <1>1 DEF AddName
<1>6. CASE found # {}
  <2>1. names = w.b.names
    BY <1>1, <1>6 DEF AddName
  <2> HIDE DEF names
  <2> QED BY <1>5, <1>6, <2>1 DEF Begins
<1>7. CASE found = {} /\ added.ok
  <2>1. names = more.b.names
    BY <1>1, <1>5, <1>7 DEF AddName
  <2> HIDE DEF added, row, names
  <2>2. added \in Work /\ added.b["names"] = Append(w.b["names"], row)
    BY <1>4, <1>7 DEF Added
  <2>3. more.b.names = added.b.names
    BY <2>2 DEF Work, Built
  <2>4. names = Append(w.b.names, row)
    BY <1>1, <2>1, <2>2, <2>3 DEF Work, Built
  <2>5. Begins(w.b.names, names) /\ Len(names) \in DOMAIN names /\ names[Len(names)] = row
    BY <1>1, <2>4 DEF Begins
  <2> QED BY <1>2, <1>5, <2>5
<1>8. CASE found = {} /\ ~added.ok
  BY <1>1, <1>5, <1>8 DEF AddName
<1> QED BY <1>6, <1>7, <1>8

(* After its names have been added a side finds all of them.               *)
LEMMA NamesAppear ==
  ASSUME NEW w \in Work, Interned(w.b), NEW t \in Parsed, NEW v, v = MergedNames(w, t.names), v.ok
  PROVE  Keeps(w, v, {"names"}) /\ Begins(w.b.names, v.b.names) /\ HasNames(v.b.names, t)
<1> DEFINE V == {u \in Work : Keeps(w, u, {"names"})}
           n == Len(t.names)
           P == [k \in 0 .. n |->
                   {u \in V : u.ok => /\ Begins(w.b.names, u.b.names)
                                      /\ \A j \in 1 .. k : \E i \in DOMAIN u.b.names :
                                           u.b.names[i].str = t.names[j].str}]
<1>1. t.names \in Seq(NameRec) /\ n \in Nat /\ DOMAIN t.names = 1 .. n
  BY DEF Parsed
<1>2. w \in V
  BY KeepsItself
<1>3. ASSUME NEW u \in V, NEW x \in NameRec PROVE AddName(u, x.str).w \in V
  <2>1. u \in Work /\ Interned(u.b) /\ Keeps(w, u, {"names"}) /\ x.str \in Name
    BY <1>3 DEF Keeps, NameRec
  <2>2. Keeps(u, AddName(u, x.str).w, {"names"})
    BY <2>1, AddNameKeeps
  <2>3. Keeps(w, AddName(u, x.str).w, {"names"})
    BY <2>1, <2>2 DEF Keeps
  <2> QED BY <2>3 DEF Keeps
<1>4. w \in P[0]
  BY <1>1, <1>2 DEF Begins
<1>5. ASSUME NEW k \in 1 .. n, NEW u \in V, u \in P[k - 1] PROVE AddName(u, t.names[k].str).w \in P[k]
  <2> DEFINE x == AddName(u, t.names[k].str).w
  <2>1. t.names[k] \in NameRec
    BY <1>1
  <2>2. t.names[k].str \in Short /\ x \in V /\ u \in Work /\ k - 1 \in 0 .. n /\ k \in 0 .. n
    <3>1. x \in V
      BY <1>3, <2>1
    <3> QED BY <1>1, <2>1, <3>1 DEF NameRec
  <2> SUFFICES ASSUME x.ok
               PROVE  /\ Begins(w.b.names, x.b.names)
                      /\ \A j \in 1 .. k : \E i \in DOMAIN x.b.names : x.b.names[i].str = t.names[j].str
    BY <2>2
  <2>3. /\ u.ok /\ Begins(u.b.names, x.b.names)
        /\ \E i \in DOMAIN x.b.names : x.b.names[i].str = t.names[k].str
    BY <2>2, AddNameAdds
  <2>4. /\ Begins(w.b.names, u.b.names)
        /\ \A j \in 1 .. (k - 1) : \E i \in DOMAIN u.b.names : u.b.names[i].str = t.names[j].str
    BY <1>5, <2>2, <2>3
  <2> HIDE DEF x
  <2>5. Begins(w.b.names, x.b.names)
    BY <2>3, <2>4 DEF Begins
  <2>6. ASSUME NEW j \in 1 .. k PROVE \E i \in DOMAIN x.b.names : x.b.names[i].str = t.names[j].str
    <3>1. CASE j = k
      BY <2>3, <3>1
    <3>2. CASE j # k
      <4>1. j \in 1 .. (k - 1)
        BY <1>1, <3>2
      <4> QED BY <2>3, <2>4, <4>1 DEF Begins
    <3> QED BY <3>1, <3>2
  <2> QED BY <2>5, <2>6
<1>6. v \in V /\ v \in P[n]
  <2> HIDE DEF V, P
  <2> QED BY <1>1, <1>2, <1>3, <1>4, <1>5, NamesFoldStays
<1>7. n \in 0 .. n
  BY <1>1
<1> QED BY <1>1, <1>6, <1>7 DEF HasNames

(* The routes of a side are copied, ...                                    *)
LEMMA RoutesCopied ==
  ASSUME NEW w \in Work, Interned(w.b), NEW t \in Parsed, NEW bias \in Nat, HasNames(w.b.names, t),
         NEW v, v = MergedRoutes(w, t, t.routes, bias), v.ok
  PROVE  /\ v.b.names = w.b.names
         /\ Copied("routes", t, bias, w.b.routes, v.b.routes, w.b.names, Len(t.routes))
<1> DEFINE V == {u \in Work : Keeps(w, u, {"names", "routes"})}
           n == Len(t.routes)
           Good(u, k) == /\ u.b.names = w.b.names
                         /\ Copied("routes", t, bias, w.b.routes, u.b.routes, w.b.names, k)
           P == [k \in 0 .. n |-> {u \in V : u.ok => Good(u, k)}]
<1>1. /\ t.routes \in Seq(RouteRec) /\ n \in Nat /\ DOMAIN t.routes = 1 .. n
      /\ \A u \in Work : u.b.routes \in Seq(RouteRec)
  <2>1. t.routes \in Seq(RouteRec)
    BY DEF Parsed
  <2>2. \A u \in Work : u.b.routes \in Seq(RouteRec)
    BY DEF Work, Built
  <2> QED BY <2>1, <2>2
<1>2. w \in V
  BY KeepsItself
<1>3. ASSUME NEW u \in V, NEW x \in RouteRec PROVE MergeRoute(u, t, x, bias) \in V
  <2>1. u \in Work /\ Interned(u.b) /\ Keeps(w, u, {"names", "routes"})
    BY <1>3 DEF Keeps
  <2>2. Keeps(u, MergeRoute(u, t, x, bias), {"names", "routes"})
    BY <2>1, MergeRouteKeeps
  <2>3. Keeps(w, MergeRoute(u, t, x, bias), {"names", "routes"})
    BY <2>1, <2>2 DEF Keeps
  <2> QED BY <2>3 DEF Keeps
<1>4. w \in P[0]
  BY <1>1, <1>2, CopiesNone
<1>5. ASSUME NEW k \in 1 .. n, NEW u \in V, u \in P[k - 1]
      PROVE  MergeRoute(u, t, t.routes[k], bias) \in P[k]
  <2> DEFINE x == MergeRoute(u, t, t.routes[k], bias)
  <2>1. t.routes[k] \in RouteRec /\ k - 1 \in 0 .. n /\ k \in 0 .. n /\ k \in Nat \ {0}
    BY <1>1
  <2>2. x \in V /\ u \in Work /\ Interned(u.b) /\ (x.ok => u.ok)
    BY <1>3, <2>1, MergeRouteKeeps DEF Keeps
  <2> SUFFICES ASSUME x.ok PROVE Good(x, k)
    BY <2>1, <2>2
  <2>3. u.b.names = w.b.names /\ Copied("routes", t, bias, w.b.routes, u.b.routes, w.b.names, k - 1)
    BY <1>5, <2>1, <2>2
  <2>4. PICK s \in RouteRec : Appended(u, x, "routes", s) /\ Like("routes", t, t.routes[k], w.b.names, s, bias)
    <3> HIDE DEF V, P, Good
    <3> QED BY <2>1, <2>2, <2>3, MergeRouteCopies
  <2> HIDE DEF x
  <2>5. x.b.names = w.b.names /\ x.b.routes = Append(u.b.routes, s)
    BY <2>2, <2>3, <2>4 DEF Appended, Work, Built
  <2>6. Like("routes", t, t["routes"][k], w.b.names, s, bias)
    BY <2>4 DEF Parsed
  <2>7. Copied("routes", t, bias, w.b.routes, Append(u.b.routes, s), w.b.names, k)
    BY <1>1, <2>1, <2>2, <2>3, <2>6, CopiesOneMore
  <2> QED BY <2>5, <2>7
<1>6. v \in P[n]
  <2> HIDE DEF V, P
  <2> QED BY <1>1, <1>2, <1>3, <1>4, <1>5, RoutesFoldStays
<1>7. n \in 0 .. n
  BY <1>1
<1> QED BY <1>6, <1>7

(* ... the instruments, ...                                               *)
LEMMA InstsCopied ==
  ASSUME NEW w \in Work, Interned(w.b), NEW t \in Parsed, NEW bias \in Nat, HasNames(w.b.names, t),
         NEW v, v = MergedInsts(w, t, t.insts, bias), v.ok
  PROVE  /\ v.b.names = w.b.names
         /\ Copied("insts", t, bias, w.b.insts, v.b.insts, w.b.names, Len(t.insts))
<1> DEFINE V == {u \in Work : Keeps(w, u, {"names", "insts"})}
           n == Len(t.insts)
           Good(u, k) == /\ u.b.names = w.b.names
                         /\ Copied("insts", t, bias, w.b.insts, u.b.insts, w.b.names, k)
           P == [k \in 0 .. n |-> {u \in V : u.ok => Good(u, k)}]
<1>1. /\ t.insts \in Seq(InstRec) /\ n \in Nat /\ DOMAIN t.insts = 1 .. n
      /\ \A u \in Work : u.b.insts \in Seq(InstRec)
  <2>1. t.insts \in Seq(InstRec)
    BY DEF Parsed
  <2>2. \A u \in Work : u.b.insts \in Seq(InstRec)
    BY DEF Work, Built
  <2> QED BY <2>1, <2>2
<1>2. w \in V
  BY KeepsItself
<1>3. ASSUME NEW u \in V, NEW x \in InstRec PROVE MergeInst(u, t, x, bias) \in V
  <2>1. u \in Work /\ Interned(u.b) /\ Keeps(w, u, {"names", "insts"})
    BY <1>3 DEF Keeps
  <2>2. Keeps(u, MergeInst(u, t, x, bias), {"names", "insts"})
    BY <2>1, MergeInstKeeps
  <2>3. Keeps(w, MergeInst(u, t, x, bias), {"names", "insts"})
    BY <2>1, <2>2 DEF Keeps
  <2> QED BY <2>3 DEF Keeps
<1>4. w \in P[0]
  BY <1>1, <1>2, CopiesNone
<1>5. ASSUME NEW k \in 1 .. n, NEW u \in V, u \in P[k - 1]
      PROVE  MergeInst(u, t, t.insts[k], bias) \in P[k]
  <2> DEFINE x == MergeInst(u, t, t.insts[k], bias)
  <2>1. t.insts[k] \in InstRec /\ k - 1 \in 0 .. n /\ k \in 0 .. n /\ k \in Nat \ {0}
    BY <1>1
  <2>2. x \in V /\ u \in Work /\ Interned(u.b) /\ (x.ok => u.ok)
    BY <1>3, <2>1, MergeInstKeeps DEF Keeps
  <2> SUFFICES ASSUME x.ok PROVE Good(x, k)
    BY <2>1, <2>2
  <2>3. u.b.names = w.b.names /\ Copied("insts", t, bias, w.b.insts, u.b.insts, w.b.names, k - 1)
    BY <1>5, <2>1, <2>2
  <2>4. PICK s \in InstRec : Appended(u, x, "insts", s) /\ Like("insts", t, t.insts[k], w.b.names, s, bias)
    <3> HIDE DEF V, P, Good
    <3> QED BY <2>1, <2>2, <2>3, MergeInstCopies
  <2> HIDE DEF x
  <2>5. x.b.names = w.b.names /\ x.b.insts = Append(u.b.insts, s)
    BY <2>2, <2>3, <2>4 DEF Appended, Work, Built
  <2>6. Like("insts", t, t["insts"][k], w.b.names, s, bias)
    BY <2>4 DEF Parsed
  <2>7. Copied("insts", t, bias, w.b.insts, Append(u.b.insts, s), w.b.names, k)
    BY <1>1, <2>1, <2>2, <2>3, <2>6, CopiesOneMore
  <2> QED BY <2>5, <2>7
<1>6. v \in P[n]
  <2> HIDE DEF V, P
  <2> QED BY <1>1, <1>2, <1>3, <1>4, <1>5, InstsFoldStays
<1>7. n \in 0 .. n
  BY <1>1
<1> QED BY <1>6, <1>7

(* ... the waves: one without samples leaves no image, ...                 *)
LEMMA WavesLikeSkips ==
  ASSUME NEW R, NEW old \in Seq(R), NEW rows \in Seq(R), NEW t, NEW bias,
         NEW k \in Nat \ {0}, WavesLike(t, bias, old, rows, k - 1), t.waves[k].samples = 0
  PROVE  WavesLike(t, bias, old, rows, k)
<1> DEFINE J == Len(old) + 1 .. Len(rows)
<1>1. PICK at \in [J -> 1 .. k - 1] :
        /\ \A i, j \in J : i < j => at[i] < at[j]
        /\ \A j \in J : IsImage(t.waves[at[j]], rows[j], bias)
        /\ \A i \in 1 .. k - 1 : t.waves[i].samples # 0 => \E j \in J : at[j] = i
  BY DEF WavesLike
<1>2. at \in [J -> 1 .. k]
  <2>1. \A j \in J : at[j] \in 1 .. k - 1
    BY <1>1
  <2>2. \A i \in 1 .. k - 1 : i \in 1 .. k
    OBVIOUS
  <2> HIDE DEF J
  <2> QED BY <1>1, <2>1, <2>2
<1>3. \A i \in 1 .. k : i = k \/ i \in 1 .. k - 1
  OBVIOUS
<1>4. \A i \in 1 .. k : t.waves[i].samples # 0 => \E j \in J : at[j] = i
  BY <1>1, <1>3
<1> QED BY <1>1, <1>2, <1>4 DEF WavesLike

(* ... any other one leaves its image behind the others, ...               *)
LEMMA WavesLikeGrows ==
  ASSUME NEW R, NEW old \in Seq(R), NEW rows \in Seq(R), NEW s \in R, NEW t, NEW bias,
         NEW k \in Nat \ {0}, WavesLike(t, bias, old, rows, k - 1), IsImage(t.waves[k], s, bias)
  PROVE  WavesLike(t, bias, old, Append(rows, s), k)
<1> DEFINE new == Append(rows, s)
           n == Len(rows)
           J == Len(old) + 1 .. n
           K == Len(old) + 1 .. n + 1
<1>1. /\ n \in Nat /\ Len(old) \in Nat /\ Len(old) <= n /\ Len(new) = n + 1
      /\ \A i \in 1 .. n : new[i] = rows[i]
      /\ new[n + 1] = s /\ \A i \in 1 .. Len(old) : rows[i] = old[i]
  BY DEF WavesLike
<1>2. PICK at \in [J -> 1 .. k - 1] :
        /\ \A i, j \in J : i < j => at[i] < at[j]
        /\ \A j \in J : IsImage(t.waves[at[j]], rows[j], bias)
        /\ \A i \in 1 .. k - 1 : t.waves[i].samples # 0 => \E j \in J : at[j] = i
  BY DEF WavesLike
<1> HIDE DEF new
<1> DEFINE more == [j \in K |-> IF j = n + 1 THEN k ELSE at[j]]
<1>3. /\ n + 1 \in K /\ J \subseteq K /\ n + 1 \notin J
      /\ \A j \in K : j = n + 1 \/ (j \in J /\ j \in 1 .. n /\ j < n + 1)
  BY <1>1
<1> HIDE DEF n, J, K
<1>4. /\ more[n + 1] = k
      /\ \A j \in J : more[j] = at[j] /\ at[j] \in 1 .. k - 1
  BY <1>2, <1>3
<1>5. more \in [K -> 1 .. k]
  <2>1. \A i \in 1 .. k - 1 : i \in 1 .. k
    OBVIOUS
  <2>2. \A j \in K : more[j] \in 1 .. k
    BY <1>3, <1>4, <2>1
  <2> QED BY <2>2
<1> HIDE DEF more
<1>6. \A i, j \in K : i < j => more[i] < more[j]
  <2> TAKE i, j \in K
  <2>1. CASE i \in J /\ j \in J
    BY <1>2, <1>4, <2>1
  <2>2. CASE i \in J /\ j = n + 1
    BY <1>4, <2>2
  <2>3. CASE i = n + 1
    BY <1>1, <1>3, <2>3
  <2> QED BY <1>3, <2>1, <2>2, <2>3
<1>7. \A j \in K : IsImage(t.waves[more[j]], new[j], bias)
  <2> TAKE j \in K
  <2>1. CASE j = n + 1
    BY <1>1, <1>4, <2>1
  <2>2. CASE j \in J
    BY <1>1, <1>2, <1>3, <1>4, <2>2
  <2> QED BY <1>3, <2>1, <2>2
<1>8. \A i \in 1 .. k : t.waves[i].samples # 0 => \E j \in K : more[j] = i
  <2> TAKE i \in 1 .. k
  <2>1. i = k \/ i \in 1 .. k - 1
    OBVIOUS
  <2> QED BY <1>2, <1>3, <1>4, <2>1
<1>9. \A i \in 1 .. Len(old) : new[i] = old[i]
  BY <1>1
<1>10. Len(old) + 1 .. Len(new) = K /\ Len(old) <= Len(new)
  BY <1>1 DEF K
<1>11. WavesLike(t, bias, old, new, k)
  BY <1>5, <1>6, <1>7, <1>8, <1>9, <1>10 DEF WavesLike
<1> QED BY <1>11 DEF new

(* ... and so table by table, ...                                          *)
LEMMA WavesCopied ==
  ASSUME NEW w \in Work, Interned(w.b), NEW t \in Parsed, NEW bias \in Nat, NEW v, v = MergedWaves(w, t.waves, bias), v.ok
  PROVE  /\ v.b.names = w.b.names
         /\ WavesLike(t, bias, w.b.waves, v.b.waves, Len(t.waves))
<1> DEFINE V == {u \in Work : Keeps(w, u, {"waves"})}
           n == Len(t.waves)
           Good(u, k) == /\ u.b.names = w.b.names
                         /\ WavesLike(t, bias, w.b.waves, u.b.waves, k)
           P == [k \in 0 .. n |-> {u \in V : u.ok => Good(u, k)}]
<1>1. /\ t.waves \in Seq(WaveRec) /\ n \in Nat /\ DOMAIN t.waves = 1 .. n
      /\ \A u \in Work : u.b.waves \in Seq(WaveRec)
  <2>1. t.waves \in Seq(WaveRec)
    BY DEF Parsed
  <2>2. \A u \in Work : u.b.waves \in Seq(WaveRec)
    BY DEF Work, Built
  <2> QED BY <2>1, <2>2
<1>2. w \in V
  BY KeepsItself
<1>3. ASSUME NEW u \in V, NEW x \in WaveRec PROVE MergeWave(u, x, bias) \in V
  <2>1. u \in Work /\ Interned(u.b) /\ Keeps(w, u, {"waves"})
    BY <1>3 DEF Keeps
  <2>2. Keeps(u, MergeWave(u, x, bias), {"waves"})
    BY <2>1, MergeWaveKeeps
  <2>3. Keeps(w, MergeWave(u, x, bias), {"waves"})
    BY <2>1, <2>2 DEF Keeps
  <2> QED BY <2>3 DEF Keeps
<1>4. w \in P[0]
  <2>1. WavesLike(t, bias, w.b.waves, w.b.waves, 0)
    <3>1. Len(w.b.waves) \in Nat
      BY <1>1
    <3>2. Len(w.b.waves) + 1 .. Len(w.b.waves) = {}
      BY <3>1
    <3>3. << >> \in [{} -> 1 .. 0] /\ 1 .. 0 = {}
      OBVIOUS
    <3>4. \E at \in [{} -> 1 .. 0] :
            /\ \A i, j \in {} : i < j => at[i] < at[j]
            /\ \A j \in {} : IsImage(t.waves[at[j]], w.b.waves[j], bias)
            /\ \A i \in 1 .. 0 : t.waves[i].samples # 0 => \E j \in {} : at[j] = i
      BY <3>3
    <3>5. Len(w.b.waves) <= Len(w.b.waves)
      BY <3>1
    <3> QED BY <3>2, <3>4, <3>5, Zenon DEF WavesLike
  <2> QED BY <1>1, <1>2, <2>1
<1>5. ASSUME NEW k \in 1 .. n, NEW u \in V, u \in P[k - 1]
      PROVE  MergeWave(u, t.waves[k], bias) \in P[k]
  <2> DEFINE x == MergeWave(u, t.waves[k], bias)
  <2>1. t.waves[k] \in WaveRec /\ k - 1 \in 0 .. n /\ k \in 0 .. n /\ k \in Nat \ {0}
    BY <1>1
  <2>2. x \in V /\ u \in Work /\ Interned(u.b) /\ (x.ok => u.ok)
    BY <1>3, <2>1, MergeWaveKeeps DEF Keeps
  <2> SUFFICES ASSUME x.ok PROVE Good(x, k)
    BY <2>1, <2>2
  <2>3. u.b.names = w.b.names /\ WavesLike(t, bias, w.b.waves, u.b.waves, k - 1)
    BY <1>5, <2>1, <2>2
  <2>4. CASE t.waves[k].samples = 0
    <3>1. x = u
      BY <2>4 DEF MergeWave
    <3>2. WavesLike(t, bias, w.b.waves, u.b.waves, k)
      BY <1>1, <2>1, <2>2, <2>3, <2>4, WavesLikeSkips
    <3> HIDE DEF x
    <3> QED BY <2>3, <3>1, <3>2
  <2>5. CASE t.waves[k].samples # 0
    <3>1. PICK s \in WaveRec : Appended(u, x, "waves", s) /\ IsImage(t.waves[k], s, bias)
      <4> HIDE DEF V, P, Good
      <4> QED BY <2>1, <2>2, <2>5, MergeWaveCopies
    <3> HIDE DEF x
    <3>2. x.b.names = w.b.names /\ x.b.waves = Append(u.b.waves, s)
      BY <2>2, <2>3, <3>1 DEF Appended, Work, Built
    <3>3. WavesLike(t, bias, w.b.waves, Append(u.b.waves, s), k)
      BY <1>1, <2>1, <2>2, <2>3, <3>1, WavesLikeGrows
    <3> QED BY <3>2, <3>3
  <2> QED BY <2>4, <2>5
<1>6. v \in P[n]
  <2> HIDE DEF V, P
  <2> QED BY <1>1, <1>2, <1>3, <1>4, <1>5, WavesFoldStays
<1>7. n \in 0 .. n
  BY <1>1
<1> QED BY <1>6, <1>7

(* ... the windows, ...                                                    *)
LEMMA WindowsCopied ==
  ASSUME NEW w \in Work, Interned(w.b), NEW t \in Parsed, NEW bias \in Nat, NEW v,
         v = AddRows(w, "windows", [i \in DOMAIN t.windows |-> BiasedWindow(t.windows[i], bias)]),
         v.ok
  PROVE  /\ v.b.names = w.b.names
         /\ Copied("windows", t, bias, w.b.windows, v.b.windows, w.b.names, Len(t.windows))
<1> DEFINE rows == [i \in DOMAIN t.windows |-> BiasedWindow(t.windows[i], bias)]
           n == Len(rows)
           V == {u \in Work : Keeps(w, u, {"windows"})}
           Good(u, k) == /\ u.b.names = w.b.names
                         /\ Copied("windows", t, bias, w.b.windows, u.b.windows, w.b.names, k)
<1>1. /\ rows \in Seq(WindowRec) /\ n \in Nat /\ n = Len(t.windows)
      /\ \A i \in 1 .. n : Like("windows", t, t.windows[i], w.b.names, rows[i], bias)
  <2>1. t.windows \in Seq(WindowRec)
    BY DEF Parsed
  <2>2. ASSUME NEW i \in DOMAIN t.windows
        PROVE  /\ BiasedWindow(t.windows[i], bias) \in WindowRec
               /\ Like("windows", t, t.windows[i], w.b.names, BiasedWindow(t.windows[i], bias), bias)
    <3> DEFINE r == t.windows[i]
               id == Biased(r.id, bias)
               route == Biased(r.route, bias)
               inst == Biased(r.inst, bias)
               calib == Biased(r.calib, bias)
               wave == Biased(r.wave, bias)
               s == BiasedWindow(r, bias)
    <3>1. r \in WindowRec
      BY <2>1
    <3>2. s = [r EXCEPT !.id = id, !.route = route, !.inst = inst, !.calib = calib, !.wave = wave]
      <4> HIDE DEF r
      <4> QED BY <3>1, Zenon DEF BiasedWindow, WindowRec
    <3>3. id \in Id /\ route \in Id /\ inst \in Id /\ calib \in Id /\ wave \in Id
      BY <3>1, BiasedIsId DEF WindowRec
    <3>4. s \in WindowRec /\ s.id = id /\ s.route = route /\ s.inst = inst /\ s.wave = wave
      <4> HIDE DEF id, route, inst, calib, wave, r, s
      <4> QED BY <3>1, <3>2, <3>3 DEF WindowRec
    <3>5. Like("windows", t, r, w.b.names, s, bias)
      <4> HIDE DEF s, r
      <4> QED BY <3>4 DEF Like
    <3> QED BY <3>4, <3>5
  <2>3. t.windows = [i \in 1 .. Len(t.windows) |-> t.windows[i]] /\ Len(t.windows) \in Nat
    BY <2>1
  <2> QED BY <2>2, <2>3
<1>2. v = AddRows(w, "windows", rows) /\ t["windows"] = t.windows
  BY DEF Parsed
<1> HIDE DEF rows
<1>3. "windows" \in RowTables \ {"names"} /\ RecOf["windows"] = WindowRec
  BY DEF RowTables, RowOf, RecOf
<1>4. w \in V
  BY KeepsItself
<1>5. ASSUME NEW u \in V, NEW x \in WindowRec PROVE AddRow(u, "windows", x) \in V
  <2>1. u \in Work /\ Interned(u.b) /\ Keeps(w, u, {"windows"})
    BY <1>5 DEF Keeps
  <2>2. Keeps(u, AddRow(u, "windows", x), {"windows"})
    BY <1>3, <2>1, AddRowKeeps
  <2>3. Keeps(w, AddRow(u, "windows", x), {"windows"})
    BY <2>1, <2>2 DEF Keeps
  <2> QED BY <2>3 DEF Keeps
<1>6. PICK r \in [0 .. n -> V] : RowsAdded(r, w, "windows", rows, v)
  <2> HIDE DEF V
  <2> QED BY <1>1, <1>2, <1>4, <1>5, AddRowsRun
<1>7. /\ r[0] = w /\ r[n] = v
      /\ \A k \in 1 .. n : r[k] = AddRow(r[k - 1], "windows", rows[k])
  BY <1>6 DEF RowsAdded
<1>8. \A u \in Work : u.b.windows \in Seq(WindowRec)
  BY DEF Work, Built
<1> DEFINE G == {k \in 0 .. n : r[k].ok => Good(r[k], k)}
<1>9. 0 \in G
  BY <1>1, <1>7, <1>8, CopiesNone
<1>10. ASSUME NEW k \in 1 .. n, k - 1 \in G PROVE k \in G
  <2> DEFINE u == r[k - 1]
             x == r[k]
  <2>1. /\ k - 1 \in 0 .. n /\ k \in 0 .. n /\ k \in Nat \ {0} /\ u \in V /\ rows[k] \in WindowRec
        /\ u \in Work /\ u.b.windows \in Seq(WindowRec)
    <3>1. k - 1 \in 0 .. n /\ k \in 0 .. n /\ k \in Nat \ {0}
      BY <1>1
    <3>2. rows[k] \in WindowRec
      BY <1>1
    <3>3. u \in V
      <4> HIDE DEF V
      <4> QED BY <1>6, <3>1
    <3> QED BY <1>8, <3>1, <3>2, <3>3
  <2> SUFFICES ASSUME x.ok PROVE Good(x, k)
    BY <2>1
  <2>2. x = AddRow(u, "windows", rows[k])
    BY <1>7
  <2>3. Appended(u, x, "windows", rows[k])
    <3> HIDE DEF u, x, V
    <3> QED BY <1>3, <2>1, <2>2, AddRowAppends
  <2>4. Good(u, k - 1)
    BY <1>10, <2>3 DEF Appended
  <2>5. x \in Work
    BY <1>6, <2>1
  <2> HIDE DEF u, x, V
  <2>6. x.b.names = w.b.names /\ x.b.windows = Append(u.b.windows, rows[k])
    BY <2>1, <2>3, <2>4, <2>5 DEF Appended, Work, Built
  <2>7. Like("windows", t, t["windows"][k], w.b.names, rows[k], bias)
    BY <1>1, <1>2
  <2>8. Copied("windows", t, bias, w.b.windows, Append(u.b.windows, rows[k]), w.b.names, k)
    BY <1>8, <2>1, <2>4, <2>7, CopiesOneMore
  <2> QED BY <2>6, <2>8
<1>11. \A k \in 0 .. n : k \in G
  <2> HIDE DEF G
  <2> QED BY <1>1, <1>9, <1>10, PrefixInduction
<1>12. n \in G
  <2> HIDE DEF G
  <2> QED BY <1>1, <1>11
<1> QED BY <1>1, <1>7, <1>12

(* Of the first k markers of a side those that have a window are behind    *)
(* the old ones; and what is behind them is from the side.                 *)
MarksLike(t, bias, old, rows, names, k) ==
  /\ Begins(old, rows)
  /\ \A i \in 1 .. k : t.marks[i].window \in Ids(t.windows) =>
       \E j \in DOMAIN rows : Like("marks", t, t.marks[i], names, rows[j], bias)
  /\ \A j \in DOMAIN rows : j \in DOMAIN old \/
       \E i \in 1 .. k : Like("marks", t, t.marks[i], names, rows[j], bias)

(* ... and the markers that have a window.                                 *)
LEMMA MarksCopied ==
  ASSUME NEW w \in Work, Interned(w.b), NEW t \in Parsed, NEW bias \in Nat, HasNames(w.b.names, t),
         NEW opt, NEW v, v = MergedMarks(w, t, t.marks, opt, bias), v.ok
  PROVE  /\ v.b.names = w.b.names
         /\ MarksLike(t, bias, w.b.marks, v.b.marks, w.b.names, Len(t.marks))
<1> DEFINE V == {u \in Work : Keeps(w, u, {"names", "marks"})}
           n == Len(t.marks)
           Good(u, k) == /\ u.b.names = w.b.names
                         /\ MarksLike(t, bias, w.b.marks, u.b.marks, w.b.names, k)
           P == [k \in 0 .. n |-> {u \in V : u.ok => Good(u, k)}]
<1>1. /\ t.marks \in Seq(MarkRec) /\ n \in Nat /\ DOMAIN t.marks = 1 .. n
      /\ \A u \in Work : u.b.marks \in Seq(MarkRec)
  <2>1. t.marks \in Seq(MarkRec)
    BY DEF Parsed
  <2>2. \A u \in Work : u.b.marks \in Seq(MarkRec)
    BY DEF Work, Built
  <2> QED BY <2>1, <2>2
<1>2. w \in V
  BY KeepsItself
<1>3. ASSUME NEW u \in V, NEW x \in MarkRec PROVE MergeMark(u, t, x, opt, bias) \in V
  <2>1. u \in Work /\ Interned(u.b) /\ Keeps(w, u, {"names", "marks"})
    BY <1>3 DEF Keeps
  <2>2. Keeps(u, MergeMark(u, t, x, opt, bias), {"names", "marks"})
    BY <2>1, MergeMarkKeeps
  <2>3. Keeps(w, MergeMark(u, t, x, opt, bias), {"names", "marks"})
    BY <2>1, <2>2 DEF Keeps
  <2> QED BY <2>3 DEF Keeps
<1>4. w \in P[0]
  BY <1>1, <1>2 DEF MarksLike, Begins
<1>5. ASSUME NEW k \in 1 .. n, NEW u \in V, u \in P[k - 1]
      PROVE  MergeMark(u, t, t.marks[k], opt, bias) \in P[k]
  <2> DEFINE m == t.marks[k]
             x == MergeMark(u, t, m, opt, bias)
  <2>1. m \in MarkRec /\ k - 1 \in 0 .. n /\ k \in 0 .. n /\ k \in Nat \ {0}
    BY <1>1
  <2>2. x \in V /\ u \in Work /\ Interned(u.b) /\ (x.ok => u.ok)
    BY <1>3, <2>1, MergeMarkKeeps DEF Keeps
  <2> SUFFICES ASSUME x.ok PROVE Good(x, k)
    BY <2>1, <2>2
  <2>3. u.b.names = w.b.names /\ MarksLike(t, bias, w.b.marks, u.b.marks, w.b.names, k - 1)
    BY <1>5, <2>1, <2>2
  <2>4. \/ x = u /\ m.window \notin Ids(t.windows)
        \/ \E s \in MarkRec : Appended(u, x, "marks", s) /\ Like("marks", t, m, w.b.names, s, bias)
    <3> HIDE DEF V, P, Good, m
    <3> QED BY <2>1, <2>2, <2>3, MergeMarkCopies
  <2>5. \A i \in 1 .. k : i \in 1 .. (k - 1) \/ i = k
    BY <2>1
  <2>6. 1 .. (k - 1) \subseteq 1 .. k /\ k \in 1 .. k
    BY <2>1
  <2> HIDE DEF x
  <2>7. CASE x = u /\ m.window \notin Ids(t.windows)
    <3> HIDE DEF V, P, n
    <3>1. MarksLike(t, bias, w.b.marks, u.b.marks, w.b.names, k)
      BY <2>3, <2>5, <2>6, <2>7 DEF MarksLike
    <3> QED BY <2>3, <2>7, <3>1
  <2>8. ASSUME NEW s \in MarkRec, Appended(u, x, "marks", s), Like("marks", t, m, w.b.names, s, bias)
        PROVE  Good(x, k)
    <3>1. x.b.names = w.b.names /\ x.b.marks = Append(u.b.marks, s) /\ u.b.marks \in Seq(MarkRec)
      BY <1>1, <2>2, <2>3, <2>8 DEF Appended, Work, Built
    <3> DEFINE new == Append(u.b.marks, s)
    <3>2. /\ \A j \in DOMAIN u.b.marks : j \in DOMAIN new /\ new[j] = u.b.marks[j]
          /\ \A j \in DOMAIN new : j \in DOMAIN u.b.marks \/ new[j] = s
          /\ \E j \in DOMAIN new : new[j] = s
      <4> DEFINE rows == u.b.marks
      <4>1. rows \in Seq(MarkRec) /\ new = Append(rows, s)
        BY <3>1
      <4> HIDE DEF rows, new
      <4>2. Len(rows) + 1 \in DOMAIN new /\ new[Len(rows) + 1] = s
        BY <4>1
      <4>3. \A j \in DOMAIN rows : j \in DOMAIN new /\ new[j] = rows[j]
        BY <4>1
      <4>4. \A j \in DOMAIN new : j \in DOMAIN rows \/ new[j] = s
        BY <4>1
      <4> QED BY <4>2, <4>3, <4>4 DEF rows
    <3> HIDE DEF new, V, P, n, m
    <3>3. Begins(w.b.marks, new)
      BY <2>3, <3>2 DEF MarksLike, Begins
    <3>4. ASSUME NEW i \in 1 .. k, t.marks[i].window \in Ids(t.windows)
          PROVE  \E j \in DOMAIN new : Like("marks", t, t.marks[i], w.b.names, new[j], bias)
      <4>1. CASE i = k
        BY <2>8, <3>2, <4>1 DEF m
      <4>2. CASE i \in 1 .. (k - 1)
        <5>1. PICK j \in DOMAIN u.b.marks : Like("marks", t, t.marks[i], w.b.names, u.b.marks[j], bias)
          BY <2>3, <3>4, <4>2 DEF MarksLike
        <5>2. j \in DOMAIN new /\ new[j] = u.b.marks[j]
          BY <3>2
        <5> QED BY <5>1, <5>2
      <4> QED BY <2>5, <4>1, <4>2
    <3>5. ASSUME NEW j \in DOMAIN new, j \notin DOMAIN w.b.marks
          PROVE  \E i \in 1 .. k : Like("marks", t, t.marks[i], w.b.names, new[j], bias)
      <4>1. CASE new[j] = s
        BY <2>6, <2>8, <4>1 DEF m
      <4>2. CASE j \in DOMAIN u.b.marks
        <5>1. new[j] = u.b.marks[j]
          BY <3>2, <4>2
        <5>2. PICK i \in 1 .. (k - 1) : Like("marks", t, t.marks[i], w.b.names, u.b.marks[j], bias)
          BY <2>3, <3>5, <4>2 DEF MarksLike
        <5> QED BY <2>6, <5>1, <5>2
      <4> QED BY <3>2, <4>1, <4>2
    <3>6. MarksLike(t, bias, w.b.marks, new, w.b.names, k)
      BY <3>3, <3>4, <3>5 DEF MarksLike
    <3> QED BY <3>1, <3>6 DEF new
  <2> QED BY <2>4, <2>7, <2>8
<1>6. v \in P[n]
  <2> HIDE DEF V, P
  <2> QED BY <1>1, <1>2, <1>3, <1>4, <1>5, MarksFoldStays
<1>7. n \in 0 .. n
  BY <1>1
<1> QED BY <1>6, <1>7

(* Notes find their names, and leave them.                                 *)
LEMMA NotesKeepNames ==
  ASSUME NEW w \in Work, Interned(w.b), NEW t \in Parsed, NEW bias \in Nat, HasNames(w.b.names, t),
         NEW v, v = MergedNotes(w, t, t.notes, bias), v.ok
  PROVE  v.b.names = w.b.names
<1> DEFINE V == {u \in Work : Keeps(w, u, {"names", "notes"}) /\ (u.ok => u.b.names = w.b.names)}
<1>1. t.notes \in Seq(NoteRec)
  BY DEF Parsed
<1>2. w \in V
  BY KeepsItself
<1>3. ASSUME NEW u \in V, NEW n \in NoteRec PROVE MergeNote(u, t, n, bias) \in V
  <2> DEFINE text == MapName(u, t, n.text)
             id == Biased(n.id, bias)
             target == Biased(n.target, bias)
             row == [n EXCEPT !.id = id, !.target = target, !.text = text.id]
             x == MergeNote(u, t, n, bias)
  <2>1. u \in Work /\ Interned(u.b) /\ Keeps(w, u, {"names", "notes"})
    BY <1>3 DEF Keeps
  <2>2. Keeps(u, x, {"names", "notes"})
    BY <2>1, MergeNoteKeeps
  <2>3. Keeps(w, x, {"names", "notes"})
    BY <2>1, <2>2 DEF Keeps
  <2>4. ASSUME x.ok PROVE x.b.names = w.b.names
    <3>1. x = AddRow(text.w, "notes", row)
      BY DEF MergeNote, NoteRec
    <3>2. n.text \in Nat /\ n.id \in Nat /\ n.target \in Nat
      BY DEF NoteRec
    <3>3. u.ok /\ u.b.names = w.b.names
      BY <1>3, <2>2, <2>4 DEF Keeps
    <3>4. text.w = u /\ text.id \in Nat
      BY <2>1, <3>2, <3>3, MapNameKeeps, MapNameFinds
    <3> HIDE DEF text
    <3>5. id \in Id /\ target \in Id
      BY <3>2, BiasedIsId
    <3> HIDE DEF id, target
    <3>6. row \in NoteRec
      BY <3>4, <3>5 DEF NoteRec
    <3> HIDE DEF row, x
    <3>7. row \in RecOf["notes"] /\ "notes" \in RowTables \ {"names"}
      BY <3>6 DEF RowOf, RecOf, RowTables
    <3>8. Appended(u, x, "notes", row)
      <4>1. x = AddRow(u, "notes", row)
        BY <3>1, <3>4
      <4> QED BY <2>1, <2>4, <3>7, <4>1, AddRowAppends
    <3> QED BY <3>3, <3>8 DEF Appended
  <2> QED BY <2>3, <2>4 DEF Keeps
<1>4. v \in V
  <2> HIDE DEF V
  <2> QED BY <1>1, <1>2, <1>3, NotesFoldStays
<1> QED BY <1>4

(* The tables that a step keeps.                                           *)
LEMMA FieldsStay ==
  ASSUME NEW u \in Work, NEW T, NEW v, Keeps(u, v, T)
  PROVE  /\ "names" \notin T => v.b.names = u.b.names
         /\ "routes" \notin T => v.b.routes = u.b.routes
         /\ "insts" \notin T => v.b.insts = u.b.insts
         /\ "windows" \notin T => v.b.windows = u.b.windows
         /\ "waves" \notin T => v.b.waves = u.b.waves
         /\ "marks" \notin T => v.b.marks = u.b.marks
<1>1. /\ u.b \in Built /\ v.b \in Built
      /\ {"names", "routes", "insts", "windows", "waves", "marks"} \subseteq RowTables
  BY DEF Keeps, Work, RowTables, RowOf
<1>2. \A b \in Built : /\ b["names"] = b.names /\ b["routes"] = b.routes /\ b["insts"] = b.insts
                       /\ b["windows"] = b.windows /\ b["waves"] = b.waves /\ b["marks"] = b.marks
  OBVIOUS
<1> QED BY <1>1, <1>2 DEF Keeps

(* A builder that had the tables of old has those of the side t behind     *)
(* them.                                                                   *)
SideCopied(t, bias, old, b) ==
  /\ Begins(old.names, b.names) /\ HasNames(b.names, t)
  /\ Copied("routes", t, bias, old.routes, b.routes, b.names, Len(t.routes))
  /\ Copied("insts", t, bias, old.insts, b.insts, b.names, Len(t.insts))
  /\ Copied("windows", t, bias, old.windows, b.windows, b.names, Len(t.windows))
  /\ WavesLike(t, bias, old.waves, b.waves, Len(t.waves))
  /\ MarksLike(t, bias, old.marks, b.marks, b.names, Len(t.marks))

(* rv_merge_side.                                                          *)
LEMMA MergeSideKeeps ==
  ASSUME NEW w \in Work, Interned(w.b), NEW t \in Parsed, NEW bias \in Nat, NEW opt
  PROVE  /\ Keeps(w, MergeSide(w, t, opt, bias), RowTables)
         /\ opt.drop_unlinked /\ Linked(w.b) => Linked(MergeSide(w, t, opt, bias).b)
         /\ MergeSide(w, t, opt, bias).ok => SideCopied(t, bias, w.b, MergeSide(w, t, opt, bias).b)
<1> DEFINE names == MergedNames(w, t.names)
           routes == MergedRoutes(names, t, t.routes, bias)
           insts == MergedInsts(routes, t, t.insts, bias)
           calibRows == [i \in DOMAIN t.calibs |-> BiasedCalib(t.calibs[i], bias)]
           calibs == AddRows(insts, "calibs", calibRows)
           windows == AddRows(calibs, "windows",
                              [i \in DOMAIN t.windows |-> BiasedWindow(t.windows[i], bias)])
           waves == MergedWaves(windows, t.waves, bias)
           marks == MergedMarks(waves, t, t.marks, opt, bias)
           linkRows == [i \in DOMAIN t.links |-> BiasedLink(t.links[i], bias)]
           links == AddRows(marks, "links", linkRows)
           notes == MergedNotes(links, t, t.notes, bias)
<1>1. MergeSide(w, t, opt, bias) = IF opt.notes THEN notes ELSE links
  BY DEF MergeSide, MergedNames, MergedRoutes, MergedInsts, MergedWaves, MergedMarks, MergedNotes
<1>2. /\ t.names \in Seq(NameRec) /\ t.routes \in Seq(RouteRec) /\ t.insts \in Seq(InstRec)
      /\ t.calibs \in Seq(CalibRec) /\ t.windows \in Seq(WindowRec) /\ t.waves \in Seq(WaveRec)
      /\ t.marks \in Seq(MarkRec) /\ t.links \in Seq(LinkRec) /\ t.notes \in Seq(NoteRec)
  BY DEF Parsed
<1>3. /\ {"names", "routes", "insts", "calibs", "windows", "waves", "marks", "links", "notes"}
            = RowTables
      /\ RecOf["calibs"] = CalibRec /\ RecOf["links"] = LinkRec
  BY DEF RowTables, RowOf, RecOf
<1>4. /\ Keeps(w, names, {"names"})
      /\ names.ok => Begins(w.b.names, names.b.names) /\ HasNames(names.b.names, t)
  <2> DEFINE V == {v \in Work : Keeps(w, v, {"names"})}
  <2>1. w \in V
    BY KeepsItself
  <2>2. ASSUME NEW v \in V, NEW x \in NameRec PROVE AddName(v, x.str).w \in V
    <3>1. v \in Work /\ Interned(v.b) /\ Keeps(w, v, {"names"}) /\ x.str \in Name
      BY <2>2 DEF Keeps, NameRec
    <3>2. Keeps(v, AddName(v, x.str).w, {"names"})
      BY <3>1, AddNameKeeps
    <3>3. Keeps(w, AddName(v, x.str).w, {"names"})
      BY <3>1, <3>2 DEF Keeps
    <3> QED BY <3>3 DEF Keeps
  <2>3. names \in V
    <3> HIDE DEF V
    <3> QED BY <1>2, <2>1, <2>2, NamesFoldStays
  <2>4. names.ok => Begins(w.b.names, names.b.names) /\ HasNames(names.b.names, t)
    BY NamesAppear
  <2> HIDE DEF names
  <2> QED BY <2>3, <2>4
<1> HIDE DEF names
<1>5. /\ Keeps(names, routes, {"names", "routes"})
      /\ routes.ok => /\ routes.b.names = names.b.names
                      /\ Copied("routes", t, bias, names.b.routes, routes.b.routes, names.b.names,
                                Len(t.routes))
  <2> DEFINE T == {"names", "routes"}
             V == {v \in Work : Keeps(names, v, T)}
  <2>1. names \in V
    BY <1>4, KeepsItself DEF Keeps
  <2>2. ASSUME NEW v \in V, NEW x \in RouteRec PROVE MergeRoute(v, t, x, bias) \in V
    <3>1. v \in Work /\ Interned(v.b) /\ Keeps(names, v, T)
      BY <2>2 DEF Keeps
    <3>2. Keeps(v, MergeRoute(v, t, x, bias), T)
      BY <3>1, MergeRouteKeeps
    <3>3. Keeps(names, MergeRoute(v, t, x, bias), T)
      BY <3>1, <3>2 DEF Keeps
    <3> QED BY <3>3 DEF Keeps
  <2>3. routes \in V
    <3> HIDE DEF V
    <3> QED BY <1>2, <2>1, <2>2, RoutesFoldStays
  <2>4. routes.ok => names.ok
    BY <2>3 DEF Keeps
  <2> HIDE DEF V
  <2> QED BY <1>4, <2>3, <2>4, RoutesCopied DEF Keeps, V
<1> HIDE DEF routes
<1>6. /\ Keeps(routes, insts, {"names", "insts"})
      /\ insts.ok => /\ insts.b.names = routes.b.names
                     /\ Copied("insts", t, bias, routes.b.insts, insts.b.insts, routes.b.names,
                               Len(t.insts))
  <2> DEFINE T == {"names", "insts"}
             V == {v \in Work : Keeps(routes, v, T)}
  <2>1. routes \in V
    BY <1>5, KeepsItself DEF Keeps
  <2>2. ASSUME NEW v \in V, NEW x \in InstRec PROVE MergeInst(v, t, x, bias) \in V
    <3>1. v \in Work /\ Interned(v.b) /\ Keeps(routes, v, T)
      BY <2>2 DEF Keeps
    <3>2. Keeps(v, MergeInst(v, t, x, bias), T)
      BY <3>1, MergeInstKeeps
    <3>3. Keeps(routes, MergeInst(v, t, x, bias), T)
      BY <3>1, <3>2 DEF Keeps
    <3> QED BY <3>3 DEF Keeps
  <2>3. insts \in V
    <3> HIDE DEF V
    <3> QED BY <1>2, <2>1, <2>2, InstsFoldStays
  <2>4. insts.ok => routes.ok
    BY <2>3 DEF Keeps
  <2>5. insts.ok => HasNames(routes.b.names, t)
    BY <1>4, <1>5, <2>4 DEF Keeps
  <2> HIDE DEF V
  <2> QED BY <1>5, <2>3, <2>5, InstsCopied DEF Keeps, V
<1> HIDE DEF insts
<1>7. Keeps(insts, calibs, {"calibs"})
  <2>1. calibRows \in Seq(CalibRec)
    <3>1. ASSUME NEW i \in DOMAIN t.calibs PROVE BiasedCalib(t.calibs[i], bias) \in CalibRec
      <4>1. t.calibs[i] \in CalibRec
        BY <1>2
      <4>2. /\ Biased(t.calibs[i].id, bias) \in Id
            /\ Biased(t.calibs[i].inst, bias) \in Id
        BY <4>1, BiasedIsId DEF CalibRec
      <4> QED BY <4>2 DEF BiasedCalib, CalibRec
    <3>2. DOMAIN t.calibs = 1 .. Len(t.calibs) /\ Len(t.calibs) \in Nat
      BY <1>2
    <3> QED BY <3>1, <3>2
  <2> HIDE DEF calibRows
  <2> QED BY <1>3, <1>6, <2>1, AddRowsKeeps DEF Keeps
<1> HIDE DEF calibs
<1>8. /\ Keeps(calibs, windows, {"windows"}) /\ HasWindows(windows, t, bias)
      /\ Ids(calibs.b.windows) \subseteq Ids(windows.b.windows)
      /\ windows.ok => Copied("windows", t, bias, calibs.b.windows, windows.b.windows, calibs.b.names,
                              Len(t.windows))
  <2>1. calibs \in Work /\ Interned(calibs.b)
    BY <1>7 DEF Keeps
  <2>2. /\ Keeps(calibs, windows, {"windows"}) /\ HasWindows(windows, t, bias)
        /\ Ids(calibs.b.windows) \subseteq Ids(windows.b.windows)
    BY <2>1, WindowsAdded
  <2>3. ASSUME windows.ok
        PROVE  Copied("windows", t, bias, calibs.b.windows, windows.b.windows, calibs.b.names,
                      Len(t.windows))
    BY <2>1, <2>3, WindowsCopied
  <2> HIDE DEF windows
  <2> QED BY <2>2, <2>3
<1> HIDE DEF windows
<1>9. /\ Keeps(windows, waves, {"waves"})
      /\ waves.ok => WavesLike(t, bias, windows.b.waves, waves.b.waves, Len(t.waves))
  <2> DEFINE T == {"waves"}
             V == {v \in Work : Keeps(windows, v, T)}
  <2>1. windows \in V
    BY <1>8, KeepsItself DEF Keeps
  <2>2. ASSUME NEW v \in V, NEW x \in WaveRec PROVE MergeWave(v, x, bias) \in V
    <3>1. v \in Work /\ Interned(v.b) /\ Keeps(windows, v, T)
      BY <2>2 DEF Keeps
    <3>2. Keeps(v, MergeWave(v, x, bias), T)
      BY <3>1, MergeWaveKeeps
    <3>3. Keeps(windows, MergeWave(v, x, bias), T)
      BY <3>1, <3>2 DEF Keeps
    <3> QED BY <3>3 DEF Keeps
  <2>3. waves \in V
    <3> HIDE DEF V
    <3> QED BY <1>2, <2>1, <2>2, WavesFoldStays
  <2> HIDE DEF V
  <2> QED BY <1>8, <2>3, WavesCopied DEF Keeps, V
<1> HIDE DEF waves
<1>10. waves \in Work /\ Interned(waves.b) /\ HasWindows(waves, t, bias)
  <2>1. windows \in Work
    BY <1>8 DEF Keeps
  <2>2. waves.b.windows = windows.b.windows
    BY <1>9, <2>1, WindowsStay
  <2> QED BY <1>8, <1>9, <2>2 DEF Keeps, HasWindows
<1>11. /\ Keeps(waves, marks, {"names", "marks"})
       /\ opt.drop_unlinked /\ Linked(waves.b) => Linked(marks.b)
  <2> DEFINE T == {"names", "marks"}
             V == {v \in Work : /\ Keeps(waves, v, T)
                                /\ opt.drop_unlinked /\ Linked(waves.b) => Linked(v.b)}
  <2>1. waves \in V
    BY <1>10, KeepsItself
  <2>2. ASSUME NEW v \in V, NEW x \in MarkRec PROVE MergeMark(v, t, x, opt, bias) \in V
    <3>1. v \in Work /\ Interned(v.b) /\ Keeps(waves, v, T)
      BY <2>2 DEF Keeps
    <3>2. HasWindows(v, t, bias)
      <4>1. v.b.windows = waves.b.windows
        BY <1>10, <3>1, WindowsStay
      <4> QED BY <1>10, <3>1, <4>1 DEF Keeps, HasWindows
    <3>3. /\ Keeps(v, MergeMark(v, t, x, opt, bias), T)
          /\ opt.drop_unlinked /\ Linked(v.b) => Linked(MergeMark(v, t, x, opt, bias).b)
      BY <3>1, <3>2, MergeMarkKeeps
    <3>4. Keeps(waves, MergeMark(v, t, x, opt, bias), T)
      BY <3>1, <3>3 DEF Keeps
    <3> QED BY <2>2, <3>3, <3>4 DEF Keeps
  <2>3. marks \in V
    <3> HIDE DEF V
    <3> QED BY <1>2, <2>1, <2>2, MarksFoldStays
  <2> HIDE DEF marks
  <2> QED BY <2>3
<1>12. marks.ok /\ HasNames(waves.b.names, t) =>
         /\ marks.b.names = waves.b.names
         /\ MarksLike(t, bias, waves.b.marks, marks.b.marks, waves.b.names, Len(t.marks))
  BY <1>10, MarksCopied
<1> HIDE DEF marks
<1>13. Keeps(marks, links, {"links"})
  <2>1. linkRows \in Seq(LinkRec)
    <3>1. ASSUME NEW i \in DOMAIN t.links PROVE BiasedLink(t.links[i], bias) \in LinkRec
      <4> DEFINE l == t.links[i]
                 id == Biased(l.id, bias)
                 from == Biased(l.from, bias)
                 to == Biased(l.to, bias)
      <4>1. l \in LinkRec
        BY <1>2
      <4>2. id \in Id /\ from \in Id /\ to \in Id
        BY <4>1, BiasedIsId DEF LinkRec
      <4>3. BiasedLink(l, bias) = [l EXCEPT !.id = id, !.from = from, !.to = to]
        <5> HIDE DEF l
        <5> QED BY <4>1 DEF BiasedLink, LinkRec
      <4> HIDE DEF id, from, to, l
      <4>4. BiasedLink(l, bias) \in LinkRec
        BY <4>1, <4>2, <4>3 DEF LinkRec
      <4> QED BY <4>4 DEF l
    <3>2. DOMAIN t.links = 1 .. Len(t.links) /\ Len(t.links) \in Nat
      BY <1>2
    <3> QED BY <3>1, <3>2
  <2> HIDE DEF linkRows
  <2> QED BY <1>3, <1>11, <2>1, AddRowsKeeps DEF Keeps
<1> HIDE DEF links
<1>14. Keeps(links, notes, {"names", "notes"})
  <2> DEFINE T == {"names", "notes"}
             V == {v \in Work : Keeps(links, v, T)}
  <2>1. links \in V
    BY <1>13, KeepsItself DEF Keeps
  <2>2. ASSUME NEW v \in V, NEW x \in NoteRec PROVE MergeNote(v, t, x, bias) \in V
    <3>1. v \in Work /\ Interned(v.b) /\ Keeps(links, v, T)
      BY <2>2 DEF Keeps
    <3>2. Keeps(v, MergeNote(v, t, x, bias), T)
      BY <3>1, MergeNoteKeeps
    <3>3. Keeps(links, MergeNote(v, t, x, bias), T)
      BY <3>1, <3>2 DEF Keeps
    <3> QED BY <3>3 DEF Keeps
  <2>3. notes \in V
    <3> HIDE DEF V
    <3> QED BY <1>2, <2>1, <2>2, NotesFoldStays
  <2> HIDE DEF notes
  <2> QED BY <2>3
<1>15. ASSUME notes.ok
       PROVE  HasNames(links.b.names, t) => notes.b.names = links.b.names
  <2>1. links \in Work /\ Interned(links.b)
    BY <1>13 DEF Keeps
  <2> QED BY <1>15, <2>1, NotesKeepNames
<1> HIDE DEF notes
<1>16. Keeps(w, links, RowTables) /\ Keeps(w, notes, RowTables)
  <2>1. Keeps(w, insts, {"names", "routes", "insts"})
    BY <1>4, <1>5, <1>6 DEF Keeps
  <2>2. Keeps(insts, waves, {"calibs", "windows", "waves"})
    BY <1>7, <1>8, <1>9 DEF Keeps
  <2>3. Keeps(waves, links, {"names", "marks", "links"})
    BY <1>11, <1>13 DEF Keeps
  <2>4. Keeps(w, links, RowTables)
    BY <2>1, <2>2, <2>3 DEF Keeps
  <2>5. Keeps(w, notes, RowTables)
    BY <1>14, <2>4 DEF Keeps
  <2> QED BY <2>4, <2>5
<1>17. ASSUME opt.drop_unlinked, Linked(w.b) PROVE Linked(links.b) /\ Linked(notes.b)
  <2>1. Keeps(w, calibs, {"names", "routes", "insts", "calibs"})
    BY <1>4, <1>5, <1>6, <1>7 DEF Keeps
  <2>2. Linked(calibs.b)
    <3>1. calibs.b.windows = w.b.windows
      BY <2>1, WindowsStay
    <3> QED BY <1>17, <2>1, <3>1, LinkedStays
  <2>3. calibs \in Work /\ windows \in Work /\ marks \in Work /\ links \in Work
    BY <1>7, <1>8, <1>11, <1>13 DEF Keeps
  <2>4. Linked(windows.b)
    BY <1>8, <2>2, <2>3, LinkedStays
  <2>5. Linked(waves.b)
    <3>1. waves.b.windows = windows.b.windows
      BY <1>9, <2>3, WindowsStay
    <3> QED BY <1>9, <2>3, <2>4, <3>1, LinkedStays
  <2>6. Linked(marks.b)
    BY <1>11, <1>17, <2>5
  <2>7. Linked(links.b)
    <3>1. links.b.windows = marks.b.windows
      BY <1>13, <2>3, WindowsStay
    <3> QED BY <1>13, <2>3, <2>6, <3>1, LinkedStays
  <2>8. Linked(notes.b)
    <3>1. notes.b.windows = links.b.windows
      BY <1>14, <2>3, WindowsStay
    <3> QED BY <1>14, <2>3, <2>7, <3>1, LinkedStays
  <2> QED BY <2>7, <2>8
<1>18. /\ links.ok => SideCopied(t, bias, w.b, links.b)
       /\ notes.ok => SideCopied(t, bias, w.b, notes.b)
  <2>1. ASSUME links.ok PROVE SideCopied(t, bias, w.b, links.b)
    <3>1. /\ marks.ok /\ waves.ok /\ windows.ok /\ calibs.ok /\ insts.ok /\ routes.ok /\ names.ok
      BY <1>5, <1>6, <1>7, <1>8, <1>9, <1>11, <1>13, <2>1 DEF Keeps
    <3>2. /\ names \in Work /\ routes \in Work /\ insts \in Work /\ calibs \in Work
          /\ windows \in Work /\ waves \in Work /\ marks \in Work /\ links \in Work
      BY <1>4, <1>5, <1>6, <1>7, <1>8, <1>9, <1>11, <1>13 DEF Keeps
    <3>3. /\ waves.b.names = names.b.names /\ HasNames(waves.b.names, t)
          /\ calibs.b.names = names.b.names /\ windows.b.names = names.b.names
      <4>1. calibs.b.names = insts.b.names
        BY <1>7, <3>2, FieldsStay
      <4>2. windows.b.names = calibs.b.names
        BY <1>8, <3>2, FieldsStay
      <4>3. waves.b.names = windows.b.names
        BY <1>9, <3>2, FieldsStay
      <4> QED BY <1>4, <1>5, <1>6, <3>1, <4>1, <4>2, <4>3
    <3>4. links.b.names = names.b.names
      <4>1. links.b.names = marks.b.names
        BY <1>13, <3>2, FieldsStay
      <4> QED BY <1>12, <3>1, <3>3, <4>1
    <3>5. Copied("routes", t, bias, w.b.routes, links.b.routes, links.b.names, Len(t.routes))
      <4>1. names.b.routes = w.b.routes
        BY <1>4, FieldsStay
      <4>2. Keeps(routes, links, {"names", "insts", "calibs", "windows", "waves", "marks", "links"})
        BY <1>6, <1>7, <1>8, <1>9, <1>11, <1>13 DEF Keeps
      <4>3. links.b.routes = routes.b.routes
        BY <3>2, <4>2, FieldsStay
      <4> QED BY <1>5, <3>1, <3>4, <4>1, <4>3
    <3>6. Copied("insts", t, bias, w.b.insts, links.b.insts, links.b.names, Len(t.insts))
      <4>1. Keeps(w, routes, {"names", "routes"})
        BY <1>4, <1>5 DEF Keeps
      <4>2. routes.b.insts = w.b.insts
        BY <4>1, FieldsStay
      <4>3. Keeps(insts, links, {"names", "calibs", "windows", "waves", "marks", "links"})
        BY <1>7, <1>8, <1>9, <1>11, <1>13 DEF Keeps
      <4>4. links.b.insts = insts.b.insts
        BY <3>2, <4>3, FieldsStay
      <4> QED BY <1>5, <1>6, <3>1, <3>4, <4>2, <4>4
    <3>7. Copied("windows", t, bias, w.b.windows, links.b.windows, links.b.names, Len(t.windows))
      <4>1. Keeps(w, calibs, {"names", "routes", "insts", "calibs"})
        BY <1>4, <1>5, <1>6, <1>7 DEF Keeps
      <4>2. calibs.b.windows = w.b.windows
        BY <4>1, FieldsStay
      <4>3. Keeps(windows, links, {"names", "waves", "marks", "links"})
        BY <1>9, <1>11, <1>13 DEF Keeps
      <4>4. links.b.windows = windows.b.windows
        BY <3>2, <4>3, FieldsStay
      <4> QED BY <1>8, <3>1, <3>3, <3>4, <4>2, <4>4
    <3>8. WavesLike(t, bias, w.b.waves, links.b.waves, Len(t.waves))
      <4>1. Keeps(w, windows, {"names", "routes", "insts", "calibs", "windows"})
        BY <1>4, <1>5, <1>6, <1>7, <1>8 DEF Keeps
      <4>2. windows.b.waves = w.b.waves
        BY <4>1, FieldsStay
      <4>3. Keeps(waves, links, {"names", "marks", "links"})
        BY <1>11, <1>13 DEF Keeps
      <4>4. links.b.waves = waves.b.waves
        BY <3>2, <4>3, FieldsStay
      <4> QED BY <1>9, <3>1, <4>2, <4>4
    <3>9. MarksLike(t, bias, w.b.marks, links.b.marks, links.b.names, Len(t.marks))
      <4>1. Keeps(w, waves, {"names", "routes", "insts", "calibs", "windows", "waves"})
        BY <1>4, <1>5, <1>6, <1>7, <1>8, <1>9 DEF Keeps
      <4>2. waves.b.marks = w.b.marks
        BY <4>1, FieldsStay
      <4>3. links.b.marks = marks.b.marks
        BY <1>13, <3>2, FieldsStay
      <4> QED BY <1>12, <3>1, <3>3, <3>4, <4>2, <4>3
    <3> QED BY <1>4, <3>1, <3>4, <3>5, <3>6, <3>7, <3>8, <3>9 DEF SideCopied
  <2>2. ASSUME notes.ok PROVE SideCopied(t, bias, w.b, notes.b)
    <3>1. links.ok /\ links \in Work
      BY <1>13, <1>14, <2>2 DEF Keeps
    <3>2. SideCopied(t, bias, w.b, links.b)
      BY <2>1, <3>1
    <3>3. notes.b.names = links.b.names
      BY <1>15, <2>2, <3>2 DEF SideCopied
    <3>4. /\ notes.b.routes = links.b.routes /\ notes.b.insts = links.b.insts
          /\ notes.b.windows = links.b.windows /\ notes.b.waves = links.b.waves
          /\ notes.b.marks = links.b.marks
      BY <1>14, <3>1, FieldsStay
    <3> QED BY <3>2, <3>3, <3>4 DEF SideCopied
  <2> QED BY <2>1, <2>2
<1> QED BY <1>1, <1>16, <1>17, <1>18


(* rv_merge_into_builder.                                                  *)
LEMMA MergeKeeps ==
  ASSUME NEW w \in Work, Interned(w.b), NEW left \in Parsed, NEW right \in Parsed,
         NEW opt \in MergeOption
  PROVE  /\ Keeps(w, Merge(w, left, right, opt), RowTables)
         /\ opt.drop_unlinked /\ Linked(w.b) => Linked(Merge(w, left, right, opt).b)
<1> DEFINE first == MergeSide(w, left, opt, 0)
           second == MergeSide(first, right, opt, RightBias(opt))
<1>1. Merge(w, left, right, opt) = second
  BY DEF Merge
<1>2. RightBias(opt) \in Nat
  BY BiasAssumption DEF RightBias
<1>3. Keeps(w, first, RowTables) /\ (opt.drop_unlinked /\ Linked(w.b) => Linked(first.b))
  BY MergeSideKeeps
<1> HIDE DEF first
<1>4. first \in Work /\ Interned(first.b)
  BY <1>3 DEF Keeps
<1>5. /\ Keeps(first, second, RowTables)
      /\ opt.drop_unlinked /\ Linked(first.b) => Linked(second.b)
  BY <1>2, <1>4, MergeSideKeeps
<1> HIDE DEF second
<1>6. Keeps(w, second, RowTables)
  BY <1>3, <1>5 DEF Keeps
<1> QED BY <1>1, <1>3, <1>5, <1>6

-----------------------------------------------------------------------------
(***************************************************************************)
(* The folds over rows and sections: each runs through members of V.       *)
(***************************************************************************)

(* The sizes of records, one after the other.                               *)
Sized(r, tag, records, last) ==
  /\ r[0] = 0 /\ r[Len(records)] = last
  /\ \A k \in 1 .. Len(records) : r[k] = r[k - 1] + RecordSize(tag, records[k])

(* The size of a list of records is reached by adding up the sizes one by  *)
(* one.                                                                    *)
LEMMA SizeOfRun ==
  ASSUME NEW V, NEW tag, 0 \in V, NEW R, NEW records \in Seq(R),
         \A v \in V, x \in R : v + RecordSize(tag, x) \in V
  PROVE  \E r \in [0 .. Len(records) -> V] : Sized(r, tag, records, SizeOf(tag, records))
<1> DEFINE rows == records
           n == Len(rows)
           base == 0
           op(v, x) == v + RecordSize(tag, x)
           H == [p \in V \X (1 .. n) |-> op(p[1], rows[p[2]])]
           eq(f) == [s \in SUBSET (1 .. n) |->
                       IF s = {} THEN base ELSE op(f[s \ {Max(s)}], rows[Max(s)])]
           iter == CHOOSE f : f = eq(f)
<1>1. n \in Nat /\ DOMAIN rows = 1 .. n /\ base \in V /\ rows \in Seq(R)
  OBVIOUS
<1> HIDE DEF rows, base
<1>2. H \in [V \X (1 .. n) -> V]
  <2>1. ASSUME NEW p \in V \X (1 .. n) PROVE op(p[1], rows[p[2]]) \in V
    <3>1. p[1] \in V /\ rows[p[2]] \in R
      BY <1>1
    <3> QED BY <3>1
  <2> HIDE DEF op
  <2> QED BY <2>1
<1>3. \A s \in SUBSET (1 .. n) : s # {} => Max(s) \in 1 .. n
  BY <1>1, MaxIsPosition
<1>4. PICK f \in [SUBSET (1 .. n) -> V] : Solves(f, n, base, H)
  <2> HIDE DEF H, n
  <2> QED BY <1>1, <1>2, FoldExists
<1>5. f = eq(f)
  <2> HIDE DEF op
  <2>1. \A s \in SUBSET (1 .. n) :
          f[s] = IF s = {} THEN base ELSE op(f[s \ {Max(s)}], rows[Max(s)])
    BY <1>3, <1>4 DEF Solves
  <2> QED BY <1>4, <2>1
<1>6. iter = eq(iter)
  <2> HIDE DEF eq
  <2> QED BY <1>5
<1>7. Follows(iter, n, V, base, H)
  <2> HIDE DEF iter, op
  <2> QED BY <1>3, <1>6 DEF Follows
<1>8. SizeOf(tag, records) = iter[1 .. n]
  BY <1>1 DEF SizeOf, FoldLeft, MapThenFoldSet, rows, base
<1>9. PICK r \in [0 .. n -> V] : Runs(r, n, base, H, iter[1 .. n])
  <2> HIDE DEF H, n, iter
  <2> QED BY <1>1, <1>2, <1>7, FoldPrefixes
<1>10. \A k \in 1 .. n : k - 1 \in 0 .. n
  BY <1>1
<1>11. \A k \in 1 .. n, v \in V : H[<<v, k>>] = op(v, rows[k])
  <2> HIDE DEF op
  <2> QED OBVIOUS
<1>12. \A k \in 1 .. n : r[k] = op(r[k - 1], rows[k])
  <2> HIDE DEF H, n, iter, op
  <2> QED BY <1>9, <1>10, <1>11 DEF Runs
<1>13. r[0] = base /\ r[n] = SizeOf(tag, records)
  <2> HIDE DEF H, n, iter
  <2> QED BY <1>8, <1>9 DEF Runs
<1>14. Sized(r, tag, records, SizeOf(tag, records))
  BY <1>12, <1>13 DEF Sized, rows, base
<1> QED BY <1>9, <1>14 DEF rows

(* The lengths of sections.                                                 *)
Lengths(from, bodies) == FoldLeft(LAMBDA n, b : n + b.length, from, bodies)

Offsets(r, from, bodies, last) ==
  /\ r[0] = from /\ r[Len(bodies)] = last
  /\ \A k \in 1 .. Len(bodies) : r[k] = r[k - 1] + bodies[k].length

(* The end of the sections is reached by adding up their lengths one by    *)
(* one.                                                                    *)
LEMMA LengthsRun ==
  ASSUME NEW V, NEW from, from \in V, NEW R, NEW bodies \in Seq(R),
         \A v \in V, x \in R : v + x.length \in V
  PROVE  \E r \in [0 .. Len(bodies) -> V] : Offsets(r, from, bodies, Lengths(from, bodies))
<1> DEFINE rows == bodies
           n == Len(rows)
           base == from
           op(v, x) == v + x.length
           H == [p \in V \X (1 .. n) |-> op(p[1], rows[p[2]])]
           eq(f) == [s \in SUBSET (1 .. n) |->
                       IF s = {} THEN base ELSE op(f[s \ {Max(s)}], rows[Max(s)])]
           iter == CHOOSE f : f = eq(f)
<1>1. n \in Nat /\ DOMAIN rows = 1 .. n /\ base \in V /\ rows \in Seq(R)
  OBVIOUS
<1> HIDE DEF rows, base
<1>2. H \in [V \X (1 .. n) -> V]
  <2>1. ASSUME NEW p \in V \X (1 .. n) PROVE op(p[1], rows[p[2]]) \in V
    <3>1. p[1] \in V /\ rows[p[2]] \in R
      BY <1>1
    <3> QED BY <3>1
  <2> HIDE DEF op
  <2> QED BY <2>1
<1>3. \A s \in SUBSET (1 .. n) : s # {} => Max(s) \in 1 .. n
  BY <1>1, MaxIsPosition
<1>4. PICK f \in [SUBSET (1 .. n) -> V] : Solves(f, n, base, H)
  <2> HIDE DEF H, n
  <2> QED BY <1>1, <1>2, FoldExists
<1>5. f = eq(f)
  <2> HIDE DEF op
  <2>1. \A s \in SUBSET (1 .. n) :
          f[s] = IF s = {} THEN base ELSE op(f[s \ {Max(s)}], rows[Max(s)])
    BY <1>3, <1>4 DEF Solves
  <2> QED BY <1>4, <2>1
<1>6. iter = eq(iter)
  <2> HIDE DEF eq
  <2> QED BY <1>5
<1>7. Follows(iter, n, V, base, H)
  <2> HIDE DEF iter, op
  <2> QED BY <1>3, <1>6 DEF Follows
<1>8. Lengths(from, bodies) = iter[1 .. n]
  BY <1>1 DEF Lengths, FoldLeft, MapThenFoldSet, rows, base
<1>9. PICK r \in [0 .. n -> V] : Runs(r, n, base, H, iter[1 .. n])
  <2> HIDE DEF H, n, iter
  <2> QED BY <1>1, <1>2, <1>7, FoldPrefixes
<1>10. \A k \in 1 .. n : k - 1 \in 0 .. n
  BY <1>1
<1>11. \A k \in 1 .. n, v \in V : H[<<v, k>>] = op(v, rows[k])
  <2> HIDE DEF op
  <2> QED OBVIOUS
<1>12. \A k \in 1 .. n : r[k] = op(r[k - 1], rows[k])
  <2> HIDE DEF H, n, iter, op
  <2> QED BY <1>9, <1>10, <1>11 DEF Runs
<1>13. r[0] = base /\ r[n] = Lengths(from, bodies)
  <2> HIDE DEF H, n, iter
  <2> QED BY <1>8, <1>9 DEF Runs
<1>14. Offsets(r, from, bodies, Lengths(from, bodies))
  BY <1>12, <1>13 DEF Offsets, rows, base
<1> QED BY <1>9, <1>14 DEF rows

(* A walk over records.                                                     *)
StepOver(tag, rem, row) ==
  IF rem >= 0 /\ RecordFits(tag, rem, row) THEN rem - RecordSize(tag, row) ELSE -1

Walked(tag, from, rows) ==
  FoldLeft(LAMBDA rem, row :
             IF rem >= 0 /\ RecordFits(tag, rem, row) THEN rem - RecordSize(tag, row) ELSE -1,
           from, rows)

Walks(r, tag, from, records, last) ==
  /\ r[0] = from /\ r[Len(records)] = last
  /\ \A k \in 1 .. Len(records) : r[k] = StepOver(tag, r[k - 1], records[k])

(* A walk over records is a run over its positions, record by record.      *)
LEMMA WalkRun ==
  ASSUME NEW V, NEW tag, NEW from, from \in V, NEW R, NEW records \in Seq(R),
         \A v \in V, x \in R : StepOver(tag, v, x) \in V
  PROVE  \E r \in [0 .. Len(records) -> V] : Walks(r, tag, from, records, Walked(tag, from, records))
<1> DEFINE rows == records
           n == Len(rows)
           base == from
           op(v, x) == StepOver(tag, v, x)
           H == [p \in V \X (1 .. n) |-> op(p[1], rows[p[2]])]
           eq(f) == [s \in SUBSET (1 .. n) |->
                       IF s = {} THEN base ELSE op(f[s \ {Max(s)}], rows[Max(s)])]
           iter == CHOOSE f : f = eq(f)
<1>1. n \in Nat /\ DOMAIN rows = 1 .. n /\ base \in V /\ rows \in Seq(R)
  OBVIOUS
<1> HIDE DEF rows, base
<1>2. H \in [V \X (1 .. n) -> V]
  <2>1. ASSUME NEW p \in V \X (1 .. n) PROVE op(p[1], rows[p[2]]) \in V
    <3>1. p[1] \in V /\ rows[p[2]] \in R
      BY <1>1
    <3> QED BY <3>1
  <2> HIDE DEF op
  <2> QED BY <2>1
<1>3. \A s \in SUBSET (1 .. n) : s # {} => Max(s) \in 1 .. n
  BY <1>1, MaxIsPosition
<1>4. PICK f \in [SUBSET (1 .. n) -> V] : Solves(f, n, base, H)
  <2> HIDE DEF H, n
  <2> QED BY <1>1, <1>2, FoldExists
<1>5. f = eq(f)
  <2> HIDE DEF op
  <2>1. \A s \in SUBSET (1 .. n) :
          f[s] = IF s = {} THEN base ELSE op(f[s \ {Max(s)}], rows[Max(s)])
    BY <1>3, <1>4 DEF Solves
  <2> QED BY <1>4, <2>1
<1>6. iter = eq(iter)
  <2> HIDE DEF eq
  <2> QED BY <1>5
<1>7. Follows(iter, n, V, base, H)
  <2> HIDE DEF iter, op
  <2> QED BY <1>3, <1>6 DEF Follows
<1>8. Walked(tag, from, records) = iter[1 .. n]
  BY <1>1 DEF Walked, StepOver, FoldLeft, MapThenFoldSet, rows, base
<1>9. PICK r \in [0 .. n -> V] : Runs(r, n, base, H, iter[1 .. n])
  <2> HIDE DEF H, n, iter
  <2> QED BY <1>1, <1>2, <1>7, FoldPrefixes
<1>10. \A k \in 1 .. n : k - 1 \in 0 .. n
  BY <1>1
<1>11. \A k \in 1 .. n, v \in V : H[<<v, k>>] = op(v, rows[k])
  <2> HIDE DEF op
  <2> QED OBVIOUS
<1>12. \A k \in 1 .. n : r[k] = op(r[k - 1], rows[k])
  <2> HIDE DEF H, n, iter, op
  <2> QED BY <1>9, <1>10, <1>11 DEF Runs
<1>13. r[0] = base /\ r[n] = Walked(tag, from, records)
  <2> HIDE DEF H, n, iter
  <2> QED BY <1>8, <1>9 DEF Runs
<1>14. Walks(r, tag, from, records, Walked(tag, from, records))
  BY <1>12, <1>13 DEF Walks, rows, base
<1> QED BY <1>9, <1>14 DEF rows

(* The insertion sort of windows.                                           *)
Sorts(r, windows, last) ==
  /\ r[0] = << >> /\ r[Len(windows)] = last
  /\ \A k \in 1 .. Len(windows) : r[k] = InsertWindow(r[k - 1], windows[k])

(* The insertion sort runs through its partial results.                    *)
LEMMA SortWindowsRun ==
  ASSUME NEW V, << >> \in V, NEW R, NEW windows \in Seq(R),
         \A v \in V, x \in R : InsertWindow(v, x) \in V
  PROVE  \E r \in [0 .. Len(windows) -> V] : Sorts(r, windows, SortWindows(windows))
<1> DEFINE rows == windows
           n == Len(rows)
           base == << >>
           op(v, x) == InsertWindow(v, x)
           H == [p \in V \X (1 .. n) |-> op(p[1], rows[p[2]])]
           eq(f) == [s \in SUBSET (1 .. n) |->
                       IF s = {} THEN base ELSE op(f[s \ {Max(s)}], rows[Max(s)])]
           iter == CHOOSE f : f = eq(f)
<1>1. n \in Nat /\ DOMAIN rows = 1 .. n /\ base \in V /\ rows \in Seq(R)
  OBVIOUS
<1> HIDE DEF rows, base
<1>2. H \in [V \X (1 .. n) -> V]
  <2>1. ASSUME NEW p \in V \X (1 .. n) PROVE op(p[1], rows[p[2]]) \in V
    <3>1. p[1] \in V /\ rows[p[2]] \in R
      BY <1>1
    <3> QED BY <3>1
  <2> HIDE DEF op
  <2> QED BY <2>1
<1>3. \A s \in SUBSET (1 .. n) : s # {} => Max(s) \in 1 .. n
  BY <1>1, MaxIsPosition
<1>4. PICK f \in [SUBSET (1 .. n) -> V] : Solves(f, n, base, H)
  <2> HIDE DEF H, n
  <2> QED BY <1>1, <1>2, FoldExists
<1>5. f = eq(f)
  <2> HIDE DEF op
  <2>1. \A s \in SUBSET (1 .. n) :
          f[s] = IF s = {} THEN base ELSE op(f[s \ {Max(s)}], rows[Max(s)])
    BY <1>3, <1>4 DEF Solves
  <2> QED BY <1>4, <2>1
<1>6. iter = eq(iter)
  <2> HIDE DEF eq
  <2> QED BY <1>5
<1>7. Follows(iter, n, V, base, H)
  <2> HIDE DEF iter, op
  <2> QED BY <1>3, <1>6 DEF Follows
<1>8. SortWindows(windows) = iter[1 .. n]
  BY <1>1 DEF SortWindows, FoldLeft, MapThenFoldSet, rows, base
<1>9. PICK r \in [0 .. n -> V] : Runs(r, n, base, H, iter[1 .. n])
  <2> HIDE DEF H, n, iter
  <2> QED BY <1>1, <1>2, <1>7, FoldPrefixes
<1>10. \A k \in 1 .. n : k - 1 \in 0 .. n
  BY <1>1
<1>11. \A k \in 1 .. n, v \in V : H[<<v, k>>] = op(v, rows[k])
  <2> HIDE DEF op
  <2> QED OBVIOUS
<1>12. \A k \in 1 .. n : r[k] = op(r[k - 1], rows[k])
  <2> HIDE DEF H, n, iter, op
  <2> QED BY <1>9, <1>10, <1>11 DEF Runs
<1>13. r[0] = base /\ r[n] = SortWindows(windows)
  <2> HIDE DEF H, n, iter
  <2> QED BY <1>8, <1>9 DEF Runs
<1>14. Sorts(r, windows, SortWindows(windows))
  BY <1>12, <1>13 DEF Sorts, rows, base
<1> QED BY <1>9, <1>14 DEF rows

(* The compaction of links.                                                 *)
KeepLink(t, kept, l) == IF Dangling(t, l) THEN kept ELSE Append(kept, l)

Compacts(r, t, last) ==
  /\ r[0] = << >> /\ r[Len(t.links)] = last
  /\ \A k \in 1 .. Len(t.links) : r[k] = KeepLink(t, r[k - 1], t.links[k])

(* The compaction of the links runs through its partial results.           *)
LEMMA CompactLinksRun ==
  ASSUME NEW V, NEW t, << >> \in V, NEW R, t.links \in Seq(R),
         \A v \in V, x \in R : KeepLink(t, v, x) \in V
  PROVE  \E r \in [0 .. Len(t.links) -> V] : Compacts(r, t, CompactLinks(t))
<1> DEFINE rows == t.links
           n == Len(rows)
           base == << >>
           op(v, x) == KeepLink(t, v, x)
           H == [p \in V \X (1 .. n) |-> op(p[1], rows[p[2]])]
           eq(f) == [s \in SUBSET (1 .. n) |->
                       IF s = {} THEN base ELSE op(f[s \ {Max(s)}], rows[Max(s)])]
           iter == CHOOSE f : f = eq(f)
<1>1. n \in Nat /\ DOMAIN rows = 1 .. n /\ base \in V /\ rows \in Seq(R)
  OBVIOUS
<1> HIDE DEF rows, base
<1>2. H \in [V \X (1 .. n) -> V]
  <2>1. ASSUME NEW p \in V \X (1 .. n) PROVE op(p[1], rows[p[2]]) \in V
    <3>1. p[1] \in V /\ rows[p[2]] \in R
      BY <1>1
    <3> QED BY <3>1
  <2> HIDE DEF op
  <2> QED BY <2>1
<1>3. \A s \in SUBSET (1 .. n) : s # {} => Max(s) \in 1 .. n
  BY <1>1, MaxIsPosition
<1>4. PICK f \in [SUBSET (1 .. n) -> V] : Solves(f, n, base, H)
  <2> HIDE DEF H, n
  <2> QED BY <1>1, <1>2, FoldExists
<1>5. f = eq(f)
  <2> HIDE DEF op
  <2>1. \A s \in SUBSET (1 .. n) :
          f[s] = IF s = {} THEN base ELSE op(f[s \ {Max(s)}], rows[Max(s)])
    BY <1>3, <1>4 DEF Solves
  <2> QED BY <1>4, <2>1
<1>6. iter = eq(iter)
  <2> HIDE DEF eq
  <2> QED BY <1>5
<1>7. Follows(iter, n, V, base, H)
  <2> HIDE DEF iter, op
  <2> QED BY <1>3, <1>6 DEF Follows
<1>8. CompactLinks(t) = iter[1 .. n]
  BY <1>1 DEF CompactLinks, KeepLink, FoldLeft, MapThenFoldSet, rows, base
<1>9. PICK r \in [0 .. n -> V] : Runs(r, n, base, H, iter[1 .. n])
  <2> HIDE DEF H, n, iter
  <2> QED BY <1>1, <1>2, <1>7, FoldPrefixes
<1>10. \A k \in 1 .. n : k - 1 \in 0 .. n
  BY <1>1
<1>11. \A k \in 1 .. n, v \in V : H[<<v, k>>] = op(v, rows[k])
  <2> HIDE DEF op
  <2> QED OBVIOUS
<1>12. \A k \in 1 .. n : r[k] = op(r[k - 1], rows[k])
  <2> HIDE DEF H, n, iter, op
  <2> QED BY <1>9, <1>10, <1>11 DEF Runs
<1>13. r[0] = base /\ r[n] = CompactLinks(t)
  <2> HIDE DEF H, n, iter
  <2> QED BY <1>8, <1>9 DEF Runs
<1>14. Compacts(r, t, CompactLinks(t))
  BY <1>12, <1>13 DEF Compacts, rows, base
<1> QED BY <1>9, <1>14 DEF rows


-----------------------------------------------------------------------------
(***************************************************************************)
(* Sections.  The records of a section with this tag are rows of the table *)
(* TableOf[tag].                                                           *)
(***************************************************************************)
TableOf ==
  [SNAM |-> "names", ROUT |-> "routes", INST |-> "insts", CLBR |-> "calibs", WIND |-> "windows",
   WAVE |-> "waves", MARK |-> "marks", LINK |-> "links", NOTE |-> "notes"]

RowTags == DOMAIN TableOf

FixedSize ==
  [ROUT |-> 24, INST |-> 24, CLBR |-> 32, WIND |-> 40, MARK |-> 32, LINK |-> 24, NOTE |-> 20]

FixedTags == DOMAIN FixedSize

TagRow(tag) == RecOf[TableOf[tag]]

(* The tags of rows and of their tables.                                   *)
LEMMA TagRows ==
  /\ RowTags = {"SNAM", "ROUT", "INST", "CLBR", "WIND", "WAVE", "MARK", "LINK", "NOTE"}
  /\ FixedTags = {"ROUT", "INST", "CLBR", "WIND", "MARK", "LINK", "NOTE"}
  /\ RowTables = {"names", "routes", "insts", "calibs", "windows", "waves", "marks", "links", "notes"}
  /\ \A tag \in RowTags : TableOf[tag] \in RowTables
  /\ TagRow("SNAM") = NameRec /\ TagRow("WAVE") = WaveRec
  /\ TableOf["SNAM"] = "names" /\ TableOf["WAVE"] = "waves"
BY DEF RowTags, TableOf, FixedTags, FixedSize, RowTables, RowOf, RecOf, TagRow

(* Sizes of records.                                                       *)
LEMMA NameSizeIs ==
  ASSUME NEW row \in NameRec
  PROVE  /\ RecordSize("SNAM", row) = NameSize(row) /\ NameSize(row) \in Nat
         /\ NameLength[row.str] \in Nat /\ NameLength[row.str] % 2 \in {0, 1}
<1>1. row.str \in Name
  BY DEF NameRec
<1>2. NameLength[row.str] \in Nat
  BY <1>1, NameAssumption
<1> DEFINE n == NameLength[row.str]
<1>3. NameSize(row) = 6 + n + (n % 2)
  BY DEF NameSize
<1>4. RecordSize("SNAM", row) = NameSize(row)
  BY DEF RecordSize
<1> HIDE DEF n
<1>5. n \in Nat
  BY <1>2 DEF n
<1>6. n % 2 \in {0, 1} /\ 6 + n + (n % 2) \in Nat
  BY <1>5
<1> QED BY <1>3, <1>4, <1>5, <1>6 DEF n

(* The size of a wave on disk: its head and two bytes a sample.            *)
LEMMA WaveSizeIs ==
  ASSUME NEW row \in WaveRec
  PROVE  /\ RecordSize("WAVE", row) = 24 + 2 * row.samples /\ row.samples \in Nat
         /\ RecordSize("WAVE", row) \in Nat
<1>1. row.samples \in Nat
  BY DEF WaveRec
<1> QED BY <1>1 DEF RecordSize, WaveSize

(* Records of the other tables but names have one of four sizes.           *)
LEMMA FixedSizeIs ==
  ASSUME NEW tag \in FixedTags, NEW row
  PROVE  RecordSize(tag, row) = FixedSize[tag] /\ FixedSize[tag] \in {20, 24, 32, 40}
<1>1. FixedSize[tag] \in {20, 24, 32, 40}
  BY DEF FixedTags, FixedSize
<1>2. RecordSize(tag, row) = FixedSize[tag]
  BY DEF RecordSize, FixedTags, FixedSize
<1> QED BY <1>1, <1>2

(* A record has a size.                                                    *)
LEMMA RecordSizeIsNat ==
  ASSUME NEW tag \in RowTags, NEW row \in TagRow(tag)
  PROVE  RecordSize(tag, row) \in Nat
<1>1. CASE tag = "SNAM"
  BY <1>1, TagRows, NameSizeIs
<1>2. CASE tag = "WAVE"
  BY <1>2, TagRows, WaveSizeIs
<1>3. CASE tag \in FixedTags
  BY <1>3, FixedSizeIs
<1> QED BY <1>1, <1>2, <1>3, TagRows

(* The size of a list of rows is a number, and so is each partial sum.     *)
LEMMA SizesAdd ==
  ASSUME NEW tag \in RowTags, NEW rows \in Seq(TagRow(tag))
  PROVE  /\ \E s \in [0 .. Len(rows) -> Nat] : Sized(s, tag, rows, SizeOf(tag, rows))
         /\ SizeOf(tag, rows) \in Nat
<1>1. \A v \in Nat, x \in TagRow(tag) : v + RecordSize(tag, x) \in Nat
  BY RecordSizeIsNat
<1>2. PICK s \in [0 .. Len(rows) -> Nat] : Sized(s, tag, rows, SizeOf(tag, rows))
  <2>1. 0 \in Nat
    OBVIOUS
  <2> QED BY <1>1, <2>1, SizeOfRun
<1>3. s[Len(rows)] = SizeOf(tag, rows) /\ Len(rows) \in 0 .. Len(rows)
  BY <1>2 DEF Sized
<1> QED BY <1>2, <1>3

(* Records of one size.                                                    *)
LEMMA FixedRowsSize ==
  ASSUME NEW tag \in FixedTags, NEW rows \in Seq(TagRow(tag))
  PROVE  SizeOf(tag, rows) = Len(rows) * FixedSize[tag]
<1> DEFINE n == Len(rows)
           c == FixedSize[tag]
<1>1. n \in Nat /\ c \in Nat /\ tag \in RowTags
  <2>1. c \in Nat
    BY DEF FixedTags, FixedSize
  <2> HIDE DEF c
  <2> QED BY <2>1, TagRows
<1>2. PICK s \in [0 .. Len(rows) -> Nat] : Sized(s, tag, rows, SizeOf(tag, rows))
  BY <1>1, SizesAdd, Zenon
<1> DEFINE G == {k \in 0 .. n : s[k] = k * c}
<1>3. s[0] = 0 /\ s[n] = SizeOf(tag, rows) /\ \A k \in 1 .. n : s[k] = s[k - 1] + c
  BY <1>2, FixedSizeIs DEF Sized
<1> HIDE DEF n, c
<1>4. 0 \in G
  BY <1>1, <1>3
<1>5. ASSUME NEW k \in 1 .. n, k - 1 \in G PROVE k \in G
  <2>1. s[k] = (k - 1) * c + c
    BY <1>3, <1>5
  <2>2. (k - 1) * c + c = k * c
    BY <1>1
  <2> QED BY <1>1, <2>1, <2>2
<1>6. \A k \in 0 .. n : k \in G
  <2> HIDE DEF G
  <2> QED BY <1>1, <1>4, <1>5, PrefixInduction
<1>7. s[n] = n * c
  BY <1>1, <1>6
<1> QED BY <1>3, <1>7 DEF n, c

(* The records before a position are no longer than all of them.           *)
LEMMA SizesGrow ==
  ASSUME NEW tag \in RowTags, NEW rows \in Seq(TagRow(tag)), NEW total,
         NEW s \in [0 .. Len(rows) -> Nat], Sized(s, tag, rows, total)
  PROVE  \A k \in 0 .. Len(rows) : s[k] <= total
<1> DEFINE n == Len(rows)
           G == {k \in 0 .. n : s[n - k] <= total}
<1>1. n \in Nat
  OBVIOUS
<1>2. s[n] = total /\ total \in Nat
  BY <1>1 DEF Sized
<1>3. \A k \in 1 .. n : s[k] = s[k - 1] + RecordSize(tag, rows[k]) /\ RecordSize(tag, rows[k]) \in Nat
  BY RecordSizeIsNat DEF Sized
<1> HIDE DEF n
<1>4. 0 \in G
  BY <1>1, <1>2
<1>5. ASSUME NEW k \in 1 .. n, k - 1 \in G PROVE k \in G
  <2>1. n - (k - 1) \in 1 .. n /\ n - k = (n - (k - 1)) - 1 /\ n - k \in 0 .. n
    BY <1>1
  <2>2. s[n - k] <= s[n - (k - 1)]
    <3>1. s[n - k] \in Nat
      BY <2>1 DEF n
    <3>2. s[n - (k - 1)] = s[n - k] + RecordSize(tag, rows[n - (k - 1)])
      BY <1>3, <2>1
    <3>3. RecordSize(tag, rows[n - (k - 1)]) \in Nat
      BY <1>3, <2>1
    <3> QED BY <3>1, <3>2, <3>3
  <2>3. s[n - k] \in Nat /\ s[n - (k - 1)] \in Nat
    BY <1>1, <2>1 DEF n
  <2> QED BY <1>2, <1>5, <2>2, <2>3
<1>6. \A k \in 0 .. n : k \in G
  <2> HIDE DEF G
  <2> QED BY <1>1, <1>4, <1>5, PrefixInduction
<1>7. ASSUME NEW k \in 0 .. n PROVE s[k] <= total
  <2>1. n - k \in 0 .. n /\ n - (n - k) = k
    BY <1>1
  <2>2. n - k \in G
    BY <1>6, <2>1
  <2> QED BY <2>1, <2>2
<1> QED BY <1>7 DEF n

(* A record that has its bytes fits.                                       *)
LEMMA RecordFitsIn ==
  ASSUME NEW tag \in {"SNAM", "WAVE"}, NEW row \in TagRow(tag), NEW rem \in Int,
         RecordSize(tag, row) <= rem, tag = "WAVE" => row.samples <= MaxSamples
  PROVE  RecordFits(tag, rem, row) /\ rem >= 0
<1>1. CASE tag = "SNAM"
  <2> DEFINE n == NameLength[row.str]
             pad == n % 2
  <2>1. row \in NameRec
    BY <1>1, TagRows
  <2>2. n \in Nat /\ pad \in {0, 1} /\ NameSize(row) = 6 + n + pad
    BY <2>1, NameSizeIs DEF NameSize
  <2>3. 6 + n + pad <= rem
    BY <1>1, <2>1, <2>2, NameSizeIs
  <2>4. NameFits(rem, row) <=> /\ rem >= 4 /\ rem - 4 >= 2 /\ 2 + n <= rem - 4
                               /\ (2 + n) % 2 = 1 => rem - 4 - (2 + n) > 0
    BY DEF NameFits
  <2> HIDE DEF n
  <2>5. (2 + n) % 2 = pad
    BY <2>2
  <2> HIDE DEF pad
  <2> QED BY <1>1, <2>2, <2>3, <2>4, <2>5 DEF RecordFits
<1>2. CASE tag = "WAVE"
  <2>1. RecordSize(tag, row) = 24 + 2 * row.samples /\ row.samples \in Nat
    BY <1>2, TagRows, WaveSizeIs
  <2>2. WaveFits(rem, row)
    BY <1>2, <2>1 DEF WaveFits
  <2> QED BY <1>2, <2>1, <2>2 DEF RecordFits
<1> QED BY <1>1, <1>2

(* A step of a walk.                                                       *)
LEMMA StepOverIs ==
  ASSUME NEW tag \in RowTags, NEW row \in TagRow(tag), NEW rem \in Int
  PROVE  /\ StepOver(tag, rem, row) \in Int
         /\ StepOver(tag, rem, row) >= 0 => rem >= 0 /\ RecordFits(tag, rem, row)
BY RecordSizeIsNat DEF StepOver

(* A walk over whole records reaches their end, if no wave is too long, ... *)
LEMMA WalkReachesTheEnd ==
  ASSUME NEW tag \in {"SNAM", "WAVE"}, NEW rows \in Seq(TagRow(tag)),
         tag = "WAVE" => \A i \in DOMAIN rows : rows[i].samples <= MaxSamples
  PROVE  Walked(tag, SizeOf(tag, rows), rows) = 0
<1> DEFINE n == Len(rows)
           total == SizeOf(tag, rows)
<1>1. tag \in RowTags /\ n \in Nat /\ DOMAIN rows = 1 .. n
  BY TagRows
<1>2. total \in Nat
  BY <1>1, SizesAdd
<1>3. PICK s \in [0 .. Len(rows) -> Nat] : Sized(s, tag, rows, SizeOf(tag, rows))
  BY <1>1, SizesAdd, Zenon
<1>4. PICK q \in [0 .. Len(rows) -> Int] : Walks(q, tag, total, rows, Walked(tag, total, rows))
  <2>1. \A v \in Int, x \in TagRow(tag) : StepOver(tag, v, x) \in Int
    BY <1>1, StepOverIs
  <2> QED BY <1>2, <2>1, WalkRun
<1> HIDE DEF total
<1>5. Sized(s, tag, rows, total)
  BY <1>3 DEF total
<1>6. \A k \in 0 .. n : s[k] <= total
  BY <1>1, <1>5, SizesGrow
<1>7. /\ q[0] = total /\ q[n] = Walked(tag, total, rows) /\ s[0] = 0 /\ s[n] = total
      /\ \A k \in 1 .. n : /\ q[k] = StepOver(tag, q[k - 1], rows[k])
                           /\ s[k] = s[k - 1] + RecordSize(tag, rows[k])
  BY <1>4, <1>5 DEF Walks, Sized
<1> DEFINE G == {k \in 0 .. n : q[k] = total - s[k]}
<1> HIDE DEF n
<1>8. 0 \in G
  BY <1>1, <1>2, <1>7
<1>9. ASSUME NEW k \in 1 .. n, k - 1 \in G PROVE k \in G
  <2> DEFINE size == RecordSize(tag, rows[k])
             rem == q[k - 1]
  <2>1. rows[k] \in TagRow(tag)
    BY <1>1
  <2>2. size \in Nat
    BY <1>1, <2>1, RecordSizeIsNat
  <2>10. k \in 0 .. n /\ k - 1 \in 0 .. n /\ s \in [0 .. n -> Nat]
    BY <1>1 DEF n
  <2>3. s[k] \in Nat /\ s[k - 1] \in Nat /\ s[k] <= total /\ k \in 0 .. n
    BY <1>6, <2>10
  <2>4. rem = total - s[k - 1] /\ s[k] = s[k - 1] + size
    BY <1>7, <1>9
  <2>5. rem \in Int /\ size <= rem
    <3> DEFINE a == s[k - 1]
               b == s[k]
    <3>1. a \in Nat /\ b \in Nat /\ b <= total /\ rem = total - a /\ b = a + size
      BY <2>3, <2>4
    <3> HIDE DEF size, rem, a, b
    <3> QED BY <1>2, <2>2, <3>1
  <2>6. tag = "WAVE" => rows[k].samples <= MaxSamples
    BY <1>1
  <2>7. RecordFits(tag, rem, rows[k]) /\ rem >= 0
    BY <2>1, <2>5, <2>6, RecordFitsIn
  <2>8. q[k] = rem - size
    BY <1>7, <2>7 DEF StepOver
  <2> HIDE DEF size, rem
  <2>9. q[k] = total - s[k]
    BY <1>2, <2>2, <2>3, <2>4, <2>8
  <2> QED BY <2>3, <2>9
<1>10. \A k \in 0 .. n : k \in G
  <2> HIDE DEF G
  <2> QED BY <1>1, <1>8, <1>9, PrefixInduction
<1>11. q[n] = total - s[n]
  BY <1>1, <1>10
<1>12. Walked(tag, total, rows) = 0
  BY <1>2, <1>7, <1>11
<1> QED BY <1>12 DEF total

(* ... and only then.                                                      *)
LEMMA WalkMeasures ==
  ASSUME NEW rows \in Seq(WaveRec), NEW from \in Int, Walked("WAVE", from, rows) >= 0
  PROVE  \A i \in DOMAIN rows : rows[i].samples <= MaxSamples
<1> DEFINE n == Len(rows)
<1>1. "WAVE" \in RowTags /\ TagRow("WAVE") = WaveRec /\ n \in Nat /\ DOMAIN rows = 1 .. n
  BY TagRows
<1>2. PICK q \in [0 .. Len(rows) -> Int] : Walks(q, "WAVE", from, rows, Walked("WAVE", from, rows))
  <2>1. \A v \in Int, x \in WaveRec : StepOver("WAVE", v, x) \in Int
    BY <1>1, StepOverIs
  <2> QED BY <2>1, WalkRun
<1>3. /\ q[n] >= 0
      /\ \A k \in 1 .. n : q[k] = StepOver("WAVE", q[k - 1], rows[k])
  BY <1>2 DEF Walks
<1>4. ASSUME NEW k \in 1 .. n, q[k] >= 0
      PROVE  q[k - 1] >= 0 /\ rows[k].samples <= MaxSamples
  <2>1. q[k - 1] \in Int /\ rows[k] \in WaveRec
    BY <1>1
  <2>2. q[k - 1] >= 0 /\ RecordFits("WAVE", q[k - 1], rows[k])
    BY <1>1, <1>3, <1>4, <2>1, StepOverIs
  <2> QED BY <2>2 DEF RecordFits, WaveFits
<1> DEFINE G == {k \in 0 .. n : q[n - k] >= 0}
<1> HIDE DEF n
<1>5. 0 \in G
  BY <1>1, <1>3
<1>6. ASSUME NEW k \in 1 .. n, k - 1 \in G PROVE k \in G
  <2>1. n - (k - 1) \in 1 .. n /\ n - k = (n - (k - 1)) - 1 /\ k \in 0 .. n
    BY <1>1
  <2>2. q[n - (k - 1)] >= 0
    BY <1>6
  <2>3. q[n - k] >= 0
    BY <1>4, <2>1, <2>2
  <2> QED BY <2>1, <2>3
<1>7. \A k \in 0 .. n : k \in G
  <2> HIDE DEF G
  <2> QED BY <1>1, <1>5, <1>6, PrefixInduction
<1>8. ASSUME NEW k \in 1 .. n PROVE q[k] >= 0
  <2>1. n - k \in 0 .. n /\ n - (n - k) = k
    BY <1>1
  <2>2. n - k \in G
    BY <1>7, <2>1
  <2> QED BY <2>1, <2>2
<1> QED BY <1>1, <1>4, <1>8

-----------------------------------------------------------------------------
(***************************************************************************)
(* Normalisation and repair.                                               *)
(***************************************************************************)

(* A row is inserted at one of the positions there are.                    *)
LEMMA InsertWindowInserts ==
  ASSUME NEW sorted \in Seq(WindowRec), NEW w \in WindowRec
  PROVE  /\ InsertWindow(sorted, w) \in Seq(WindowRec)
         /\ Len(InsertWindow(sorted, w)) = Len(sorted) + 1
<1> DEFINE S == {0} \cup {i \in DOMAIN sorted : sorted[i].id <= w.id}
           stop == Max(S)
           n == Len(sorted)
           before == SubSeq(sorted, 1, stop)
           behind == SubSeq(sorted, stop + 1, n)
<1>1. n \in Nat /\ DOMAIN sorted = 1 .. n
  OBVIOUS
<1>2. S \in SUBSET (0 .. n) /\ S # {}
  BY <1>1
<1>3. stop \in 0 .. n
  <2> HIDE DEF S
  <2>1. stop \in S
    BY <1>1, <1>2, MaxIsMember
  <2> QED BY <1>2, <2>1
<1>4. InsertWindow(sorted, w) = SubSeq(sorted, 1, (stop + 1) - 1) \o <<w>> \o behind
  BY DEF InsertWindow, InsertAt
<1> HIDE DEF stop
<1>5. (stop + 1) - 1 = stop
  BY <1>3
<1>6. /\ before \in Seq(WindowRec) /\ Len(before) = stop
      /\ behind \in Seq(WindowRec) /\ Len(behind) = n - stop
  <2>1. \A i \in 1 .. n : sorted[i] \in WindowRec
    BY <1>1
  <2>2. /\ stop \in Int /\ n \in Int /\ \A i \in 1 .. stop : i \in 1 .. n
        /\ \A i \in stop + 1 .. n : i \in 1 .. n
        /\ stop + 1 \in Int /\ (1 <= stop <=> stop # 0) /\ (stop + 1 <= n <=> stop # n)
        /\ stop - 1 + 1 = stop /\ n - (stop + 1) + 1 = n - stop
        /\ stop = 0 => 0 = stop
        /\ stop = n => n - stop = 0
    <3> HIDE DEF n
    <3> QED BY <1>1, <1>3
  <2> HIDE DEF n
  <2>3. before \in Seq(WindowRec) /\ Len(before) = IF 1 <= stop THEN stop - 1 + 1 ELSE 0
    BY <2>1, <2>2, SubSeqProperties
  <2>4. /\ behind \in Seq(WindowRec)
        /\ Len(behind) = IF stop + 1 <= n THEN n - (stop + 1) + 1 ELSE 0
    BY <2>1, <2>2, SubSeqProperties
  <2> HIDE DEF before, behind
  <2> QED BY <2>2, <2>3, <2>4
<1>7. InsertWindow(sorted, w) = before \o <<w>> \o behind
  BY <1>4, <1>5
<1> HIDE DEF before, behind, n
<1>8. before \o <<w>> \in Seq(WindowRec) /\ Len(before \o <<w>>) = stop + 1
  BY <1>3, <1>6
<1>9. /\ before \o <<w>> \o behind \in Seq(WindowRec)
      /\ Len(before \o <<w>> \o behind) = (stop + 1) + (n - stop)
  <2> DEFINE front == before \o <<w>>
  <2> HIDE DEF front
  <2>1. front \in Seq(WindowRec) /\ Len(front) = stop + 1
    BY <1>8 DEF front
  <2>2. front \o behind \in Seq(WindowRec) /\ Len(front \o behind) = Len(front) + Len(behind)
    BY <1>6, <2>1, ConcatProperties, Zenon
  <2> QED BY <1>6, <2>1, <2>2 DEF front
<1>10. (stop + 1) + (n - stop) = n + 1
  BY <1>1, <1>3
<1> QED BY <1>7, <1>9, <1>10 DEF n

(* rv_sort_windows_by_id.                                                  *)
LEMMA SortWindowsKeeps ==
  ASSUME NEW windows \in Seq(WindowRec)
  PROVE  SortWindows(windows) \in Seq(WindowRec) /\ Len(SortWindows(windows)) = Len(windows)
<1> DEFINE n == Len(windows)
<1>1. n \in Nat /\ << >> \in Seq(WindowRec) /\ DOMAIN windows = 1 .. n
  OBVIOUS
<1>2. PICK r \in [0 .. Len(windows) -> Seq(WindowRec)] : Sorts(r, windows, SortWindows(windows))
  <2>1. \A v \in Seq(WindowRec), x \in WindowRec : InsertWindow(v, x) \in Seq(WindowRec)
    BY InsertWindowInserts
  <2> QED BY <1>1, <2>1, SortWindowsRun
<1>3. /\ r[0] = << >> /\ r[n] = SortWindows(windows)
      /\ \A k \in 1 .. n : r[k] = InsertWindow(r[k - 1], windows[k])
  BY <1>2 DEF Sorts
<1> DEFINE G == {k \in 0 .. n : Len(r[k]) = k}
<1>4. 0 \in G
  BY <1>1, <1>3
<1>5. ASSUME NEW k \in 1 .. n, k - 1 \in G PROVE k \in G
  <2>1. r[k - 1] \in Seq(WindowRec) /\ windows[k] \in WindowRec /\ k \in 0 .. n
    BY <1>1
  <2>2. Len(r[k]) = Len(r[k - 1]) + 1
    BY <1>3, <2>1, InsertWindowInserts
  <2>3. Len(r[k - 1]) = k - 1
    BY <1>5
  <2>4. Len(r[k]) = k
    BY <2>1, <2>2, <2>3
  <2> QED BY <2>1, <2>4
<1>6. \A k \in 0 .. n : k \in G
  <2> HIDE DEF G, n
  <2> QED BY <1>1, <1>4, <1>5, PrefixInduction
<1>7. n \in 0 .. n
  BY <1>1
<1>8. Len(r[n]) = n /\ r[n] \in Seq(WindowRec)
  BY <1>6, <1>7
<1> QED BY <1>3, <1>8

(* A table does not grow, ...                                              *)
NoLonger(t, u) == \A table \in RowTables : Len(u[table]) <= Len(t[table])

(* ... and its waves have the samples they had.                            *)
SameSamples(t, u) ==
  /\ DOMAIN u.waves = DOMAIN t.waves
  /\ \A i \in DOMAIN t.waves : u.waves[i].samples = t.waves[i].samples

(* The limits of the decoders.                                             *)
Within(t) ==
  /\ \A tag \in RowTags : Len(t[TableOf[tag]]) <= MaxRows[tag]
  /\ \A i \in DOMAIN t.waves : t.waves[i].samples <= MaxSamples

(* Tables no longer than tables within the limits are within the limits.   *)
LEMMA WithinIsKept ==
  ASSUME NEW t \in Parsed, NEW u \in Parsed, NoLonger(t, u), SameSamples(t, u), Within(t)
  PROVE  Within(u)
<1>1. ASSUME NEW tag \in RowTags PROVE Len(u[TableOf[tag]]) <= MaxRows[tag]
  <2> DEFINE table == TableOf[tag]
  <2>1. table \in RowTables
    BY TagRows
  <2>2. t[table] \in Seq(RecOf[table]) /\ u[table] \in Seq(RecOf[table])
    BY <2>1 DEF Parsed, RowTables, RowOf, RecOf
  <2>3. MaxRows[tag] \in Nat
    BY RowLimitAssumption DEF RowTags, TableOf, Order
  <2> HIDE DEF table
  <2>4. Len(u[table]) \in Nat /\ Len(t[table]) \in Nat
    BY <2>2
  <2>5. Len(u[table]) <= Len(t[table]) /\ Len(t[table]) <= MaxRows[tag]
    BY <2>1 DEF NoLonger, Within, table
  <2>6. Len(u[table]) <= MaxRows[tag]
    BY <2>3, <2>4, <2>5
  <2> QED BY <2>6 DEF table
<1>2. \A i \in DOMAIN u.waves : u.waves[i].samples <= MaxSamples
  BY DEF Within, SameSamples
<1> QED BY <1>1, <1>2 DEF Within

(* The counts of a SUMM record.                                            *)
LEMMA CountsAreTyped ==
  ASSUME NEW t, t.routes \in Seq(RouteRec), t.windows \in Seq(WindowRec),
         t.marks \in Seq(MarkRec), t.waves \in Seq(WaveRec), t.names \in Seq(NameRec)
  PROVE  Counts(t) \in SummRow
<1>1. /\ Len(t.routes) \in Nat /\ Len(t.windows) \in Nat /\ Len(t.marks) \in Nat
      /\ Len(t.waves) \in Nat /\ Len(t.names) \in Nat
  BY LenProperties
<1> QED BY <1>1 DEF Counts, SummRow

(* rv_normalize_parsed.                                                    *)
LEMMA NormalizeKeeps ==
  ASSUME NEW t \in Parsed
  PROVE  /\ Normalize(t) \in Parsed
         /\ NoLonger(t, Normalize(t)) /\ SameSamples(t, Normalize(t))
<1> DEFINE windows == SortWindows(t.windows)
           marks == [i \in DOMAIN t.marks |-> ClampSeverity(t.marks[i])]
           waves == [i \in DOMAIN t.waves |-> FillWindow(t.waves[i], windows)]
           u == Normalize(t)
<1>1. /\ t.windows \in Seq(WindowRec) /\ t.marks \in Seq(MarkRec) /\ t.waves \in Seq(WaveRec)
  BY DEF Parsed
<1>2. windows \in Seq(WindowRec) /\ Len(windows) = Len(t.windows)
  BY <1>1, SortWindowsKeeps
<1>3. u = [t EXCEPT !.windows = windows, !.marks = marks, !.waves = waves]
  BY DEF Normalize, Parsed
<1> HIDE DEF windows
<1>4. marks \in Seq(MarkRec) /\ Len(marks) = Len(t.marks)
  <2>1. ASSUME NEW m \in MarkRec PROVE ClampSeverity(m) \in MarkRec
    <3> DEFINE sev == IF m.severity > MaxSeverity THEN MaxSeverity ELSE m.severity
    <3>1. sev \in Nat
      BY SeverityAssumption DEF MarkRec
    <3>2. ClampSeverity(m) = [m EXCEPT !.severity = sev]
      BY DEF ClampSeverity
    <3> HIDE DEF sev
    <3> QED BY <3>1, <3>2 DEF MarkRec
  <2>2. DOMAIN t.marks = 1 .. Len(t.marks) /\ Len(t.marks) \in Nat
    BY <1>1
  <2>3. \A i \in 1 .. Len(t.marks) : ClampSeverity(t.marks[i]) \in MarkRec
    BY <1>1, <2>1
  <2>4. marks = [i \in 1 .. Len(t.marks) |-> ClampSeverity(t.marks[i])]
    BY <2>2
  <2> HIDE DEF marks
  <2> QED BY <2>2, <2>3, <2>4
<1>5. /\ waves \in Seq(WaveRec) /\ Len(waves) = Len(t.waves) /\ DOMAIN waves = DOMAIN t.waves
      /\ \A i \in DOMAIN t.waves : waves[i].samples = t.waves[i].samples
  <2>1. ASSUME NEW w \in WaveRec
        PROVE  FillWindow(w, windows) \in WaveRec /\ FillWindow(w, windows).samples = w.samples
    <3>1. CASE Len(windows) = 1
      <4>1. windows[1] \in WindowRec
        BY <1>2, <3>1
      <4>2. windows[1].id \in Id
        BY <4>1 DEF WindowRec
      <4> QED BY <4>2 DEF FillWindow, WaveRec
    <3>2. CASE Len(windows) # 1
      BY <3>2 DEF FillWindow
    <3> QED BY <3>1, <3>2
  <2>2. DOMAIN t.waves = 1 .. Len(t.waves) /\ Len(t.waves) \in Nat
    BY <1>1
  <2>3. \A i \in 1 .. Len(t.waves) : /\ FillWindow(t.waves[i], windows) \in WaveRec
                                      /\ FillWindow(t.waves[i], windows).samples = t.waves[i].samples
    BY <1>1, <2>1
  <2>4. waves = [i \in 1 .. Len(t.waves) |-> FillWindow(t.waves[i], windows)]
    BY <2>2
  <2> HIDE DEF waves
  <2> QED BY <2>2, <2>3, <2>4
<1> HIDE DEF marks, waves, u
<1>6. /\ u \in Parsed /\ u.windows = windows /\ u.marks = marks /\ u.waves = waves
      /\ \A table \in RowTables : table \notin {"windows", "marks", "waves"} => u[table] = t[table]
  BY <1>2, <1>3, <1>4, <1>5 DEF Parsed, RowTables, RowOf, RecOf
<1>7. NoLonger(t, u)
  <2> SUFFICES ASSUME NEW table \in RowTables PROVE Len(u[table]) <= Len(t[table])
    BY DEF NoLonger
  <2>1. t[table] \in Seq(RecOf[table])
    BY DEF Parsed, RowTables, RowOf, RecOf
  <2>2. Len(t[table]) \in Nat
    BY <2>1
  <2>3. Len(u[table]) = Len(t[table])
    <3>1. CASE table = "windows"
      BY <1>2, <1>6, <3>1 DEF Parsed
    <3>2. CASE table = "marks"
      BY <1>4, <1>6, <3>2 DEF Parsed
    <3>3. CASE table = "waves"
      BY <1>5, <1>6, <3>3 DEF Parsed
    <3>4. CASE table \notin {"windows", "marks", "waves"}
      BY <1>6, <3>4
    <3> QED BY <3>1, <3>2, <3>3, <3>4
  <2> QED BY <2>2, <2>3
<1>8. SameSamples(t, u)
  BY <1>5, <1>6 DEF SameSamples
<1> QED BY <1>6, <1>7, <1>8 DEF u

(* What rv_normalize_parsed leaves of a wave: one without a window gets    *)
(* the window of a package that has a single one.                          *)
LEMMA FillIs ==
  ASSUME NEW w \in WaveRec, NEW windows \in Seq(WindowRec)
  PROVE  /\ FillWindow(w, windows).id = w.id /\ FillWindow(w, windows).ok = w.ok
         /\ \/ FillWindow(w, windows).window = w.window
            \/ 1 \in DOMAIN windows /\ FillWindow(w, windows).window = windows[1].id
         /\ FillWindow(FillWindow(w, windows), windows) = FillWindow(w, windows)
<1>1. CASE w.window = 0 /\ Len(windows) = 1
  <2> DEFINE id == windows[1].id
             c == [w EXCEPT !.window = id]
  <2>1. 1 \in DOMAIN windows /\ windows[1] \in WindowRec
    BY <1>1
  <2>2. id \in Nat
    BY <2>1 DEF WindowRec
  <2>3. FillWindow(w, windows) = c
    BY <1>1 DEF FillWindow
  <2>4. c.id = w.id /\ c.ok = w.ok /\ c.window = id
    BY <2>2 DEF WaveRec
  <2>5. [c EXCEPT !.window = id] = c
    BY <2>2 DEF WaveRec
  <2>6. FillWindow(c, windows) = c
    <3> HIDE DEF c
    <3> QED BY <2>5 DEF FillWindow
  <2> HIDE DEF c
  <2> QED BY <2>1, <2>3, <2>4, <2>6
<1>2. CASE ~(w.window = 0 /\ Len(windows) = 1)
  BY <1>2 DEF FillWindow
<1> QED BY <1>1, <1>2

(* Row by row, what Normalize makes of the tables.                         *)
LEMMA NormalFields ==
  ASSUME NEW t \in Parsed
  PROVE  LET u == Normalize(t)
         IN  /\ u \in Parsed
             /\ u.names = t.names /\ u.routes = t.routes /\ u.insts = t.insts
             /\ u.calibs = t.calibs /\ u.links = t.links /\ u.notes = t.notes
             /\ u.summ = t.summ
             /\ u.windows = SortWindows(t.windows)
             /\ u.marks = [i \in DOMAIN t.marks |-> ClampSeverity(t.marks[i])]
             /\ u.waves = [i \in DOMAIN t.waves |-> FillWindow(t.waves[i], u.windows)]
<1> DEFINE windows == SortWindows(t.windows)
           marks == [i \in DOMAIN t.marks |-> ClampSeverity(t.marks[i])]
           waves == [i \in DOMAIN t.waves |-> FillWindow(t.waves[i], windows)]
           u == Normalize(t)
<1>1. u \in Parsed
  BY NormalizeKeeps
<1>2. u = [t EXCEPT !.windows = windows, !.marks = marks, !.waves = waves]
  BY DEF Normalize, Parsed
<1> HIDE DEF windows, marks, waves, u
<1>3. /\ u.names = t.names /\ u.routes = t.routes /\ u.insts = t.insts
      /\ u.calibs = t.calibs /\ u.links = t.links /\ u.notes = t.notes /\ u.summ = t.summ
      /\ u.windows = windows /\ u.marks = marks /\ u.waves = waves
  BY <1>2 DEF Parsed
<1>4. waves = [i \in DOMAIN t.waves |-> FillWindow(t.waves[i], u.windows)]
  BY <1>3 DEF waves
<1> QED BY <1>1, <1>3, <1>4 DEF u, windows, marks

(* No wave without a window is left for a single window to fill.           *)
Filled(t) == \A i \in DOMAIN t.waves : FillWindow(t.waves[i], t.windows) = t.waves[i]

(* Normal tables are filled.                                               *)
LEMMA NormalIsFilled ==
  ASSUME NEW t \in Parsed
  PROVE  Filled(Normalize(t))
<1> DEFINE u == Normalize(t)
<1>1. /\ u \in Parsed /\ u.waves = [i \in DOMAIN t.waves |-> FillWindow(t.waves[i], u.windows)]
  BY NormalFields
<1> HIDE DEF u
<1>2. t.waves \in Seq(WaveRec) /\ u.windows \in Seq(WindowRec)
  BY <1>1 DEF Parsed
<1>3. ASSUME NEW i \in DOMAIN u.waves PROVE FillWindow(u.waves[i], u.windows) = u.waves[i]
  <2>1. i \in DOMAIN t.waves /\ t.waves[i] \in WaveRec
    BY <1>1, <1>2
  <2>2. u.waves[i] = FillWindow(t.waves[i], u.windows)
    BY <1>1, <2>1
  <2> QED BY <1>2, <2>1, <2>2, FillIs
<1> QED BY <1>3 DEF Filled, u

(* The compaction drops links and adds none.                               *)
LEMMA CompactLinksKeeps ==
  ASSUME NEW t, t.links \in Seq(LinkRec)
  PROVE  CompactLinks(t) \in Seq(LinkRec) /\ Len(CompactLinks(t)) <= Len(t.links)
<1> DEFINE n == Len(t.links)
<1>1. n \in Nat /\ << >> \in Seq(LinkRec) /\ DOMAIN t.links = 1 .. n
  OBVIOUS
<1>2. ASSUME NEW v \in Seq(LinkRec), NEW x \in LinkRec
      PROVE  /\ KeepLink(t, v, x) \in Seq(LinkRec)
             /\ Len(KeepLink(t, v, x)) <= Len(v) + 1
  <2>1. /\ Len(v) \in Nat /\ Append(v, x) \in Seq(LinkRec) /\ Len(Append(v, x)) = Len(v) + 1
    OBVIOUS
  <2>2. KeepLink(t, v, x) = v \/ KeepLink(t, v, x) = Append(v, x)
    BY DEF KeepLink
  <2>3. Len(v) <= Len(v) + 1 /\ Len(v) + 1 <= Len(v) + 1
    BY <2>1
  <2> QED BY <2>1, <2>2, <2>3
<1>3. PICK r \in [0 .. Len(t.links) -> Seq(LinkRec)] : Compacts(r, t, CompactLinks(t))
  BY <1>1, <1>2, CompactLinksRun
<1>4. /\ r[0] = << >> /\ r[n] = CompactLinks(t)
      /\ \A k \in 1 .. n : r[k] = KeepLink(t, r[k - 1], t.links[k])
  BY <1>3 DEF Compacts
<1> DEFINE G == {k \in 0 .. n : Len(r[k]) <= k}
<1>5. 0 \in G
  BY <1>1, <1>4
<1>6. ASSUME NEW k \in 1 .. n, k - 1 \in G PROVE k \in G
  <2>1. r[k - 1] \in Seq(LinkRec) /\ r[k] \in Seq(LinkRec) /\ t.links[k] \in LinkRec /\ k \in 0 .. n
    BY <1>1
  <2>2. Len(r[k]) <= Len(r[k - 1]) + 1
    BY <1>2, <1>4, <2>1
  <2>3. Len(r[k - 1]) <= k - 1
    BY <1>6
  <2>4. Len(r[k]) \in Nat /\ Len(r[k - 1]) \in Nat
    BY <2>1
  <2>5. Len(r[k]) <= k
    BY <2>1, <2>2, <2>3, <2>4
  <2> QED BY <2>1, <2>5
<1>7. \A k \in 0 .. n : k \in G
  <2> HIDE DEF G, n
  <2> QED BY <1>1, <1>5, <1>6, PrefixInduction
<1>8. n \in 0 .. n
  BY <1>1
<1>9. Len(r[n]) <= n /\ r[n] \in Seq(LinkRec)
  BY <1>7, <1>8
<1> QED BY <1>4, <1>9

(* The tables of a parsed package have rows of their kind.                     *)
LEMMA TableOfPackage ==
  ASSUME NEW t \in Parsed, NEW table \in RowTables
  PROVE  t[table] \in Seq(RecOf[table]) /\ Len(t[table]) \in Nat
<1>1. t[table] \in Seq(RecOf[table])
  BY DEF Parsed, RowTables, RowOf, RecOf
<1> QED BY <1>1

(* Row by row, what Repair makes of normal tables.                         *)
LEMMA RepairFields ==
  ASSUME NEW t \in Parsed
  PROVE  LET normal == Normalize(t)
             u == Repair(t)
         IN  /\ u.names = normal.names /\ u.routes = normal.routes /\ u.insts = normal.insts
             /\ u.calibs = normal.calibs /\ u.windows = normal.windows
             /\ u.marks = normal.marks /\ u.waves = normal.waves /\ u.notes = normal.notes
             /\ u.links = CompactLinks(normal) /\ u.summ = RecoverSumm(u)
             /\ u = [normal EXCEPT !.links = u.links, !.summ = u.summ]
<1> DEFINE normal == Normalize(t)
           links == CompactLinks(normal)
           linked == [normal EXCEPT !.links = links]
           summ == RecoverSumm(linked)
           u == [linked EXCEPT !.summ = summ]
<1>1. Repair(t) = u
  BY DEF Repair
<1>2. normal \in Parsed
  BY NormalizeKeeps
<1> HIDE DEF normal, links
<1>3. /\ linked.names = normal.names /\ linked.routes = normal.routes
      /\ linked.windows = normal.windows /\ linked.marks = normal.marks
      /\ linked.waves = normal.waves
  BY <1>2 DEF Parsed
<1>4. /\ u.names = normal.names /\ u.routes = normal.routes /\ u.insts = normal.insts
      /\ u.calibs = normal.calibs /\ u.windows = normal.windows
      /\ u.marks = normal.marks /\ u.waves = normal.waves /\ u.notes = normal.notes
      /\ u.links = links /\ u.summ = summ
      /\ u = [normal EXCEPT !.links = links, !.summ = summ]
  <2> HIDE DEF summ
  <2> QED BY <1>2 DEF Parsed
<1> HIDE DEF u
<1>5. RecoverSumm(u) = RecoverSumm(linked)
  BY <1>3, <1>4 DEF RecoverSumm, Counts
<1> HIDE DEF linked
<1> QED BY <1>1, <1>4, <1>5 DEF normal, links, summ

(* rv_repair_package.                                                      *)
LEMMA RepairKeeps ==
  ASSUME NEW t \in Parsed, Within(t)
  PROVE  Repair(t) \in Parsed /\ Within(Repair(t)) /\ Filled(Repair(t))
<1> DEFINE normal == Normalize(t)
           links == CompactLinks(normal)
           linked == [normal EXCEPT !.links = links]
           summ == RecoverSumm(linked)
           u == [linked EXCEPT !.summ = summ]
<1>1. Repair(t) = u
  BY DEF Repair
<1>2. normal \in Parsed /\ Within(normal)
  BY NormalizeKeeps, WithinIsKept
<1> HIDE DEF normal
<1>3. links \in Seq(LinkRec) /\ Len(links) <= Len(normal.links)
  BY <1>2, CompactLinksKeeps DEF Parsed
<1> HIDE DEF links
<1>4. /\ linked \in Parsed /\ linked.links = links /\ linked.waves = normal.waves
      /\ \A table \in RowTables : table # "links" => linked[table] = normal[table]
  BY <1>2, <1>3 DEF Parsed, RowTables, RowOf, RecOf
<1> HIDE DEF linked
<1>5. summ \in SummRow
  <2>1. Counts(linked) \in SummRow
    BY <1>4, CountsAreTyped DEF Parsed
  <2> QED BY <2>1 DEF RecoverSumm, SummRow
<1> HIDE DEF summ
<1>6. /\ u \in Parsed /\ u.waves = linked.waves
      /\ \A table \in RowTables : u[table] = linked[table]
  BY <1>4, <1>5 DEF Parsed, RowTables, RowOf, RecOf
<1> HIDE DEF u
<1>7. NoLonger(normal, u)
  <2> SUFFICES ASSUME NEW table \in RowTables PROVE Len(u[table]) <= Len(normal[table])
    BY DEF NoLonger
  <2>1. CASE table = "links"
    BY <1>2, <1>3, <1>4, <1>6, <2>1 DEF Parsed
  <2>2. CASE table # "links"
    BY <1>2, <1>4, <1>6, <2>2, TableOfPackage
  <2> QED BY <2>1, <2>2
<1>8. SameSamples(normal, u)
  BY <1>4, <1>6 DEF SameSamples
<1>9. Within(u)
  BY <1>2, <1>6, <1>7, <1>8, WithinIsKept
<1>10. Filled(Repair(t))
  <2>1. Repair(t).waves = Normalize(t).waves /\ Repair(t).windows = Normalize(t).windows
    BY RepairFields, Zenon
  <2> QED BY <2>1, NormalIsFilled DEF Filled
<1> QED BY <1>1, <1>6, <1>9, <1>10

-----------------------------------------------------------------------------
(***************************************************************************)
(* Decoding.                                                               *)
(***************************************************************************)

(* A directory entry that a writer made: what lies at it has the length    *)
(* that the directory says, whatever has become of its count.              *)
SaneEntry(e) ==
  /\ e.tag \in RowTags \cup {"SUMM"} /\ e.count \in Nat
  /\ e.tag = "SUMM" => e.rows \in Seq(SummRow) /\ Len(e.rows) = 1
  /\ e.tag # "SUMM" => /\ e.rows \in Seq(TagRow(e.tag))
                       /\ e.length = SectionHead + SizeOf(e.tag, e.rows)

(* What the decoder of a tag asks for.                                     *)
Accepts(e) ==
  /\ HeadIsSound(e)
  /\ e.tag \in FixedTags => e.length >= SectionHead + e.count * FixedSize[e.tag]
  /\ e.tag \notin FixedTags => WalkEnds(e)

(* A decoder gives the records its section counts, or refuses.             *)
LEMMA DecodeIs ==
  ASSUME NEW e, e.tag \in RowTags
  PROVE  Decode(e) = IF Accepts(e) THEN Decoded(Records(e, e.count)) ELSE Refused
<1>1. ASSUME NEW tag \in FixedTags, e.tag = tag
      PROVE  Decode(e) = DecodeFixed(e, FixedSize[tag])
  BY <1>1 DEF Decode, FixedTags, FixedSize, rv_decode_rout, rv_decode_inst, rv_decode_clbr,
              rv_decode_wind, rv_decode_mark, rv_decode_link, rv_decode_note
<1>2. CASE e.tag \in FixedTags
  BY <1>1, <1>2 DEF DecodeFixed, Accepts
<1>3. CASE e.tag = "SNAM"
  <2>1. e.tag \notin FixedTags
    BY <1>3, TagRows
  <2>2. Decode(e) = rv_decode_snam(e)
    BY <1>3 DEF Decode
  <2> QED BY <2>1, <2>2 DEF rv_decode_snam, Accepts
<1>4. CASE e.tag = "WAVE"
  <2>1. e.tag \notin FixedTags
    BY <1>4, TagRows
  <2>2. Decode(e) = rv_decode_wave(e)
    BY <1>4 DEF Decode
  <2> QED BY <2>1, <2>2 DEF rv_decode_wave, Accepts
<1> QED BY <1>2, <1>3, <1>4, TagRows

(* A decoded list of records is not a refusal.                             *)
LEMMA DecodedIs ==
  ASSUME NEW rows
  PROVE  Decoded(rows) # Refused /\ Decoded(rows)[2] = rows
<1>1. Len(Decoded(rows)) = 2 /\ Len(Refused) = 1
  BY DEF Decoded, Refused
<1>2. Decoded(rows) # Refused
  BY <1>1
<1> QED BY <1>2 DEF Decoded

(* The walk of a decoder passes over the records the section counts.       *)
LEMMA WalkIs ==
  ASSUME NEW e
  PROVE  Walk(e) = Walked(e.tag, e.length - SectionHead,
                          SubSeq(e.rows, 1, IF e.count < Len(e.rows) THEN e.count ELSE Len(e.rows)))
BY Zenon DEF Walk, Walked

(* The rows that are taken from a section lie in it and are within the     *)
(* limits.                                                                 *)
RowsWithin(tag, rows) ==
  /\ Len(rows) <= MaxRows[tag]
  /\ tag = "WAVE" => \A i \in DOMAIN rows : rows[i].samples <= MaxSamples

(* A section whose decoder accepts holds as many records as it counts.     *)
LEMMA CountIsCovered ==
  ASSUME NEW e, SaneEntry(e), e.tag \in RowTags, Accepts(e)
  PROVE  e.count <= Len(e.rows)
<1>1. CASE e.tag \in FixedTags
  <2> DEFINE n == Len(e.rows)
             count == e.count
             size == FixedSize[e.tag]
  <2>1. e.tag # "SUMM" /\ e.rows \in Seq(TagRow(e.tag)) /\ count \in Nat
    BY <1>1, TagRows DEF SaneEntry
  <2>2. e.length = SectionHead + SizeOf(e.tag, e.rows)
    BY <2>1 DEF SaneEntry
  <2>3. SizeOf(e.tag, e.rows) = n * size
    BY <1>1, <2>1, FixedRowsSize
  <2>4. e.length >= SectionHead + count * size
    BY <1>1 DEF Accepts
  <2>5. size \in {20, 24, 32, 40}
    BY <1>1 DEF FixedTags, FixedSize
  <2>6. n \in Nat
    BY <2>1, LenProperties
  <2> HIDE DEF n, count, size
  <2>7. SectionHead + n * size >= SectionHead + count * size
    BY <2>2, <2>3, <2>4
  <2>8. count <= n
    BY <2>1, <2>5, <2>6, <2>7 DEF SectionHead
  <2> QED BY <2>8 DEF n, count
<1>2. CASE e.tag \notin FixedTags
  BY <1>2 DEF Accepts, WalkEnds
<1> QED BY <1>1, <1>2

(* What a decoder accepts are rows of its table, within the limits.        *)
LEMMA DecodeTyped ==
  ASSUME NEW e, SaneEntry(e), e.tag \in RowTags, Decode(e) # Refused
  PROVE  Decode(e)[2] \in Seq(TagRow(e.tag)) /\ RowsWithin(e.tag, Decode(e)[2])
<1> DEFINE rows == Records(e, e.count)
           n == Len(e.rows)
<1>1. Accepts(e)
  BY DecodeIs
<1>2. Decode(e)[2] = rows
  BY <1>1, DecodeIs, DecodedIs
<1>3. e.tag # "SUMM" /\ e.rows \in Seq(TagRow(e.tag)) /\ e.count \in Nat
  BY TagRows DEF SaneEntry
<1>4. e.count <= n /\ n \in Nat
  BY <1>1, <1>3, CountIsCovered, LenProperties
<1>5. e.count <= MaxRows[e.tag]
  BY <1>1 DEF Accepts, HeadIsSound
<1>6. \A i \in 1 .. e.count : i \in DOMAIN e.rows /\ i <= n /\ e.rows[i] \in TagRow(e.tag)
  <2>1. DOMAIN e.rows = 1 .. n
    BY <1>3
  <2>2. \A i \in 1 .. e.count : i \in 1 .. n
    <3> HIDE DEF n
    <3> QED BY <1>3, <1>4
  <2> QED BY <1>3, <2>1, <2>2
<1>7. rows = [i \in 1 .. e.count |-> e.rows[i]]
  BY <1>6 DEF Records
<1>8. rows \in Seq(TagRow(e.tag)) /\ Len(rows) = e.count /\ DOMAIN rows = 1 .. e.count
  <2> HIDE DEF rows
  <2> QED BY <1>3, <1>6, <1>7
<1>9. ASSUME e.tag = "WAVE" PROVE \A i \in DOMAIN rows : rows[i].samples <= MaxSamples
  <2> DEFINE from == e.length - SectionHead
             first == SubSeq(e.rows, 1, e.count)
  <2>1. WalkEnds(e) /\ TagRow(e.tag) = WaveRec
    BY <1>1, <1>9, TagRows DEF Accepts
  <2>2. SizeOf(e.tag, e.rows) \in Nat
    BY <1>3, SizesAdd
  <2>3. from \in Int
    BY <1>3, <2>2 DEF SaneEntry, SectionHead
  <2>4. (IF e.count < n THEN e.count ELSE n) = e.count
    <3> HIDE DEF n
    <3> QED BY <1>3, <1>4
  <2>5. Walk(e) = Walked("WAVE", from, first)
    BY <1>9, <2>4, WalkIs
  <2>6. Walked("WAVE", from, first) >= 0
    BY <2>1, <2>5 DEF WalkEnds
  <2> HIDE DEF from
  <2>7. first \in Seq(WaveRec) /\ DOMAIN first = 1 .. e.count /\ \A i \in 1 .. e.count : first[i] = e.rows[i]
    <3>1. first = [i \in 1 .. e.count |-> e.rows[i]]
      BY <1>3, <1>6
    <3>2. \A i \in 1 .. e.count : e.rows[i] \in WaveRec
      BY <1>6, <2>1
    <3>3. e.count \in Nat
      BY <1>3
    <3> DEFINE count == e.count
               g == [i \in 1 .. count |-> e.rows[i]]
    <3>4. g \in Seq(WaveRec) /\ DOMAIN g = 1 .. count /\ \A i \in 1 .. count : g[i] = e.rows[i]
      <4> HIDE DEF count
      <4> QED BY <3>2, <3>3 DEF count
    <3> HIDE DEF first
    <3> QED BY <3>1, <3>4
  <2> HIDE DEF first, rows
  <2>8. \A i \in DOMAIN first : first[i].samples <= MaxSamples
    BY <2>3, <2>6, <2>7, WalkMeasures
  <2> QED BY <1>7, <1>8, <2>7, <2>8
<1> QED BY <1>2, <1>5, <1>8, <1>9 DEF RowsWithin

(* A section that nothing has happened to is accepted if its rows are      *)
(* within the limits, and yields them.                                     *)
LEMMA WholeSectionDecodes ==
  ASSUME NEW e, SaneEntry(e), e.tag \in RowTags, e.magic, e.count = Len(e.rows)
  PROVE  /\ Decode(e) # Refused <=> RowsWithin(e.tag, e.rows)
         /\ Decode(e) # Refused => Decode(e)[2] = e.rows
<1> DEFINE n == Len(e.rows)
           size == SizeOf(e.tag, e.rows)
<1>1. /\ e.tag # "SUMM" /\ e.rows \in Seq(TagRow(e.tag)) /\ n \in Nat /\ DOMAIN e.rows = 1 .. n
      /\ e.length = SectionHead + size /\ size \in Nat
  <2>1. e.tag # "SUMM" /\ e.rows \in Seq(TagRow(e.tag)) /\ e.length = SectionHead + size
    BY TagRows DEF SaneEntry
  <2> QED BY <2>1, SizesAdd
<1>2. Records(e, n) = e.rows
  <2>1. Records(e, n) = [i \in 1 .. n |-> e.rows[i]]
    BY <1>1 DEF Records
  <2> QED BY <1>1, <2>1
<1>3. ASSUME Decode(e) # Refused PROVE Decode(e)[2] = e.rows /\ RowsWithin(e.tag, e.rows)
  <2>1. Decode(e)[2] = e.rows
    BY <1>2, <1>3, DecodeIs, DecodedIs
  <2> QED BY <1>3, <2>1, DecodeTyped
<1>4. ASSUME RowsWithin(e.tag, e.rows) PROVE Decode(e) # Refused
  <2>1. HeadIsSound(e)
    BY <1>1, <1>4 DEF HeadIsSound, RowsWithin, SectionHead
  <2>2. ASSUME e.tag \in FixedTags PROVE e.length >= SectionHead + e.count * FixedSize[e.tag]
    <3>1. size = e.count * FixedSize[e.tag]
      BY <1>1, <2>2, FixedRowsSize
    <3> HIDE DEF size
    <3>2. SectionHead + size >= SectionHead + size
      BY <1>1 DEF SectionHead
    <3> QED BY <1>1, <3>1, <3>2
  <2>3. ASSUME e.tag \notin FixedTags PROVE WalkEnds(e)
    <3>1. e.tag \in {"SNAM", "WAVE"}
      BY <2>3, TagRows
    <3>2. Walked(e.tag, size, e.rows) = 0
      BY <1>1, <1>4, <3>1, WalkReachesTheEnd DEF RowsWithin
    <3>3. SubSeq(e.rows, 1, n) = e.rows
      BY <1>1
    <3>4. e.length - SectionHead = size
      <4> HIDE DEF size
      <4> QED BY <1>1 DEF SectionHead
    <3>5. (IF e.count < n THEN e.count ELSE n) = n /\ e.count <= n
      <4> HIDE DEF n
      <4> QED BY <1>1 DEF n
    <3>6. Walk(e) = Walked(e.tag, size, e.rows)
      BY <3>3, <3>4, <3>5, WalkIs
    <3> QED BY <3>2, <3>5, <3>6 DEF WalkEnds
  <2>4. Accepts(e)
    BY <2>1, <2>2, <2>3 DEF Accepts
  <2> QED BY <2>4, DecodeIs, DecodedIs
<1> QED BY <1>3, <1>4

-----------------------------------------------------------------------------
(***************************************************************************)
(* Opening.                                                                *)
(***************************************************************************)
SaneImage(f) ==
  /\ \E n \in Nat : DOMAIN f.dir = 1 .. n
  /\ \A k \in DOMAIN f.dir : SaneEntry(f.dir[k])

AllDecode(f) == \A i \in DOMAIN Order : SectionDecodes(f, Order[i])

(* The tags that an open looks for.                                        *)
LEMMA TagsInOrder ==
  /\ \A tag \in RowTags \cup {"SUMM"} : \E i \in DOMAIN Order : Order[i] = tag
  /\ \A i \in DOMAIN Order : Order[i] \in RowTags \cup {"SUMM"}
<1>1. DOMAIN Order = 1 .. 10
  BY DEF Order
<1>2. /\ Order[1] = "SNAM" /\ Order[2] = "ROUT" /\ Order[3] = "INST" /\ Order[4] = "CLBR"
      /\ Order[5] = "WIND" /\ Order[6] = "WAVE" /\ Order[7] = "MARK" /\ Order[8] = "LINK"
      /\ Order[9] = "NOTE" /\ Order[10] = "SUMM"
  BY DEF Order
<1>3. \A i \in 1 .. 10 : i \in {1, 2, 3, 4, 5, 6, 7, 8, 9, 10}
  OBVIOUS
<1>4. \A i \in {1, 2, 3, 4, 5, 6, 7, 8, 9, 10} : i \in DOMAIN Order
  BY <1>1
<1> QED BY <1>1, <1>2, <1>3, <1>4, TagRows

(* rv_reader_find_section.                                                 *)
LEMMA FoundSection ==
  ASSUME NEW dir, NEW n \in Nat, DOMAIN dir = 1 .. n, NEW tag
  PROVE  /\ FindSection(dir, tag) # 0 => /\ FindSection(dir, tag) \in DOMAIN dir
                                         /\ dir[FindSection(dir, tag)].tag = tag
         /\ FindSection(dir, tag) = 0 <=> \A k \in DOMAIN dir : dir[k].tag # tag
<1> DEFINE S == WithTag(dir, tag)
<1>1. S \in SUBSET Nat /\ \A k \in S : k \in DOMAIN dir /\ dir[k].tag = tag /\ k # 0
  BY DEF WithTag
<1>2. S = {} <=> \A k \in DOMAIN dir : dir[k].tag # tag
  BY DEF WithTag
<1>3. FindSection(dir, tag) = IF S = {} THEN 0 ELSE Min(S)
  BY DEF FindSection
<1>4. S # {} => Min(S) \in S
  <2> HIDE DEF S
  <2> QED BY <1>1, MinIsMember
<1> HIDE DEF S
<1> QED BY <1>1, <1>2, <1>3, <1>4

(* The rows an image shows, once all its decoders accept, are rows of      *)
(* their tables.                                                           *)
LEMMA RowsInTyped ==
  ASSUME NEW f, SaneImage(f), AllDecode(f), NEW tag \in RowTags
  PROVE  RowsIn(f, tag) \in Seq(TagRow(tag)) /\ RowsWithin(tag, RowsIn(f, tag))
<1> DEFINE k == FindSection(f.dir, tag)
<1>1. CASE k = 0
  <2>1. RowsIn(f, tag) = << >>
    BY <1>1 DEF RowsIn
  <2>2. MaxRows[tag] \in Nat
    BY RowLimitAssumption, TagsInOrder
  <2> QED BY <2>1, <2>2 DEF RowsWithin
<1>2. CASE k # 0
  <2>1. PICK i \in DOMAIN Order : Order[i] = tag
    BY TagsInOrder
  <2>2. Decode(f.dir[k]) # Refused
    BY <1>2, <2>1 DEF AllDecode, SectionDecodes
  <2>3. k \in DOMAIN f.dir /\ f.dir[k].tag = tag
    BY <1>2, FoundSection DEF SaneImage
  <2>4. RowsIn(f, tag) = Decode(f.dir[k])[2]
    BY <1>2 DEF RowsIn
  <2> HIDE DEF k
  <2> QED BY <2>2, <2>3, <2>4, DecodeTyped DEF SaneImage
<1> QED BY <1>1, <1>2

(* The tables of an image before they are normalised.                      *)
RawTables(f) ==
  [names |-> RowsIn(f, "SNAM"), routes |-> RowsIn(f, "ROUT"), insts |-> RowsIn(f, "INST"),
   calibs |-> RowsIn(f, "CLBR"), windows |-> RowsIn(f, "WIND"), waves |-> RowsIn(f, "WAVE"),
   marks |-> RowsIn(f, "MARK"), links |-> RowsIn(f, "LINK"), notes |-> RowsIn(f, "NOTE"),
   summ |-> IF FindSection(f.dir, "SUMM") = 0 THEN NoSumm ELSE RowsIn(f, "SUMM")[1]]

(* rv_package_finish_open.                                                 *)
LEMMA FinishOpenTyped ==
  ASSUME NEW f, SaneImage(f), AllDecode(f)
  PROVE  /\ RawTables(f) \in Parsed /\ FinishOpen(f) \in Parsed
         /\ Within(FinishOpen(f)) /\ Filled(FinishOpen(f))
<1> DEFINE t == RawTables(f)
           summ == IF FindSection(f.dir, "SUMM") = 0 THEN NoSumm ELSE RowsIn(f, "SUMM")[1]
<1>1. FinishOpen(f) = Normalize(t)
  BY DEF FinishOpen, RawTables
<1>2. summ \in SummRow \cup {NoSumm}
  <2> DEFINE k == FindSection(f.dir, "SUMM")
  <2>1. ASSUME k # 0 PROVE summ \in SummRow
    <3>1. k \in DOMAIN f.dir /\ f.dir[k].tag = "SUMM" /\ SaneEntry(f.dir[k])
      BY <2>1, FoundSection DEF SaneImage
    <3>2. PICK i \in DOMAIN Order : Order[i] = "SUMM"
      BY TagsInOrder
    <3>3. Decode(f.dir[k]) # Refused
      BY <2>1, <3>2 DEF AllDecode, SectionDecodes
    <3>4. Decode(f.dir[k]) = Decoded(f.dir[k].rows)
      BY <3>1, <3>3 DEF Decode, rv_decode_summ
    <3>5. f.dir[k].rows \in Seq(SummRow) /\ Len(f.dir[k].rows) = 1
      BY <3>1 DEF SaneEntry
    <3>6. summ = f.dir[k].rows[1]
      BY <2>1, <3>4, DecodedIs DEF RowsIn
    <3> QED BY <3>5, <3>6
  <2> QED BY <2>1
<1>3. \A tag \in RowTags : RowsIn(f, tag) \in Seq(TagRow(tag)) /\ RowsWithin(tag, RowsIn(f, tag))
  BY RowsInTyped
<1>4. /\ t \in Parsed
      /\ \A tag \in RowTags : t[TableOf[tag]] = RowsIn(f, tag)
  <2>1. /\ RowsIn(f, "SNAM") \in Seq(NameRec) /\ RowsIn(f, "ROUT") \in Seq(RouteRec)
        /\ RowsIn(f, "INST") \in Seq(InstRec) /\ RowsIn(f, "CLBR") \in Seq(CalibRec)
        /\ RowsIn(f, "WIND") \in Seq(WindowRec) /\ RowsIn(f, "WAVE") \in Seq(WaveRec)
        /\ RowsIn(f, "MARK") \in Seq(MarkRec) /\ RowsIn(f, "LINK") \in Seq(LinkRec)
        /\ RowsIn(f, "NOTE") \in Seq(NoteRec)
    BY <1>3, TagRows DEF TagRow, TableOf, RowOf, RecOf
  <2>2. t \in Parsed
    BY <1>2, <2>1 DEF RawTables, Parsed
  <2>3. \A tag \in RowTags : t[TableOf[tag]] = RowsIn(f, tag)
    BY TagRows DEF RawTables, TableOf
  <2> QED BY <2>2, <2>3
<1>5. Within(t)
  <2>1. t.waves = RowsIn(f, "WAVE")
    BY DEF RawTables
  <2>2. RowsWithin("WAVE", t.waves)
    BY <1>3, <2>1, TagRows
  <2> HIDE DEF t
  <2> QED BY <1>3, <1>4, <2>2 DEF Within, RowsWithin
<1> HIDE DEF t
<1>6. FinishOpen(f) \in Parsed /\ NoLonger(t, FinishOpen(f)) /\ SameSamples(t, FinishOpen(f))
  BY <1>1, <1>4, NormalizeKeeps
<1>7. Filled(FinishOpen(f))
  BY <1>1, <1>4, NormalIsFilled
<1> QED BY <1>4, <1>5, <1>6, <1>7, WithinIsKept DEF t

-----------------------------------------------------------------------------
(***************************************************************************)
(* Writing.                                                                *)
(***************************************************************************)

(* The first elements of a sequence.                                       *)
LEMMA PrefixIs ==
  ASSUME NEW B, NEW s \in Seq(B), NEW k \in 0 .. Len(s)
  PROVE  /\ SubSeq(s, 1, k) \in Seq(B) /\ Len(SubSeq(s, 1, k)) = k
         /\ \A j \in 1 .. k : SubSeq(s, 1, k)[j] = s[j]
<1>1. Len(s) \in Nat /\ k \in Nat /\ k <= Len(s) /\ \A j \in 1 .. k : j \in 1 .. Len(s)
  BY LenProperties
<1>2. SubSeq(s, 1, k) = [j \in 1 .. k |-> s[j]]
  BY <1>1
<1>3. \A j \in 1 .. k : s[j] \in B
  BY <1>1
<1> QED BY <1>1, <1>2, <1>3

(* The lengths of one section more.                                        *)
LEMMA LengthsGrow ==
  ASSUME NEW B, NEW bodies \in Seq(B), \A b \in B : b.length \in Nat, NEW from \in Nat,
         NEW k \in 1 .. Len(bodies)
  PROVE  Lengths(from, SubSeq(bodies, 1, k))
           = Lengths(from, SubSeq(bodies, 1, k - 1)) + bodies[k].length
<1> DEFINE all == SubSeq(bodies, 1, k)
           less == SubSeq(bodies, 1, k - 1)
           l == k - 1
<1>1. k \in 0 .. Len(bodies) /\ l \in 0 .. Len(bodies) /\ k \in Nat /\ l \in Nat /\ k = l + 1
  BY LenProperties
<1>2. /\ all \in Seq(B) /\ Len(all) = k /\ \A j \in 1 .. k : all[j] = bodies[j]
      /\ less \in Seq(B) /\ Len(less) = l /\ \A j \in 1 .. l : less[j] = bodies[j]
  BY <1>1, PrefixIs
<1> HIDE DEF all, less
<1>3. \A v \in Nat, b \in B : v + b.length \in Nat
  OBVIOUS
<1>4. PICK r \in [0 .. Len(all) -> Nat] : Offsets(r, from, all, Lengths(from, all))
  BY <1>2, <1>3, LengthsRun
<1>5. PICK q \in [0 .. Len(less) -> Nat] : Offsets(q, from, less, Lengths(from, less))
  BY <1>2, <1>3, LengthsRun
<1>6. /\ r[0] = from /\ r[k] = Lengths(from, all)
      /\ \A j \in 1 .. k : r[j] = r[j - 1] + bodies[j].length
  BY <1>2, <1>4 DEF Offsets
<1>7. /\ q[0] = from /\ q[l] = Lengths(from, less)
      /\ \A j \in 1 .. l : q[j] = q[j - 1] + bodies[j].length
  BY <1>2, <1>5 DEF Offsets
<1> DEFINE G == {j \in 0 .. l : r[j] = q[j]}
<1>8. 0 \in G
  BY <1>1, <1>6, <1>7
<1>9. ASSUME NEW j \in 1 .. l, j - 1 \in G PROVE j \in G
  <2>1. j \in 1 .. k /\ j \in 0 .. l
    BY <1>1
  <2>2. r[j - 1] = q[j - 1]
    BY <1>9
  <2>3. r[j] = q[j]
    BY <1>6, <1>7, <2>1, <2>2
  <2> QED BY <2>1, <2>3
<1>10. \A j \in 0 .. l : j \in G
  <2> HIDE DEF G, l
  <2> QED BY <1>1, <1>8, <1>9, PrefixInduction
<1>11. r[l] = q[l]
  BY <1>1, <1>10
<1>12. r[k] = r[l] + bodies[k].length
  BY <1>1, <1>6
<1>13. Lengths(from, all) = Lengths(from, less) + bodies[k].length
  BY <1>6, <1>7, <1>11, <1>12
<1> QED BY <1>13 DEF all, less

(* Offsets of sections.                                                    *)
LEMMA PayloadOffsetIs ==
  ASSUME NEW bodies, NEW k
  PROVE  PayloadOffset(bodies, k)
           = Lengths(FileHeaderSize + DirEntrySize * Len(bodies), SubSeq(bodies, 1, k - 1))
BY Zenon DEF PayloadOffset, Lengths

(* Sections follow each other behind the directory, and the last one ends  *)
(* where the image does.                                                   *)
LEMMA ImageLayout ==
  ASSUME NEW B, NEW bodies \in Seq(B), \A b \in B : b.length \in Nat, NEW end,
         end = PayloadOffset(bodies, Len(bodies) + 1)
  PROVE  /\ end \in Nat
         /\ \A k \in 1 .. Len(bodies) :
              /\ PayloadOffset(bodies, k) \in Nat
              /\ FileHeaderSize + DirEntrySize * Len(bodies) <= PayloadOffset(bodies, k)
              /\ PayloadOffset(bodies, k) + bodies[k].length <= end
              /\ k = Len(bodies) => PayloadOffset(bodies, k) + bodies[k].length = end
<1> DEFINE n == Len(bodies)
           from == FileHeaderSize + DirEntrySize * n
           r == [k \in 0 .. n |-> Lengths(from, SubSeq(bodies, 1, k))]
<1>1. n \in Nat /\ from \in Nat
  BY LenProperties DEF FileHeaderSize, DirEntrySize
<1>2. \A k \in 0 .. n : PayloadOffset(bodies, k + 1) = r[k]
  <2> TAKE k \in 0 .. n
  <2>1. (k + 1) - 1 = k
    BY <1>1
  <2>2. PayloadOffset(bodies, k + 1) = Lengths(from, SubSeq(bodies, 1, (k + 1) - 1))
    BY PayloadOffsetIs
  <2> HIDE DEF n, from
  <2> QED BY <2>1, <2>2
<1>3. \A k \in 1 .. n : r[k] = r[k - 1] + bodies[k].length /\ bodies[k].length \in Nat
  <2> TAKE k \in 1 .. n
  <2>1. k \in 0 .. n /\ k - 1 \in 0 .. n
    BY <1>1
  <2>2. Lengths(from, SubSeq(bodies, 1, k)) = Lengths(from, SubSeq(bodies, 1, k - 1)) + bodies[k].length
    <3> HIDE DEF from
    <3> QED BY <1>1, LengthsGrow
  <2>3. bodies[k] \in B
    BY LenProperties
  <2> HIDE DEF from, n
  <2> QED BY <2>1, <2>2, <2>3
<1>4. r[0] = from
  <2>1. << >> \in Seq(B) /\ Len(<< >>) = 0 /\ SubSeq(bodies, 1, 0) = << >>
    OBVIOUS
  <2>2. \A v \in Nat, b \in B : v + b.length \in Nat
    OBVIOUS
  <2>3. PICK q \in [0 .. Len(<< >>) -> Nat] : Offsets(q, from, << >>, Lengths(from, << >>))
    <3> HIDE DEF from
    <3> QED BY <1>1, <2>1, <2>2, LengthsRun
  <2>4. Lengths(from, << >>) = from
    <3> HIDE DEF from
    <3> QED BY <2>1, <2>3 DEF Offsets
  <2>5. 0 \in 0 .. n
    BY <1>1
  <2>6. r[0] = Lengths(from, SubSeq(bodies, 1, 0))
    <3> HIDE DEF from, n
    <3> QED BY <2>5
  <2> HIDE DEF from, n, r
  <2> QED BY <2>1, <2>4, <2>6
<1> HIDE DEF from, r
<1> DEFINE G == {k \in 0 .. n : r[k] \in Nat /\ from <= r[k]}
<1>5. \A k \in 0 .. n : r[k] \in Nat /\ from <= r[k]
  <2> HIDE DEF n
  <2>1. 0 \in G
    BY <1>1, <1>4
  <2>2. ASSUME NEW k \in 1 .. n, k - 1 \in G PROVE k \in G
    <3>1. r[k - 1] \in Nat /\ from <= r[k - 1] /\ k \in 0 .. n
      BY <2>2, <1>1
    <3>2. PICK length \in Nat : r[k] = r[k - 1] + length
      <4> HIDE DEF G
      <4> QED BY <1>3
    <3>3. r[k] \in Nat /\ from <= r[k]
      <4> HIDE DEF G
      <4> QED BY <1>1, <3>1, <3>2
    <3> QED BY <3>1, <3>3
  <2>3. \A k \in 0 .. n : k \in G
    <3> HIDE DEF G
    <3> QED BY <1>1, <2>1, <2>2, PrefixInduction
  <2> QED BY <2>3
<1> DEFINE F == {k \in 0 .. n : r[n - k] <= r[n]}
<1>6. \A k \in 0 .. n : r[k] <= r[n]
  <2> HIDE DEF n
  <2>1. 0 \in F
    <3>1. n - 0 = n /\ n \in 0 .. n /\ 0 \in 0 .. n
      BY <1>1
    <3>2. r[n] \in Nat
      BY <1>5, <3>1
    <3> QED BY <3>1, <3>2
  <2>2. ASSUME NEW k \in 1 .. n, k - 1 \in F PROVE k \in F
    <3>1. /\ n - (k - 1) \in 1 .. n /\ n - k = (n - (k - 1)) - 1 /\ k \in 0 .. n
          /\ n - k \in 0 .. n /\ n \in 0 .. n
      BY <1>1
    <3> DEFINE x == r[n - k]
               y == r[n - (k - 1)]
               len == bodies[n - (k - 1)].length
    <3>2. y = x + len /\ len \in Nat
      BY <1>3, <3>1
    <3>3. x \in Nat /\ r[n] \in Nat
      BY <1>5, <3>1
    <3>4. y <= r[n]
      BY <2>2
    <3>5. x <= r[n]
      <4> HIDE DEF x, y, len
      <4> QED BY <3>2, <3>3, <3>4
    <3> QED BY <3>1, <3>5
  <2>3. \A k \in 0 .. n : k \in F
    <3> HIDE DEF F
    <3> QED BY <1>1, <2>1, <2>2, PrefixInduction
  <2>4. ASSUME NEW k \in 0 .. n PROVE r[k] <= r[n]
    <3>1. n - k \in 0 .. n /\ n - (n - k) = k
      BY <1>1
    <3>2. n - k \in F
      BY <2>3, <3>1
    <3> QED BY <3>1, <3>2
  <2> QED BY <2>4
<1>7. end = r[n] /\ end \in Nat
  <2>1. n \in 0 .. n
    BY <1>1
  <2> QED BY <1>2, <1>5, <2>1
<1>8. ASSUME NEW k \in 1 .. n
      PROVE  /\ PayloadOffset(bodies, k) \in Nat /\ from <= PayloadOffset(bodies, k)
             /\ PayloadOffset(bodies, k) + bodies[k].length <= end
             /\ k = n => PayloadOffset(bodies, k) + bodies[k].length = end
  <2>1. k - 1 \in 0 .. n /\ (k - 1) + 1 = k /\ k \in 0 .. n
    BY <1>1
  <2>2. PayloadOffset(bodies, k) = r[k - 1]
    BY <1>2, <2>1
  <2>3. r[k] = PayloadOffset(bodies, k) + bodies[k].length
    BY <1>3, <2>2
  <2> HIDE DEF n
  <2> QED BY <1>5, <1>6, <1>7, <2>1, <2>2, <2>3
<1> QED BY <1>7, <1>8 DEF from

(* The sections that a writer makes.                                       *)
SectionsOf(tag) == {Body(tag, rows) : rows \in Seq(TagRow(tag))}
Sections ==
  (UNION {SectionsOf(tag) : tag \in RowTags}) \cup {SummBody(counts) : counts \in SummRow}

(* The body of a section counts its rows, and is as long as its head and   *)
(* its rows.                                                               *)
LEMMA SectionIs ==
  ASSUME NEW b \in Sections
  PROVE  /\ b.length \in Nat /\ b.magic /\ b.count = Len(b.rows)
         /\ b.tag \in RowTags \cup {"SUMM"}
         /\ b.tag = "SUMM" => b.rows \in Seq(SummRow) /\ Len(b.rows) = 1 /\ b.length = SummSize
         /\ b.tag # "SUMM" => /\ b.rows \in Seq(TagRow(b.tag))
                              /\ b.length = SectionHead + SizeOf(b.tag, b.rows)
<1>1. ASSUME NEW tag \in RowTags, NEW rows \in Seq(TagRow(tag)), b = Body(tag, rows)
      PROVE  /\ b.length \in Nat /\ b.magic /\ b.count = Len(b.rows) /\ b.tag = tag
             /\ b.rows \in Seq(TagRow(b.tag)) /\ b.length = SectionHead + SizeOf(b.tag, b.rows)
  <2>1. SizeOf(tag, rows) \in Nat
    BY SizesAdd
  <2>2. SectionHead + SizeOf(tag, rows) \in Nat
    BY <2>1 DEF SectionHead
  <2> QED BY <1>1, <2>2 DEF Body
<1>2. ASSUME NEW counts \in SummRow, b = SummBody(counts)
      PROVE  /\ b.length \in Nat /\ b.magic /\ b.count = Len(b.rows) /\ b.tag = "SUMM"
             /\ b.rows \in Seq(SummRow) /\ Len(b.rows) = 1 /\ b.length = SummSize
  BY <1>2 DEF SummBody, SummSize
<1>3. "SUMM" \notin RowTags
  BY TagRows
<1>4. \/ \E tag \in RowTags : b \in SectionsOf(tag)
      \/ \E counts \in SummRow : b = SummBody(counts)
  <2> DEFINE T == {SectionsOf(tag) : tag \in RowTags}
             U == {SummBody(counts) : counts \in SummRow}
  <2>1. b \in UNION T \/ b \in U
    <3>1. Sections = (UNION T) \cup U
      BY Zenon DEF Sections
    <3> HIDE DEF T, U
    <3> QED BY <3>1
  <2>2. \A S \in T : \E tag \in RowTags : S = SectionsOf(tag)
    OBVIOUS
  <2>3. b \in U => \E counts \in SummRow : b = SummBody(counts)
    OBVIOUS
  <2> HIDE DEF T, U
  <2>4. b \in UNION T => \E S \in T : b \in S
    OBVIOUS
  <2> QED BY <2>1, <2>2, <2>3, <2>4
<1>5. \A tag \in RowTags : b \in SectionsOf(tag) => \E rows \in Seq(TagRow(tag)) : b = Body(tag, rows)
  BY DEF SectionsOf
<1> QED BY <1>1, <1>2, <1>3, <1>4, <1>5

(* A section at its place.                                                 *)
LEMMA PlacedIs ==
  ASSUME NEW b \in Sections, NEW offset \in Nat
  PROVE  LET e == Placed(b, offset)
         IN  /\ SaneEntry(e) /\ e.magic /\ e.count = Len(e.rows)
             /\ e.tag = b.tag /\ e.rows = b.rows /\ e.offset = offset /\ e.length = b.length
<1> DEFINE e == Placed(b, offset)
<1>1. /\ e.tag = b.tag /\ e.rows = b.rows /\ e.offset = offset /\ e.length = b.length
      /\ e.magic = b.magic /\ e.count = b.count
  BY DEF Placed
<1> HIDE DEF e
<1>2. e.magic /\ e.count = Len(e.rows)
  BY <1>1, SectionIs
<1>3. e.count \in Nat
  <2>1. CASE b.tag = "SUMM"
    BY <1>1, <2>1, SectionIs, LenProperties
  <2>2. CASE b.tag # "SUMM"
    BY <1>1, <2>2, SectionIs, LenProperties
  <2> QED BY <2>1, <2>2
<1>4. SaneEntry(e)
  BY <1>1, <1>3, SectionIs DEF SaneEntry
<1> QED BY <1>1, <1>2, <1>4 DEF e

(* The sections hold the rows: one section at most for each table, none    *)
(* for an empty one only, and the summary last.                            *)
Hold(bodies, rows) ==
  /\ bodies \in Seq(Sections) /\ rows \in Parsed /\ bodies # << >>
  /\ \A i, j \in DOMAIN bodies : bodies[i].tag = bodies[j].tag => i = j
  /\ \A tag \in RowTags :
       \/ \E k \in DOMAIN bodies : bodies[k].tag = tag /\ bodies[k].rows = rows[TableOf[tag]]
       \/ /\ \A k \in DOMAIN bodies : bodies[k].tag # tag
          /\ rows[TableOf[tag]] = << >>
  /\ bodies[Len(bodies)].tag = "SUMM" /\ bodies[Len(bodies)].rows = <<rows.summ>>

(* What an image that nothing has happened to promises: it opens if it is  *)
(* within the limits, and yields the rows that were written.               *)
Faithful(f) ==
  /\ f # NoFile => (Opens(f) <=> Readable(f))
  /\ Readable(f) => AllDecode(f)
  /\ AllDecode(f) => FinishOpen(f) = Normalize(f.rows)

(* The directory of an image: its sections follow each other behind it,    *)
(* and the last one ends where the image does.                             *)
LaidOut(f, bodies, rows, version) ==
  /\ DOMAIN f.dir = 1 .. Len(bodies)
  /\ f.version = version /\ f.rows = rows /\ f.state = "whole" /\ f.header = TRUE
  /\ f.size \in Nat /\ f.sections = Len(bodies)
  /\ FileHeaderSize + DirEntrySize * Len(bodies) < f.size
  /\ \A k \in 1 .. Len(bodies) :
       /\ SaneEntry(f.dir[k])
       /\ f.dir[k].magic /\ f.dir[k].count = Len(f.dir[k].rows)
       /\ f.dir[k].tag = bodies[k].tag /\ f.dir[k].rows = bodies[k].rows
       /\ f.dir[k].length = bodies[k].length
       /\ f.dir[k].offset \in Nat /\ f.dir[k].length \in Nat
       /\ f.dir[k].offset + f.dir[k].length <= f.size
       /\ k = Len(bodies) => f.dir[k].offset + f.dir[k].length = f.size

(* A writer lays its sections out one behind the other, from the end of    *)
(* the directory to the end of the file.                                   *)
LEMMA WrittenIsLaidOut ==
  ASSUME NEW bodies, NEW rows, Hold(bodies, rows), NEW version, NEW merged, NEW f,
         f = Written(Image(bodies, version), rows, merged)
  PROVE  LaidOut(f, bodies, rows, version)
<1> DEFINE n == Len(bodies)
           end == PayloadOffset(bodies, n + 1)
           head == FileHeaderSize + DirEntrySize * n
<1>1. n \in Nat /\ DOMAIN bodies = 1 .. n /\ bodies \in Seq(Sections) /\ n # 0
  BY DEF Hold
<1>2. /\ f.dir = [k \in DOMAIN bodies |-> Placed(bodies[k], PayloadOffset(bodies, k))]
      /\ f.version = version /\ f.rows = rows /\ f.state = "whole" /\ f.header = TRUE
      /\ f.size = end /\ f.sections = n
  BY DEF Written, Image
<1>3. \A b \in Sections : b.length \in Nat
  BY SectionIs
<1>4. /\ end \in Nat
      /\ \A k \in 1 .. Len(bodies) :
           /\ PayloadOffset(bodies, k) \in Nat
           /\ FileHeaderSize + DirEntrySize * Len(bodies) <= PayloadOffset(bodies, k)
           /\ PayloadOffset(bodies, k) + bodies[k].length <= end
           /\ k = Len(bodies) => PayloadOffset(bodies, k) + bodies[k].length = end
  <2>1. end = PayloadOffset(bodies, Len(bodies) + 1)
    OBVIOUS
  <2>2. bodies \in Seq(Sections)
    BY <1>1
  <2> HIDE DEF end, n, head
  <2> QED BY <1>3, <2>1, <2>2, ImageLayout
<1> HIDE DEF end
<1>5. ASSUME NEW k \in 1 .. n
      PROVE  /\ SaneEntry(f.dir[k])
             /\ f.dir[k].magic /\ f.dir[k].count = Len(f.dir[k].rows)
             /\ f.dir[k].tag = bodies[k].tag /\ f.dir[k].rows = bodies[k].rows
             /\ f.dir[k].length = bodies[k].length
             /\ f.dir[k].offset \in Nat /\ f.dir[k].length \in Nat
             /\ f.dir[k].offset + f.dir[k].length <= f.size
             /\ k = n => f.dir[k].offset + f.dir[k].length = f.size
  <2> DEFINE offset == PayloadOffset(bodies, k)
             b == bodies[k]
             e == Placed(b, offset)
  <2>1. b \in Sections /\ offset \in Nat
    <3>1. b \in Sections
      BY <1>1, ElementOfSeq
    <3>2. offset \in Nat
      BY <1>4
    <3> QED BY <3>1, <3>2
  <2>2. f.dir[k] = e
    BY <1>1, <1>2
  <2>3. offset + b.length <= end /\ (k = n => offset + b.length = end)
    BY <1>4
  <2> HIDE DEF offset, b
  <2>4. /\ SaneEntry(e) /\ e.magic /\ e.count = Len(e.rows)
        /\ e.tag = b.tag /\ e.rows = b.rows /\ e.offset = offset /\ e.length = b.length
    BY <2>1, PlacedIs
  <2> HIDE DEF e
  <2> QED BY <1>2, <1>3, <2>1, <2>2, <2>3, <2>4 DEF b
<1>6. head < f.size
  <2>1. n \in 1 .. n
    BY <1>1
  <2>2. f.dir[n].length = SummSize /\ f.dir[n].offset + f.dir[n].length = f.size
    BY <1>5, <2>1, SectionIs DEF Hold
  <2>3. f.dir[n].offset = PayloadOffset(bodies, n)
    BY <1>1, <1>2, <2>1 DEF Placed
  <2>4. head <= f.dir[n].offset /\ f.dir[n].offset \in Nat
    BY <1>4, <2>1, <2>3
  <2>5. head \in Nat
    BY <1>1 DEF FileHeaderSize, DirEntrySize
  <2> HIDE DEF head
  <2> QED BY <2>2, <2>4, <2>5 DEF SummSize
<1>7. /\ DOMAIN f.dir = 1 .. n /\ f.version = version /\ f.rows = rows /\ f.state = "whole"
      /\ f.header = TRUE /\ f.sections = n /\ f.size \in Nat
  <2>1. DOMAIN f.dir = 1 .. n
    BY <1>1, <1>2
  <2>2. f.size \in Nat
    BY <1>2, <1>4
  <2> QED BY <1>2, <2>1, <2>2
<1> QED BY <1>5, <1>6, <1>7 DEF LaidOut

(* Such a directory is sound.                                              *)
LEMMA LaidOutIsSane ==
  ASSUME NEW f, NEW bodies, NEW rows, NEW version, LaidOut(f, bodies, rows, version), Hold(bodies, rows)
  PROVE  SaneImage(f)
<1>1. Len(bodies) \in Nat
  BY LenProperties DEF Hold
<1> QED BY <1>1 DEF LaidOut, SaneImage

(* The test of the directory lets pass what lies in the file.              *)
LEMMA InFileIsInRange ==
  ASSUME NEW e, e.offset \in Nat, e.length \in Nat, NEW size \in Nat, e.offset + e.length <= size
  PROVE  InRange(e, size)
<1> DEFINE sum == e.offset + e.length
<1>1. sum \in Nat /\ sum <= size
  OBVIOUS
<1> HIDE DEF sum
<1>2. sum % OffsetMod <= sum /\ sum % OffsetMod \in Nat
  BY <1>1, OffsetAssumption
<1>3. sum % OffsetMod <= size
  BY <1>1, <1>2, OffsetAssumption
<1> QED BY <1>3 DEF InRange, sum

(* Every section of a directory is found and lies in the file.             *)
LEMMA LaidOutIsFound ==
  ASSUME NEW f, NEW bodies, NEW rows, NEW version, LaidOut(f, bodies, rows, version), Hold(bodies, rows)
  PROVE  /\ \A k \in DOMAIN bodies :
              /\ k \in DOMAIN f.dir /\ FindSection(f.dir, bodies[k].tag) = k
              /\ SectionSlice(f.dir[k], f.size) /\ f.dir[k].tag = bodies[k].tag
              /\ f.dir[k].rows = bodies[k].rows
         /\ \A tag : (\A k \in DOMAIN bodies : bodies[k].tag # tag) => FindSection(f.dir, tag) = 0
         /\ OutOfRange(f) = {}
<1> DEFINE n == Len(bodies)
<1>1. n \in Nat /\ DOMAIN bodies = 1 .. n /\ DOMAIN f.dir = 1 .. n /\ 0 \notin 1 .. n
  BY DEF Hold, LaidOut
<1>2. \A k \in 1 .. n : /\ f.dir[k].tag = bodies[k].tag /\ f.dir[k].rows = bodies[k].rows
                        /\ f.dir[k].offset \in Nat /\ f.dir[k].length \in Nat
                        /\ f.dir[k].offset + f.dir[k].length <= f.size /\ f.size \in Nat
  BY DEF LaidOut
<1>3. \A i, j \in 1 .. n : bodies[i].tag = bodies[j].tag => i = j
  BY <1>1 DEF Hold
<1> HIDE DEF n
<1>4. ASSUME NEW k \in 1 .. n PROVE FindSection(f.dir, bodies[k].tag) = k
  <2> DEFINE tag == bodies[k].tag
             found == FindSection(f.dir, tag)
  <2>1. found # 0
    BY <1>1, <1>2, FoundSection
  <2>2. found \in DOMAIN f.dir /\ f.dir[found].tag = tag
    BY <1>1, <2>1, FoundSection
  <2> HIDE DEF found
  <2> QED BY <1>1, <1>2, <1>3, <2>2 DEF found
<1>5. ASSUME NEW k \in 1 .. n PROVE SectionSlice(f.dir[k], f.size) /\ InRange(f.dir[k], f.size)
  <2> DEFINE e == f.dir[k]
  <2>1. e.offset \in Nat /\ e.length \in Nat /\ e.offset + e.length <= f.size /\ f.size \in Nat
    BY <1>2
  <2> HIDE DEF e
  <2>2. InRange(e, f.size)
    BY <2>1, InFileIsInRange
  <2>3. SectionSlice(e, f.size)
    BY <2>1 DEF SectionSlice
  <2> QED BY <2>2, <2>3 DEF e
<1>6. OutOfRange(f) = {}
  BY <1>1, <1>5 DEF OutOfRange
<1>7. \A tag : (\A k \in 1 .. n : bodies[k].tag # tag) => FindSection(f.dir, tag) = 0
  BY <1>1, <1>2, FoundSection
<1> QED BY <1>1, <1>2, <1>4, <1>5, <1>6, <1>7

(* A directory opens if the rows are within the limits, and yields them.   *)
LEMMA LaidOutIsFaithful ==
  ASSUME NEW f, NEW bodies, NEW rows, NEW version, LaidOut(f, bodies, rows, version), Hold(bodies, rows)
  PROVE  Faithful(f)
<1> DEFINE n == Len(bodies)
<1>1. n \in Nat \ {0} /\ DOMAIN bodies = 1 .. n /\ DOMAIN f.dir = 1 .. n /\ rows \in Parsed /\ n \in 1 .. n
  BY DEF Hold, LaidOut
<1>2. /\ f.version = version /\ f.rows = rows /\ f.header = TRUE /\ OutOfRange(f) = {}
  BY LaidOutIsFound DEF LaidOut
<1>3. ASSUME NEW tag \in RowTags, NEW k \in 1 .. n, bodies[k].tag = tag
      PROVE  /\ FindSection(f.dir, tag) = k /\ k # 0
             /\ f.dir[k].rows = rows[TableOf[tag]] /\ SectionSlice(f.dir[k], f.size)
             /\ Decode(f.dir[k]) # Refused <=> RowsWithin(tag, rows[TableOf[tag]])
             /\ Decode(f.dir[k]) # Refused => Decode(f.dir[k])[2] = rows[TableOf[tag]]
  <2>1. /\ FindSection(f.dir, tag) = k /\ SectionSlice(f.dir[k], f.size) /\ f.dir[k].tag = tag
        /\ f.dir[k].rows = bodies[k].rows
    BY <1>1, <1>3, LaidOutIsFound
  <2>2. bodies[k].rows = rows[TableOf[tag]]
    BY <1>1, <1>3 DEF Hold
  <2>3. SaneEntry(f.dir[k]) /\ f.dir[k].magic /\ f.dir[k].count = Len(f.dir[k].rows)
    BY DEF LaidOut
  <2> DEFINE e == f.dir[k]
  <2>4. e.tag = tag /\ e.rows = rows[TableOf[tag]] /\ SaneEntry(e) /\ e.magic /\ e.count = Len(e.rows)
    BY <2>1, <2>2, <2>3
  <2> HIDE DEF e
  <2>5. /\ Decode(e) # Refused <=> RowsWithin(e.tag, e.rows)
        /\ Decode(e) # Refused => Decode(e)[2] = e.rows
    BY <2>4, WholeSectionDecodes
  <2> QED BY <1>1, <2>1, <2>4, <2>5 DEF e
<1>4. ASSUME NEW tag \in RowTags, \A k \in 1 .. n : bodies[k].tag # tag
      PROVE  /\ FindSection(f.dir, tag) = 0 /\ rows[TableOf[tag]] = << >>
             /\ RowsWithin(tag, rows[TableOf[tag]])
  <2>1. FindSection(f.dir, tag) = 0
    BY <1>1, <1>4, LaidOutIsFound
  <2>2. rows[TableOf[tag]] = << >>
    BY <1>1, <1>4 DEF Hold
  <2>3. MaxRows[tag] \in Nat
    BY RowLimitAssumption, TagsInOrder
  <2> QED BY <2>1, <2>2, <2>3 DEF RowsWithin
<1>5. /\ FindSection(f.dir, "SUMM") = n /\ f.dir[n].tag = "SUMM" /\ SectionSlice(f.dir[n], f.size)
      /\ f.dir[n].rows = <<rows.summ>> /\ Decode(f.dir[n]) = Decoded(f.dir[n].rows)
  <2>1. bodies[n].tag = "SUMM" /\ bodies[n].rows = <<rows.summ>>
    BY DEF Hold
  <2>2. /\ FindSection(f.dir, "SUMM") = n /\ f.dir[n].tag = "SUMM" /\ SectionSlice(f.dir[n], f.size)
        /\ f.dir[n].rows = <<rows.summ>>
    BY <1>1, <2>1, LaidOutIsFound
  <2>3. SaneEntry(f.dir[n]) /\ f.dir[n].magic
    BY <1>1 DEF LaidOut
  <2>4. f.dir[n].length >= SummSize
    <3>1. bodies[n] \in Sections
      BY <1>1, ElementOfSeq DEF Hold
    <3>2. bodies[n].length = SummSize
      BY <2>1, <3>1, SectionIs
    <3>3. f.dir[n].length = bodies[n].length
      <4>1. \A k \in 1 .. Len(bodies) : f.dir[k].length = bodies[k].length
        BY DEF LaidOut
      <4> QED BY <1>1, <4>1
    <3> QED BY <3>2, <3>3 DEF SummSize
  <2> QED BY <2>2, <2>3, <2>4 DEF Decode, rv_decode_summ
<1>6. AllDecode(f) <=> \A tag \in RowTags : RowsWithin(tag, rows[TableOf[tag]])
  <2>1. \A tag \in RowTags : SectionDecodes(f, tag) <=> RowsWithin(tag, rows[TableOf[tag]])
    <3> TAKE tag \in RowTags
    <3>1. CASE \E k \in 1 .. n : bodies[k].tag = tag
      <4>1. PICK k \in 1 .. n : bodies[k].tag = tag
        BY <3>1
      <4> QED BY <1>3, <4>1 DEF SectionDecodes
    <3>2. CASE \A k \in 1 .. n : bodies[k].tag # tag
      BY <1>4, <3>2 DEF SectionDecodes
    <3> QED BY <3>1, <3>2
  <2>2. SectionDecodes(f, "SUMM")
    BY <1>5, DecodedIs DEF SectionDecodes
  <2> QED BY <2>1, <2>2, TagsInOrder DEF AllDecode
<1>7. Readable(f) <=> version \in 1 .. 2 /\ \A tag \in RowTags : RowsWithin(tag, rows[TableOf[tag]])
  <2>1. \A k \in 1 .. n : f.dir[k].tag = bodies[k].tag /\ f.dir[k].tag \in RowTags \cup {"SUMM"}
    <3> TAKE k \in 1 .. n
    <3>1. bodies[k] \in Sections
      BY <1>1, ElementOfSeq DEF Hold
    <3>2. bodies[k].tag \in RowTags \cup {"SUMM"}
      BY <3>1, SectionIs
    <3>3. f.dir[k].tag = bodies[k].tag
      BY <1>1 DEF LaidOut
    <3> QED BY <3>2, <3>3
  <2>2. (\A k \in DOMAIN f.dir : f.dir[k].tag # "SUMM" => Len(f.dir[k].rows) <= MaxRows[f.dir[k].tag])
          <=> \A tag \in RowTags : Len(rows[TableOf[tag]]) <= MaxRows[tag]
    <3>1. ASSUME NEW k \in 1 .. n, f.dir[k].tag # "SUMM",
                 \A tag \in RowTags : Len(rows[TableOf[tag]]) <= MaxRows[tag]
          PROVE  Len(f.dir[k].rows) <= MaxRows[f.dir[k].tag]
      BY <1>3, <2>1, <3>1
    <3>2. ASSUME NEW tag \in RowTags,
                 \A k \in 1 .. n : f.dir[k].tag # "SUMM" => Len(f.dir[k].rows) <= MaxRows[f.dir[k].tag]
          PROVE  Len(rows[TableOf[tag]]) <= MaxRows[tag]
      <4>1. CASE \E k \in 1 .. n : bodies[k].tag = tag
        <5>1. PICK k \in 1 .. n : bodies[k].tag = tag
          BY <4>1
        <5>2. tag # "SUMM"
          BY TagRows
        <5> QED BY <1>3, <2>1, <3>2, <5>1, <5>2
      <4>2. CASE \A k \in 1 .. n : bodies[k].tag # tag
        BY <1>4, <4>2 DEF RowsWithin
      <4> QED BY <4>1, <4>2
    <3> QED BY <1>1, <3>1, <3>2
  <2>3. rows[TableOf["WAVE"]] = rows.waves /\ "WAVE" \in RowTags
    BY TagRows DEF TableOf
  <2> QED BY <1>2, <2>2, <2>3 DEF Readable, RowsWithin
<1>8. ASSUME AllDecode(f) PROVE FinishOpen(f) = Normalize(f.rows)
  <2>1. \A tag \in RowTags : RowsIn(f, tag) = rows[TableOf[tag]]
    <3> TAKE tag \in RowTags
    <3>1. RowsWithin(tag, rows[TableOf[tag]])
      BY <1>6, <1>8
    <3>2. CASE \E k \in 1 .. n : bodies[k].tag = tag
      <4>1. PICK k \in 1 .. n : bodies[k].tag = tag
        BY <3>2
      <4> QED BY <1>3, <3>1, <4>1 DEF RowsIn
    <3>3. CASE \A k \in 1 .. n : bodies[k].tag # tag
      BY <1>4, <3>3 DEF RowsIn
    <3> QED BY <3>2, <3>3
  <2>2. RowsIn(f, "SUMM")[1] = rows.summ /\ FindSection(f.dir, "SUMM") # 0
    BY <1>1, <1>5, DecodedIs DEF RowsIn
  <2>3. RawTables(f) = rows
    <3>1. /\ RowsIn(f, "SNAM") = rows.names /\ RowsIn(f, "ROUT") = rows.routes
          /\ RowsIn(f, "INST") = rows.insts /\ RowsIn(f, "CLBR") = rows.calibs
          /\ RowsIn(f, "WIND") = rows.windows /\ RowsIn(f, "WAVE") = rows.waves
          /\ RowsIn(f, "MARK") = rows.marks /\ RowsIn(f, "LINK") = rows.links
          /\ RowsIn(f, "NOTE") = rows.notes
      BY <2>1, TagRows DEF TableOf
    <3>2. rows = [names |-> rows.names, routes |-> rows.routes, insts |-> rows.insts,
                  calibs |-> rows.calibs, windows |-> rows.windows, waves |-> rows.waves,
                  marks |-> rows.marks, links |-> rows.links, notes |-> rows.notes,
                  summ |-> rows.summ]
      BY <1>1 DEF Parsed
    <3> QED BY <2>2, <3>1, <3>2 DEF RawTables
  <2>4. FinishOpen(f) = Normalize(RawTables(f))
    BY DEF FinishOpen, RawTables
  <2> QED BY <1>2, <2>3, <2>4
<1>9. f # NoFile => (Opens(f) <=> version \in 1 .. 2 /\ AllDecode(f))
  <2>1. LoadSucceeds(f) <=> f # NoFile /\ version \in 1 .. 2
    BY <1>2 DEF LoadSucceeds, HeaderIsSupported
  <2> QED BY <2>1 DEF Opens, AllDecode
<1> QED BY <1>6, <1>7, <1>8, <1>9 DEF Faithful

-----------------------------------------------------------------------------
(***************************************************************************)
(* Files.                                                                  *)
(***************************************************************************)
ImageFields == {"header", "version", "size", "total", "sections", "dir", "rows", "state", "merged"}

(* What holds of every file, from the write on.                            *)
FileIsSound(f) ==
  /\ DOMAIN f = ImageFields
  /\ SaneImage(f)
  /\ f.state = "whole" => Faithful(f)
  /\ f.state = "torn" => ~Opens(f)

(* A file that was written, ...                                            *)
LEMMA WrittenIsSound ==
  ASSUME NEW bodies, NEW rows, Hold(bodies, rows), NEW version, NEW merged, NEW f,
         f = Written(Image(bodies, version), rows, merged)
  PROVE  FileIsSound(f) /\ f.state = "whole" /\ f.version = version /\ f.rows = rows
<1>1. LaidOut(f, bodies, rows, version)
  BY WrittenIsLaidOut
<1>2. SaneImage(f) /\ Faithful(f)
  BY <1>1, LaidOutIsSane, LaidOutIsFaithful
<1>3. DOMAIN f = ImageFields
  BY DEF Written, ImageFields
<1>4. f.state = "whole" /\ f.version = version /\ f.rows = rows
  BY <1>1 DEF LaidOut
<1> QED BY <1>2, <1>3, <1>4 DEF FileIsSound

(* ... and what is left of it if the write comes short: the summary, which *)
(* is the last section, is cut.                                            *)
LEMMA TornIsSound ==
  ASSUME NEW bodies, NEW rows, Hold(bodies, rows), NEW version, NEW merged, NEW f,
         f = Written(Image(bodies, version), rows, merged), NEW size \in TornSizes(f)
  PROVE  FileIsSound(TornAt(f, size))
<1> DEFINE n == Len(bodies)
           g == TornAt(f, size)
           s == f.size
           head == DirEntrySize * f.sections
           e == f.dir[n]
<1>1. LaidOut(f, bodies, rows, version) /\ n \in DOMAIN bodies /\ n # 0 /\ n \in 1 .. n
  BY WrittenIsLaidOut DEF Hold
<1>2. DOMAIN f = ImageFields
  BY DEF Written, ImageFields
<1>3. g.size = size /\ g.state = "torn" /\ g.dir = f.dir /\ DOMAIN g = ImageFields
  BY <1>2 DEF TornAt, ImageFields
<1>4. SaneImage(g)
  BY <1>1, <1>3, LaidOutIsSane DEF SaneImage
<1>5. s \in Nat /\ head \in Nat /\ FileHeaderSize + head < s
  BY <1>1 DEF LaidOut, DirEntrySize
<1>6. size < s /\ size \in Nat
  <2>1. size \in {0, FileHeaderSize, FileHeaderSize + head, s \div 2, s - 1}
    BY DEF TornSizes
  <2> HIDE DEF head, s
  <2> QED BY <1>5, <2>1 DEF FileHeaderSize
<1>7. e.offset \in Nat /\ e.length \in Nat /\ e.offset + e.length = s
  BY <1>1 DEF LaidOut
<1>8. ~SectionSlice(e, size)
  <2> HIDE DEF e, s
  <2> QED BY <1>6, <1>7 DEF SectionSlice
<1>9. FindSection(f.dir, "SUMM") = n
  BY <1>1, LaidOutIsFound DEF Hold
<1>10. ~SectionDecodes(g, "SUMM")
  BY <1>1, <1>3, <1>8, <1>9 DEF SectionDecodes
<1> HIDE DEF g
<1>11. ~Opens(g)
  <2>1. PICK i \in DOMAIN Order : Order[i] = "SUMM"
    BY TagsInOrder
  <2> QED BY <1>10, <2>1 DEF Opens
<1> QED BY <1>3, <1>4, <1>11 DEF FileIsSound, g

(* A file that decays keeps its sections where they are.                   *)
Decayed(f, k, count) == [f EXCEPT !.dir[k].count = count, !.dir[k].crc = "bad", !.state = "decayed"]

(* A damaged image is as sound as the one that was stored.                 *)
LEMMA DecayedIsSound ==
  ASSUME NEW f, FileIsSound(f), NEW k \in DOMAIN f.dir, NEW count \in DamagedCount(f.dir[k])
  PROVE  FileIsSound(Decayed(f, k, count))
<1> DEFINE g == Decayed(f, k, count)
           e == f.dir[k]
           d == [e EXCEPT !.count = count]
           c == [d EXCEPT !.crc = "bad"]
           one == [f.dir EXCEPT ![k] = d]
           dir == [one EXCEPT ![k] = c]
<1>1. DOMAIN f = ImageFields /\ SaneImage(f) /\ SaneEntry(e)
  BY DEF FileIsSound, SaneImage
<1>2. g.dir = dir /\ g.state = "decayed" /\ DOMAIN g = ImageFields
  <2>1. g.dir = [[f.dir EXCEPT ![k].count = count] EXCEPT ![k].crc = "bad"]
    BY <1>1 DEF ImageFields, Decayed
  <2>2. [f.dir EXCEPT ![k].count = count] = one
    OBVIOUS
  <2>3. one[k] = d
    OBVIOUS
  <2>4. [one EXCEPT ![k].crc = "bad"] = dir
    BY <2>3
  <2>5. g.state = "decayed" /\ DOMAIN g = ImageFields
    BY <1>1 DEF ImageFields, Decayed
  <2> QED BY <2>1, <2>2, <2>4, <2>5
<1>3. count \in Nat
  BY <1>1 DEF SaneEntry, DamagedCount
<1>4. c.tag = e.tag /\ c.rows = e.rows /\ c.length = e.length /\ c.count \in {count, e.count}
  OBVIOUS
<1>5. SaneEntry(c)
  <2> HIDE DEF c
  <2>1. c.count \in Nat
    BY <1>1, <1>3, <1>4 DEF SaneEntry
  <2> QED BY <1>1, <1>4, <2>1 DEF SaneEntry
<1>6. DOMAIN dir = DOMAIN f.dir /\ \A i \in DOMAIN dir : dir[i] = IF i = k THEN c ELSE f.dir[i]
  <2> HIDE DEF c, d
  <2> QED OBVIOUS
<1> HIDE DEF c, dir, g
<1>7. SaneImage(g)
  BY <1>1, <1>2, <1>5, <1>6 DEF SaneImage
<1> QED BY <1>2, <1>7 DEF FileIsSound, g

(* The sections of a table, ...                                            *)
LEMMA BodyIsSection ==
  ASSUME NEW tag \in RowTags, NEW rows \in Seq(TagRow(tag))
  PROVE  /\ Body(tag, rows) \in Sections
         /\ Body(tag, rows).tag = tag /\ Body(tag, rows).rows = rows
<1>1. Body(tag, rows) \in SectionsOf(tag)
  BY DEF SectionsOf
<1>2. SectionsOf(tag) \in {SectionsOf(other) : other \in RowTags}
  OBVIOUS
<1>3. Body(tag, rows) \in Sections
  BY <1>1, <1>2 DEF Sections
<1> QED BY <1>3 DEF Body

(* ... and of the counts.                                                  *)
LEMMA SummIsSection ==
  ASSUME NEW counts \in SummRow
  PROVE  /\ SummBody(counts) \in Sections
         /\ SummBody(counts).tag = "SUMM" /\ SummBody(counts).rows = <<counts>>
<1>1. SummBody(counts) \in Sections
  BY DEF Sections
<1> QED BY <1>1 DEF SummBody

(* Sections that hold the tables with tags S, each once.                   *)
RowsFor(rows, tag) == IF tag = "SUMM" THEN <<rows.summ>> ELSE rows[TableOf[tag]]

Holds(x, rows, S) ==
  /\ x \in Seq(Sections)
  /\ \A k \in 1 .. Len(x) : x[k].tag \in S
  /\ \A i, j \in 1 .. Len(x) : x[i].tag = x[j].tag => i = j
  /\ \A tag \in S : \E k \in 1 .. Len(x) : x[k].tag = tag /\ x[k].rows = RowsFor(rows, tag)

(* One section, ...                                                        *)
LEMMA HoldsOne ==
  ASSUME NEW rows, NEW b \in Sections, b.rows = RowsFor(rows, b.tag)
  PROVE  Holds(<<b>>, rows, {b.tag})
<1>1. <<b>> \in Seq(Sections) /\ Len(<<b>>) = 1 /\ <<b>>[1] = b /\ 1 \in 1 .. 1 /\ \A k \in 1 .. 1 : k = 1
  OBVIOUS
<1> QED BY <1>1 DEF Holds

(* ... and sections of other tables behind them.                           *)
LEMMA HoldsBoth ==
  ASSUME NEW rows, NEW x, NEW y, NEW S, NEW T, Holds(x, rows, S), Holds(y, rows, T), S \cap T = {}
  PROVE  Holds(x \o y, rows, S \cup T)
<1> DEFINE z == x \o y
           m == Len(x)
           n == Len(y)
<1>1. x \in Seq(Sections) /\ y \in Seq(Sections) /\ m \in Nat /\ n \in Nat
  BY LenProperties DEF Holds
<1>2. /\ z \in Seq(Sections) /\ Len(z) = m + n
      /\ \A i \in 1 .. m + n : z[i] = IF i <= m THEN x[i] ELSE y[i - m]
  BY <1>1, ConcatProperties
<1>3. /\ \A k \in 1 .. m : x[k].tag \in S
      /\ \A i, j \in 1 .. m : x[i].tag = x[j].tag => i = j
      /\ \A tag \in S : \E k \in 1 .. m : x[k].tag = tag /\ x[k].rows = RowsFor(rows, tag)
      /\ \A k \in 1 .. n : y[k].tag \in T
      /\ \A i, j \in 1 .. n : y[i].tag = y[j].tag => i = j
      /\ \A tag \in T : \E k \in 1 .. n : y[k].tag = tag /\ y[k].rows = RowsFor(rows, tag)
  BY DEF Holds
<1> HIDE DEF z, m, n
<1>4. \A i \in 1 .. m + n : \/ i \in 1 .. m /\ z[i] = x[i]
                            \/ i > m /\ i - m \in 1 .. n /\ z[i] = y[i - m]
  BY <1>1, <1>2
<1>5. \A k \in 1 .. m + n : z[k].tag \in S \cup T
  BY <1>3, <1>4
<1>6. ASSUME NEW i \in 1 .. m + n, NEW j \in 1 .. m + n, z[i].tag = z[j].tag PROVE i = j
  <2>1. CASE i \in 1 .. m /\ z[i] = x[i] /\ j \in 1 .. m /\ z[j] = x[j]
    BY <1>3, <1>6, <2>1
  <2>2. CASE i \in 1 .. m /\ z[i] = x[i] /\ j - m \in 1 .. n /\ z[j] = y[j - m]
    BY <1>3, <1>6, <2>2
  <2>3. CASE i - m \in 1 .. n /\ z[i] = y[i - m] /\ j \in 1 .. m /\ z[j] = x[j]
    BY <1>3, <1>6, <2>3
  <2>4. CASE i - m \in 1 .. n /\ z[i] = y[i - m] /\ j - m \in 1 .. n /\ z[j] = y[j - m]
    <3>1. i - m = j - m
      BY <1>3, <1>6, <2>4
    <3> QED BY <1>1, <3>1
  <2> QED BY <1>4, <2>1, <2>2, <2>3, <2>4
<1>7. ASSUME NEW tag \in S \cup T
      PROVE  \E k \in 1 .. m + n : z[k].tag = tag /\ z[k].rows = RowsFor(rows, tag)
  <2>1. CASE tag \in S
    <3>1. PICK k \in 1 .. m : x[k].tag = tag /\ x[k].rows = RowsFor(rows, tag)
      BY <1>3, <2>1
    <3>2. k \in 1 .. m + n /\ z[k] = x[k]
      BY <1>1, <1>2
    <3> QED BY <3>1, <3>2
  <2>2. CASE tag \in T
    <3>1. PICK k \in 1 .. n : y[k].tag = tag /\ y[k].rows = RowsFor(rows, tag)
      BY <1>3, <2>2
    <3>2. m + k \in 1 .. m + n /\ ~(m + k <= m) /\ (m + k) - m = k
      BY <1>1
    <3>3. z[m + k] = y[k]
      BY <1>2, <3>2
    <3> QED BY <3>1, <3>2, <3>3
  <2> QED BY <2>1, <2>2
<1> QED BY <1>2, <1>5, <1>6, <1>7 DEF Holds, z, m, n

(* A list is its elements one after the other.                             *)
LEMMA ListOfTwo ==
  ASSUME NEW a, NEW b
  PROVE  <<a, b>> = <<a>> \o <<b>>
<1> DEFINE B == {a, b}
           x == <<a>>
           y == <<b>>
           z == x \o y
<1>1. x \in Seq(B) /\ y \in Seq(B) /\ Len(x) = 1 /\ Len(y) = 1 /\ x[1] = a /\ y[1] = b
  OBVIOUS
<1> HIDE DEF B, x, y
<1>2. z \in Seq(B) /\ Len(z) = 2 /\ \A i \in 1 .. 2 : z[i] = IF i <= 1 THEN x[i] ELSE y[i - 1]
  BY <1>1, ConcatProperties
<1>3. z[1] = a /\ z[2] = b
  BY <1>1, <1>2
<1> HIDE DEF z
<1>4. z = <<a, b>>
  BY <1>2, <1>3
<1> QED BY <1>4 DEF x, y, z

(* A list of five is a list of four and one more.                          *)
LEMMA ListOfFive ==
  ASSUME NEW a, NEW b, NEW c, NEW d, NEW e
  PROVE  <<a, b, c, d, e>> = <<a, b, c, d>> \o <<e>>
<1> DEFINE B == {a, b, c, d, e}
           x == <<a, b, c, d>>
           y == <<e>>
           z == x \o y
<1>1. <<a, b, c, d, e>> = z
  <2>1. x \in Seq(B) /\ Len(x) = 4
    OBVIOUS
  <2>2. x[1] = a /\ x[2] = b /\ x[3] = c /\ x[4] = d
    OBVIOUS
  <2>3. y \in Seq(B) /\ Len(y) = 1 /\ y[1] = e
    OBVIOUS
  <2> HIDE DEF B, x, y
  <2>4. z \in Seq(B) /\ Len(z) = 5 /\ \A i \in 1 .. 5 : z[i] = IF i <= 4 THEN x[i] ELSE y[i - 4]
    <3>1. /\ x \o y \in Seq(B) /\ Len(x \o y) = Len(x) + Len(y)
          /\ \A i \in 1 .. Len(x) + Len(y) : (x \o y)[i] = IF i <= Len(x) THEN x[i] ELSE y[i - Len(x)]
      BY <2>1, <2>3, ConcatProperties, Zenon
    <3>2. Len(x) + Len(y) = 5 /\ Len(x) = 4
      BY <2>1, <2>3
    <3> QED BY <3>1, <3>2
  <2>5. z[1] = a /\ z[2] = b /\ z[3] = c /\ z[4] = d /\ z[5] = e
    BY <2>2, <2>3, <2>4
  <2> HIDE DEF z
  <2> QED BY <2>4, <2>5
<1> QED BY <1>1 DEF x, y, z

(* Sections of two, four and five tables.                                  *)
LEMMA HoldsTwo ==
  ASSUME NEW rows, NEW a, NEW b, NEW S, NEW T, Holds(<<a>>, rows, S), Holds(<<b>>, rows, T), S \cap T = {}
  PROVE  Holds(<<a, b>>, rows, S \cup T)
<1>1. Holds(<<a>> \o <<b>>, rows, S \cup T)
  BY HoldsBoth
<1>2. <<a, b>> = <<a>> \o <<b>>
  BY Zenon, ListOfTwo
<1> QED BY Zenon, <1>1, <1>2

(* Four sections hold what the first two and the last two of them hold.    *)
LEMMA HoldsFour ==
  ASSUME NEW rows, NEW a, NEW b, NEW c, NEW d, NEW S, NEW T,
         Holds(<<a, b>>, rows, S), Holds(<<c, d>>, rows, T), S \cap T = {}
  PROVE  Holds(<<a, b, c, d>>, rows, S \cup T)
<1>1. Holds(<<a, b>> \o <<c, d>>, rows, S \cup T)
  BY HoldsBoth
<1>2. <<a, b, c, d>> = <<a, b>> \o <<c, d>>
  OBVIOUS
<1> QED BY Zenon, <1>1, <1>2

(* Five sections hold what the first four and the last of them hold.       *)
LEMMA HoldsFive ==
  ASSUME NEW rows, NEW a, NEW b, NEW c, NEW d, NEW e, NEW S, NEW T,
         Holds(<<a, b, c, d>>, rows, S), Holds(<<e>>, rows, T), S \cap T = {}
  PROVE  Holds(<<a, b, c, d, e>>, rows, S \cup T)
<1>1. Holds(<<a, b, c, d>> \o <<e>>, rows, S \cup T)
  BY HoldsBoth
<1>2. <<a, b, c, d, e>> = <<a, b, c, d>> \o <<e>>
  BY SMT, ListOfFive
<1> QED BY Zenon, <1>1, <1>2

(* The summary behind them.                                                *)
LEMMA HoldsAll ==
  ASSUME NEW rows \in Parsed, rows.summ \in SummRow, NEW x, NEW S \in SUBSET RowTags,
         Holds(x, rows, S), \A tag \in RowTags \ S : rows[TableOf[tag]] = << >>,
         NEW bodies, bodies = x \o <<SummBody(rows.summ)>>
  PROVE  Hold(bodies, rows)
<1> DEFINE b == SummBody(rows.summ)
           n == Len(bodies)
<1>1. b \in Sections /\ b.tag = "SUMM" /\ b.rows = <<rows.summ>>
  BY SummIsSection
<1> HIDE DEF b
<1>2. Holds(<<b>>, rows, {"SUMM"})
  BY <1>1, HoldsOne DEF RowsFor
<1>3. "SUMM" \notin RowTags
  BY TagRows
<1>4. Holds(bodies, rows, S \cup {"SUMM"})
  BY <1>2, <1>3, HoldsBoth DEF b
<1>5. bodies \in Seq(Sections) /\ x \in Seq(Sections) /\ DOMAIN bodies = 1 .. n
  BY <1>4 DEF Holds
<1>6. n = Len(x) + 1 /\ bodies[n] = b
  <2>1. <<b>> \in Seq(Sections) /\ Len(<<b>>) = 1 /\ <<b>>[1] = b
    BY <1>1
  <2>2. n = Len(x) + 1 /\ \A i \in 1 .. Len(x) + 1 : bodies[i] = IF i <= Len(x) THEN x[i] ELSE <<b>>[i - Len(x)]
    BY <1>5, <2>1, ConcatProperties DEF b
  <2>3. Len(x) \in Nat
    BY <1>5, LenProperties
  <2> DEFINE l == Len(x)
  <2>4. l + 1 \in 1 .. l + 1 /\ ~(l + 1 <= l) /\ (l + 1) - l = 1
    BY <2>3
  <2> HIDE DEF n
  <2> QED BY <2>1, <2>2, <2>4
<1>7. bodies # << >>
  <2>1. n # 0
    BY <1>5, <1>6, LenProperties
  <2> QED BY <2>1
<1>8. \A k \in 1 .. n : bodies[k].tag \in S \cup {"SUMM"}
  BY <1>4 DEF Holds
<1>9. \A i, j \in 1 .. n : bodies[i].tag = bodies[j].tag => i = j
  BY <1>4 DEF Holds
<1>10. \A tag \in S : \E k \in 1 .. n : bodies[k].tag = tag /\ bodies[k].rows = rows[TableOf[tag]]
  BY <1>3, <1>4 DEF Holds, RowsFor
<1>11. ASSUME NEW tag \in RowTags \ S PROVE \A k \in 1 .. n : bodies[k].tag # tag
  BY <1>3, <1>8
<1> HIDE DEF n
<1> QED BY <1>1, <1>3, <1>5, <1>6, <1>7, <1>9, <1>10, <1>11 DEF Hold, n

(* rv_builder_serialize writes all tables.                                 *)
LEMMA SerializeHolds ==
  ASSUME NEW b \in Built
  PROVE  /\ Hold(BuiltRecords(b) \o BuiltMarks(b) \o BuiltSumm(b), BuilderRows(b))
         /\ BuilderRows(b) \in Parsed
<1> DEFINE rows == BuilderRows(b)
           counts == Counts(b)
           s1 == Body("SNAM", b.names)
           s2 == Body("ROUT", b.routes)
           s3 == Body("INST", b.insts)
           s4 == Body("CLBR", b.calibs)
           s5 == Body("WIND", b.windows)
           s6 == Body("WAVE", b.waves)
           s7 == Body("MARK", b.marks)
           s8 == Body("LINK", b.links)
           s9 == Body("NOTE", b.notes)
<1>1. counts \in SummRow
  BY LenProperties DEF Counts, SummRow, Built
<1>2. rows \in Parsed /\ rows.summ = counts
  BY <1>1 DEF BuilderRows, Parsed, Built
<1>3. /\ rows.names = b.names /\ rows.routes = b.routes /\ rows.insts = b.insts
      /\ rows.calibs = b.calibs /\ rows.windows = b.windows /\ rows.waves = b.waves
      /\ rows.marks = b.marks /\ rows.links = b.links /\ rows.notes = b.notes
  BY DEF BuilderRows
<1>4. \A tag \in RowTags : rows[TableOf[tag]] \in Seq(TagRow(tag))
  BY <1>2, TableOfPackage, TagRows DEF TagRow
<1> HIDE DEF rows, counts
<1>5. \A tag \in RowTags : Holds(<<Body(tag, rows[TableOf[tag]])>>, rows, {tag})
  <2> TAKE tag \in RowTags
  <2> DEFINE body == Body(tag, rows[TableOf[tag]])
  <2>1. body \in Sections /\ body.tag = tag /\ body.rows = rows[TableOf[tag]]
    BY <1>4, BodyIsSection
  <2>2. tag # "SUMM"
    BY TagRows
  <2> HIDE DEF body
  <2>3. Holds(<<body>>, rows, {body.tag})
    BY <2>1, <2>2, HoldsOne DEF RowsFor
  <2> QED BY <2>1, <2>3 DEF body
<1>6. /\ Holds(<<s1>>, rows, {"SNAM"}) /\ Holds(<<s2>>, rows, {"ROUT"}) /\ Holds(<<s3>>, rows, {"INST"})
      /\ Holds(<<s4>>, rows, {"CLBR"}) /\ Holds(<<s5>>, rows, {"WIND"}) /\ Holds(<<s6>>, rows, {"WAVE"})
      /\ Holds(<<s7>>, rows, {"MARK"}) /\ Holds(<<s8>>, rows, {"LINK"}) /\ Holds(<<s9>>, rows, {"NOTE"})
  <2>1. /\ TableOf["SNAM"] = "names" /\ TableOf["ROUT"] = "routes" /\ TableOf["INST"] = "insts"
        /\ TableOf["CLBR"] = "calibs" /\ TableOf["WIND"] = "windows" /\ TableOf["WAVE"] = "waves"
        /\ TableOf["MARK"] = "marks" /\ TableOf["LINK"] = "links" /\ TableOf["NOTE"] = "notes"
    BY DEF TableOf
  <2>2. /\ s1 = Body("SNAM", rows[TableOf["SNAM"]]) /\ s2 = Body("ROUT", rows[TableOf["ROUT"]])
        /\ s3 = Body("INST", rows[TableOf["INST"]]) /\ s4 = Body("CLBR", rows[TableOf["CLBR"]])
        /\ s5 = Body("WIND", rows[TableOf["WIND"]]) /\ s6 = Body("WAVE", rows[TableOf["WAVE"]])
        /\ s7 = Body("MARK", rows[TableOf["MARK"]]) /\ s8 = Body("LINK", rows[TableOf["LINK"]])
        /\ s9 = Body("NOTE", rows[TableOf["NOTE"]])
    BY <1>3, <2>1
  <2> HIDE DEF s1, s2, s3, s4, s5, s6, s7, s8, s9
  <2> QED BY <1>5, <2>2, TagRows
<1> HIDE DEF s1, s2, s3, s4, s5, s6, s7, s8, s9
<1>7. Holds(<<s1, s2, s3, s4, s5>>, rows, {"SNAM", "ROUT", "INST", "CLBR", "WIND"})
  <2>1. Holds(<<s1, s2>>, rows, {"SNAM"} \cup {"ROUT"})
    BY <1>6, HoldsTwo
  <2>2. Holds(<<s3, s4>>, rows, {"INST"} \cup {"CLBR"})
    BY <1>6, HoldsTwo
  <2>3. Holds(<<s1, s2, s3, s4>>, rows, ({"SNAM"} \cup {"ROUT"}) \cup ({"INST"} \cup {"CLBR"}))
    BY <2>1, <2>2, HoldsFour
  <2>4. Holds(<<s1, s2, s3, s4, s5>>, rows, (({"SNAM"} \cup {"ROUT"}) \cup ({"INST"} \cup {"CLBR"})) \cup {"WIND"})
    BY <1>6, <2>3, HoldsFive
  <2>5. (({"SNAM"} \cup {"ROUT"}) \cup ({"INST"} \cup {"CLBR"})) \cup {"WIND"}
          = {"SNAM", "ROUT", "INST", "CLBR", "WIND"}
    OBVIOUS
  <2> QED BY <2>4, <2>5, Zenon
<1>8. Holds(<<s6, s7, s8, s9>>, rows, {"WAVE", "MARK", "LINK", "NOTE"})
  <2>1. Holds(<<s6, s7>>, rows, {"WAVE"} \cup {"MARK"})
    BY <1>6, HoldsTwo
  <2>2. Holds(<<s8, s9>>, rows, {"LINK"} \cup {"NOTE"})
    BY <1>6, HoldsTwo
  <2>3. Holds(<<s6, s7, s8, s9>>, rows, ({"WAVE"} \cup {"MARK"}) \cup ({"LINK"} \cup {"NOTE"}))
    BY <2>1, <2>2, HoldsFour
  <2>4. ({"WAVE"} \cup {"MARK"}) \cup ({"LINK"} \cup {"NOTE"}) = {"WAVE", "MARK", "LINK", "NOTE"}
    OBVIOUS
  <2> QED BY <2>3, <2>4, Zenon
<1>9. Holds(<<s1, s2, s3, s4, s5>> \o <<s6, s7, s8, s9>>, rows, RowTags)
  <2>1. Holds(<<s1, s2, s3, s4, s5>> \o <<s6, s7, s8, s9>>, rows,
              {"SNAM", "ROUT", "INST", "CLBR", "WIND"} \cup {"WAVE", "MARK", "LINK", "NOTE"})
    BY <1>7, <1>8, HoldsBoth
  <2>2. {"SNAM", "ROUT", "INST", "CLBR", "WIND"} \cup {"WAVE", "MARK", "LINK", "NOTE"} = RowTags
    BY TagRows
  <2> QED BY <2>1, <2>2
<1>10. Hold((<<s1, s2, s3, s4, s5>> \o <<s6, s7, s8, s9>>) \o <<SummBody(rows.summ)>>, rows)
  BY <1>1, <1>2, <1>9, HoldsAll
<1>11. /\ BuiltRecords(b) = <<s1, s2, s3, s4, s5>> /\ BuiltMarks(b) = <<s6, s7, s8, s9>>
       /\ BuiltSumm(b) = <<SummBody(rows.summ)>>
  BY <1>2 DEF BuiltRecords, BuiltMarks, BuiltSumm, s1, s2, s3, s4, s5, s6, s7, s8, s9, counts
<1> QED BY <1>2, <1>10, <1>11 DEF rows

(* rv_export_build writes no notes, and waves if it is asked to.           *)
LEMMA ExportHolds ==
  ASSUME NEW t \in Parsed, NEW include \in BOOLEAN
  PROVE  /\ Hold(ExportedRecords(t) \o ExportedWaves(t, include) \o ExportedMarks(t) \o ExportedSumm(Counts(t)),
                 ExportedRows(t, include))
         /\ ExportedRows(t, include) \in Parsed
<1> DEFINE rows == ExportedRows(t, include)
           counts == Counts(t)
           waves == IF include THEN t.waves ELSE << >>
           s1 == Body("SNAM", t.names)
           s2 == Body("ROUT", t.routes)
           s3 == Body("INST", t.insts)
           s4 == Body("CLBR", t.calibs)
           s5 == Body("WIND", t.windows)
           s6 == Body("WAVE", waves)
           s7 == Body("MARK", t.marks)
           s8 == Body("LINK", t.links)
<1>1. counts \in SummRow /\ [counts EXCEPT !.repaired = FALSE] = counts
  <2>1. /\ Len(t.routes) \in Nat /\ Len(t.windows) \in Nat /\ Len(t.marks) \in Nat
        /\ Len(t.waves) \in Nat /\ Len(t.names) \in Nat
    BY LenProperties DEF Parsed
  <2>2. counts \in SummRow
    BY <2>1 DEF Counts, SummRow
  <2>3. counts.repaired = FALSE
    BY DEF Counts
  <2> HIDE DEF counts
  <2>4. [counts EXCEPT !.repaired = FALSE] = counts
    BY <2>2, <2>3 DEF SummRow
  <2> QED BY <2>2, <2>4
<1>2. waves \in Seq(WaveRec)
  BY DEF Parsed
<1> HIDE DEF waves, counts
<1>3. /\ rows = [t EXCEPT !.notes = << >>, !.waves = waves, !.summ = counts]
  BY Zenon DEF ExportedRows, waves, counts
<1>4. rows \in Parsed /\ rows.summ = counts
  <2>1. << >> \in Seq(NoteRec)
    OBVIOUS
  <2> HIDE DEF rows
  <2> QED BY <1>1, <1>2, <1>3, <2>1 DEF Parsed
<1>5. /\ rows.names = t.names /\ rows.routes = t.routes /\ rows.insts = t.insts
      /\ rows.calibs = t.calibs /\ rows.windows = t.windows /\ rows.waves = waves
      /\ rows.marks = t.marks /\ rows.links = t.links /\ rows.notes = << >>
  <2> HIDE DEF rows
  <2> QED BY <1>3 DEF Parsed
<1>6. \A tag \in RowTags : rows[TableOf[tag]] \in Seq(TagRow(tag))
  BY <1>4, TableOfPackage, TagRows DEF TagRow
<1> HIDE DEF rows
<1>7. \A tag \in RowTags : Holds(<<Body(tag, rows[TableOf[tag]])>>, rows, {tag})
  <2> TAKE tag \in RowTags
  <2> DEFINE body == Body(tag, rows[TableOf[tag]])
  <2>1. body \in Sections /\ body.tag = tag /\ body.rows = rows[TableOf[tag]]
    BY <1>6, BodyIsSection
  <2>2. tag # "SUMM"
    BY TagRows
  <2> HIDE DEF body
  <2>3. Holds(<<body>>, rows, {body.tag})
    BY <2>1, <2>2, HoldsOne DEF RowsFor
  <2> QED BY <2>1, <2>3 DEF body
<1>8. /\ TableOf["SNAM"] = "names" /\ TableOf["ROUT"] = "routes" /\ TableOf["INST"] = "insts"
      /\ TableOf["CLBR"] = "calibs" /\ TableOf["WIND"] = "windows" /\ TableOf["WAVE"] = "waves"
      /\ TableOf["MARK"] = "marks" /\ TableOf["LINK"] = "links" /\ TableOf["NOTE"] = "notes"
  BY DEF TableOf
<1>9. /\ Holds(<<s1>>, rows, {"SNAM"}) /\ Holds(<<s2>>, rows, {"ROUT"}) /\ Holds(<<s3>>, rows, {"INST"})
      /\ Holds(<<s4>>, rows, {"CLBR"}) /\ Holds(<<s5>>, rows, {"WIND"}) /\ Holds(<<s6>>, rows, {"WAVE"})
      /\ Holds(<<s7>>, rows, {"MARK"}) /\ Holds(<<s8>>, rows, {"LINK"})
  <2>1. /\ s1 = Body("SNAM", rows[TableOf["SNAM"]]) /\ s2 = Body("ROUT", rows[TableOf["ROUT"]])
        /\ s3 = Body("INST", rows[TableOf["INST"]]) /\ s4 = Body("CLBR", rows[TableOf["CLBR"]])
        /\ s5 = Body("WIND", rows[TableOf["WIND"]]) /\ s6 = Body("WAVE", rows[TableOf["WAVE"]])
        /\ s7 = Body("MARK", rows[TableOf["MARK"]]) /\ s8 = Body("LINK", rows[TableOf["LINK"]])
    BY <1>5, <1>8
  <2> HIDE DEF s1, s2, s3, s4, s5, s6, s7, s8
  <2> QED BY <1>7, <2>1, TagRows
<1> HIDE DEF s1, s2, s3, s4, s5, s6, s7, s8
<1>10. Holds(<<s1, s2, s3, s4, s5>>, rows, {"SNAM", "ROUT", "INST", "CLBR", "WIND"})
  <2>1. Holds(<<s1, s2>>, rows, {"SNAM"} \cup {"ROUT"})
    BY <1>9, HoldsTwo
  <2>2. Holds(<<s3, s4>>, rows, {"INST"} \cup {"CLBR"})
    BY <1>9, HoldsTwo
  <2>3. Holds(<<s1, s2, s3, s4>>, rows, ({"SNAM"} \cup {"ROUT"}) \cup ({"INST"} \cup {"CLBR"}))
    BY <2>1, <2>2, HoldsFour
  <2>4. Holds(<<s1, s2, s3, s4, s5>>, rows, (({"SNAM"} \cup {"ROUT"}) \cup ({"INST"} \cup {"CLBR"})) \cup {"WIND"})
    BY <1>9, <2>3, HoldsFive
  <2>5. (({"SNAM"} \cup {"ROUT"}) \cup ({"INST"} \cup {"CLBR"})) \cup {"WIND"}
          = {"SNAM", "ROUT", "INST", "CLBR", "WIND"}
    OBVIOUS
  <2> QED BY <2>4, <2>5, Zenon
<1> DEFINE S == {"SNAM", "ROUT", "INST", "CLBR", "WIND", "WAVE", "MARK", "LINK"}
<1>11. Holds((<<s1, s2, s3, s4, s5>> \o <<s6>>) \o <<s7, s8>>, rows, S)
  <2>1. Holds(<<s1, s2, s3, s4, s5>> \o <<s6>>, rows, {"SNAM", "ROUT", "INST", "CLBR", "WIND"} \cup {"WAVE"})
    BY <1>9, <1>10, HoldsBoth
  <2>2. Holds(<<s7, s8>>, rows, {"MARK"} \cup {"LINK"})
    BY <1>9, HoldsTwo
  <2>3. Holds((<<s1, s2, s3, s4, s5>> \o <<s6>>) \o <<s7, s8>>, rows,
              ({"SNAM", "ROUT", "INST", "CLBR", "WIND"} \cup {"WAVE"}) \cup ({"MARK"} \cup {"LINK"}))
    BY <2>1, <2>2, HoldsBoth
  <2>4. ({"SNAM", "ROUT", "INST", "CLBR", "WIND"} \cup {"WAVE"}) \cup ({"MARK"} \cup {"LINK"}) = S
    OBVIOUS
  <2> QED BY <2>3, <2>4, Zenon
<1>12. S \in SUBSET RowTags /\ RowTags \ S = {"NOTE"}
  BY TagRows
<1>13. \A tag \in RowTags \ S : rows[TableOf[tag]] = << >>
  BY <1>5, <1>8, <1>12
<1> HIDE DEF S
<1>14. Hold(((<<s1, s2, s3, s4, s5>> \o <<s6>>) \o <<s7, s8>>) \o <<SummBody(rows.summ)>>, rows)
  BY <1>1, <1>4, <1>11, <1>12, <1>13, HoldsAll
<1>15. ExportedRecords(t) = <<s1, s2, s3, s4, s5>> /\ ExportedMarks(t) = <<s7, s8>>
  BY DEF ExportedRecords, ExportedMarks, s1, s2, s3, s4, s5, s7, s8
<1>16. ExportedWaves(t, include) = <<s6>>
  BY Zenon DEF ExportedWaves, waves, s6
<1>17. ExportedSumm(Counts(t)) = <<SummBody(rows.summ)>>
  BY <1>1, <1>4 DEF ExportedSumm, counts
<1> QED BY <1>4, <1>14, <1>15, <1>16, <1>17, Zenon DEF rows

(* What rv_builder_serialize makes of a builder.                           *)
LEMMA SerializedIsSound ==
  ASSUME NEW b \in Built, NEW merged, NEW f, f = Written(Serialize(b), BuilderRows(b), merged)
  PROVE  FileIsSound(f) /\ \A size \in TornSizes(f) : FileIsSound(TornAt(f, size))
<1> DEFINE bodies == BuiltRecords(b) \o BuiltMarks(b) \o BuiltSumm(b)
           rows == BuilderRows(b)
<1>1. Hold(bodies, rows)
  BY SerializeHolds
<1>2. Serialize(b) = Image(bodies, b.version)
  BY Zenon DEF Serialize
<1> HIDE DEF bodies, rows
<1>3. f = Written(Image(bodies, b.version), rows, merged)
  BY <1>2 DEF rows
<1> QED BY <1>1, <1>3, WrittenIsSound, TornIsSound

(* What rv_export_build makes of tables within the limits opens again.     *)
LEMMA ExportedIsSound ==
  ASSUME NEW t \in Parsed, NEW include \in BOOLEAN
  PROVE  LET f == ExportOf(t, include)
         IN  FileIsSound(f) /\ f.state = "whole" /\ (Within(t) => AllDecode(f))
<1> DEFINE bodies == ExportedRecords(t) \o ExportedWaves(t, include) \o ExportedMarks(t) \o ExportedSumm(Counts(t))
           rows == ExportedRows(t, include)
           f == ExportOf(t, include)
<1>1. Hold(bodies, rows) /\ rows \in Parsed
  BY ExportHolds
<1>2. Export(t, Counts(t), include) = Image(bodies, 2)
  BY Zenon DEF Export
<1> HIDE DEF bodies, rows
<1>3. f = Written(Image(bodies, 2), rows, Nothing)
  BY <1>2 DEF rows, ExportOf
<1> HIDE DEF f
<1>4. FileIsSound(f) /\ f.state = "whole" /\ LaidOut(f, bodies, rows, 2)
  BY <1>1, <1>3, WrittenIsSound, WrittenIsLaidOut
<1>5. ASSUME Within(t) PROVE AllDecode(f)
  <2>1. /\ \A table \in RowTables : rows[table] = t[table] \/ rows[table] = << >>
        /\ rows.waves = t.waves \/ rows.waves = << >>
    <3> DEFINE waves == IF include THEN t.waves ELSE << >>
    <3>1. rows = [t EXCEPT !.notes = << >>, !.waves = waves, !.summ = Counts(t)]
      BY Zenon DEF ExportedRows, rows
    <3>2. waves = t.waves \/ waves = << >>
      OBVIOUS
    <3> HIDE DEF waves
    <3> QED BY <3>1, <3>2, TagRows DEF Parsed
  <2>2. ASSUME NEW tag \in RowTags PROVE Len(rows[TableOf[tag]]) <= MaxRows[tag]
    <3>1. Len(t[TableOf[tag]]) <= MaxRows[tag]
      BY <1>5 DEF Within
    <3>2. MaxRows[tag] \in Nat
      BY RowLimitAssumption, TagsInOrder
    <3>3. Len(<< >>) <= MaxRows[tag]
      BY <3>2
    <3> QED BY <2>1, <3>1, <3>3, TagRows
  <2>3. \A i \in DOMAIN rows.waves : rows.waves[i].samples <= MaxSamples
    BY <1>5, <2>1 DEF Within
  <2>4. Readable(f)
    <3>1. f.rows = rows /\ f.version = 2
      BY <1>4 DEF LaidOut
    <3>2. DOMAIN f.dir = 1 .. Len(bodies) /\ DOMAIN bodies = 1 .. Len(bodies)
      BY <1>1, <1>4 DEF LaidOut, Hold
    <3>3. ASSUME NEW k \in DOMAIN f.dir, f.dir[k].tag # "SUMM"
          PROVE  Len(f.dir[k].rows) <= MaxRows[f.dir[k].tag]
      <4>1. f.dir[k].tag = bodies[k].tag /\ f.dir[k].rows = bodies[k].rows
        BY <1>4, <3>2 DEF LaidOut
      <4>2. bodies[k].tag \in RowTags
        <5>1. bodies[k] \in Sections
          BY <1>1, <3>2, ElementOfSeq DEF Hold
        <5> QED BY <3>3, <4>1, <5>1, SectionIs
      <4>3. PICK j \in DOMAIN bodies : bodies[j].tag = bodies[k].tag /\ bodies[j].rows = rows[TableOf[bodies[k].tag]]
        BY <1>1, <3>2, <4>2 DEF Hold
      <4>4. j = k
        BY <1>1, <3>2, <4>3 DEF Hold
      <4> QED BY <2>2, <4>1, <4>2, <4>3, <4>4
    <3> QED BY <2>3, <3>1, <3>3 DEF Readable
  <2> QED BY <1>4, <2>4 DEF FileIsSound, Faithful
<1> QED BY <1>4, <1>5 DEF f

-----------------------------------------------------------------------------
(***************************************************************************)
(* The inductive invariant.                                                *)
(*                                                                         *)
(* A builder interns, whatever call failed half way; every file is one     *)
(* that was written, cut short or damaged; and a package is what opening   *)
(* such a file yields, or what a repair makes of that: its rows are typed  *)
(* and within the limits of the decoders, so that an export of them opens. *)
(***************************************************************************)
BuilderIsSound ==
  builder # None \/ made.merged # Nothing => builder \in Built /\ Interned(builder)

PackageIsSound(p) ==
  /\ DOMAIN p = {"image", "tables", "allow"}
  /\ p.tables \in Parsed /\ Within(p.tables) /\ Filled(p.tables)
  /\ FileIsSound(p.image) /\ AllDecode(p.image) /\ p.image.state # "torn"

IInv ==
  /\ BuilderIsSound
  /\ MergedMarkersHaveWindows
  /\ shelf # NoFile => FileIsSound(shelf)
  /\ DOMAIN package = Side /\ \A s \in Side : package[s] # None => PackageIsSound(package[s])
  /\ images \in 0 .. MaxImages

(* At the start.                                                           *)
LEMMA InitIsSound == Init => IInv
<1> SUFFICES ASSUME Init PROVE IInv
  OBVIOUS
<1>1. BuilderIsSound
  BY DEF Init, NotMade, BuilderIsSound
<1>2. MergedMarkersHaveWindows
  BY DEF Init, NotMade, MergedMarkersHaveWindows
<1>3. shelf # NoFile => FileIsSound(shelf)
  BY DEF Init
<1>4. DOMAIN package = Side /\ \A s \in Side : package[s] # None => PackageIsSound(package[s])
  BY DEF Init
<1>5. images \in 0 .. MaxImages
  BY BoundAssumption DEF Init
<1> QED BY <1>1, <1>2, <1>3, <1>4, <1>5 DEF IInv

(* A builder that is ready for a call.                                     *)
LEMMA WorkingIs ==
  ASSUME NEW b \in Built, Interned(b), NEW mem \in Memory
  PROVE  Working(b, mem) \in Work /\ Interned(Working(b, mem).b) /\ Working(b, mem).b = b
BY MemoryAssumption DEF Working, Work

(* A new builder.                                                          *)
LEMMA EmptyIs == EmptyBuilder \in Built /\ Interned(EmptyBuilder) /\ Linked(EmptyBuilder)
<1>1. EmptyBuilder \in Built
  <2>1. /\ << >> \in Seq(NameRec) /\ << >> \in Seq(RouteRec) /\ << >> \in Seq(InstRec)
        /\ << >> \in Seq(CalibRec) /\ << >> \in Seq(WindowRec) /\ << >> \in Seq(WaveRec)
        /\ << >> \in Seq(MarkRec) /\ << >> \in Seq(LinkRec) /\ << >> \in Seq(NoteRec)
    OBVIOUS
  <2> QED BY <2>1 DEF EmptyBuilder, Built
<1>2. EmptyBuilder.names = << >> /\ EmptyBuilder.marks = << >>
  BY DEF EmptyBuilder
<1> HIDE DEF EmptyBuilder
<1> QED BY <1>1, <1>2 DEF Interned, Linked

(* Calls that leave the shelf and the packages alone.                      *)
LEMMA BuilderStep ==
  ASSUME IInv, UNCHANGED <<shelf, package, images>>, BuilderIsSound', MergedMarkersHaveWindows'
  PROVE  IInv'
BY DEF IInv

(* Calls on the builder.                                                   *)
LEMMA InitKeeps == ASSUME IInv, rv_builder_init PROVE IInv'
<1>1. BuilderIsSound'
  BY EmptyIs DEF rv_builder_init, BuilderIsSound
<1>2. MergedMarkersHaveWindows'
  BY DEF rv_builder_init, NotMade, MergedMarkersHaveWindows
<1> QED BY <1>1, <1>2, BuilderStep DEF rv_builder_init

(* Destroying the builder keeps the invariant.                             *)
LEMMA DestroyKeeps == ASSUME IInv, rv_builder_destroy PROVE IInv'
<1>1. BuilderIsSound'
  BY DEF rv_builder_destroy, NotMade, BuilderIsSound
<1>2. MergedMarkersHaveWindows'
  BY DEF rv_builder_destroy, NotMade, MergedMarkersHaveWindows
<1> QED BY <1>1, <1>2, BuilderStep DEF rv_builder_destroy

(* Adding the rows of a demonstration span keeps the invariant, wherever   *)
(* memory runs out.                                                        *)
LEMMA SpanKeeps == ASSUME IInv, NEW mem \in Memory, rv_builder_demo_span(mem) PROVE IInv'
<1> DEFINE s == Span[images + 1]
           w == Working(builder, mem)
           v == DemoSpan(w, s.site, s.far, s.model, s.serial, s.label, s.samples)
<1>1. builder \in Built /\ Interned(builder) /\ made.merged = Nothing
  BY DEF IInv, BuilderIsSound, rv_builder_demo_span, ByHand
<1>2. w \in Work /\ Interned(w.b)
  BY <1>1, WorkingIs
<1>3. /\ s.site \in Name /\ s.far \in Name /\ s.model \in Name /\ s.serial \in Name
      /\ s.label \in Name /\ s.samples \in Nat
  <2>1. images \in Nat /\ images < Len(MaxAdded) /\ Len(Span) = Len(MaxAdded)
    BY BoundAssumption DEF IInv, rv_builder_demo_span, ByHand
  <2>2. Len(Span) \in Nat
    BY SpanAssumption, LenProperties
  <2>3. images + 1 \in 1 .. Len(Span)
    BY <2>1, <2>2
  <2>4. s \in [site : Name, far : Name, model : Name, serial : Name, label : Name, samples : Nat \ {0}]
    BY <2>3, SpanAssumption, ElementOfSeq
  <2> HIDE DEF s
  <2> QED BY <2>4
<1> HIDE DEF w, s
<1>4. v \in Work /\ Interned(v.b)
  BY <1>2, <1>3, DemoSpanKeeps DEF Keeps
<1>5. builder' = v.b /\ UNCHANGED <<made, shelf, package, images>>
  BY DEF rv_builder_demo_span, Worked, w, s
<1> HIDE DEF v
<1>6. BuilderIsSound'
  BY <1>4, <1>5 DEF BuilderIsSound, Work
<1>7. MergedMarkersHaveWindows'
  BY <1>1, <1>5 DEF MergedMarkersHaveWindows
<1> QED BY <1>5, <1>6, <1>7, BuilderStep

(* What a client adds is as narrow as the rows that are there.             *)
LEMMA RowIs ==
  ASSUME NEW r \in Row
  PROVE  r[1] \in RowTables \ {"names"} /\ r[2] \in RecOf[r[1]]
<1> DEFINE row == r[2]
           Wide == {"id", "route", "inst", "calib", "wave", "window", "from", "to", "target"}
<1>1. /\ r[1] \in RowTables \ {"names"} /\ row \in RowOf[r[1]]
      /\ \A field \in Wide : field \in DOMAIN row => row[field] < IdMod
  BY RowAssumption
<1> HIDE DEF row
<1>2. CASE r[1] = "routes"
  <2>1. row \in RouteRow
    BY <1>1, <1>2 DEF RowOf
  <2>2. row.id < IdMod
    BY <1>1, <2>1 DEF RouteRow
  <2>3. row \in RouteRec
    BY <2>1, <2>2 DEF RouteRow, RouteRec
  <2> QED BY <1>1, <1>2, <2>3 DEF RecOf, row
<1>3. CASE r[1] = "insts"
  <2>1. row \in InstRow
    BY <1>1, <1>3 DEF RowOf
  <2>2. row.id < IdMod
    BY <1>1, <2>1 DEF InstRow
  <2>3. row \in InstRec
    BY <2>1, <2>2 DEF InstRow, InstRec
  <2> QED BY <1>1, <1>3, <2>3 DEF RecOf, row
<1>4. CASE r[1] = "calibs"
  <2>1. row \in CalibRow
    BY <1>1, <1>4 DEF RowOf
  <2>2. row.id < IdMod /\ row.inst < IdMod
    BY <1>1, <2>1 DEF CalibRow
  <2>3. row \in CalibRec
    BY <2>1, <2>2 DEF CalibRow, CalibRec
  <2> QED BY <1>1, <1>4, <2>3 DEF RecOf, row
<1>5. CASE r[1] = "windows"
  <2>1. row \in WindowRow
    BY <1>1, <1>5 DEF RowOf
  <2>2. row.id < IdMod /\ row.route < IdMod /\ row.inst < IdMod /\ row.calib < IdMod /\ row.wave < IdMod
    BY <1>1, <2>1 DEF WindowRow
  <2>3. row \in WindowRec
    BY <2>1, <2>2 DEF WindowRow, WindowRec
  <2> QED BY <1>1, <1>5, <2>3 DEF RecOf, row
<1>6. CASE r[1] = "waves"
  <2>1. row \in WaveRow
    BY <1>1, <1>6 DEF RowOf
  <2>2. row.id < IdMod /\ row.window < IdMod
    BY <1>1, <2>1 DEF WaveRow
  <2>3. row \in WaveRec
    BY <2>1, <2>2 DEF WaveRow, WaveRec
  <2> QED BY <1>1, <1>6, <2>3 DEF RecOf, row
<1>7. CASE r[1] = "marks"
  <2>1. row \in MarkRow
    BY <1>1, <1>7 DEF RowOf
  <2>2. row.id < IdMod /\ row.window < IdMod
    BY <1>1, <2>1 DEF MarkRow
  <2>3. row \in MarkRec
    BY <2>1, <2>2 DEF MarkRow, MarkRec
  <2> QED BY <1>1, <1>7, <2>3 DEF RecOf, row
<1>8. CASE r[1] = "links"
  <2>1. row \in LinkRow
    BY <1>1, <1>8 DEF RowOf
  <2>2. row.id < IdMod /\ row.from < IdMod /\ row.to < IdMod
    BY <1>1, <2>1 DEF LinkRow
  <2>3. row \in LinkRec
    BY <2>1, <2>2 DEF LinkRow, LinkRec
  <2> QED BY <1>1, <1>8, <2>3 DEF RecOf, row
<1>9. CASE r[1] = "notes"
  <2>1. row \in NoteRow
    BY <1>1, <1>9 DEF RowOf
  <2>2. row.id < IdMod /\ row.target < IdMod
    BY <1>1, <2>1 DEF NoteRow
  <2>3. row \in NoteRec
    BY <2>1, <2>2 DEF NoteRow, NoteRec
  <2> QED BY <1>1, <1>9, <2>3 DEF RecOf, row
<1> QED BY <1>1, <1>2, <1>3, <1>4, <1>5, <1>6, <1>7, <1>8, <1>9 DEF RowTables, RowOf, row

(* Adding a row keeps the invariant, whether or not there is room for it,  *)
LEMMA AddKeeps == ASSUME IInv, NEW r \in Row, NEW mem \in Memory, rv_builder_add(r, mem) PROVE IInv'
<1> DEFINE w == Working(builder, mem)
           v == AddRow(w, r[1], r[2])
<1>1. builder \in Built /\ Interned(builder) /\ made.merged = Nothing
  BY DEF IInv, BuilderIsSound, rv_builder_add, ByHand
<1>2. w \in Work /\ Interned(w.b)
  BY <1>1, WorkingIs
<1>3. r[1] \in RowTables \ {"names"} /\ r[2] \in RecOf[r[1]]
  BY RowIs
<1> HIDE DEF w
<1>4. v \in Work /\ Interned(v.b)
  BY <1>2, <1>3, AddRowKeeps DEF Keeps
<1>5. builder' = v.b /\ made' = [made EXCEPT !.added = @ + 1] /\ UNCHANGED <<shelf, package, images>>
  BY DEF rv_builder_add, Worked, w
<1> HIDE DEF v
<1>6. BuilderIsSound'
  BY <1>4, <1>5 DEF BuilderIsSound, Work
<1>7. made'.merged = made.merged
  BY <1>5
<1>8. MergedMarkersHaveWindows'
  BY <1>1, <1>7 DEF MergedMarkersHaveWindows
<1> QED BY <1>5, <1>6, <1>8, BuilderStep

(* ... and so does adding a wave with a copy of its samples.               *)
LEMMA AddCopyKeeps ==
  ASSUME IInv, NEW r \in Row, NEW mem \in Memory, rv_builder_add_wave_copy(r, mem)
  PROVE  IInv'
<1> DEFINE w == Working(builder, mem)
           v == AddWaveCopy(w, r[2])
<1>1. builder \in Built /\ Interned(builder) /\ made.merged = Nothing /\ r[1] = "waves"
  BY DEF IInv, BuilderIsSound, rv_builder_add_wave_copy, ByHand
<1>2. w \in Work /\ Interned(w.b)
  BY <1>1, WorkingIs
<1>3. r[2] \in WaveRec
  BY <1>1, RowIs DEF RecOf
<1> HIDE DEF w
<1>4. v \in Work /\ Interned(v.b)
  BY <1>2, <1>3, AddWaveCopyKeeps DEF Keeps
<1>5. builder' = v.b /\ made' = [made EXCEPT !.added = @ + 1] /\ UNCHANGED <<shelf, package, images>>
  BY DEF rv_builder_add_wave_copy, Worked, w
<1> HIDE DEF v
<1>6. BuilderIsSound'
  BY <1>4, <1>5 DEF BuilderIsSound, Work
<1>7. made'.merged = made.merged
  BY <1>5
<1>8. MergedMarkersHaveWindows'
  BY <1>1, <1>7 DEF MergedMarkersHaveWindows
<1> QED BY <1>5, <1>6, <1>8, BuilderStep

(* Setting the version of a builder keeps the invariant.                   *)
LEMMA VersionKeeps == ASSUME IInv, rv_builder_set_version(1) PROVE IInv'
<1>1. builder \in Built /\ Interned(builder) /\ made.merged = Nothing
  BY DEF IInv, BuilderIsSound, rv_builder_set_version, ByHand
<1>2. builder' = [builder EXCEPT !.version = 1] /\ UNCHANGED <<made, shelf, package, images>>
  BY DEF rv_builder_set_version
<1>3. builder' \in Built /\ builder'.names = builder.names /\ builder'.next = builder.next
  BY <1>1, <1>2 DEF Built
<1>4. BuilderIsSound'
  BY <1>1, <1>3 DEF BuilderIsSound, Interned
<1>5. MergedMarkersHaveWindows'
  BY <1>1, <1>2 DEF MergedMarkersHaveWindows
<1> QED BY <1>2, <1>4, <1>5, BuilderStep

(* A merge of two packages into a new builder keeps the invariant.         *)
LEMMA MergeStepKeeps ==
  ASSUME IInv, NEW l \in Side, NEW r \in Side, NEW opt \in MergeOption, NEW mem \in Memory,
         rv_merge_into_builder(l, r, opt, mem)
  PROVE  IInv'
<1> DEFINE left == package[l].tables
           right == package[r].tables
           w == Working(EmptyBuilder, mem)
           v == Merge(w, left, right, opt)
           rec == [left |-> left, right |-> right, opt |-> opt, ok |-> v.ok]
<1>1. left \in Parsed /\ right \in Parsed
  BY DEF IInv, PackageIsSound, rv_merge_into_builder
<1>2. w \in Work /\ Interned(w.b) /\ Linked(w.b)
  BY EmptyIs, WorkingIs
<1>3. builder' = v.b /\ made' = [NotMade EXCEPT !.merged = rec] /\ UNCHANGED <<shelf, package, images>>
  BY DEF rv_merge_into_builder, Worked
<1> HIDE DEF left, right, w
<1>4. v \in Work /\ Interned(v.b) /\ (opt.drop_unlinked => Linked(v.b))
  BY <1>1, <1>2, MergeKeeps DEF Keeps
<1> HIDE DEF v
<1>5. BuilderIsSound'
  BY <1>3, <1>4 DEF BuilderIsSound, Work
<1>6. made'.merged.opt = opt
  BY <1>3 DEF NotMade
<1>7. MergedMarkersHaveWindows'
  BY <1>3, <1>4, <1>6 DEF MergedMarkersHaveWindows, Linked
<1> QED BY <1>3, <1>5, <1>7, BuilderStep

(* Calls and events that leave the builder and the packages alone.         *)
LEMMA FileStep ==
  ASSUME IInv, UNCHANGED <<builder, made, package>>, shelf' # NoFile => FileIsSound(shelf'),
         images' \in 0 .. MaxImages
  PROVE  IInv'
BY DEF IInv, BuilderIsSound, MergedMarkersHaveWindows

(* One more image, below the bound on images, is within the bound.         *)
LEMMA OneMore == ASSUME IInv, images < MaxImages PROVE images + 1 \in 0 .. MaxImages
BY BoundAssumption DEF IInv

(* Serializing the builder into a buffer keeps the invariant.              *)
LEMMA SerializeKeeps == ASSUME IInv, rv_builder_serialize PROVE IInv'
<1>1. images' \in 0 .. MaxImages
  BY OneMore DEF rv_builder_serialize
<1>2. ASSUME builder \in Built PROVE FileIsSound(shelf')
  BY <1>2, SerializedIsSound DEF rv_builder_serialize
<1> QED BY <1>1, <1>2, FileStep DEF rv_builder_serialize, IInv, BuilderIsSound, ByHand

(* Writing the builder to a file keeps the invariant, whole or torn.       *)
LEMMA WriteKeeps == ASSUME IInv, rv_builder_write_file PROVE IInv'
<1> DEFINE f == Written(Serialize(builder), BuilderRows(builder), made.merged)
<1>1. builder \in Built
  BY DEF IInv, BuilderIsSound, rv_builder_write_file, ByHand
<1>2. images' \in 0 .. MaxImages
  <2>1. images < MaxImages
    BY BoundAssumption DEF rv_builder_write_file, ByHand, IInv
  <2> QED BY <2>1, OneMore DEF rv_builder_write_file
<1>3. PICK size \in TornSizes(f) : shelf' = TornAt(f, size)
  BY DEF rv_builder_write_file
<1>4. FileIsSound(shelf')
  BY <1>1, <1>3, SerializedIsSound
<1> QED BY <1>2, <1>4, FileStep DEF rv_builder_write_file

(* Damage to a stored image keeps the invariant.                           *)
LEMMA DecayKeeps == ASSUME IInv, ImageDecays PROVE IInv'
<1>1. FileIsSound(shelf)
  BY DEF IInv, ImageDecays
<1>2. \E k \in DOMAIN shelf.dir : \E n \in DamagedCount(shelf.dir[k]) : shelf' = Decayed(shelf, k, n)
  BY Zenon DEF ImageDecays, Decayed
<1>3. PICK k \in DOMAIN shelf.dir : \E n \in DamagedCount(shelf.dir[k]) : shelf' = Decayed(shelf, k, n)
  BY <1>2
<1>4. FileIsSound(shelf')
  BY <1>1, <1>3, DecayedIsSound
<1>5. UNCHANGED <<builder, made, package, images>>
  BY DEF ImageDecays
<1> QED BY <1>4, <1>5, FileStep DEF IInv

(* An export keeps the invariant: the tables of a package are within the   *)
(* limits of the decoders.                                                 *)
LEMMA ExportStepKeeps ==
  ASSUME IInv, NEW s \in Side, NEW include \in BOOLEAN, rv_export_buffer(s, include)
  PROVE  IInv'
<1>1. package[s].tables \in Parsed
  BY DEF IInv, PackageIsSound, rv_export_buffer
<1>2. FileIsSound(shelf')
  BY <1>1, ExportedIsSound DEF rv_export_buffer
<1>3. images' \in 0 .. MaxImages
  <2>1. images < MaxImages
    BY BoundAssumption, LenProperties DEF rv_export_buffer, IInv
  <2> QED BY <2>1, OneMore DEF rv_export_buffer
<1> QED BY <1>2, <1>3, FileStep DEF rv_export_buffer

(* Calls that change one package.                                          *)
LEMMA PackageStep ==
  ASSUME IInv, NEW s \in Side, NEW p, package' = [package EXCEPT ![s] = p],
         p # None => PackageIsSound(p), UNCHANGED <<builder, made>>,
         shelf' = NoFile \/ UNCHANGED shelf, images' \in 0 .. MaxImages
  PROVE  IInv'
<1>1. DOMAIN package' = Side /\ \A x \in Side : package'[x] # None => PackageIsSound(package'[x])
  BY DEF IInv
<1> QED BY <1>1 DEF IInv, BuilderIsSound, MergedMarkersHaveWindows

(* An open, ...                                                            *)
LEMMA OpenYields ==
  ASSUME IInv, NEW s \in Side, rv_package_open(s)
  PROVE  /\ package' = [package EXCEPT ![s] = IF Opens(shelf) THEN Opened(shelf) ELSE None]
         /\ Opens(shelf) => PackageIsSound(Opened(shelf))
<1>1. package' = [package EXCEPT ![s] = IF Opens(shelf) THEN Opened(shelf) ELSE None]
  BY DEF rv_package_open, OpenSucceeds
<1>2. ASSUME Opens(shelf) PROVE PackageIsSound(Opened(shelf))
  <2>1. shelf # NoFile /\ AllDecode(shelf)
    BY <1>2 DEF Opens, LoadSucceeds, AllDecode
  <2>2. FileIsSound(shelf)
    BY <2>1 DEF IInv
  <2>3. SaneImage(shelf) /\ shelf.state # "torn"
    BY <1>2, <2>2 DEF FileIsSound
  <2>4. /\ FinishOpen(shelf) \in Parsed /\ Within(FinishOpen(shelf))
        /\ Filled(FinishOpen(shelf))
    BY <2>1, <2>3, FinishOpenTyped
  <2> QED BY <2>1, <2>2, <2>3, <2>4 DEF PackageIsSound, Opened
<1> QED BY <1>1, <1>2

(* An open keeps the invariant: what the decoders accept is typed and      *)
(* within the limits.                                                      *)
LEMMA OpenKeeps == ASSUME IInv, NEW s \in Side, rv_package_open(s) PROVE IInv'
<1> DEFINE p == IF Opens(shelf) THEN Opened(shelf) ELSE None
<1>1. package' = [package EXCEPT ![s] = p] /\ (p # None => PackageIsSound(p))
  BY OpenYields
<1>2. UNCHANGED <<builder, made, images>> /\ shelf' = NoFile
  BY DEF rv_package_open
<1> HIDE DEF p
<1> QED BY <1>1, <1>2, PackageStep DEF IInv

(* A close keeps the invariant.                                            *)
LEMMA CloseKeeps == ASSUME IInv, NEW s \in Side, rv_package_close(s) PROVE IInv'
BY PackageStep DEF IInv, rv_package_close

(* ... a reset, ...                                                        *)
LEMMA ResetKeeps == ASSUME IInv, NEW s \in Side, rv_package_reset(s) PROVE IInv'
<1> DEFINE p == [package[s] EXCEPT !.tables = FinishOpen(package[s].image)]
<1>1. PackageIsSound(package[s])
  BY DEF IInv, rv_package_reset
<1>2. /\ FinishOpen(package[s].image) \in Parsed /\ Within(FinishOpen(package[s].image))
      /\ Filled(FinishOpen(package[s].image))
  BY <1>1, FinishOpenTyped DEF PackageIsSound, FileIsSound
<1>3. PackageIsSound(p)
  BY <1>1, <1>2 DEF PackageIsSound
<1>4. package' = [package EXCEPT ![s] = p] /\ UNCHANGED <<builder, made, shelf, images>>
  BY DEF rv_package_reset
<1> HIDE DEF p
<1> QED BY <1>3, <1>4, PackageStep DEF IInv

(* ... a repair, ...                                                       *)
LEMMA RepairStepKeeps == ASSUME IInv, NEW s \in Side, rv_package_repair(s) PROVE IInv'
<1> DEFINE p == [package[s] EXCEPT !.tables = Repair(package[s].tables)]
<1>1. PackageIsSound(package[s])
  BY DEF IInv, rv_package_repair
<1>2. /\ Repair(package[s].tables) \in Parsed /\ Within(Repair(package[s].tables))
      /\ Filled(Repair(package[s].tables))
  BY <1>1, RepairKeeps DEF PackageIsSound
<1>3. PackageIsSound(p)
  BY <1>1, <1>2 DEF PackageIsSound
<1>4. package' = [package EXCEPT ![s] = p] /\ UNCHANGED <<builder, made, shelf, images>>
  BY DEF rv_package_repair
<1> HIDE DEF p
<1> QED BY <1>3, <1>4, PackageStep DEF IInv

(* ... and a migration.                                                    *)
LEMMA MigrateKeeps == ASSUME IInv, NEW s \in Side, rv_package_migrate_legacy(s) PROVE IInv'
<1> DEFINE f == ExportOf(package[s].tables, TRUE)
           p == [[package[s] EXCEPT !.image = f] EXCEPT !.allow = TRUE]
           allowed == package[s].image.version = 1 \/ package[s].allow
<1>1. PackageIsSound(package[s])
  BY DEF IInv, rv_package_migrate_legacy
<1>2. FileIsSound(f) /\ f.state = "whole" /\ AllDecode(f)
  BY <1>1, ExportedIsSound DEF PackageIsSound
<1> HIDE DEF f
<1>3. PackageIsSound(p)
  BY <1>1, <1>2 DEF PackageIsSound
<1>4. UNCHANGED <<builder, made, shelf>> /\ images' \in 0 .. MaxImages
  <2>1. images < MaxImages
    BY BoundAssumption, LenProperties DEF rv_package_migrate_legacy, IInv
  <2> QED BY <2>1, OneMore DEF rv_package_migrate_legacy, IInv
<1>5. CASE allowed
  <2>1. package' = [[package EXCEPT ![s].image = f] EXCEPT ![s].allow = TRUE]
    BY <1>5 DEF rv_package_migrate_legacy, f
  <2>2. DOMAIN package = Side
    BY DEF IInv
  <2>3. package' = [package EXCEPT ![s] = p]
    BY <2>1, <2>2
  <2> HIDE DEF p
  <2> QED BY <1>3, <1>4, <2>3, PackageStep
<1>6. CASE ~allowed
  <2>1. UNCHANGED <<package, images>>
    BY <1>6 DEF rv_package_migrate_legacy
  <2> QED BY <1>4, <2>1 DEF IInv, BuilderIsSound, MergedMarkersHaveWindows
<1> QED BY <1>5, <1>6

(* Every step.                                                             *)
LEMMA NextKeeps == IInv /\ [Next]_vars => IInv'
<1> SUFFICES ASSUME IInv, [Next]_vars PROVE IInv'
  OBVIOUS
<1>1. CASE UNCHANGED vars
  BY <1>1 DEF vars, IInv, BuilderIsSound, MergedMarkersHaveWindows
<1>2. ASSUME NEW s \in Side, NEW strictness \in {0, 1}, rv_package_validate(s, strictness) PROVE IInv'
  BY <1>2 DEF rv_package_validate, IInv, BuilderIsSound, MergedMarkersHaveWindows
<1>3. ASSUME NEW l \in Side, NEW r \in Side, rv_diff_packages(l, r) PROVE IInv'
  BY <1>3 DEF rv_diff_packages, IInv, BuilderIsSound, MergedMarkersHaveWindows
<1>4. CASE Next
  BY <1>2, <1>3, <1>4, InitKeeps, DestroyKeeps, SpanKeeps, AddKeeps, AddCopyKeeps, MergeStepKeeps, VersionKeeps,
     SerializeKeeps, WriteKeeps, DecayKeeps, OpenKeeps, CloseKeeps, ResetKeeps, RepairStepKeeps,
     ExportStepKeeps, MigrateKeeps
  DEF Next
<1> QED BY <1>1, <1>4

(* The invariant holds in every reachable state.                           *)
LEMMA Invariance == Spec => []IInv
BY InitIsSound, NextKeeps, PTL DEF Spec

-----------------------------------------------------------------------------
(***************************************************************************)
(* Theorems.                                                               *)
(***************************************************************************)

(* Narrow tables are tables.                                               *)
LEMMA NarrowIsTyped ==
  /\ \A table \in RowTables : RecOf[table] \subseteq RowOf[table]
  /\ Built \subseteq Builder /\ Parsed \subseteq Tables
<1>1. /\ NameRec \subseteq NameRow /\ RouteRec \subseteq RouteRow /\ InstRec \subseteq InstRow
      /\ CalibRec \subseteq CalibRow /\ WindowRec \subseteq WindowRow
  BY DEF NameRec, NameRow, RouteRec, RouteRow, InstRec, InstRow, CalibRec, CalibRow, WindowRec,
         WindowRow
<1>2. /\ WaveRec \subseteq WaveRow /\ MarkRec \subseteq MarkRow /\ LinkRec \subseteq LinkRow
      /\ NoteRec \subseteq NoteRow
  BY DEF WaveRec, WaveRow, MarkRec, MarkRow, LinkRec, LinkRow, NoteRec, NoteRow
<1>3. \A table \in RowTables : RecOf[table] \subseteq RowOf[table]
  BY <1>1, <1>2 DEF RowTables, RowOf, RecOf
<1>4. /\ Seq(NameRec) \subseteq Seq(NameRow) /\ Seq(RouteRec) \subseteq Seq(RouteRow)
      /\ Seq(InstRec) \subseteq Seq(InstRow) /\ Seq(CalibRec) \subseteq Seq(CalibRow)
      /\ Seq(WindowRec) \subseteq Seq(WindowRow) /\ Seq(WaveRec) \subseteq Seq(WaveRow)
      /\ Seq(MarkRec) \subseteq Seq(MarkRow) /\ Seq(LinkRec) \subseteq Seq(LinkRow)
      /\ Seq(NoteRec) \subseteq Seq(NoteRow)
  <2>1. \A S, T : S \subseteq T => Seq(S) \subseteq Seq(T)
    OBVIOUS
  <2> QED BY <1>1, <1>2, <2>1
<1>5. Built \subseteq Builder
  BY <1>4 DEF Built, Builder
<1>6. Parsed \subseteq Tables
  BY <1>4 DEF Parsed, Tables
<1> QED BY <1>3, <1>5, <1>6

(* What a client holds has its type, and no name of a builder is longer    *)
(* than its record has room for, after any calls (rv_builder_add_name,     *)
(* rv_package_finish_open, rv_repair_package).                             *)
THEOREM TablesStayTyped == Spec => []TypeOK
<1>1. IInv => TypeOK
  <2> SUFFICES ASSUME IInv PROVE TypeOK
    OBVIOUS
  <2>1. ASSUME builder # None, NEW i \in DOMAIN builder.names
        PROVE  NameLength[builder.names[i].str] <= MaxName
    <3>1. builder \in Built /\ Interned(builder)
      BY <2>1 DEF IInv, BuilderIsSound
    <3> DEFINE names == builder.names
    <3>2. names \in Seq(NameRec) /\ Clip[names[i].str] = names[i].str
      BY <2>1, <3>1 DEF Built, Interned
    <3>3. names[i] \in NameRec
      <4> HIDE DEF names
      <4> QED BY <2>1, <3>2 DEF names
    <3>4. names[i].str \in Name
      BY <3>3 DEF NameRec
    <3> QED BY <3>2, <3>4, ClipLengthAssumption
  <2>2. \A s \in Side : package[s] # None => package[s].tables \in Tables
    BY NarrowIsTyped DEF IInv, PackageIsSound
  <2> QED BY <2>1, <2>2, NarrowIsTyped DEF IInv, BuilderIsSound, TypeOK
<1> QED BY <1>1, Invariance, PTL

(* A builder interns its names (rv_builder_add_name), whatever was added,  *)
(* merged or refused room half way.                                        *)
THEOREM BuilderInternsNames == Spec => []NamesAreInterned
<1>1. IInv => NamesAreInterned
  BY DEF IInv, BuilderIsSound, Interned, NamesAreInterned
<1> QED BY <1>1, Invariance, PTL

(* No half written file is opened: the summary is the last section of      *)
(* every image, so a file that is too short cuts it (rv_builder_write_file *)
(* and rv_reader_section_slice).                                           *)
THEOREM HalfWrittenFilesAreRefused == Spec => []TornFilesAreRefused
<1>1. IInv => TornFilesAreRefused
  BY DEF IInv, PackageIsSound, TornFilesAreRefused
<1> QED BY <1>1, Invariance, PTL

(* No decoder of rv_section.c reads behind its section, whatever count the *)
(* section claims.                                                         *)
THEOREM DecodersStayInside == Spec => []NothingBeyondIsRead
<1>1. IInv => NothingBeyondIsRead
  <2> SUFFICES ASSUME IInv, NEW s \in Side, package[s] # None, NEW table \in RowTables,
                      NEW i \in DOMAIN package[s].tables[table]
               PROVE  package[s].tables[table][i] # Beyond
    BY DEF NothingBeyondIsRead
  <2> DEFINE t == package[s].tables
             rows == t[table]
  <2>1. t \in Parsed
    BY DEF IInv, PackageIsSound
  <2>2. rows \in Seq(RecOf[table])
    BY <2>1, TableOfPackage
  <2>3. rows[i] \in RecOf[table]
    <3>1. i \in DOMAIN rows
      OBVIOUS
    <3>2. DOMAIN rows = 1 .. Len(rows)
      BY <2>2
    <3> HIDE DEF rows
    <3> QED BY <2>2, <3>1, <3>2, ElementOfSeq
  <2> QED BY <2>3, BeyondAssumption, NarrowIsTyped
<1> QED BY <1>1, Invariance, PTL

(* With drop_unlinked_markers a merge leaves no marker without its window, *)
(* not even one that fails half way (rv_merge_side).                       *)
THEOREM MergeDropsUnlinked == Spec => []MergedMarkersHaveWindows
<1>1. IInv => MergedMarkersHaveWindows
  BY DEF IInv
<1> QED BY <1>1, Invariance, PTL

-----------------------------------------------------------------------------
(* Only the calls themselves say that they were made.                      *)
LEMMA RepliesTell ==
  ASSUME [Next]_vars
  PROVE  /\ \/ UNCHANGED vars
            \/ \E s \in Side : rv_package_open(s) \/ rv_package_reset(s) \/ rv_package_repair(s)
            \/ \E s \in Side, strictness \in {0, 1} : rv_package_validate(s, strictness)
            \/ reply'.call \notin {"open", "reset", "repair", "validate"}
         /\ \/ UNCHANGED vars
            \/ \E l, r \in Side, opt \in MergeOption, mem \in Memory :
                 rv_merge_into_builder(l, r, opt, mem)
            \/ reply'.call # "merge"
         /\ \/ UNCHANGED vars
            \/ \E l, r \in Side : rv_diff_packages(l, r)
            \/ reply'.call # "diff"
<1>1. rv_builder_init => reply'.call = "init"
  BY DEF rv_builder_init, Returns
<1>2. rv_builder_destroy => reply'.call = "destroy"
  BY DEF rv_builder_destroy, Returns
<1>3. ASSUME NEW mem \in Memory
      PROVE  /\ rv_builder_demo_span(mem) => reply'.call = "demo_span"
             /\ \A r \in Row :
                  rv_builder_add(r, mem) \/ rv_builder_add_wave_copy(r, mem) => reply'.call = "add"
             /\ \A l, r \in Side, opt \in MergeOption :
                  rv_merge_into_builder(l, r, opt, mem) => reply'.call = "merge"
  <2>1. rv_builder_demo_span(mem) => reply'.call = "demo_span"
    BY DEF rv_builder_demo_span, Worked, Returns
  <2>2. \A r \in Row :
          rv_builder_add(r, mem) \/ rv_builder_add_wave_copy(r, mem) => reply'.call = "add"
    BY DEF rv_builder_add, rv_builder_add_wave_copy, Worked, Returns
  <2>3. \A l, r \in Side, opt \in MergeOption :
          rv_merge_into_builder(l, r, opt, mem) => reply'.call = "merge"
    BY DEF rv_merge_into_builder, Worked, Returns
  <2> QED BY <2>1, <2>2, <2>3
<1>4. rv_builder_set_version(1) => reply'.call = "version"
  BY DEF rv_builder_set_version, Returns
<1>5. rv_builder_serialize => reply'.call = "serialize"
  BY DEF rv_builder_serialize, Returns
<1>6. rv_builder_write_file => reply'.call = "write"
  BY DEF rv_builder_write_file, Returns
<1>7. ImageDecays => reply'.call = "decay"
  BY DEF ImageDecays, Returns
<1>8. \A s \in Side : rv_package_close(s) => reply'.call = "close"
  BY DEF rv_package_close, Returns
<1>9. \A s \in Side, include \in BOOLEAN : rv_export_buffer(s, include) => reply'.call = "export"
  BY DEF rv_export_buffer, Returns
<1>10. \A s \in Side : rv_package_migrate_legacy(s) => reply'.call = "migrate"
  BY DEF rv_package_migrate_legacy, Returns
<1>11. \A l, r \in Side : rv_diff_packages(l, r) => reply'.call = "diff"
  BY DEF rv_diff_packages
<1>12. \A s \in Side : /\ rv_package_open(s) => reply'.call = "open"
                       /\ rv_package_reset(s) => reply'.call = "reset"
                       /\ rv_package_repair(s) => reply'.call = "repair"
  BY DEF rv_package_open, rv_package_reset, rv_package_repair, Returns
<1>13. \A s \in Side, strictness \in {0, 1} :
         rv_package_validate(s, strictness) => reply'.call = "validate"
  BY DEF rv_package_validate, Returns
<1>14. \/ UNCHANGED vars
       \/ \E s \in Side : rv_package_open(s) \/ rv_package_reset(s) \/ rv_package_repair(s)
       \/ \E s \in Side, strictness \in {0, 1} : rv_package_validate(s, strictness)
       \/ reply'.call \notin {"open", "reset", "repair", "validate"}
  BY <1>1, <1>2, <1>3, <1>4, <1>5, <1>6, <1>7, <1>8, <1>9, <1>10, <1>11 DEF Next
<1>15. \/ UNCHANGED vars
       \/ \E l, r \in Side, opt \in MergeOption, mem \in Memory : rv_merge_into_builder(l, r, opt, mem)
       \/ reply'.call # "merge"
  BY <1>1, <1>2, <1>3, <1>4, <1>5, <1>6, <1>7, <1>8, <1>9, <1>10, <1>11, <1>12, <1>13 DEF Next
<1>16. \/ UNCHANGED vars
       \/ \E l, r \in Side : rv_diff_packages(l, r)
       \/ reply'.call # "diff"
  BY <1>1, <1>2, <1>3, <1>4, <1>5, <1>6, <1>7, <1>8, <1>9, <1>10, <1>12, <1>13 DEF Next
<1> QED BY <1>14, <1>15, <1>16

(* The writers agree with the decoders: an undamaged image opens if and    *)
(* only if it is within the limits, and yields the rows that were written  *)
(* (rv_builder_serialize and rv_export_build, rv_package_finish_open).     *)
THEOREM WritersAgreeWithDecoders == Spec => ImagesReadBack
<1> DEFINE A ==
      /\ reply'.call = "open" /\ shelf # NoFile /\ shelf.state = "whole" =>
           /\ reply'.ok <=> Readable(shelf)
           /\ reply'.ok => package'[reply'.side].tables = Normalize(shelf.rows)
      /\ reply'.call = "reset" =>
           LET f == package[reply'.side].image
           IN  f.state = "whole" => package'[reply'.side].tables = Normalize(f.rows)
<1>1. ASSUME IInv, NEW s \in Side, rv_package_open(s) PROVE A
  <2>1. /\ reply'.call = "open" /\ reply'.side = s /\ reply'.ok = Opens(shelf)
    BY <1>1 DEF rv_package_open, Returns, OpenSucceeds
  <2>2. ASSUME shelf # NoFile, shelf.state = "whole"
        PROVE  /\ Opens(shelf) <=> Readable(shelf)
               /\ Opens(shelf) => package'[s].tables = Normalize(shelf.rows)
    <3>1. Faithful(shelf)
      BY <1>1, <2>2 DEF IInv, FileIsSound
    <3>2. ASSUME Opens(shelf) PROVE package'[s].tables = Normalize(shelf.rows)
      <4>1. package' = [package EXCEPT ![s] = Opened(shelf)]
        BY <1>1, <3>2, OpenYields
      <4>2. package'[s] = Opened(shelf)
        BY <1>1, <4>1 DEF IInv
      <4>3. AllDecode(shelf)
        BY <3>2 DEF Opens, AllDecode
      <4> QED BY <3>1, <4>2, <4>3 DEF Opened, Faithful
    <3> QED BY <2>2, <3>1, <3>2 DEF Faithful
  <2> QED BY <2>1, <2>2
<1>2. ASSUME IInv, NEW s \in Side, rv_package_reset(s) PROVE A
  <2>1. reply'.call = "reset" /\ reply'.side = s
    BY <1>2 DEF rv_package_reset, Returns
  <2>2. PackageIsSound(package[s])
    BY <1>2 DEF IInv, rv_package_reset
  <2>3. package'[s].tables = FinishOpen(package[s].image)
    <3>1. package' = [package EXCEPT ![s] = [package[s] EXCEPT !.tables = FinishOpen(package[s].image)]]
      BY <1>2 DEF rv_package_reset
    <3> QED BY <1>2, <2>2, <3>1 DEF IInv, PackageIsSound
  <2>4. package[s].image.state = "whole" => FinishOpen(package[s].image) = Normalize(package[s].image.rows)
    BY <2>2 DEF PackageIsSound, FileIsSound, Faithful
  <2> QED BY <2>1, <2>3, <2>4
<1>3. ASSUME NEW s \in Side PROVE rv_package_repair(s) => reply'.call = "repair"
  BY DEF rv_package_repair, Returns
<1>4. ASSUME NEW s \in Side, NEW strictness \in {0, 1}
      PROVE  rv_package_validate(s, strictness) => reply'.call = "validate"
  BY DEF rv_package_validate, Returns
<1>5. IInv /\ [Next]_vars => [A]_vars
  BY <1>1, <1>2, <1>3, <1>4, RepliesTell
<1> HIDE DEF A
<1>6. Spec => [][A]_vars
  BY <1>5, Invariance, PTL DEF Spec
<1> QED BY <1>6, PTL DEF A, ImagesReadBack

-----------------------------------------------------------------------------
(* A cell of the index holds a row with the id, if there is one.           *)
LEMMA CellIsRow ==
  ASSUME NEW S, NEW table \in Seq(S), NEW id
  PROVE  MapCell(table, id) # 0 => /\ MapCell(table, id) \in DOMAIN table
                                   /\ table[MapCell(table, id)].id = id
<1> DEFINE found == RowsOf(table, id)
           n == Len(table)
<1> SUFFICES ASSUME MapCell(table, id) # 0
             PROVE  MapCell(table, id) \in DOMAIN table /\ table[MapCell(table, id)].id = id
  OBVIOUS
<1>1. found # {} /\ MapCell(table, id) = CHOOSE i \in found : \A j \in found : j <= i
  BY DEF MapCell
<1>2. n \in Nat /\ found \in SUBSET (0 .. n)
  <2>1. n \in Nat /\ DOMAIN table = 1 .. n
    BY LenProperties
  <2> QED BY <2>1 DEF RowsOf
<1>3. \E i \in found : \A j \in found : j <= i
  <2> HIDE DEF found, n
  <2> QED BY <1>1, <1>2, MaxIsMember
<1>4. MapCell(table, id) \in found
  <2> HIDE DEF found
  <2> QED BY <1>1, <1>3
<1> QED BY <1>4 DEF RowsOf

(* No cross reference of the tables is a dead end.                         *)
Resolves(t) ==
  /\ \A i \in DOMAIN t.marks :
       LET k == FindWindow(t, t.marks[i].window)
           seen == Seen(t, t.marks[i])
       IN  /\ k # 0 /\ seen.route # None /\ seen.inst # None
           /\ t.windows[k].wave # 0 => seen.samples # None
  /\ \A i \in DOMAIN t.waves :
       t.waves[i].window # 0 => FindWindow(t, t.waves[i].window) # 0

(* A package that validates has no dead ends (rv_package_validate).        *)
THEOREM ValidPackagesHaveNoDeadEnds == Spec => ValidPackagesResolve
<1> DEFINE A ==
      reply'.call = "validate" /\ reply'.ok => Resolves(package[reply'.side].tables)
<1>1. ASSUME NEW t \in Parsed, rv_xref_validate(t)
      PROVE  Resolves(t)
  <2>1. /\ t.names \in Seq(NameRec) /\ t.routes \in Seq(RouteRec) /\ t.insts \in Seq(InstRec)
        /\ t.windows \in Seq(WindowRec) /\ t.waves \in Seq(WaveRec)
    BY DEF Parsed
  <2>2. BrokenWindows(t) = {} /\ BrokenMarks(t) = {} /\ BrokenWaves(t) = {}
    BY <1>1 DEF rv_xref_validate
  <2>3. \A i \in DOMAIN t.waves : t.waves[i].window # 0 => FindWindow(t, t.waves[i].window) # 0
    BY <2>2 DEF BrokenWaves
  <2>4. \A x, y \in Name \cup Nat \cup {None} : <<x, y>> # None /\ <<x>> # None
    <3> DEFINE U == Name \cup Nat \cup {None}
    <3>1. None \notin Seq(U)
      BY NoneAssumption
    <3> HIDE DEF U
    <3>2. ASSUME NEW x \in U, NEW y \in U
          PROVE  <<x, y>> \in Seq(U) /\ <<x>> \in Seq(U)
      OBVIOUS
    <3>3. \A x, y \in U : <<x, y>> # None /\ <<x>> # None
      BY <3>1, <3>2
    <3> QED BY <3>3 DEF U
  <2>5. \A id : StringSeen(t, id) \in Name \cup Nat \cup {None}
    <3> TAKE id
    <3>1. CASE FindName(t, id) = 0
      BY <3>1 DEF StringSeen
    <3>2. CASE FindName(t, id) # 0
      <4> DEFINE k == FindName(t, id)
                 found == RowsOf(t.names, id)
      <4>1. found # {} /\ k = Min(found)
        BY <3>2 DEF FindName
      <4>2. found \in SUBSET Nat /\ \A i \in found : i \in DOMAIN t.names
        BY <2>1 DEF RowsOf
      <4>3. k \in DOMAIN t.names
        <5> HIDE DEF found, k
        <5> QED BY <4>1, <4>2, MinIsMember
      <4>4. t.names[k] \in NameRec
        <5> HIDE DEF k
        <5> QED BY <2>1, <4>3
      <4> QED BY <3>2, <4>4 DEF StringSeen, NameRec
    <3> QED BY <3>1, <3>2
  <2>6. ASSUME NEW i \in DOMAIN t.marks
        PROVE  LET k == FindWindow(t, t.marks[i].window)
                   seen == Seen(t, t.marks[i])
               IN  /\ k # 0 /\ seen.route # None /\ seen.inst # None
                   /\ t.windows[k].wave # 0 => seen.samples # None
    <3> DEFINE m == t.marks[i]
               k == FindWindow(t, m.window)
               w == t.windows[k]
               seen == Seen(t, m)
    <3>1. k # 0
      BY <2>2 DEF BrokenMarks
    <3>2. k \in DOMAIN t.windows
      BY <2>1, <3>1, CellIsRow DEF FindWindow
    <3>3. /\ FindRoute(t, w.route) # 0 /\ w.inst \in Ids(t.insts)
          /\ w.wave # 0 => FindWave(t, w.wave) # 0
      BY <2>2, <3>2 DEF BrokenWindows
    <3>4. seen.route = RouteSeen(t, w.route) /\ seen.inst = InstSeen(t, w.inst) /\ seen.samples = SamplesSeen(t, w.wave)
      BY <3>1 DEF Seen
    <3> HIDE DEF w, seen
    <3>5. RouteSeen(t, w.route) # None
      <4>1. RouteSeen(t, w.route) = <<StringSeen(t, t.routes[FindRoute(t, w.route)].site),
                                      StringSeen(t, t.routes[FindRoute(t, w.route)].far)>>
        BY <3>3, Zenon DEF RouteSeen
      <4> QED BY <2>4, <2>5, <4>1
    <3>6. InstSeen(t, w.inst) # None
      <4> DEFINE found == RowsOf(t.insts, w.inst)
                 row == t.insts[Min(found)]
      <4>1. found # {}
        BY <3>3 DEF Ids, RowsOf
      <4>2. found \in SUBSET Nat /\ \A j \in found : j \in DOMAIN t.insts
        BY <2>1 DEF RowsOf
      <4>3. InstSeen(t, w.inst) = <<StringSeen(t, row.model), row.wavelength>>
        BY <4>1, Zenon DEF InstSeen
      <4>4. Min(found) \in DOMAIN t.insts
        <5> HIDE DEF found
        <5> QED BY <4>1, <4>2, MinIsMember
      <4>5. row \in InstRec
        <5> HIDE DEF found
        <5> QED BY <2>1, <4>4
      <4>6. row.wavelength \in Name \cup Nat \cup {None}
        BY <4>5 DEF InstRec
      <4> HIDE DEF row, found
      <4> QED BY <2>4, <2>5, <4>3, <4>6
    <3>7. ASSUME w.wave # 0 PROVE SamplesSeen(t, w.wave) # None
      <4> DEFINE j == FindWave(t, w.wave)
      <4>1. j # 0
        BY <3>3, <3>7
      <4>2. j \in DOMAIN t.waves
        BY <2>1, <4>1, CellIsRow DEF FindWave
      <4>3. SamplesSeen(t, w.wave) = <<t.waves[j].samples>>
        BY <4>1 DEF SamplesSeen
      <4> HIDE DEF j
      <4>4. t.waves[j] \in WaveRec
        BY <2>1, <4>2
      <4>5. t.waves[j].samples \in Name \cup Nat \cup {None}
        BY <4>4 DEF WaveRec
      <4> QED BY <2>4, <4>3, <4>5
    <3> QED BY <3>1, <3>4, <3>5, <3>6, <3>7 DEF w, seen
  <2> QED BY <2>3, <2>6 DEF Resolves
<1>2. ASSUME IInv, NEW s \in Side, NEW strictness \in {0, 1},
             rv_package_validate(s, strictness), reply'.ok
      PROVE  Resolves(package[reply'.side].tables)
  <2> DEFINE t == package[s].tables
  <2>1. reply'.side = s /\ Failures(package[s].image, t, strictness) = {}
    BY <1>2 DEF rv_package_validate, Returns
  <2>2. rv_xref_validate(t)
    BY <2>1 DEF Failures
  <2>3. t \in Parsed
    BY <1>2 DEF IInv, PackageIsSound, rv_package_validate
  <2> QED BY <1>1, <2>1, <2>2, <2>3
<1>3. ASSUME NEW s \in Side
      PROVE  /\ rv_package_open(s) => reply'.call = "open"
             /\ rv_package_reset(s) => reply'.call = "reset"
             /\ rv_package_repair(s) => reply'.call = "repair"
  BY DEF rv_package_open, rv_package_reset, rv_package_repair, Returns
<1>4. IInv /\ [Next]_vars => [A]_vars
  <2> HIDE DEF IInv
  <2>1. ASSUME IInv, NEW s \in Side, NEW strictness \in {0, 1}, rv_package_validate(s, strictness)
        PROVE  A
    BY <1>2, <2>1
  <2>2. (reply'.call # "validate") => A
    OBVIOUS
  <2> HIDE DEF A
  <2> QED BY <2>1, <2>2, <1>3, RepliesTell
<1> HIDE DEF A
<1>5. Spec => [][A]_vars
  BY <1>4, Invariance, PTL DEF Spec
<1> QED BY <1>5, PTL DEF A, ValidPackagesResolve, Resolves

-----------------------------------------------------------------------------
(***************************************************************************)
(* Repair.                                                                 *)
(***************************************************************************)

(* The rows of a sequence.                                                 *)
RowSet(rows) == {rows[i] : i \in DOMAIN rows}

(* Where a row is inserted, and what is where afterwards.                  *)
StopFor(sorted, w) == Max({0} \cup {i \in DOMAIN sorted : sorted[i].id <= w.id})

(* An insertion puts the window behind the last one whose id is not        *)
(* larger, and moves the rest up.                                          *)
LEMMA InsertWindowPlaces ==
  ASSUME NEW sorted \in Seq(WindowRec), NEW w \in WindowRec
  PROVE  LET stop == StopFor(sorted, w)
             u == InsertWindow(sorted, w)
         IN  /\ stop \in 0 .. Len(sorted)
             /\ stop # 0 => sorted[stop].id <= w.id
             /\ \A i \in DOMAIN sorted : sorted[i].id <= w.id => i <= stop
             /\ u \in Seq(WindowRec) /\ Len(u) = Len(sorted) + 1
             /\ \A i \in 1 .. Len(sorted) + 1 :
                  u[i] = IF i <= stop THEN sorted[i]
                         ELSE IF i = stop + 1 THEN w ELSE sorted[i - 1]
<1> DEFINE S == {0} \cup {i \in DOMAIN sorted : sorted[i].id <= w.id}
           stop == Max(S)
           n == Len(sorted)
           before == SubSeq(sorted, 1, stop)
           behind == SubSeq(sorted, stop + 1, n)
           front == before \o <<w>>
<1>1. n \in Nat /\ DOMAIN sorted = 1 .. n /\ \A i \in 1 .. n : sorted[i] \in WindowRec
  OBVIOUS
<1>2. S \in SUBSET (0 .. n) /\ S # {}
  BY <1>1
<1>3. stop \in S /\ \A i \in S : i <= stop
  <2> HIDE DEF S
  <2> QED BY <1>1, <1>2, MaxIsMember
<1>4. /\ stop \in 0 .. n
      /\ stop # 0 => sorted[stop].id <= w.id
      /\ \A i \in DOMAIN sorted : sorted[i].id <= w.id => i <= stop
  <2>1. stop \in 0 .. n
    BY <1>2, <1>3
  <2>2. stop # 0 => sorted[stop].id <= w.id
    <3> DEFINE p == stop
    <3>1. p \in S
      BY <1>3
    <3> HIDE DEF p
    <3>2. p # 0 => sorted[p].id <= w.id
      BY <3>1
    <3> QED BY <3>2 DEF p
  <2>3. \A i \in DOMAIN sorted : sorted[i].id <= w.id => i <= stop
    <3> DEFINE p == stop
    <3>1. \A i \in S : i <= p
      BY <1>3
    <3> HIDE DEF p
    <3>2. \A i \in DOMAIN sorted : sorted[i].id <= w.id => i <= p
      BY <3>1
    <3> QED BY <3>2 DEF p
  <2> HIDE DEF stop
  <2> QED BY <2>1, <2>2, <2>3
<1>5. InsertWindow(sorted, w) = SubSeq(sorted, 1, (stop + 1) - 1) \o <<w>> \o behind
  BY DEF InsertWindow, InsertAt
<1>6. stop = StopFor(sorted, w)
  BY DEF StopFor
<1> HIDE DEF stop
<1>7. (stop + 1) - 1 = stop
  BY <1>4
<1>8. InsertWindow(sorted, w) = front \o behind
  BY <1>5, <1>7
<1>9. /\ stop \in Int /\ n \in Int /\ stop + 1 \in Int
      /\ \A i \in 1 .. stop : i \in 1 .. n
      /\ \A i \in stop + 1 .. n : i \in 1 .. n
      /\ (IF 1 <= stop THEN stop - 1 + 1 ELSE 0) = stop
      /\ (IF stop + 1 <= n THEN n - (stop + 1) + 1 ELSE 0) = n - stop
      /\ stop - 1 + 1 = stop /\ n - (stop + 1) + 1 = n - stop
  <2> HIDE DEF n
  <2> QED BY <1>1, <1>4
<1> HIDE DEF n
<1>10. /\ before \in Seq(WindowRec) /\ Len(before) = stop
       /\ \A i \in 1 .. stop : before[i] = sorted[i]
  <2>1. /\ before \in Seq(WindowRec) /\ Len(before) = IF 1 <= stop THEN stop - 1 + 1 ELSE 0
        /\ \A i \in 1 .. stop - 1 + 1 : before[i] = sorted[1 + i - 1]
    BY <1>1, <1>9, SubSeqProperties
  <2>2. \A i \in 1 .. stop : 1 + i - 1 = i
    OBVIOUS
  <2> HIDE DEF before
  <2> QED BY <1>9, <2>1, <2>2
<1>11. /\ behind \in Seq(WindowRec) /\ Len(behind) = n - stop
       /\ \A i \in 1 .. n - stop : behind[i] = sorted[stop + i]
  <2>1. /\ behind \in Seq(WindowRec)
        /\ Len(behind) = IF stop + 1 <= n THEN n - (stop + 1) + 1 ELSE 0
        /\ \A i \in 1 .. n - (stop + 1) + 1 : behind[i] = sorted[stop + 1 + i - 1]
    BY <1>1, <1>9, SubSeqProperties
  <2>2. \A i \in 1 .. n - stop : stop + 1 + i - 1 = stop + i
    BY <1>9
  <2> HIDE DEF behind
  <2> QED BY <1>9, <2>1, <2>2
<1> HIDE DEF before, behind
<1>12. <<w>> \in Seq(WindowRec) /\ Len(<<w>>) = 1 /\ <<w>>[1] = w
  OBVIOUS
<1>13. /\ front \in Seq(WindowRec) /\ Len(front) = stop + 1
       /\ \A i \in 1 .. stop + 1 : front[i] = IF i <= stop THEN sorted[i] ELSE w
  <2> DEFINE one == <<w>>
  <2>1. one \in Seq(WindowRec) /\ Len(one) = 1 /\ one[1] = w
    BY <1>12
  <2> HIDE DEF one
  <2>2. /\ before \o one \in Seq(WindowRec) /\ Len(before \o one) = Len(before) + Len(one)
        /\ \A i \in 1 .. Len(before) + Len(one) :
             (before \o one)[i] = IF i <= Len(before) THEN before[i] ELSE one[i - Len(before)]
    BY <1>10, <2>1, ConcatProperties, Zenon
  <2> DEFINE fr == before \o one
  <2>3. fr \in Seq(WindowRec) /\ Len(fr) = stop + 1
    BY <1>10, <2>1, <2>2
  <2>4. \A i \in 1 .. stop + 1 : fr[i] = IF i <= stop THEN before[i] ELSE one[i - stop]
    BY <1>10, <2>1, <2>2
  <2> HIDE DEF fr
  <2>5. \A i \in 1 .. stop + 1 : (i <= stop => i \in 1 .. stop) /\ (~(i <= stop) => i - stop = 1)
    BY <1>9
  <2>6. \A i \in 1 .. stop + 1 : fr[i] = IF i <= stop THEN sorted[i] ELSE w
    BY <1>10, <2>1, <2>4, <2>5
  <2>7. front = fr
    BY DEF fr, one
  <2> HIDE DEF front
  <2> QED BY <2>3, <2>6, <2>7
<1> HIDE DEF front
<1> DEFINE u == front \o behind
<1>14. /\ u \in Seq(WindowRec) /\ Len(u) = Len(front) + Len(behind)
       /\ \A i \in 1 .. Len(front) + Len(behind) :
            u[i] = IF i <= Len(front) THEN front[i] ELSE behind[i - Len(front)]
  BY <1>11, <1>13, ConcatProperties, Zenon
<1> HIDE DEF u
<1>15. (stop + 1) + (n - stop) = n + 1
  BY <1>1, <1>9
<1>16. Len(u) = n + 1
       /\ \A i \in 1 .. n + 1 :
            u[i] = IF i <= stop + 1 THEN front[i] ELSE behind[i - (stop + 1)]
  BY <1>11, <1>13, <1>14, <1>15
<1>17. ASSUME NEW i \in 1 .. n + 1
       PROVE  u[i] = IF i <= stop THEN sorted[i]
                     ELSE IF i = stop + 1 THEN w ELSE sorted[i - 1]
  <2>1. CASE i <= stop + 1
    <3>1. i \in 1 .. stop + 1 /\ (~(i <= stop) => i = stop + 1)
      BY <1>9, <2>1
    <3> QED BY <1>13, <1>16, <2>1, <3>1
  <2>2. CASE ~(i <= stop + 1)
    <3>1. /\ i - (stop + 1) \in 1 .. n - stop /\ stop + (i - (stop + 1)) = i - 1
          /\ ~(i <= stop) /\ i # stop + 1
      BY <1>1, <1>9, <2>2
    <3>2. behind[i - (stop + 1)] = sorted[i - 1]
      BY <1>11, <3>1
    <3> QED BY <1>16, <2>2, <3>1, <3>2
  <2> QED BY <2>1, <2>2
<1> QED BY <1>4, <1>6, <1>8, <1>14, <1>16, <1>17 DEF u, n

(* An insertion keeps the order and adds one row.                          *)
LEMMA InsertWindowSorts ==
  ASSUME NEW sorted \in Seq(WindowRec), NEW w \in WindowRec, SortedById(sorted)
  PROVE  /\ SortedById(InsertWindow(sorted, w))
         /\ RowSet(InsertWindow(sorted, w)) = RowSet(sorted) \cup {w}
<1> DEFINE stop == StopFor(sorted, w)
           u == InsertWindow(sorted, w)
           n == Len(sorted)
<1>1. /\ stop \in 0 .. n
      /\ stop # 0 => sorted[stop].id <= w.id
      /\ \A i \in DOMAIN sorted : sorted[i].id <= w.id => i <= stop
      /\ u \in Seq(WindowRec) /\ Len(u) = n + 1
      /\ \A i \in 1 .. n + 1 : u[i] = IF i <= stop THEN sorted[i]
                                      ELSE IF i = stop + 1 THEN w ELSE sorted[i - 1]
  BY InsertWindowPlaces, Zenon
<1>2. n \in Nat /\ DOMAIN sorted = 1 .. n /\ \A i \in 1 .. n : sorted[i] \in WindowRec
  OBVIOUS
<1> HIDE DEF stop, u, n
<1>3. DOMAIN u = 1 .. n + 1
  BY <1>1
<1>4. w.id \in Nat /\ \A i \in 1 .. n : sorted[i].id \in Nat
  BY <1>2 DEF WindowRec
<1>5. \A i, j \in 1 .. n : i < j => sorted[i].id <= sorted[j].id
  BY <1>2 DEF SortedById
<1>6. \A i \in 1 .. n : /\ i <= stop => sorted[i].id <= w.id
                        /\ i > stop => w.id <= sorted[i].id
  <2> TAKE i \in 1 .. n
  <2>1. ASSUME i <= stop PROVE sorted[i].id <= w.id
    <3>1. stop \in 1 .. n /\ stop # 0
      BY <1>1, <2>1
    <3>2. sorted[i].id <= sorted[stop].id
      <4>1. CASE i = stop
        BY <1>4, <4>1
      <4>2. CASE i < stop
        BY <1>5, <3>1, <4>2
      <4> QED BY <1>1, <2>1, <4>1, <4>2
    <3> QED BY <1>1, <1>4, <3>1, <3>2
  <2>2. ASSUME i > stop PROVE w.id <= sorted[i].id
    <3>1. ~(sorted[i].id <= w.id)
      BY <1>1, <1>2, <2>2
    <3> QED BY <1>4, <3>1
  <2> QED BY <2>1, <2>2
<1>7. ASSUME NEW i \in 1 .. n + 1, NEW j \in 1 .. n + 1, i < j
      PROVE  u[i].id <= u[j].id
  <2>1. CASE j <= stop
    <3>1. i \in 1 .. n /\ j \in 1 .. n /\ i <= stop
      BY <1>1, <1>2, <1>7, <2>1
    <3>2. u[i] = sorted[i] /\ u[j] = sorted[j]
      BY <1>1, <2>1, <3>1
    <3> QED BY <1>5, <1>7, <3>1, <3>2
  <2>2. CASE j = stop + 1
    <3>1. i \in 1 .. n /\ i <= stop /\ ~(j <= stop)
      BY <1>1, <1>2, <1>7, <2>2
    <3>2. u[i] = sorted[i] /\ u[j] = w
      BY <1>1, <2>2, <3>1
    <3> QED BY <1>6, <3>1, <3>2
  <2>3. CASE j > stop + 1
    <3>1. j - 1 \in 1 .. n /\ j - 1 > stop /\ ~(j <= stop) /\ j # stop + 1
      BY <1>1, <1>2, <2>3
    <3>2. u[j] = sorted[j - 1]
      BY <1>1, <3>1
    <3>3. CASE i <= stop
      <4>1. i \in 1 .. n /\ i < j - 1 /\ u[i] = sorted[i]
        BY <1>1, <1>2, <2>3, <3>3
      <4> QED BY <1>5, <3>1, <3>2, <4>1
    <3>4. CASE i = stop + 1
      <4>1. u[i] = w
        BY <1>1, <3>4
      <4> QED BY <1>6, <3>1, <3>2, <4>1
    <3>5. CASE i > stop + 1
      <4>1. i - 1 \in 1 .. n /\ i - 1 < j - 1 /\ u[i] = sorted[i - 1]
        BY <1>1, <1>2, <1>7, <3>5
      <4> QED BY <1>5, <3>1, <3>2, <4>1
    <3> QED BY <1>1, <3>3, <3>4, <3>5
  <2> QED BY <1>1, <2>1, <2>2, <2>3
<1>8. SortedById(u)
  BY <1>3, <1>7 DEF SortedById
<1>9. RowSet(u) \subseteq RowSet(sorted) \cup {w}
  <2> SUFFICES ASSUME NEW i \in 1 .. n + 1 PROVE u[i] \in RowSet(sorted) \cup {w}
    BY <1>3 DEF RowSet
  <2>1. CASE i <= stop
    <3>1. i \in 1 .. n /\ u[i] = sorted[i]
      BY <1>1, <1>2, <2>1
    <3> QED BY <1>2, <3>1 DEF RowSet
  <2>2. CASE i = stop + 1
    BY <1>1, <2>2
  <2>3. CASE i > stop + 1
    <3>1. i - 1 \in 1 .. n /\ u[i] = sorted[i - 1]
      BY <1>1, <1>2, <2>3
    <3> QED BY <1>2, <3>1 DEF RowSet
  <2> QED BY <1>1, <2>1, <2>2, <2>3
<1>10. RowSet(sorted) \cup {w} \subseteq RowSet(u)
  <2>1. w \in RowSet(u)
    <3>1. stop + 1 \in 1 .. n + 1 /\ u[stop + 1] = w
      BY <1>1, <1>2
    <3> QED BY <1>3, <3>1 DEF RowSet
  <2>2. ASSUME NEW i \in 1 .. n PROVE sorted[i] \in RowSet(u)
    <3>1. CASE i <= stop
      <4>1. i \in 1 .. n + 1 /\ u[i] = sorted[i]
        BY <1>1, <1>2, <3>1
      <4> QED BY <1>3, <4>1 DEF RowSet
    <3>2. CASE i > stop
      <4>1. i + 1 \in 1 .. n + 1 /\ ~(i + 1 <= stop) /\ i + 1 # stop + 1 /\ (i + 1) - 1 = i
        BY <1>1, <1>2, <3>2
      <4>2. u[i + 1] = sorted[i]
        BY <1>1, <4>1
      <4> QED BY <1>3, <4>1, <4>2 DEF RowSet
    <3> QED BY <1>1, <3>1, <3>2
  <2> QED BY <1>2, <2>1, <2>2 DEF RowSet
<1> QED BY <1>8, <1>9, <1>10 DEF u

(* rv_sort_windows_by_id sorts, and what is sorted it leaves alone.        *)
LEMMA SortWindowsSorts ==
  ASSUME NEW windows \in Seq(WindowRec)
  PROVE  /\ SortedById(SortWindows(windows))
         /\ RowSet(SortWindows(windows)) = RowSet(windows)
         /\ SortedById(windows) => SortWindows(windows) = windows
<1> DEFINE n == Len(windows)
<1>1. n \in Nat /\ << >> \in Seq(WindowRec) /\ DOMAIN windows = 1 .. n
      /\ \A i \in 1 .. n : windows[i] \in WindowRec
  OBVIOUS
<1>2. PICK r \in [0 .. Len(windows) -> Seq(WindowRec)] : Sorts(r, windows, SortWindows(windows))
  <2>1. \A v \in Seq(WindowRec), x \in WindowRec : InsertWindow(v, x) \in Seq(WindowRec)
    BY InsertWindowInserts
  <2> QED BY <1>1, <2>1, SortWindowsRun
<1>3. /\ r[0] = << >> /\ r[n] = SortWindows(windows)
      /\ \A k \in 1 .. n : r[k] = InsertWindow(r[k - 1], windows[k])
  BY <1>2 DEF Sorts
<1>4. \A k \in 0 .. n : r[k] \in Seq(WindowRec)
  BY <1>2
<1> HIDE DEF n
<1> DEFINE G == {k \in 0 .. n : SortedById(r[k]) /\ RowSet(r[k]) = {windows[i] : i \in 1 .. k}}
<1>5. \A k \in 0 .. n : k \in G
  <2>1. 0 \in G
    BY <1>1, <1>3 DEF SortedById, RowSet
  <2>2. ASSUME NEW k \in 1 .. n, k - 1 \in G PROVE k \in G
    <3>1. /\ r[k - 1] \in Seq(WindowRec) /\ windows[k] \in WindowRec /\ k \in 0 .. n
          /\ SortedById(r[k - 1]) /\ RowSet(r[k - 1]) = {windows[i] : i \in 1 .. (k - 1)}
      BY <1>1, <1>4, <2>2
    <3>2. SortedById(r[k]) /\ RowSet(r[k]) = RowSet(r[k - 1]) \cup {windows[k]}
      BY <1>3, <3>1, InsertWindowSorts
    <3>3. 1 .. k = (1 .. (k - 1)) \cup {k}
      BY <3>1
    <3>4. {windows[i] : i \in 1 .. k} = {windows[i] : i \in 1 .. (k - 1)} \cup {windows[k]}
      BY <3>3
    <3> QED BY <3>1, <3>2, <3>4
  <2> HIDE DEF G
  <2> QED BY <1>1, <2>1, <2>2, PrefixInduction
<1>6. n \in 0 .. n
  BY <1>1
<1>7. SortedById(SortWindows(windows)) /\ RowSet(SortWindows(windows)) = RowSet(windows)
  <2>1. SortedById(r[n]) /\ RowSet(r[n]) = {windows[i] : i \in 1 .. n}
    BY <1>5, <1>6
  <2> QED BY <1>1, <1>3, <2>1 DEF RowSet
<1>8. ASSUME SortedById(windows) PROVE SortWindows(windows) = windows
  <2> DEFINE P == {k \in 0 .. n : Len(r[k]) = k /\ \A i \in 1 .. k : r[k][i] = windows[i]}
  <2>1. 0 \in P
    BY <1>1, <1>3
  <2>2. ASSUME NEW k \in 1 .. n, k - 1 \in P PROVE k \in P
    <3> DEFINE v == r[k - 1]
               w == windows[k]
               stop == StopFor(v, w)
    <3>1. /\ v \in Seq(WindowRec) /\ w \in WindowRec /\ k \in 0 .. n /\ Len(v) = k - 1
          /\ \A i \in 1 .. (k - 1) : v[i] = windows[i]
      BY <1>1, <1>4, <2>2
    <3>2. r[k] = InsertWindow(v, w)
      BY <1>3
    <3> HIDE DEF v, w
    <3>3. /\ stop \in 0 .. Len(v)
          /\ \A i \in DOMAIN v : v[i].id <= w.id => i <= stop
          /\ Len(r[k]) = Len(v) + 1
          /\ \A i \in 1 .. Len(v) + 1 : r[k][i] = IF i <= stop THEN v[i]
                                                 ELSE IF i = stop + 1 THEN w ELSE v[i - 1]
      <4>1. v \in Seq(WindowRec) /\ w \in WindowRec
        BY <3>1
      <4> DEFINE x == InsertWindow(v, w)
      <4>2. /\ stop \in 0 .. Len(v)
            /\ \A i \in DOMAIN v : v[i].id <= w.id => i <= stop
            /\ Len(x) = Len(v) + 1
            /\ \A i \in 1 .. Len(v) + 1 : x[i] = IF i <= stop THEN v[i]
                                               ELSE IF i = stop + 1 THEN w ELSE v[i - 1]
        BY <4>1, InsertWindowPlaces, Zenon
      <4>3. r[k] = x
        BY <3>2
      <4> HIDE DEF x, stop
      <4> QED BY <4>2, <4>3
    <3>4. stop = k - 1
      <4>1. CASE k = 1
        <5> HIDE DEF stop
        <5> QED BY <3>1, <3>3, <4>1
      <4>2. CASE k # 1
        <5>1. k - 1 \in 1 .. n /\ k - 1 < k /\ k - 1 \in 1 .. (k - 1)
          BY <4>2
        <5>2. windows[k - 1].id <= windows[k].id
          BY <1>1, <1>8, <5>1 DEF SortedById
        <5>3. k - 1 \in DOMAIN v /\ v[k - 1].id <= w.id
          BY <3>1, <5>1, <5>2 DEF w
        <5>4. k - 1 <= stop
          BY <3>3, <5>3
        <5> HIDE DEF stop
        <5> QED BY <3>1, <3>3, <5>4
      <4> QED BY <4>1, <4>2
    <3> HIDE DEF stop
    <3>5. Len(r[k]) = k
      BY <3>1, <3>3
    <3>6. ASSUME NEW i \in 1 .. k PROVE r[k][i] = windows[i]
      <4>1. CASE i = k
        <5>1. i \in 1 .. (k - 1) + 1 /\ ~(i <= stop) /\ i = stop + 1
          BY <3>1, <3>4, <4>1
        <5> QED BY <3>1, <3>3, <4>1, <5>1 DEF w
      <4>2. CASE i # k
        <5>1. i \in 1 .. (k - 1) /\ i \in 1 .. (k - 1) + 1 /\ i <= stop
          BY <3>1, <3>4, <4>2
        <5> QED BY <3>1, <3>3, <5>1
      <4> QED BY <4>1, <4>2
    <3> QED BY <3>1, <3>5, <3>6
  <2>3. \A k \in 0 .. n : k \in P
    <3> HIDE DEF P
    <3> QED BY <1>1, <2>1, <2>2, PrefixInduction
  <2>4. Len(r[n]) = n /\ \A i \in 1 .. n : r[n][i] = windows[i]
    BY <1>6, <2>3
  <2>5. r[n] \in Seq(WindowRec)
    BY <1>4, <1>6
  <2> QED BY <1>1, <1>3, <2>4, <2>5, SeqEqual DEF n
<1> QED BY <1>7, <1>8

(* A row is attached if and only if the compaction keeps it.               *)
LEMMA AttachedIsKept ==
  ASSUME NEW t, NEW k \in DOMAIN t.links, NEW v
  PROVE  /\ k \in Attached(t) => KeepLink(t, v, t.links[k]) = Append(v, t.links[k])
         /\ k \notin Attached(t) => KeepLink(t, v, t.links[k]) = v
BY DEF KeepLink, Dangling, Attached

(* The compaction selects the attached links.                              *)
LEMMA CompactLinksSelects ==
  ASSUME NEW t, t.links \in Seq(LinkRec)
  PROVE  /\ Selects(CompactLinks(t), t.links, Attached(t))
         /\ Attached(t) = DOMAIN t.links => CompactLinks(t) = t.links
<1> DEFINE n == Len(t.links)
           upto(k) == {i \in Attached(t) : i <= k}
<1>1. n \in Nat /\ << >> \in Seq(LinkRec) /\ DOMAIN t.links = 1 .. n
      /\ \A i \in 1 .. n : t.links[i] \in LinkRec
  OBVIOUS
<1>2. PICK r \in [0 .. Len(t.links) -> Seq(LinkRec)] : Compacts(r, t, CompactLinks(t))
  <2>1. ASSUME NEW v \in Seq(LinkRec), NEW x \in LinkRec PROVE KeepLink(t, v, x) \in Seq(LinkRec)
    BY DEF KeepLink
  <2> QED BY <1>1, <2>1, CompactLinksRun
<1>3. /\ r[0] = << >> /\ r[n] = CompactLinks(t)
      /\ \A k \in 1 .. n : r[k] = KeepLink(t, r[k - 1], t.links[k])
  BY <1>2 DEF Compacts
<1>4. \A k \in 0 .. n : r[k] \in Seq(LinkRec)
  BY <1>2
<1>5. Attached(t) \in SUBSET (1 .. n)
  BY <1>1 DEF Attached
<1> HIDE DEF n
<1>6. n \in 0 .. n
  BY <1>1
<1> DEFINE G == {k \in 0 .. n : Selects(r[k], t.links, upto(k))}
<1>7. \A k \in 0 .. n : k \in G
  <2>1. 0 \in G
    <3>1. upto(0) = {}
      BY <1>5
    <3>2. r[0] = << >> /\ DOMAIN r[0] = {}
      BY <1>3
    <3>3. [j \in {} |-> 0] \in [{} -> {}]
      OBVIOUS
    <3>4. Selects(r[0], t.links, {})
      BY <3>2, <3>3 DEF Selects
    <3>5. Selects(r[0], t.links, upto(0))
      BY <3>1, <3>4
    <3> HIDE DEF upto
    <3> QED BY <1>1, <3>5
  <2>2. ASSUME NEW k \in 1 .. n, k - 1 \in G PROVE k \in G
    <3> DEFINE v == r[k - 1]
               m == Len(v)
    <3>1. /\ v \in Seq(LinkRec) /\ t.links[k] \in LinkRec /\ k \in 0 .. n
          /\ k - 1 \in 0 .. n /\ k \in DOMAIN t.links
      BY <1>1, <1>4
    <3>2. m \in Nat /\ DOMAIN v = 1 .. m
      BY <3>1
    <3>3. Selects(v, t.links, upto(k - 1))
      BY <2>2
    <3>4. r[k] = KeepLink(t, v, t.links[k])
      BY <1>3
    <3>5. CASE k \notin Attached(t)
      <4>1. r[k] = v
        BY <3>1, <3>4, <3>5, AttachedIsKept
      <4>2. upto(k) = upto(k - 1)
        <5>1. \A i \in Attached(t) : i \in 1 .. n /\ i # k
          BY <1>5, <3>5
        <5>2. \A i \in Attached(t) : (i <= k) <=> (i <= k - 1)
          BY <5>1
        <5> QED BY <5>2
      <4> HIDE DEF upto, v
      <4> QED BY <3>1, <3>3, <4>1, <4>2
    <3>6. CASE k \in Attached(t)
      <4>1. r[k] = Append(v, t.links[k])
        BY <3>1, <3>4, <3>6, AttachedIsKept
      <4>2. /\ r[k] \in Seq(LinkRec) /\ Len(r[k]) = m + 1
            /\ \A j \in 1 .. m + 1 : r[k][j] = IF j = m + 1 THEN t.links[k] ELSE v[j]
        <5> HIDE DEF v
        <5> QED BY <3>1, <4>1
      <4>3. PICK at \in [1 .. m -> upto(k - 1)] :
              /\ \A i, j \in 1 .. m : i < j => at[i] < at[j]
              /\ \A i \in upto(k - 1) : \E j \in 1 .. m : at[j] = i
              /\ \A j \in 1 .. m : v[j] = t.links[at[j]]
        <5> HIDE DEF upto, v, m
        <5>1. PICK at \in [DOMAIN v -> upto(k - 1)] :
                /\ \A j, i \in DOMAIN v : j < i => at[j] < at[i]
                /\ \A i \in upto(k - 1) : \E j \in DOMAIN v : at[j] = i
                /\ \A j \in DOMAIN v : v[j] = t.links[at[j]]
          BY <3>3, Zenon DEF Selects
        <5>2. /\ at \in [1 .. m -> upto(k - 1)]
              /\ \A i, j \in 1 .. m : i < j => at[i] < at[j]
              /\ \A i \in upto(k - 1) : \E j \in 1 .. m : at[j] = i
              /\ \A j \in 1 .. m : v[j] = t.links[at[j]]
          BY <3>2, <5>1
        <5> QED BY <5>2
      <4> DEFINE to == [j \in 1 .. m + 1 |-> IF j = m + 1 THEN k ELSE at[j]]
      <4>4. /\ \A i \in upto(k - 1) : i \in upto(k) /\ i < k /\ i \in Nat
            /\ k \in upto(k)
            /\ \A i \in upto(k) : i = k \/ i \in upto(k - 1)
        <5>1. \A i \in Attached(t) : i \in 1 .. n
          BY <1>5
        <5> QED BY <3>6, <5>1
      <4> HIDE DEF upto, v, m
      <4>5. /\ \A j \in 1 .. m : j \in 1 .. m + 1 /\ j # m + 1 /\ to[j] = at[j]
            /\ m + 1 \in 1 .. m + 1 /\ to[m + 1] = k
            /\ \A j \in 1 .. m + 1 : j = m + 1 \/ j \in 1 .. m
        BY <3>2
      <4>6. to \in [1 .. m + 1 -> upto(k)]
        <5>1. ASSUME NEW j \in 1 .. m + 1
              PROVE  (IF j = m + 1 THEN k ELSE at[j]) \in upto(k)
          <6>1. j # m + 1 => at[j] \in upto(k - 1)
            BY <4>5
          <6> QED BY <4>4, <6>1
        <5> QED BY <5>1
      <4>7. DOMAIN r[k] = 1 .. m + 1
        BY <4>2
      <4> HIDE DEF to
      <4>8. ASSUME NEW i \in 1 .. m + 1, NEW j \in 1 .. m + 1, i < j PROVE to[i] < to[j]
        <5>1. i \in 1 .. m
          BY <3>2, <4>8
        <5>2. to[i] = at[i] /\ at[i] \in upto(k - 1)
          BY <4>5, <5>1
        <5>3. CASE j = m + 1
          BY <4>4, <4>5, <5>2, <5>3
        <5>4. CASE j \in 1 .. m
          BY <4>3, <4>5, <4>8, <5>1, <5>4
        <5> QED BY <4>5, <5>3, <5>4
      <4>9. ASSUME NEW i \in upto(k) PROVE \E j \in 1 .. m + 1 : to[j] = i
        <5>1. CASE i = k
          BY <4>5, <5>1
        <5>2. CASE i \in upto(k - 1)
          <6>1. PICK j \in 1 .. m : at[j] = i
            BY <4>3, <5>2
          <6> QED BY <4>5, <6>1
        <5> QED BY <4>4, <5>1, <5>2
      <4>10. ASSUME NEW j \in 1 .. m + 1 PROVE r[k][j] = t.links[to[j]]
        <5>1. CASE j = m + 1
          BY <4>2, <4>5, <5>1
        <5>2. CASE j \in 1 .. m
          <6>1. j # m + 1 /\ to[j] = at[j] /\ v[j] = t.links[at[j]]
            BY <4>3, <4>5, <5>2
          <6> QED BY <4>2, <6>1
        <5> QED BY <4>5, <5>1, <5>2
      <4>11. Selects(r[k], t.links, upto(k))
        <5>1. /\ to \in [DOMAIN r[k] -> upto(k)]
              /\ \A j, i \in DOMAIN r[k] : j < i => to[j] < to[i]
              /\ \A i \in upto(k) : \E j \in DOMAIN r[k] : to[j] = i
              /\ \A j \in DOMAIN r[k] : r[k][j] = t.links[to[j]]
          BY <4>6, <4>7, <4>8, <4>9, <4>10, Zenon
        <5> QED BY <5>1, Zenon DEF Selects
      <4> QED BY <3>1, <4>11
    <3> QED BY <3>5, <3>6
  <2> HIDE DEF G
  <2> QED BY <1>1, <2>1, <2>2, PrefixInduction
<1>8. Selects(CompactLinks(t), t.links, Attached(t))
  <2>1. upto(n) = Attached(t)
    BY <1>1, <1>5
  <2>2. Selects(r[n], t.links, upto(n))
    BY <1>6, <1>7
  <2> HIDE DEF upto
  <2> QED BY <1>3, <2>1, <2>2
<1>9. ASSUME Attached(t) = DOMAIN t.links PROVE CompactLinks(t) = t.links
  <2> DEFINE P == {k \in 0 .. n : Len(r[k]) = k /\ \A i \in 1 .. k : r[k][i] = t.links[i]}
  <2>1. 0 \in P
    BY <1>1, <1>3
  <2>2. ASSUME NEW k \in 1 .. n, k - 1 \in P PROVE k \in P
    <3> DEFINE v == r[k - 1]
    <3>1. /\ v \in Seq(LinkRec) /\ t.links[k] \in LinkRec /\ k \in 0 .. n /\ Len(v) = k - 1
          /\ \A i \in 1 .. (k - 1) : v[i] = t.links[i]
      BY <1>1, <1>4, <2>2
    <3>2. r[k] = KeepLink(t, v, t.links[k])
      BY <1>3
    <3> HIDE DEF v
    <3>3. r[k] = Append(v, t.links[k])
      BY <1>1, <1>9, <3>2, AttachedIsKept
    <3>4. Len(r[k]) = k /\ \A i \in 1 .. k : r[k][i] = IF i = k THEN t.links[k] ELSE v[i]
      BY <3>1, <3>3
    <3>5. \A i \in 1 .. k : i # k => i \in 1 .. (k - 1)
      OBVIOUS
    <3>6. \A i \in 1 .. k : r[k][i] = t.links[i]
      BY <3>1, <3>4, <3>5
    <3> QED BY <3>1, <3>4, <3>6
  <2>3. \A k \in 0 .. n : k \in P
    <3> HIDE DEF P
    <3> QED BY <1>1, <2>1, <2>2, PrefixInduction
  <2>4. Len(r[n]) = n /\ \A i \in 1 .. n : r[n][i] = t.links[i]
    BY <1>6, <2>3
  <2>5. r[n] \in Seq(LinkRec)
    BY <1>4, <1>6
  <2> QED BY <1>1, <1>3, <2>4, <2>5, SeqEqual DEF n
<1> QED BY <1>8, <1>9

(* The index finds an id if and only if a row has it and a map can hold it. *)
LEMMA FoundIfThere ==
  ASSUME NEW S, NEW table \in Seq(S), NEW id
  PROVE  (MapCell(table, id) # 0) <=> (id \notin Unmapped /\ id \in Ids(table))
<1>1. ASSUME MapCell(table, id) # 0 PROVE id \notin Unmapped /\ id \in Ids(table)
  BY <1>1, CellIsRow DEF MapCell, Ids
<1>2. ASSUME id \notin Unmapped, id \in Ids(table) PROVE MapCell(table, id) # 0
  <2> DEFINE found == RowsOf(table, id)
             n == Len(table)
  <2>1. found # {}
    BY <1>2 DEF Ids, RowsOf
  <2>2. n \in Nat /\ found \in SUBSET (0 .. n) /\ 0 \notin found
    <3>1. n \in Nat /\ DOMAIN table = 1 .. n
      BY LenProperties
    <3> QED BY <3>1 DEF RowsOf
  <2>3. MapCell(table, id) = CHOOSE i \in found : \A j \in found : j <= i
    BY <1>2, <2>1 DEF MapCell
  <2>4. \E i \in found : \A j \in found : j <= i
    <3> HIDE DEF found, n
    <3> QED BY <2>1, <2>2, MaxIsMember
  <2> HIDE DEF found
  <2>5. MapCell(table, id) \in found
    BY <2>3, <2>4
  <2> QED BY <2>2, <2>5
<1> QED BY <1>1, <1>2

(* What rv_normalize_parsed leaves of a marker.                            *)
LEMMA ClampIs ==
  ASSUME NEW m \in MarkRec
  PROVE  /\ ClampSeverity(m).id = m.id /\ ClampSeverity(m).window = m.window
         /\ ClampSeverity(m).label = m.label /\ ClampSeverity(m).ok = m.ok
         /\ ClampSeverity(ClampSeverity(m)) = ClampSeverity(m)
<1> DEFINE sev == IF m.severity > MaxSeverity THEN MaxSeverity ELSE m.severity
           c == [m EXCEPT !.severity = sev]
<1>1. ClampSeverity(m) = c
  BY DEF ClampSeverity
<1>2. sev \in Nat /\ ~(sev > MaxSeverity)
  BY SeverityAssumption DEF MarkRec
<1> HIDE DEF sev
<1>3. /\ c \in MarkRec /\ c.severity = sev
      /\ c.id = m.id /\ c.window = m.window /\ c.label = m.label /\ c.ok = m.ok
  BY <1>2 DEF MarkRec
<1> HIDE DEF c
<1>4. ClampSeverity(c) = [c EXCEPT !.severity = c.severity]
  BY <1>2, <1>3 DEF ClampSeverity
<1>5. [c EXCEPT !.severity = c.severity] = c
  BY <1>3 DEF MarkRec
<1> QED BY <1>1, <1>3, <1>4, <1>5

(* What a repair does.                                                     *)
Mended(t, u) ==
  /\ u \in Parsed
  /\ u.names = t.names /\ u.routes = t.routes /\ u.insts = t.insts /\ u.calibs = t.calibs
  /\ SortedById(u.windows) /\ RowSet(u.windows) = RowSet(t.windows)
  /\ Len(u.windows) = Len(t.windows)
  /\ DOMAIN u.marks = DOMAIN t.marks
  /\ \A i \in DOMAIN t.marks : u.marks[i] = ClampSeverity(t.marks[i])
  /\ DOMAIN u.waves = DOMAIN t.waves
  /\ \A i \in DOMAIN t.waves : u.waves[i] = FillWindow(t.waves[i], u.windows)
  /\ Selects(u.links, t.links, Attached(t))
  /\ u.summ = RecoverSumm(u)

(* What one repair does to tables, as far as a validation or another       *)
(* repair can tell.                                                        *)
LEMMA RepairMends ==
  ASSUME NEW t \in Parsed, Within(t)
  PROVE  Mended(t, Repair(t))
<1> DEFINE normal == Normalize(t)
           u == Repair(t)
<1>1. u \in Parsed
  BY RepairKeeps
<1>2. /\ normal \in Parsed
      /\ normal.names = t.names /\ normal.routes = t.routes /\ normal.insts = t.insts
      /\ normal.calibs = t.calibs /\ normal.links = t.links
      /\ normal.windows = SortWindows(t.windows)
      /\ normal.marks = [i \in DOMAIN t.marks |-> ClampSeverity(t.marks[i])]
      /\ normal.waves = [i \in DOMAIN t.waves |-> FillWindow(t.waves[i], normal.windows)]
  BY NormalFields
<1>3. /\ u.names = normal.names /\ u.routes = normal.routes /\ u.insts = normal.insts
      /\ u.calibs = normal.calibs /\ u.windows = normal.windows
      /\ u.marks = normal.marks /\ u.waves = normal.waves
      /\ u.links = CompactLinks(normal) /\ u.summ = RecoverSumm(u)
  BY RepairFields, Zenon
<1> HIDE DEF normal, u
<1>4. /\ t.windows \in Seq(WindowRec) /\ t.marks \in Seq(MarkRec) /\ normal.links \in Seq(LinkRec)
  BY <1>2 DEF Parsed
<1>5. /\ SortedById(u.windows) /\ RowSet(u.windows) = RowSet(t.windows)
      /\ Len(u.windows) = Len(t.windows)
  BY <1>2, <1>3, <1>4, SortWindowsSorts, SortWindowsKeeps
<1>6. DOMAIN u.marks = DOMAIN t.marks /\ \A i \in DOMAIN t.marks : u.marks[i] = ClampSeverity(t.marks[i])
  BY <1>2, <1>3
<1>7. DOMAIN u.waves = DOMAIN t.waves
      /\ \A i \in DOMAIN t.waves : u.waves[i] = FillWindow(t.waves[i], u.windows)
  BY <1>2, <1>3
<1>8. Attached(normal) = Attached(t)
  <2>1. \A i \in DOMAIN t.marks : normal.marks[i].id = t.marks[i].id
    <3> TAKE i \in DOMAIN t.marks
    <3>1. t.marks[i] \in MarkRec /\ normal.marks[i] = ClampSeverity(t.marks[i])
      BY <1>2, <1>4
    <3> QED BY <3>1, ClampIs
  <2>2. DOMAIN normal.marks = DOMAIN t.marks
    BY <1>2
  <2>3. Ids(normal.marks) = Ids(t.marks)
    BY <2>1, <2>2 DEF Ids
  <2> QED BY <1>2, <2>3 DEF Attached
<1>9. Selects(u.links, t.links, Attached(t))
  BY <1>2, <1>3, <1>4, <1>8, CompactLinksSelects
<1> QED BY <1>1, <1>2, <1>3, <1>5, <1>6, <1>7, <1>9 DEF Mended, u

(* The ids that references look up stay what they were.                    *)
LEMMA MendedKeepsIds ==
  ASSUME NEW t \in Parsed, NEW u, Mended(t, u)
  PROVE  /\ Ids(u.windows) = Ids(t.windows) /\ Ids(u.waves) = Ids(t.waves)
         /\ Ids(u.marks) = Ids(t.marks)
         /\ \A i \in DOMAIN u.windows : \E j \in DOMAIN t.windows : u.windows[i] = t.windows[j]
<1>1. /\ t.windows \in Seq(WindowRec) /\ t.marks \in Seq(MarkRec) /\ t.waves \in Seq(WaveRec)
      /\ u.windows \in Seq(WindowRec)
  BY DEF Mended, Parsed
<1>2. Ids(u.windows) = Ids(t.windows)
      /\ \A i \in DOMAIN u.windows : \E j \in DOMAIN t.windows : u.windows[i] = t.windows[j]
  <2>1. RowSet(u.windows) = RowSet(t.windows)
    BY DEF Mended
  <2>2. \A i \in DOMAIN u.windows : \E j \in DOMAIN t.windows : u.windows[i] = t.windows[j]
    BY <2>1 DEF RowSet
  <2>3. \A j \in DOMAIN t.windows : \E i \in DOMAIN u.windows : u.windows[i] = t.windows[j]
    BY <2>1 DEF RowSet
  <2> QED BY <2>2, <2>3 DEF Ids
<1>3. \A i \in DOMAIN t.waves : u.waves[i].id = t.waves[i].id
  <2> TAKE i \in DOMAIN t.waves
  <2>1. t.waves[i] \in WaveRec /\ u.waves[i] = FillWindow(t.waves[i], u.windows)
    BY <1>1 DEF Mended
  <2> QED BY <1>1, <2>1, FillIs
<1>4. \A i \in DOMAIN t.marks : u.marks[i].id = t.marks[i].id
  <2> TAKE i \in DOMAIN t.marks
  <2>1. t.marks[i] \in MarkRec /\ u.marks[i] = ClampSeverity(t.marks[i])
    BY <1>1 DEF Mended
  <2> QED BY <2>1, ClampIs
<1>5. DOMAIN u.waves = DOMAIN t.waves /\ DOMAIN u.marks = DOMAIN t.marks
  BY DEF Mended
<1>6. Ids(u.waves) = Ids(t.waves)
  BY <1>3, <1>5 DEF Ids
<1>7. Ids(u.marks) = Ids(t.marks)
  BY <1>4, <1>5 DEF Ids
<1> QED BY <1>2, <1>6, <1>7

(* What resolves before a repair of filled tables resolves after it.       *)
LEMMA MendedResolves ==
  ASSUME NEW t \in Parsed, Filled(t), NEW u, Mended(t, u)
  PROVE  /\ NamesResolve(t) => NamesResolve(u)
         /\ rv_xref_validate(t) => rv_xref_validate(u)
<1>1. /\ t.windows \in Seq(WindowRec) /\ t.marks \in Seq(MarkRec) /\ t.waves \in Seq(WaveRec)
      /\ t.routes \in Seq(RouteRec) /\ u.windows \in Seq(WindowRec) /\ u.waves \in Seq(WaveRec)
  BY DEF Mended, Parsed
<1>2. /\ Ids(u.windows) = Ids(t.windows) /\ Ids(u.waves) = Ids(t.waves)
      /\ \A i \in DOMAIN u.windows : \E j \in DOMAIN t.windows : u.windows[i] = t.windows[j]
  BY MendedKeepsIds
<1>3. \A id : /\ (FindWindow(u, id) = 0) <=> (FindWindow(t, id) = 0)
              /\ (FindWave(u, id) = 0) <=> (FindWave(t, id) = 0)
  BY <1>1, <1>2, FoundIfThere DEF FindWindow, FindWave
<1>4. u.names = t.names /\ u.routes = t.routes /\ u.insts = t.insts /\ u.calibs = t.calibs
  BY DEF Mended
<1>5. \A id : (KnownName(u, id) <=> KnownName(t, id)) /\ FindRoute(u, id) = FindRoute(t, id)
  BY <1>4 DEF KnownName, FindName, FindRoute
<1>6. /\ DOMAIN u.marks = DOMAIN t.marks
      /\ \A i \in DOMAIN t.marks : u.marks[i].window = t.marks[i].window /\ u.marks[i].label = t.marks[i].label
  <2>1. ASSUME NEW i \in DOMAIN t.marks
        PROVE  u.marks[i].window = t.marks[i].window /\ u.marks[i].label = t.marks[i].label
    <3>1. t.marks[i] \in MarkRec /\ u.marks[i] = ClampSeverity(t.marks[i])
      BY <1>1 DEF Mended
    <3> QED BY <3>1, ClampIs
  <2> QED BY <2>1 DEF Mended
<1>7. NamesResolve(t) => NamesResolve(u)
  BY <1>4, <1>5, <1>6
     DEF NamesResolve, rv_dict_check_routes, rv_dict_check_instruments, rv_dict_check_markers
<1>8. BrokenWindows(t) = {} => BrokenWindows(u) = {}
  <2> SUFFICES ASSUME BrokenWindows(t) = {}, NEW i \in BrokenWindows(u) PROVE FALSE
    OBVIOUS
  <2>1. i \in DOMAIN u.windows
    BY DEF BrokenWindows
  <2>2. PICK j \in DOMAIN t.windows : u.windows[i] = t.windows[j]
    BY <1>2, <2>1
  <2>3. j \in BrokenWindows(t)
    BY <1>3, <1>4, <1>5, <2>2 DEF BrokenWindows
  <2> QED BY <2>3
<1>9. BrokenMarks(t) = {} => BrokenMarks(u) = {}
  BY <1>3, <1>6 DEF BrokenMarks
<1>10. BrokenWaves(t) = {} => BrokenWaves(u) = {}
  <2> SUFFICES ASSUME BrokenWaves(t) = {}, NEW i \in BrokenWaves(u) PROVE FALSE
    OBVIOUS
  <2>1. i \in DOMAIN t.waves /\ u.waves[i].window # 0 /\ FindWindow(u, u.waves[i].window) = 0
    BY DEF BrokenWaves, Mended
  <2>2. u.waves[i] = FillWindow(t.waves[i], u.windows) /\ Len(u.windows) = Len(t.windows)
    BY <2>1 DEF Mended
  <2>3. Len(u.windows) = 1 => u.windows[1] = t.windows[1]
    <3>1. ASSUME Len(u.windows) = 1 PROVE u.windows[1] = t.windows[1]
      <4>1. DOMAIN u.windows = 1 .. 1 /\ DOMAIN t.windows = 1 .. 1
        <5>1. DOMAIN u.windows = 1 .. Len(u.windows) /\ DOMAIN t.windows = 1 .. Len(t.windows)
          BY <1>1, LenProperties
        <5> QED BY <2>2, <3>1, <5>1
      <4>2. 1 .. 1 = {1}
        OBVIOUS
      <4> QED BY <1>2, <4>1, <4>2
    <3> QED BY <3>1
  <2>4. FillWindow(t.waves[i], u.windows) = FillWindow(t.waves[i], t.windows)
    BY <2>2, <2>3 DEF FillWindow
  <2>5. u.waves[i] = t.waves[i]
    BY <2>1, <2>2, <2>4 DEF Filled
  <2>6. i \in BrokenWaves(t)
    BY <1>3, <2>1, <2>5 DEF BrokenWaves
  <2> QED BY <2>6
<1>11. BrokenLinks(t) = {} => BrokenLinks(u) = {}
  <2> SUFFICES ASSUME BrokenLinks(t) = {}, NEW i \in BrokenLinks(u) PROVE FALSE
    OBVIOUS
  <2>1. i \in DOMAIN u.links
    BY DEF BrokenLinks
  <2>2. PICK j \in Attached(t) : u.links[i] = t.links[j]
    BY <2>1 DEF Mended, Selects
  <2>3. j \in BrokenLinks(t)
    BY <1>3, <1>5, <2>2 DEF BrokenLinks, Attached
  <2> QED BY <2>3
<1> QED BY <1>7, <1>8, <1>9, <1>10, <1>11 DEF rv_xref_validate

(* No check fails after a repair that did not fail before.                 *)
LEMMA MendedHelps ==
  ASSUME NEW t \in Parsed, Filled(t), NEW u, Mended(t, u), NEW f
  PROVE  Failures(f, u, 1) \subseteq Failures(f, t, 1) \ {"summ"}
<1>1. /\ t.windows \in Seq(WindowRec) /\ t.marks \in Seq(MarkRec) /\ t.waves \in Seq(WaveRec)
      /\ u.windows \in Seq(WindowRec) /\ u.routes = t.routes
  BY DEF Mended, Parsed
<1>2. rv_validate_summ_counts(u)
  <2> DEFINE s == RecoverSumm(u)
  <2>1. /\ s.routes = Len(u.routes) /\ s.windows = Len(u.windows) /\ s.marks = Len(u.marks)
        /\ s.waves = Len(u.waves) /\ s.names = Len(u.names)
    BY DEF RecoverSumm, Counts
  <2>2. u.summ = s
    BY DEF Mended
  <2> HIDE DEF s
  <2> QED BY <2>1, <2>2 DEF rv_validate_summ_counts
<1>3. rv_validate_physical_ranges(t) => rv_validate_physical_ranges(u)
  <2> SUFFICES ASSUME rv_validate_physical_ranges(t) PROVE rv_validate_physical_ranges(u)
    OBVIOUS
  <2>1. /\ \A i \in DOMAIN t.routes : t.routes[i].ok
        /\ \A i \in DOMAIN t.waves : t.waves[i].ok
        /\ \A i \in DOMAIN t.marks : t.marks[i].ok
    BY DEF rv_validate_physical_ranges
  <2>2. \A i \in DOMAIN u.routes : u.routes[i].ok
    BY <1>1 DEF rv_validate_physical_ranges
  <2>3. \A i \in DOMAIN u.windows : u.windows[i].ok
    <3>1. \A j \in DOMAIN t.windows : t.windows[j].ok
      BY DEF rv_validate_physical_ranges
    <3> QED BY <3>1, MendedKeepsIds
  <2>4. \A i \in DOMAIN u.waves : u.waves[i].ok
    <3> SUFFICES ASSUME NEW i \in DOMAIN t.waves PROVE u.waves[i].ok
      BY DEF Mended
    <3>1. t.waves[i] \in WaveRec /\ u.waves[i] = FillWindow(t.waves[i], u.windows)
      BY <1>1 DEF Mended
    <3>2. u.waves[i].ok = t.waves[i].ok
      BY <1>1, <3>1, FillIs
    <3> QED BY <2>1, <3>2
  <2>5. \A i \in DOMAIN u.marks : u.marks[i].ok
    <3> SUFFICES ASSUME NEW i \in DOMAIN t.marks PROVE u.marks[i].ok
      BY DEF Mended
    <3>1. t.marks[i] \in MarkRec /\ u.marks[i] = ClampSeverity(t.marks[i])
      BY <1>1 DEF Mended
    <3>2. u.marks[i].ok = t.marks[i].ok
      BY <3>1, ClampIs
    <3> QED BY <2>1, <3>2
  <2> QED BY <2>2, <2>3, <2>4, <2>5 DEF rv_validate_physical_ranges
<1>4. (NamesResolve(t) => NamesResolve(u)) /\ (rv_xref_validate(t) => rv_xref_validate(u))
  BY MendedResolves
<1> QED BY <1>2, <1>3, <1>4 DEF Failures

(* A second repair changes nothing.                                        *)
LEMMA MendedIsDone ==
  ASSUME NEW t \in Parsed, NEW u, Mended(t, u), Within(u)
  PROVE  Repair(u) = u
<1> DEFINE normal == Normalize(u)
           v == Repair(u)
<1>1. /\ u \in Parsed /\ normal \in Parsed
      /\ normal.names = u.names /\ normal.routes = u.routes /\ normal.insts = u.insts
      /\ normal.calibs = u.calibs /\ normal.links = u.links /\ normal.notes = u.notes
      /\ normal.summ = u.summ /\ normal.windows = SortWindows(u.windows)
      /\ normal.marks = [i \in DOMAIN u.marks |-> ClampSeverity(u.marks[i])]
      /\ normal.waves = [i \in DOMAIN u.waves |-> FillWindow(u.waves[i], normal.windows)]
  <2>1. u \in Parsed
    BY DEF Mended
  <2> QED BY <2>1, NormalFields
<1>2. /\ v.routes = normal.routes /\ v.windows = normal.windows /\ v.marks = normal.marks
      /\ v.waves = normal.waves /\ v.names = normal.names
      /\ v.links = CompactLinks(normal) /\ v.summ = RecoverSumm(v)
      /\ v = [normal EXCEPT !.links = v.links, !.summ = v.summ]
  BY <1>1, RepairFields, Zenon
<1> HIDE DEF normal, v
<1>3. /\ t.marks \in Seq(MarkRec) /\ t.waves \in Seq(WaveRec)
      /\ u.windows \in Seq(WindowRec) /\ u.marks \in Seq(MarkRec) /\ u.waves \in Seq(WaveRec)
      /\ u.links \in Seq(LinkRec)
  BY <1>1 DEF Parsed
<1>4. normal.windows = u.windows
  BY <1>1, <1>3, SortWindowsSorts DEF Mended
<1>5. normal.marks = u.marks
  <2>1. \A i \in DOMAIN u.marks : ClampSeverity(u.marks[i]) = u.marks[i]
    <3> TAKE i \in DOMAIN u.marks
    <3>1. i \in DOMAIN t.marks /\ u.marks[i] = ClampSeverity(t.marks[i])
      BY DEF Mended
    <3>2. t.marks[i] \in MarkRec
      BY <1>3, <3>1
    <3> QED BY <3>1, <3>2, ClampIs
  <2>2. normal.marks = [i \in DOMAIN u.marks |-> u.marks[i]]
    BY <1>1, <2>1
  <2>3. u.marks = [i \in DOMAIN u.marks |-> u.marks[i]]
    BY <1>3
  <2> QED BY <2>2, <2>3
<1>6. normal.waves = u.waves
  <2>1. \A i \in DOMAIN u.waves : FillWindow(u.waves[i], normal.windows) = u.waves[i]
    <3> TAKE i \in DOMAIN u.waves
    <3>1. i \in DOMAIN t.waves /\ u.waves[i] = FillWindow(t.waves[i], u.windows)
      BY DEF Mended
    <3>2. t.waves[i] \in WaveRec
      BY <1>3, <3>1
    <3> QED BY <1>3, <1>4, <3>1, <3>2, FillIs
  <2>2. normal.waves = [i \in DOMAIN u.waves |-> u.waves[i]]
    BY <1>1, <2>1
  <2>3. u.waves = [i \in DOMAIN u.waves |-> u.waves[i]]
    BY <1>3
  <2> QED BY <2>2, <2>3
<1>7. CompactLinks(normal) = u.links
  <2>1. Ids(u.marks) = Ids(t.marks)
    BY MendedKeepsIds
  <2>2. Attached(normal) = DOMAIN normal.links
    <3> SUFFICES ASSUME NEW i \in DOMAIN u.links PROVE i \in Attached(normal)
      BY <1>1 DEF Attached
    <3>1. PICK j \in Attached(t) : u.links[i] = t.links[j]
      BY DEF Mended, Selects
    <3> QED BY <1>1, <1>5, <2>1, <3>1 DEF Attached
  <2> QED BY <1>1, <1>3, <2>2, CompactLinksSelects
<1>8. v.summ = u.summ
  <2>1. u.summ = RecoverSumm(u)
    BY DEF Mended
  <2>2. RecoverSumm(v) = RecoverSumm(u)
    BY <1>1, <1>2, <1>4, <1>5, <1>6 DEF RecoverSumm, Counts
  <2> QED BY <1>2, <2>1, <2>2
<1>9. normal = u
  <2> DEFINE rec(t1) == [names |-> t1.names, routes |-> t1.routes, insts |-> t1.insts,
                         calibs |-> t1.calibs, windows |-> t1.windows, waves |-> t1.waves,
                         marks |-> t1.marks, links |-> t1.links, notes |-> t1.notes,
                         summ |-> t1.summ]
  <2>1. ASSUME NEW t1 \in Parsed PROVE t1 = rec(t1)
    BY DEF Parsed
  <2>2. rec(normal) = rec(u)
    BY <1>1, <1>4, <1>5, <1>6
  <2>3. normal = rec(normal) /\ u = rec(u)
    BY <1>1, <2>1
  <2> HIDE DEF rec
  <2> QED BY <2>2, <2>3
<1>10. v = [u EXCEPT !.links = u.links, !.summ = u.summ]
  BY <1>2, <1>7, <1>8, <1>9
<1>11. v = u
  BY <1>1, <1>10 DEF Parsed
<1> QED BY <1>11 DEF v

(* A repair makes no check fail that did not fail before; it keeps every   *)
(* link but those from markers that are missing, in order; and a second    *)
(* repair changes nothing (rv_package_repair, rv_package_validate).        *)
THEOREM RepairIsSafe == Spec => RepairOnlyHelps
<1> DEFINE Helped(old, new) ==
             /\ Failures(new.image, new.tables, 1)
                  \subseteq Failures(old.image, old.tables, 1) \ {"summ"}
             /\ Selects(new.tables.links, old.tables.links, Attached(old.tables))
             /\ Repair(new.tables) = new.tables
           A == reply'.call = "repair" => Helped(package[reply'.side], package'[reply'.side])
<1>1. ASSUME IInv, NEW s \in Side, rv_package_repair(s)
      PROVE  Helped(package[reply'.side], package'[reply'.side])
  <2> DEFINE t == package[s].tables
             u == Repair(t)
  <2>1. t \in Parsed /\ Within(t) /\ Filled(t) /\ DOMAIN package = Side
    BY <1>1 DEF IInv, PackageIsSound, rv_package_repair
  <2>2. reply'.side = s /\ package' = [package EXCEPT ![s].tables = Repair(@)]
    BY <1>1 DEF rv_package_repair, Returns
  <2>3. DOMAIN package[s] = {"image", "tables", "allow"}
    BY <1>1 DEF IInv, PackageIsSound, rv_package_repair
  <2>4. package'[s].tables = u /\ package'[s].image = package[s].image
    BY <2>1, <2>2, <2>3
  <2>5. Mended(t, u) /\ Within(u)
    BY <2>1, RepairMends, RepairKeeps
  <2> HIDE DEF u
  <2>6. Failures(package[s].image, u, 1) \subseteq Failures(package[s].image, t, 1) \ {"summ"}
    BY <2>1, <2>5, MendedHelps
  <2>7. Selects(u.links, t.links, Attached(t))
    BY <2>5 DEF Mended
  <2>8. Repair(u) = u
    BY <2>1, <2>5, MendedIsDone
  <2> QED BY <2>2, <2>4, <2>6, <2>7, <2>8
<1>2. ASSUME NEW s \in Side
      PROVE  /\ rv_package_open(s) => reply'.call = "open"
             /\ rv_package_reset(s) => reply'.call = "reset"
             /\ \A strictness \in {0, 1} :
                  rv_package_validate(s, strictness) => reply'.call = "validate"
  BY DEF rv_package_open, rv_package_reset, rv_package_validate, Returns
<1>3. IInv /\ [Next]_vars => [A]_vars
  <2> HIDE DEF IInv, Helped
  <2>1. ASSUME IInv, NEW s \in Side, rv_package_repair(s)
        PROVE  A
    BY <1>1, <2>1
  <2>2. (reply'.call # "repair") => A
    OBVIOUS
  <2> HIDE DEF A
  <2> QED BY <2>1, <2>2, <1>2, RepliesTell
<1> HIDE DEF A
<1>4. Spec => [][A]_vars
  BY <1>3, Invariance, PTL DEF Spec
<1> QED BY <1>4, PTL DEF A, Helped, RepairOnlyHelps
-----------------------------------------------------------------------------
(***************************************************************************)
(* The lookups of a merge that succeeded.                                  *)
(***************************************************************************)

(* Quotient and remainder.                                                 *)
LEMMA Division ==
  ASSUME NEW m \in Nat, m > 0, NEW x \in Nat
  PROVE  x \div m \in Int /\ x % m \in Int /\ x = m * (x \div m) + (x % m)
<1>1. x \div m \in Int
  OBVIOUS
<1>2. x % m \in Int
  OBVIOUS
<1>3. x = m * (x \div m) + (x % m)
  OBVIOUS
<1> QED BY <1>1, <1>2, <1>3

(* A bias maps different ids to different ids.                             *)
LEMMA BiasedIsInjective ==
  ASSUME NEW a \in Id, NEW b \in Id, NEW bias \in Nat, Biased(a, bias) = Biased(b, bias)
  PROVE  a = b
<1> DEFINE M == IdMod
           x == a + bias
           y == b + bias
           p == x \div M
           q == y \div M
           r == x % M
<1>1. M \in Nat /\ M > 0 /\ a \in Nat /\ b \in Nat /\ a < M /\ b < M /\ x \in Nat /\ y \in Nat
  BY WidthAssumption
<1>2. r = y % M
  BY DEF Biased
<1> HIDE DEF M, x, y
<1>3. /\ p \in Int /\ q \in Int /\ r \in Int
      /\ x = M * p + r /\ y = M * q + r
  BY <1>1, <1>2, Division
<1> HIDE DEF p, q, r
<1>4. a - b = M * (p - q)
  <2>1. a - b = x - y
    BY <1>1 DEF x, y
  <2> QED BY <1>1, <1>3, <2>1
<1>5. p = q
  <2> DEFINE prod == M * (p - q)
             d == p - q
  <2>1. d >= 1 => prod >= M
    BY <1>1, <1>3
  <2>2. d <= -1 => prod <= -M
    BY <1>1, <1>3
  <2>3. a - b = prod /\ prod \in Int /\ d \in Int
    BY <1>1, <1>3, <1>4
  <2> HIDE DEF prod
  <2>4. d = 0
    BY <1>1, <2>1, <2>2, <2>3
  <2> QED BY <1>3, <2>4
<1>6. x = y
  BY <1>2, <1>3, <1>5
<1> QED BY <1>1, <1>6 DEF x, y

(* An id that is not biased stays.                                         *)
LEMMA LeftIdStays == ASSUME NEW id \in Id PROVE Biased(id, 0) = id
BY WidthAssumption DEF Biased

(* The name of a row is the same in a builder with more names.             *)
LEMMA LikeStays ==
  ASSUME NEW table, NEW t, NEW r, NEW names, NEW more, NEW s, NEW bias, Begins(names, more),
         Like(table, t, r, names, s, bias)
  PROVE  Like(table, t, r, more, s, bias)
<1>1. \A id, new : SameName(t, id, names, new) => SameName(t, id, more, new)
  BY DEF SameName, Begins
<1> QED BY <1>1 DEF Like

(* Rows with ids.                                                          *)
Numbered(S) == \A s \in S : s.id \in Id

(* The rows of a side are in a builder, off positions further, and no      *)
(* other rows have their ids.                                              *)
Embedded(S, table, t, bias, off, rows, names) ==
  /\ Numbered(S) /\ t[table] \in Seq(S) /\ rows \in Seq(S) /\ bias \in Nat /\ off \in Nat
  /\ \A i \in DOMAIN t[table] :
       off + i \in DOMAIN rows /\ Like(table, t, t[table][i], names, rows[off + i], bias)
  /\ \A j \in DOMAIN rows : rows[j].id \in {Biased(id, bias) : id \in Ids(t[table])} =>
       \E i \in DOMAIN t[table] : j = off + i

(* Both sides have their place.                                            *)
LEMMA BothEmbedded ==
  ASSUME NEW S, NEW table, NEW left, NEW right, left[table] \in Seq(S), right[table] \in Seq(S),
         Numbered(S), NEW bias \in Nat, NEW first \in Seq(S), NEW rows \in Seq(S),
         NEW names, NEW more, Begins(names, more),
         Copied(table, left, 0, << >>, first, names, Len(left[table])),
         Copied(table, right, bias, first, rows, more, Len(right[table])),
         Ids(left[table]) \cap {Biased(id, bias) : id \in Ids(right[table])} = {}
  PROVE  /\ Embedded(S, table, left, 0, 0, rows, more)
         /\ Embedded(S, table, right, bias, Len(left[table]), rows, more)
<1> DEFINE l == left[table]
           r == right[table]
<1>1. /\ Len(l) \in Nat /\ Len(r) \in Nat /\ DOMAIN l = 1 .. Len(l) /\ DOMAIN r = 1 .. Len(r)
      /\ DOMAIN rows = 1 .. Len(rows) /\ DOMAIN first = 1 .. Len(first)
      /\ l \in Seq(S) /\ r \in Seq(S)
  OBVIOUS
<1>2. /\ Len(first) = Len(l)
      /\ \A i \in 1 .. Len(l) : Like(table, left, l[i], names, first[i], 0)
  BY DEF Copied
<1>3. /\ Len(rows) = Len(l) + Len(r)
      /\ \A i \in 1 .. Len(l) : rows[i] = first[i]
      /\ \A i \in 1 .. Len(r) : Like(table, right, r[i], more, rows[Len(l) + i], bias)
  BY <1>2 DEF Copied
<1> HIDE DEF l, r
<1>4. \A i \in 1 .. Len(l) : Like(table, left, l[i], more, rows[i], 0)
  BY <1>2, <1>3, LikeStays
<1>5. \A i \in 1 .. Len(l) : rows[i].id \in Ids(l) /\ rows[i].id = l[i].id
  <2> TAKE i \in 1 .. Len(l)
  <2>1. l[i].id \in Id
    BY <1>1 DEF Numbered
  <2>2. rows[i].id = Biased(l[i].id, 0)
    BY <1>4 DEF Like
  <2>3. rows[i].id = l[i].id
    BY <2>1, <2>2, LeftIdStays
  <2> QED BY <1>1, <2>3 DEF Ids
<1>6. \A i \in 1 .. Len(r) : rows[Len(l) + i].id \in {Biased(id, bias) : id \in Ids(r)}
  <2> TAKE i \in 1 .. Len(r)
  <2>1. rows[Len(l) + i].id = Biased(r[i].id, bias)
    BY <1>3 DEF Like
  <2> QED BY <1>1, <2>1 DEF Ids
<1>7. \A j \in DOMAIN rows : j \in 1 .. Len(l) \/ \E i \in 1 .. Len(r) : j = Len(l) + i
  <2> TAKE j \in DOMAIN rows
  <2>1. CASE j > Len(l)
    <3>1. j - Len(l) \in 1 .. Len(r) /\ j = Len(l) + (j - Len(l))
      BY <1>1, <1>3, <2>1
    <3> QED BY <3>1
  <2> QED BY <1>1, <2>1
<1>8. {Biased(id, 0) : id \in Ids(l)} = Ids(l)
  <2>1. \A id \in Ids(l) : Biased(id, 0) = id
    BY <1>1, LeftIdStays DEF Ids, Numbered
  <2> QED BY <2>1
<1>9. Ids(l) \cap {Biased(id, bias) : id \in Ids(r)} = {}
  BY DEF l, r
<1>10. Embedded(S, table, left, 0, 0, rows, more)
  <2>1. \A i \in DOMAIN l : 0 + i = i /\ i \in DOMAIN rows
    BY <1>1, <1>3
  <2>2. \A i \in DOMAIN l : 0 + i \in DOMAIN rows /\ Like(table, left, l[i], more, rows[0 + i], 0)
    BY <1>1, <1>4, <2>1
  <2>3. \A j \in DOMAIN rows : rows[j].id \in Ids(l) => \E i \in DOMAIN l : j = 0 + i
    BY <1>1, <1>6, <1>7, <1>9, <2>1
  <2> QED BY <1>8, <2>2, <2>3 DEF Embedded, l
<1>11. Embedded(S, table, right, bias, Len(l), rows, more)
  <2>1. \A i \in DOMAIN r : Len(l) + i \in DOMAIN rows
    BY <1>1, <1>3
  <2>2. \A i \in DOMAIN r : /\ Len(l) + i \in DOMAIN rows
                            /\ Like(table, right, r[i], more, rows[Len(l) + i], bias)
    BY <1>1, <1>3, <2>1
  <2>3. \A j \in DOMAIN rows : rows[j].id \in {Biased(id, bias) : id \in Ids(r)}
          => \E i \in DOMAIN r : j = Len(l) + i
    BY <1>1, <1>5, <1>7, <1>9
  <2> QED BY <2>2, <2>3 DEF Embedded, r
<1> QED BY <1>10, <1>11 DEF l

(* The waves of a side that have samples are in a builder, in order, and   *)
(* no other rows have their ids.                                           *)
WavesEmbedded(t, bias, rows) ==
  \E J \in SUBSET DOMAIN rows : \E at \in [J -> DOMAIN t.waves] :
    /\ \A i, j \in J : i < j => at[i] < at[j]
    /\ \A j \in J : IsImage(t.waves[at[j]], rows[j], bias)
    /\ \A i \in DOMAIN t.waves : t.waves[i].samples # 0 => \E j \in J : at[j] = i
    /\ \A j \in DOMAIN rows : rows[j].id \in {Biased(id, bias) : id \in Ids(t.waves)} => j \in J

(* The waves of both sides have their place.                               *)
LEMMA BothWavesEmbedded ==
  ASSUME NEW left \in Parsed, NEW right \in Parsed, NEW bias \in Nat,
         NEW first \in Seq(WaveRec), NEW rows \in Seq(WaveRec),
         WavesLike(left, 0, << >>, first, Len(left.waves)),
         WavesLike(right, bias, first, rows, Len(right.waves)),
         Ids(left.waves) \cap {Biased(id, bias) : id \in Ids(right.waves)} = {}
  PROVE  WavesEmbedded(left, 0, rows) /\ WavesEmbedded(right, bias, rows)
<1> DEFINE n == Len(first)
           J == 1 .. n
           K == n + 1 .. Len(rows)
           moved == {Biased(id, bias) : id \in Ids(right.waves)}
<1>1. /\ left.waves \in Seq(WaveRec) /\ right.waves \in Seq(WaveRec)
      /\ DOMAIN left.waves = 1 .. Len(left.waves) /\ DOMAIN right.waves = 1 .. Len(right.waves)
      /\ n \in Nat /\ Len(rows) \in Nat /\ DOMAIN rows = 1 .. Len(rows)
  <2>1. left.waves \in Seq(WaveRec) /\ right.waves \in Seq(WaveRec)
    BY DEF Parsed
  <2> QED BY <2>1, LenProperties
<1>2. /\ n <= Len(rows) /\ \A i \in J : rows[i] = first[i]
      /\ J \subseteq DOMAIN rows /\ K \subseteq DOMAIN rows /\ DOMAIN rows = J \cup K
  <2>1. n <= Len(rows) /\ \A i \in J : rows[i] = first[i]
    BY DEF WavesLike
  <2> QED BY <1>1, <2>1
<1>3. PICK at \in [J -> DOMAIN left.waves] :
        /\ \A i, j \in J : i < j => at[i] < at[j]
        /\ \A j \in J : IsImage(left.waves[at[j]], first[j], 0)
        /\ \A i \in DOMAIN left.waves : left.waves[i].samples # 0 => \E j \in J : at[j] = i
  <2>1. Len(<< >>) + 1 .. Len(first) = J /\ DOMAIN left.waves = 1 .. Len(left.waves)
    BY <1>1
  <2> DEFINE I == Len(<< >>) + 1 .. Len(first)
  <2>2. \E at \in [I -> 1 .. Len(left.waves)] :
          /\ \A i, j \in I : i < j => at[i] < at[j]
          /\ \A j \in I : IsImage(left.waves[at[j]], first[j], 0)
          /\ \A i \in 1 .. Len(left.waves) : left.waves[i].samples # 0 => \E j \in I : at[j] = i
    BY Zenon DEF WavesLike
  <2>3. I = J
    BY <2>1
  <2> HIDE DEF I, J, n
  <2>4. PICK at \in [I -> 1 .. Len(left.waves)] :
          /\ \A i, j \in I : i < j => at[i] < at[j]
          /\ \A j \in I : IsImage(left.waves[at[j]], first[j], 0)
          /\ \A i \in 1 .. Len(left.waves) : left.waves[i].samples # 0 => \E j \in I : at[j] = i
    BY <2>2
  <2>5. /\ at \in [J -> DOMAIN left.waves] /\ \A i, j \in J : i < j => at[i] < at[j]
        /\ \A j \in J : IsImage(left.waves[at[j]], first[j], 0)
    BY <2>1, <2>3, <2>4
  <2>6. \A i \in DOMAIN left.waves : left.waves[i].samples # 0 => \E j \in J : at[j] = i
    BY <2>1, <2>3, <2>4
  <2> QED BY <2>5, <2>6
<1>4. PICK to \in [K -> DOMAIN right.waves] :
        /\ \A i, j \in K : i < j => to[i] < to[j]
        /\ \A j \in K : IsImage(right.waves[to[j]], rows[j], bias)
        /\ \A i \in DOMAIN right.waves : right.waves[i].samples # 0 => \E j \in K : to[j] = i
  <2>1. \E to \in [K -> 1 .. Len(right.waves)] :
          /\ \A i, j \in K : i < j => to[i] < to[j]
          /\ \A j \in K : IsImage(right.waves[to[j]], rows[j], bias)
          /\ \A i \in 1 .. Len(right.waves) : right.waves[i].samples # 0 => \E j \in K : to[j] = i
    BY Zenon DEF WavesLike
  <2>2. DOMAIN right.waves = 1 .. Len(right.waves)
    BY <1>1
  <2> HIDE DEF J, K, n
  <2> QED BY <2>1, <2>2, Zenon
<1> HIDE DEF n, J, K
<1>5. \A j \in J : rows[j].id \in Ids(left.waves)
  <2> TAKE j \in J
  <2>1. at[j] \in DOMAIN left.waves
    BY <1>3
  <2>2. left.waves[at[j]] \in WaveRec
    BY <1>1, <2>1
  <2>3. rows[j].id = Biased(left.waves[at[j]].id, 0) /\ left.waves[at[j]].id \in Id
    BY <1>2, <1>3, <2>2 DEF IsImage, WaveRec
  <2>4. rows[j].id = left.waves[at[j]].id
    BY <2>3, LeftIdStays
  <2> QED BY <2>1, <2>4 DEF Ids
<1>6. \A j \in K : rows[j].id \in moved
  <2> TAKE j \in K
  <2>1. to[j] \in DOMAIN right.waves /\ rows[j].id = Biased(right.waves[to[j]].id, bias)
    BY <1>4 DEF IsImage
  <2> QED BY <2>1 DEF Ids
<1>7. {Biased(id, 0) : id \in Ids(left.waves)} = Ids(left.waves)
  <2>1. \A i \in DOMAIN left.waves : left.waves[i] \in WaveRec
    BY <1>1
  <2>2. \A id \in Ids(left.waves) : id \in Id
    BY <2>1 DEF Ids, WaveRec
  <2>3. \A id \in Ids(left.waves) : Biased(id, 0) = id
    BY <2>2, LeftIdStays
  <2> QED BY <2>3
<1>8. \A j \in J : IsImage(left.waves[at[j]], rows[j], 0)
  BY <1>2, <1>3
<1>9. \A j \in DOMAIN rows : rows[j].id \in Ids(left.waves) => j \in J
  BY <1>2, <1>6
<1>10. \A j \in DOMAIN rows : rows[j].id \in moved => j \in K
  BY <1>2, <1>5
<1>11. WavesEmbedded(left, 0, rows)
  BY <1>2, <1>3, <1>7, <1>8, <1>9, Zenon DEF WavesEmbedded
<1>12. WavesEmbedded(right, bias, rows)
  BY <1>2, <1>4, <1>10, Zenon DEF WavesEmbedded
<1> QED BY <1>11, <1>12

(* A row with an id is found where the side has it, off positions further, *)
(* ...                                                                     *)
LEMMA RowsMove ==
  ASSUME NEW S, NEW table, NEW t, NEW bias, NEW off, NEW rows, NEW names,
         Embedded(S, table, t, bias, off, rows, names)
  PROVE  \A id \in Ids(t[table]) : RowsOf(rows, Biased(id, bias)) = {off + i : i \in RowsOf(t[table], id)}
<1> TAKE id \in Ids(t[table])
<1> DEFINE old == t[table]
           found == RowsOf(rows, Biased(id, bias))
           moved == {off + i : i \in RowsOf(old, id)}
<1>1. bias \in Nat /\ \A i \in DOMAIN old : old[i].id \in Id
  BY DEF Embedded, Numbered
<1>2. id \in Id
  BY <1>1 DEF Ids
<1>3. \A i \in DOMAIN old : /\ off + i \in DOMAIN rows
                            /\ rows[off + i].id = Biased(old[i].id, bias)
  BY DEF Embedded, Like
<1>4. ASSUME NEW j \in found PROVE j \in moved
  <2>1. j \in DOMAIN rows /\ rows[j].id = Biased(id, bias)
    BY DEF RowsOf
  <2>2. PICK i \in DOMAIN old : j = off + i
    BY <2>1 DEF Embedded
  <2>3. Biased(old[i].id, bias) = Biased(id, bias)
    BY <1>3, <2>1, <2>2
  <2>4. old[i].id = id
    BY <1>1, <1>2, <2>3, BiasedIsInjective
  <2> QED BY <2>2, <2>4 DEF RowsOf
<1>5. ASSUME NEW i \in RowsOf(old, id) PROVE off + i \in found
  BY <1>3 DEF RowsOf
<1> QED BY <1>4, <1>5

(* ... by a scan, ...                                                      *)
LEMMA ScanMoves ==
  ASSUME NEW S, NEW table, NEW t, NEW bias, NEW off, NEW rows, NEW names,
         Embedded(S, table, t, bias, off, rows, names),
         NEW id \in Ids(t[table])
  PROVE  /\ RowsOf(rows, Biased(id, bias)) # {}
         /\ Min(RowsOf(rows, Biased(id, bias))) = off + Min(RowsOf(t[table], id))
         /\ Min(RowsOf(t[table], id)) \in DOMAIN t[table]
<1> DEFINE found == RowsOf(rows, Biased(id, bias))
           old == RowsOf(t[table], id)
<1>0. off \in Nat /\ t[table] \in Seq(S) /\ rows \in Seq(S)
  BY DEF Embedded
<1>1. found = {off + i : i \in old}
  <2>1. id \in Ids(t[table])
    OBVIOUS
  <2> QED BY <2>1, RowsMove
<1>2. old # {} /\ old \subseteq DOMAIN t[table] /\ old \in SUBSET Nat
  <2>1. old # {} /\ old \subseteq DOMAIN t[table]
    BY DEF RowsOf, Ids
  <2>2. DOMAIN t[table] \subseteq Nat
    BY <1>0
  <2> QED BY <2>1, <2>2
<1> HIDE DEF found, old
<1>3. found # {} /\ found \in SUBSET Nat
  <2>1. \A i \in old : off + i \in Nat
    BY <1>0, <1>2
  <2> QED BY <1>1, <1>2, <2>1
<1>4. Min(old) \in old /\ \A i \in old : Min(old) <= i
  BY <1>2, MinIsMember
<1>5. Min(found) \in found /\ \A j \in found : Min(found) <= j
  BY <1>3, MinIsMember
<1>6. PICK i \in old : Min(found) = off + i
  BY <1>1, <1>5
<1>7. off + Min(old) \in found
  BY <1>1, <1>4
<1>8. Min(found) = off + Min(old)
  <2>1. Min(found) <= off + Min(old) /\ Min(old) <= i /\ i \in Nat /\ Min(old) \in Nat
    BY <1>2, <1>4, <1>5, <1>6, <1>7
  <2> HIDE DEF found
  <2> QED BY <1>0, <1>6, <2>1
<1> QED BY <1>2, <1>3, <1>4, <1>8 DEF found, old

(* A cell of a map holds the last row with the id.                         *)
LEMMA CellIsLast ==
  ASSUME NEW S, NEW table \in Seq(S), NEW id, id \notin Unmapped, RowsOf(table, id) # {}
  PROVE  /\ MapCell(table, id) \in RowsOf(table, id)
         /\ \A j \in RowsOf(table, id) : j <= MapCell(table, id)
<1> DEFINE found == RowsOf(table, id)
           n == Len(table)
<1>1. MapCell(table, id) = CHOOSE i \in found : \A j \in found : j <= i
  BY DEF MapCell
<1>2. n \in Nat /\ found \in SUBSET (0 .. n)
  <2>1. n \in Nat /\ DOMAIN table = 1 .. n
    BY LenProperties
  <2> QED BY <2>1 DEF RowsOf
<1>3. \E i \in found : \A j \in found : j <= i
  <2> HIDE DEF found, n
  <2> QED BY <1>1, <1>2, MaxIsMember DEF found
<1> HIDE DEF found
<1>4. MapCell(table, id) \in found /\ \A j \in found : j <= MapCell(table, id)
  BY <1>1, <1>3
<1> QED BY <1>4 DEF found

(* ... and in the index, unless its id has become one that no map holds.   *)
LEMMA CellMoves ==
  ASSUME NEW S, NEW table, NEW t, NEW bias, NEW off, NEW rows, NEW names,
         Embedded(S, table, t, bias, off, rows, names),
         NEW id, MapCell(t[table], id) # 0,
         \A other \in Ids(t[table]) \ Unmapped : Biased(other, bias) \notin Unmapped
  PROVE  /\ MapCell(rows, Biased(id, bias)) = off + MapCell(t[table], id)
         /\ MapCell(t[table], id) \in DOMAIN t[table]
         /\ MapCell(rows, Biased(id, bias)) # 0
<1> DEFINE found == RowsOf(rows, Biased(id, bias))
           old == RowsOf(t[table], id)
           k == MapCell(t[table], id)
           m == MapCell(rows, Biased(id, bias))
<1>0. off \in Nat /\ t[table] \in Seq(S) /\ rows \in Seq(S)
  BY DEF Embedded
<1>1. id \notin Unmapped /\ old # {}
  BY DEF MapCell
<1>2. id \in Ids(t[table]) /\ old \subseteq DOMAIN t[table]
  <2>1. old \subseteq DOMAIN t[table] /\ \A i \in old : t[table][i].id = id
    BY DEF RowsOf
  <2> QED BY <1>1, <2>1 DEF Ids
<1>3. Biased(id, bias) \notin Unmapped
  BY <1>1, <1>2
<1>4. found = {off + i : i \in old}
  BY <1>2, RowsMove
<1>5. k \in old /\ \A i \in old : i <= k
  BY <1>0, <1>1, CellIsLast
<1>6. found # {}
  BY <1>1, <1>4
<1>7. m \in found /\ \A j \in found : j <= m
  BY <1>0, <1>3, <1>6, CellIsLast
<1>8. DOMAIN t[table] \subseteq Nat \ {0}
  BY <1>0
<1> HIDE DEF found, old, k, m
<1>9. PICK i \in old : m = off + i
  BY <1>4, <1>7
<1>10. off + k \in found
  BY <1>4, <1>5
<1>11. k \in Nat \ {0} /\ i \in Nat /\ off + k <= m /\ i <= k
  BY <1>0, <1>2, <1>5, <1>7, <1>8, <1>9, <1>10
<1>12. m = off + k /\ m # 0
  BY <1>0, <1>9, <1>11
<1> QED BY <1>2, <1>5, <1>12 DEF k, m

(* A name that means the same shows the same string.                       *)
LEMMA NameIsSeen ==
  ASSUME NEW b \in Built, Interned(b), NEW t, NEW id, NEW new, SameName(t, id, b.names, new)
  PROVE  StringSeen(t, id) = StringSeen(b, new)
<1>1. b.names \in Seq(NameRec)
  BY DEF Built
<1>2. CASE FindName(t, id) = 0
  <2>1. new = 0
    BY <1>2 DEF SameName
  <2>2. \A i \in DOMAIN b.names : b.names[i] \in NameRec
    BY <1>1
  <2>3. RowsOf(b.names, 0) = {}
    BY <2>2 DEF RowsOf, NameRec
  <2>4. FindName(b, new) = 0
    BY <2>1, <2>3 DEF FindName
  <2> QED BY <1>2, <2>4 DEF StringSeen
<1>3. CASE FindName(t, id) # 0
  <2>1. PICK i \in DOMAIN b.names :
          b.names[i].id = new /\ b.names[i].str = t.names[FindName(t, id)].str
    BY <1>3 DEF SameName
  <2>2. RowsOf(b.names, new) = {i}
    BY <2>1 DEF RowsOf, Interned
  <2>3. Min({i}) = i /\ i # 0
    <3>1. i \in Nat \ {0}
      BY <1>1
    <3> HIDE DEF Min
    <3>2. Min({i}) \in {i}
      BY <3>1, MinIsMember
    <3> QED BY <3>1, <3>2
  <2>4. FindName(b, new) = i
    BY <2>2, <2>3 DEF FindName
  <2> QED BY <1>3, <2>1, <2>3, <2>4 DEF StringSeen
<1> QED BY <1>2, <1>3

(* No id of a side becomes one that no map holds.                          *)
NoneWraps(rows, bias) == \A id \in Ids(rows) \ Unmapped : Biased(id, bias) \notin Unmapped

(* Through a window of a side a builder shows the same route, ...          *)
LEMMA RouteIsSeen ==
  ASSUME NEW b \in Built, Interned(b), NEW t \in Parsed, NEW bias, NEW off,
         Embedded(RouteRec, "routes", t, bias, off, b.routes, b.names), NoneWraps(t.routes, bias),
         NEW id
  PROVE  RouteSeen(t, id) \in {None, RouteSeen(b, Biased(id, bias))}
<1> DEFINE k == FindRoute(t, id)
           m == FindRoute(b, Biased(id, bias))
<1> SUFFICES ASSUME k # 0 PROVE RouteSeen(t, id) = RouteSeen(b, Biased(id, bias))
  BY DEF RouteSeen
<1>1. t["routes"] = t.routes
  BY DEF Parsed
<1>2. m = off + k /\ k \in DOMAIN t.routes /\ m # 0
  BY <1>1, CellMoves DEF FindRoute, NoneWraps
<1> HIDE DEF k, m
<1>3. Like("routes", t, t.routes[k], b.names, b.routes[m], bias)
  BY <1>1, <1>2 DEF Embedded
<1>4. /\ SameName(t, t.routes[k].site, b.names, b.routes[m].site)
      /\ SameName(t, t.routes[k].far, b.names, b.routes[m].far)
  BY <1>3 DEF Like
<1>5. /\ StringSeen(t, t.routes[k].site) = StringSeen(b, b.routes[m].site)
      /\ StringSeen(t, t.routes[k].far) = StringSeen(b, b.routes[m].far)
  BY <1>4, NameIsSeen
<1> QED BY <1>2, <1>5 DEF RouteSeen, k, m

(* ... the same instrument ...                                             *)
LEMMA InstIsSeen ==
  ASSUME NEW b \in Built, Interned(b), NEW t \in Parsed, NEW bias, NEW off,
         Embedded(InstRec, "insts", t, bias, off, b.insts, b.names), NEW id
  PROVE  InstSeen(t, id) \in {None, InstSeen(b, Biased(id, bias))}
<1> DEFINE old == RowsOf(t.insts, id)
           found == RowsOf(b.insts, Biased(id, bias))
           k == Min(old)
           m == Min(found)
<1> SUFFICES ASSUME old # {} PROVE InstSeen(t, id) = InstSeen(b, Biased(id, bias))
  BY DEF InstSeen
<1>1. t["insts"] = t.insts
  BY DEF Parsed
<1>2. id \in Ids(t.insts)
  BY DEF RowsOf, Ids
<1>3. found # {} /\ m = off + k /\ k \in DOMAIN t.insts
  BY <1>1, <1>2, ScanMoves
<1> HIDE DEF k, m
<1>4. Like("insts", t, t.insts[k], b.names, b.insts[m], bias)
  BY <1>1, <1>3 DEF Embedded
<1>5. /\ SameName(t, t.insts[k].model, b.names, b.insts[m].model)
      /\ b.insts[m].wavelength = t.insts[k].wavelength
  BY <1>4 DEF Like
<1>6. StringSeen(t, t.insts[k].model) = StringSeen(b, b.insts[m].model)
  BY <1>5, NameIsSeen
<1> QED BY <1>3, <1>5, <1>6 DEF InstSeen, k, m

(* ... and the same samples, if there are any: the last wave with its id   *)
(* has its image behind those of the others.                               *)
LEMMA SamplesAreSeen ==
  ASSUME NEW b \in Built, NEW t \in Parsed, NEW bias \in Nat, WavesEmbedded(t, bias, b.waves),
         NoneWraps(t.waves, bias), NEW id
  PROVE  SamplesSeen(t, id) \in {None, <<0>>, SamplesSeen(b, Biased(id, bias))}
<1> DEFINE k == FindWave(t, id)
           new == Biased(id, bias)
           found == RowsOf(b.waves, new)
           m == FindWave(b, new)
<1>1. t.waves \in Seq(WaveRec) /\ b.waves \in Seq(WaveRec)
  BY DEF Parsed, Built
<1>2. CASE k = 0
  BY <1>2 DEF SamplesSeen
<1>3. CASE k # 0 /\ t.waves[k].samples = 0
  BY <1>3 DEF SamplesSeen
<1>4. CASE k # 0 /\ t.waves[k].samples # 0
  <2>1. id \notin Unmapped /\ RowsOf(t.waves, id) # {}
    BY <1>4 DEF FindWave, MapCell
  <2>2. k \in RowsOf(t.waves, id) /\ \A i \in RowsOf(t.waves, id) : i <= k
    BY <1>1, <2>1, CellIsLast DEF FindWave
  <2>3. k \in DOMAIN t.waves /\ t.waves[k].id = id /\ id \in Ids(t.waves) /\ id \in Id
    <3>1. k \in DOMAIN t.waves /\ t.waves[k].id = id
      BY <2>2 DEF RowsOf
    <3>2. t.waves[k] \in WaveRec
      BY <1>1, <3>1
    <3> QED BY <3>1, <3>2 DEF Ids, WaveRec
  <2> HIDE DEF k
  <2>4. new \notin Unmapped
    BY <2>1, <2>3 DEF NoneWraps
  <2>5. PICK J \in SUBSET DOMAIN b.waves : \E at \in [J -> DOMAIN t.waves] :
          /\ \A i, j \in J : i < j => at[i] < at[j]
          /\ \A j \in J : IsImage(t.waves[at[j]], b.waves[j], bias)
          /\ \A i \in DOMAIN t.waves : t.waves[i].samples # 0 => \E j \in J : at[j] = i
          /\ \A j \in DOMAIN b.waves :
               b.waves[j].id \in {Biased(x, bias) : x \in Ids(t.waves)} => j \in J
    BY DEF WavesEmbedded
  <2>6. PICK at \in [J -> DOMAIN t.waves] :
          /\ \A i, j \in J : i < j => at[i] < at[j]
          /\ \A j \in J : IsImage(t.waves[at[j]], b.waves[j], bias)
          /\ \A i \in DOMAIN t.waves : t.waves[i].samples # 0 => \E j \in J : at[j] = i
          /\ \A j \in DOMAIN b.waves :
               b.waves[j].id \in {Biased(x, bias) : x \in Ids(t.waves)} => j \in J
    BY <2>5
  <2>7. PICK j \in J : at[j] = k
    BY <1>4, <2>3, <2>6
  <2>8. b.waves[j].id = new /\ b.waves[j].samples = t.waves[k].samples /\ j \in found
    BY <2>3, <2>5, <2>6, <2>7 DEF IsImage, RowsOf
  <2>9. DOMAIN b.waves \subseteq Nat \ {0} /\ DOMAIN t.waves \subseteq Nat
    BY <1>1
  <2>10. ASSUME NEW x \in found PROVE x <= j
    <3>1. x \in DOMAIN b.waves /\ b.waves[x].id = new
      BY DEF RowsOf
    <3>2. x \in J
      BY <2>3, <2>6, <3>1
    <3>3. at[x] \in DOMAIN t.waves /\ b.waves[x].id = Biased(t.waves[at[x]].id, bias)
      BY <2>6, <3>2 DEF IsImage
    <3>4. t.waves[at[x]].id \in Id
      <4>1. t.waves[at[x]] \in WaveRec
        BY <1>1, <3>3
      <4> QED BY <4>1 DEF WaveRec
    <3>5. t.waves[at[x]].id = id
      BY <2>3, <3>1, <3>3, <3>4, BiasedIsInjective
    <3>6. at[x] <= k
      BY <2>2, <3>3, <3>5 DEF RowsOf
    <3>7. ~(k < at[x]) /\ x \in Nat /\ j \in Nat
      BY <2>3, <2>5, <2>9, <3>3, <3>2, <3>6
    <3> QED BY <2>6, <2>7, <3>2, <3>7
  <2>11. m \in found /\ \A x \in found : x <= m
    BY <1>1, <2>4, <2>8, CellIsLast DEF FindWave
  <2> HIDE DEF m
  <2>12. m = j /\ m # 0
    <3>1. m \in DOMAIN b.waves /\ j \in DOMAIN b.waves
      BY <2>11, <2>8 DEF RowsOf
    <3>2. m <= j /\ j <= m
      BY <2>8, <2>10, <2>11
    <3> QED BY <2>9, <3>1, <3>2
  <2>13. SamplesSeen(t, id) = <<t.waves[k].samples>> /\ SamplesSeen(b, new) = <<b.waves[m].samples>>
    BY <1>4, <2>12 DEF SamplesSeen, k, m
  <2> QED BY <2>8, <2>12, <2>13
<1> QED BY <1>2, <1>3, <1>4

(* So the markers of a side are kept.                                      *)
LEMMA SideIsKept ==
  ASSUME NEW b \in Built, Interned(b), NEW t \in Parsed, NEW bias,
         NEW o1, Embedded(RouteRec, "routes", t, bias, o1, b.routes, b.names), NoneWraps(t.routes, bias),
         NEW o2, Embedded(InstRec, "insts", t, bias, o2, b.insts, b.names),
         NEW o3, Embedded(WindowRec, "windows", t, bias, o3, b.windows, b.names),
         NoneWraps(t.windows, bias),
         WavesEmbedded(t, bias, b.waves), NoneWraps(t.waves, bias),
         \A i \in DOMAIN t.marks : t.marks[i].window \in Ids(t.windows) =>
           \E j \in DOMAIN b.marks : Like("marks", t, t.marks[i], b.names, b.marks[j], bias)
  PROVE  KeptIn(b, t, bias)
<1> SUFFICES ASSUME NEW i \in DOMAIN t.marks, FindWindow(t, t.marks[i].window) # 0
             PROVE  \E j \in DOMAIN b.marks :
                      /\ b.marks[j].id = Biased(t.marks[i].id, bias)
                      /\ \A what \in {"label", "route", "inst"} :
                           Seen(t, t.marks[i])[what] \in {None, Seen(b, b.marks[j])[what]}
                      /\ Seen(t, t.marks[i])["samples"]
                           \in {None, <<0>>, Seen(b, b.marks[j])["samples"]}
  BY DEF KeptIn
<1> DEFINE id == t.marks[i].window
           k == FindWindow(t, id)
           m == FindWindow(b, Biased(id, bias))
<1>1. t["windows"] = t.windows
  BY DEF Parsed
<1>2. m = o3 + k /\ k \in DOMAIN t.windows /\ m # 0 /\ k # 0
  BY <1>1, CellMoves DEF FindWindow, NoneWraps
<1>3. id \in Ids(t.windows)
  <2>1. MapCell(t.windows, id) # 0 /\ t.windows \in Seq(WindowRec)
    BY DEF FindWindow, Parsed
  <2>2. k \in DOMAIN t.windows /\ t.windows[k].id = id
    BY <2>1, CellIsRow DEF FindWindow
  <2> QED BY <2>2 DEF Ids
<1>4. PICK j \in DOMAIN b.marks : Like("marks", t, t.marks[i], b.names, b.marks[j], bias)
  BY <1>3
<1>5. /\ b.marks[j].id = Biased(t.marks[i].id, bias) /\ b.marks[j].window = Biased(id, bias)
      /\ SameName(t, t.marks[i].label, b.names, b.marks[j].label)
  BY <1>4 DEF Like
<1>6. StringSeen(t, t.marks[i].label) = StringSeen(b, b.marks[j].label)
  BY <1>5, NameIsSeen
<1> HIDE DEF k, m, id
<1>7. /\ b.windows[m].route = Biased(t.windows[k].route, bias)
      /\ b.windows[m].inst = Biased(t.windows[k].inst, bias)
      /\ b.windows[m].wave = Biased(t.windows[k].wave, bias)
  <2>1. Like("windows", t, t.windows[k], b.names, b.windows[m], bias)
    BY <1>1, <1>2 DEF Embedded
  <2> QED BY <2>1 DEF Like
<1>8. RouteSeen(t, t.windows[k].route) \in {None, RouteSeen(b, b.windows[m].route)}
  <2>1. \A x : RouteSeen(t, x) \in {None, RouteSeen(b, Biased(x, bias))}
    BY RouteIsSeen
  <2> QED BY <1>7, <2>1
<1>9. InstSeen(t, t.windows[k].inst) \in {None, InstSeen(b, b.windows[m].inst)}
  <2>1. \A x : InstSeen(t, x) \in {None, InstSeen(b, Biased(x, bias))}
    BY InstIsSeen
  <2> QED BY <1>7, <2>1
<1>10. SamplesSeen(t, t.windows[k].wave) \in {None, <<0>>, SamplesSeen(b, b.windows[m].wave)}
  <2>1. bias \in Nat
    BY DEF Embedded
  <2>2. \A x : SamplesSeen(t, x) \in {None, <<0>>, SamplesSeen(b, Biased(x, bias))}
    BY <2>1, SamplesAreSeen
  <2> QED BY <1>7, <2>2
<1>11. Seen(t, t.marks[i]) =
         [label |-> StringSeen(t, t.marks[i].label), route |-> RouteSeen(t, t.windows[k].route),
          inst |-> InstSeen(t, t.windows[k].inst), samples |-> SamplesSeen(t, t.windows[k].wave)]
  BY <1>2 DEF Seen, k, id
<1>12. Seen(b, b.marks[j]) =
         [label |-> StringSeen(b, b.marks[j].label), route |-> RouteSeen(b, b.windows[m].route),
          inst |-> InstSeen(b, b.windows[m].inst), samples |-> SamplesSeen(b, b.windows[m].wave)]
  BY <1>2, <1>5 DEF Seen, m, id
<1>13. /\ \A what \in {"label", "route", "inst"} :
            Seen(t, t.marks[i])[what] \in {None, Seen(b, b.marks[j])[what]}
       /\ Seen(t, t.marks[i])["samples"] \in {None, <<0>>, Seen(b, b.marks[j])["samples"]}
  <2>1. /\ Seen(t, t.marks[i])["label"] \in {None, Seen(b, b.marks[j])["label"]}
        /\ Seen(t, t.marks[i])["route"] \in {None, Seen(b, b.marks[j])["route"]}
        /\ Seen(t, t.marks[i])["inst"] \in {None, Seen(b, b.marks[j])["inst"]}
        /\ Seen(t, t.marks[i])["samples"] \in {None, <<0>>, Seen(b, b.marks[j])["samples"]}
    BY <1>6, <1>8, <1>9, <1>10, <1>11, <1>12
  <2> QED BY <2>1
<1> QED BY <1>5, <1>13

(* The rows of every table have ids.                                       *)
LEMMA RowsAreNumbered ==
  /\ Numbered(RouteRec) /\ Numbered(InstRec) /\ Numbered(WindowRec) /\ Numbered(WaveRec)
  /\ Numbered(MarkRec)
BY DEF Numbered, RouteRec, InstRec, WindowRec, WaveRec, MarkRec

(* Nothing wraps on the left side, which is not biased.                    *)
LEMMA LeftWrapsNothing ==
  ASSUME NEW S, Numbered(S), NEW rows \in Seq(S)
  PROVE  NoneWraps(rows, 0)
<1>1. \A id \in Ids(rows) : id \in Id
  BY DEF Ids, Numbered
<1> QED BY <1>1, LeftIdStays DEF NoneWraps

(* The ids of the sides stay apart in a table.                             *)
ApartIn(l, r, bias) ==
  Ids(l) \cap {Biased(id, bias) : id \in Ids(r)} = {} /\ NoneWraps(r, bias)

(* rv_merge_into_builder, when it succeeds, copies one side behind the     *)
(* other.                                                                  *)
LEMMA MergeCopies ==
  ASSUME NEW w \in Work, w.b = EmptyBuilder, NEW left \in Parsed, NEW right \in Parsed,
         NEW opt, NEW v, v = Merge(w, left, right, opt), v.ok
  PROVE  /\ v.b \in Built /\ Interned(v.b)
         /\ \E a \in Built : /\ SideCopied(left, 0, EmptyBuilder, a)
                             /\ SideCopied(right, RightBias(opt), a, v.b)
<1> DEFINE first == MergeSide(w, left, opt, 0)
           second == MergeSide(first, right, opt, RightBias(opt))
           bias == RightBias(opt)
<1>1. v = second
  BY DEF Merge
<1>2. bias \in Nat
  BY BiasAssumption DEF RightBias
<1>3. Interned(w.b)
  BY EmptyIs
<1>4. Keeps(w, first, RowTables) /\ (first.ok => SideCopied(left, 0, w.b, first.b))
  BY <1>3, MergeSideKeeps
<1> HIDE DEF first
<1>5. first \in Work /\ Interned(first.b)
  BY <1>4 DEF Keeps
<1>6. Keeps(first, v, RowTables) /\ SideCopied(right, bias, first.b, v.b)
  <2> HIDE DEF second, bias
  <2>1. \A u : u = second => Keeps(first, u, RowTables) /\ (u.ok => SideCopied(right, bias, first.b, u.b))
    BY <1>2, <1>5, MergeSideKeeps DEF second, bias
  <2> QED BY <1>1, <2>1
<1>7. SideCopied(left, 0, EmptyBuilder, first.b) /\ first.b \in Built /\ v.b \in Built /\ Interned(v.b)
  BY <1>4, <1>5, <1>6 DEF Keeps, Work
<1> QED BY <1>6, <1>7

(* ... and so keeps what both said.                                        *)
LEMMA MergeKeepsSides ==
  ASSUME NEW w \in Work, w.b = EmptyBuilder, NEW left \in Parsed, NEW right \in Parsed,
         NEW opt \in MergeOption, NEW v, v = Merge(w, left, right, opt), v.ok,
         ApartIn(left.routes, right.routes, RightBias(opt)),
         ApartIn(left.insts, right.insts, RightBias(opt)),
         ApartIn(left.windows, right.windows, RightBias(opt)),
         ApartIn(left.waves, right.waves, RightBias(opt))
  PROVE  KeptIn(v.b, left, 0) /\ KeptIn(v.b, right, RightBias(opt))
<1> DEFINE bias == RightBias(opt)
           b == v.b
<1>2. bias \in Nat
  BY BiasAssumption DEF RightBias
<1>5. PICK a \in Built : SideCopied(left, 0, EmptyBuilder, a) /\ SideCopied(right, RightBias(opt), a, v.b)
  BY MergeCopies
<1>6. v.b \in Built /\ Interned(v.b)
  BY MergeCopies
<1>7. SideCopied(left, 0, EmptyBuilder, a) /\ a \in Built /\ b \in Built /\ Interned(b)
  BY <1>5, <1>6
<1>8. SideCopied(right, bias, a, b)
  BY <1>5
<1>9. /\ EmptyBuilder.routes = << >> /\ EmptyBuilder.insts = << >> /\ EmptyBuilder.windows = << >>
      /\ EmptyBuilder.waves = << >>
  BY DEF EmptyBuilder
<1>10. Begins(a.names, b.names)
  BY <1>8 DEF SideCopied
<1> HIDE DEF b, bias
<1>11. /\ Embedded(RouteRec, "routes", left, 0, 0, b.routes, b.names)
       /\ Embedded(RouteRec, "routes", right, bias, Len(left.routes), b.routes, b.names)
  <2>1. /\ left["routes"] = left.routes /\ right["routes"] = right.routes
        /\ left.routes \in Seq(RouteRec) /\ right.routes \in Seq(RouteRec)
    BY DEF Parsed
  <2>2. a.routes \in Seq(RouteRec) /\ b.routes \in Seq(RouteRec)
    BY <1>7 DEF Built
  <2>3. /\ Copied("routes", left, 0, << >>, a.routes, a.names, Len(left["routes"]))
        /\ Copied("routes", right, bias, a.routes, b.routes, b.names, Len(right["routes"]))
    BY <1>7, <1>8, <1>9, <2>1 DEF SideCopied
  <2>4. Ids(left["routes"]) \cap {Biased(id, bias) : id \in Ids(right["routes"])} = {}
    BY <2>1 DEF ApartIn, bias
  <2> HIDE DEF Parsed
  <2> QED BY <1>2, <1>10, <2>1, <2>2, <2>3, <2>4, RowsAreNumbered, BothEmbedded
<1>12. /\ Embedded(InstRec, "insts", left, 0, 0, b.insts, b.names)
       /\ Embedded(InstRec, "insts", right, bias, Len(left.insts), b.insts, b.names)
  <2>1. /\ left["insts"] = left.insts /\ right["insts"] = right.insts
        /\ left.insts \in Seq(InstRec) /\ right.insts \in Seq(InstRec)
    BY DEF Parsed
  <2>2. a.insts \in Seq(InstRec) /\ b.insts \in Seq(InstRec)
    BY <1>7 DEF Built
  <2>3. /\ Copied("insts", left, 0, << >>, a.insts, a.names, Len(left["insts"]))
        /\ Copied("insts", right, bias, a.insts, b.insts, b.names, Len(right["insts"]))
    BY <1>7, <1>8, <1>9, <2>1 DEF SideCopied
  <2>4. Ids(left["insts"]) \cap {Biased(id, bias) : id \in Ids(right["insts"])} = {}
    BY <2>1 DEF ApartIn, bias
  <2> HIDE DEF Parsed
  <2> QED BY <1>2, <1>10, <2>1, <2>2, <2>3, <2>4, RowsAreNumbered, BothEmbedded
<1>13. /\ Embedded(WindowRec, "windows", left, 0, 0, b.windows, b.names)
       /\ Embedded(WindowRec, "windows", right, bias, Len(left.windows), b.windows, b.names)
  <2>1. /\ left["windows"] = left.windows /\ right["windows"] = right.windows
        /\ left.windows \in Seq(WindowRec) /\ right.windows \in Seq(WindowRec)
    BY DEF Parsed
  <2>2. a.windows \in Seq(WindowRec) /\ b.windows \in Seq(WindowRec)
    BY <1>7 DEF Built
  <2>3. /\ Copied("windows", left, 0, << >>, a.windows, a.names, Len(left["windows"]))
        /\ Copied("windows", right, bias, a.windows, b.windows, b.names, Len(right["windows"]))
    BY <1>7, <1>8, <1>9, <2>1 DEF SideCopied
  <2>4. Ids(left["windows"]) \cap {Biased(id, bias) : id \in Ids(right["windows"])} = {}
    BY <2>1 DEF ApartIn, bias
  <2> HIDE DEF Parsed
  <2> QED BY <1>2, <1>10, <2>1, <2>2, <2>3, <2>4, RowsAreNumbered, BothEmbedded
<1>14. WavesEmbedded(left, 0, b.waves) /\ WavesEmbedded(right, bias, b.waves)
  <2>1. a.waves \in Seq(WaveRec) /\ b.waves \in Seq(WaveRec)
    BY <1>7 DEF Built
  <2>2. /\ WavesLike(left, 0, << >>, a.waves, Len(left.waves))
        /\ WavesLike(right, bias, a.waves, b.waves, Len(right.waves))
    BY <1>7, <1>8, <1>9 DEF SideCopied
  <2>3. Ids(left.waves) \cap {Biased(id, bias) : id \in Ids(right.waves)} = {}
    BY DEF ApartIn, bias
  <2> QED BY <1>2, <2>1, <2>2, <2>3, BothWavesEmbedded
<1>15. /\ \A i \in DOMAIN left.marks : left.marks[i].window \in Ids(left.windows) =>
            \E j \in DOMAIN b.marks : Like("marks", left, left.marks[i], b.names, b.marks[j], 0)
       /\ \A i \in DOMAIN right.marks : right.marks[i].window \in Ids(right.windows) =>
            \E j \in DOMAIN b.marks : Like("marks", right, right.marks[i], b.names, b.marks[j], bias)
  <2>1. DOMAIN left.marks = 1 .. Len(left.marks) /\ DOMAIN right.marks = 1 .. Len(right.marks)
    BY DEF Parsed
  <2>2. /\ MarksLike(left, 0, EmptyBuilder.marks, a.marks, a.names, Len(left.marks))
        /\ MarksLike(right, bias, a.marks, b.marks, b.names, Len(right.marks))
    BY <1>7, <1>8 DEF SideCopied
  <2>3. ASSUME NEW i \in DOMAIN left.marks, left.marks[i].window \in Ids(left.windows)
        PROVE  \E j \in DOMAIN b.marks : Like("marks", left, left.marks[i], b.names, b.marks[j], 0)
    <3>1. PICK j \in DOMAIN a.marks : Like("marks", left, left.marks[i], a.names, a.marks[j], 0)
      BY <2>1, <2>2, <2>3 DEF MarksLike
    <3>2. j \in DOMAIN b.marks /\ b.marks[j] = a.marks[j]
      BY <2>2 DEF MarksLike, Begins
    <3>3. Like("marks", left, left.marks[i], b.names, a.marks[j], 0)
      BY <1>10, <3>1, LikeStays
    <3> QED BY <3>2, <3>3
  <2>4. ASSUME NEW i \in DOMAIN right.marks, right.marks[i].window \in Ids(right.windows)
        PROVE  \E j \in DOMAIN b.marks : Like("marks", right, right.marks[i], b.names, b.marks[j], bias)
    BY <2>1, <2>2, <2>4 DEF MarksLike
  <2> QED BY <2>3, <2>4
<1>16. /\ NoneWraps(left.routes, 0) /\ NoneWraps(left.windows, 0) /\ NoneWraps(left.waves, 0)
       /\ NoneWraps(right.routes, bias) /\ NoneWraps(right.windows, bias) /\ NoneWraps(right.waves, bias)
  <2>1. /\ left.routes \in Seq(RouteRec) /\ left.windows \in Seq(WindowRec)
        /\ left.waves \in Seq(WaveRec)
    BY DEF Parsed
  <2> QED BY <2>1, RowsAreNumbered, LeftWrapsNothing DEF ApartIn, bias
<1>17. KeptIn(b, left, 0)
  BY <1>7, <1>11, <1>12, <1>13, <1>14, <1>15, <1>16, SideIsKept
<1>18. KeptIn(b, right, bias)
  BY <1>7, <1>11, <1>12, <1>13, <1>14, <1>15, <1>16, SideIsKept
<1> QED BY <1>17, <1>18 DEF b, bias

(* A merge that succeeds keeps what its sides said: every marker of either *)
(* side that has a window leads to the same label, route ends and          *)
(* instrument as before, and to the same samples unless its wave had none  *)
(* and was dropped, if the ids of the sides stay apart and none becomes    *)
(* one that is never found (rv_merge_into_builder).                        *)
THEOREM MergeLosesNoReference == Spec => MergeKeepsReferences
<1> DEFINE A == reply'.call = "merge" /\ reply'.ok =>
                  LET m == made'.merged
                  IN  Apart(m) => /\ KeptIn(builder', m.left, 0)
                                  /\ KeptIn(builder', m.right, RightBias(m.opt))
<1>1. ASSUME IInv, NEW l \in Side, NEW r \in Side, NEW opt \in MergeOption, NEW mem \in Memory,
             rv_merge_into_builder(l, r, opt, mem)
      PROVE  A
  <2> DEFINE left == package[l].tables
             right == package[r].tables
             w == Working(EmptyBuilder, mem)
             v == Merge(w, left, right, opt)
             rec == [left |-> left, right |-> right, opt |-> opt, ok |-> v.ok]
  <2>1. left \in Parsed /\ right \in Parsed
    BY <1>1 DEF IInv, PackageIsSound, rv_merge_into_builder
  <2>2. w \in Work /\ w.b = EmptyBuilder
    BY EmptyIs, WorkingIs
  <2>3. builder' = v.b /\ made' = [NotMade EXCEPT !.merged = rec] /\ reply'.ok = v.ok
    BY <1>1 DEF rv_merge_into_builder, Worked, Returns
  <2> HIDE DEF left, right, w, v
  <2>4. made'.merged.left = left /\ made'.merged.right = right /\ made'.merged.opt = opt
    BY <2>3 DEF NotMade
  <2>5. ASSUME v.ok, Apart(made'.merged) PROVE KeptIn(v.b, left, 0) /\ KeptIn(v.b, right, RightBias(opt))
    <3>1. /\ ApartIn(left.routes, right.routes, RightBias(opt))
          /\ ApartIn(left.insts, right.insts, RightBias(opt))
          /\ ApartIn(left.windows, right.windows, RightBias(opt))
          /\ ApartIn(left.waves, right.waves, RightBias(opt))
      <4>1. \A table \in {"routes", "insts", "windows", "waves"} :
              ApartIn(left[table], right[table], RightBias(opt))
        BY <2>4, <2>5 DEF Apart, ApartIn, NoneWraps
      <4> QED BY <2>1, <4>1 DEF Parsed
    <3> QED BY <2>1, <2>2, <2>5, <3>1, MergeKeepsSides DEF v
  <2> QED BY <2>3, <2>4, <2>5
<1>2. IInv /\ [Next]_vars => [A]_vars
  BY <1>1, RepliesTell
<1> HIDE DEF A
<1>3. Spec => [][A]_vars
  BY <1>2, Invariance, PTL DEF Spec
<1> QED BY <1>3, PTL DEF A, MergeKeepsReferences

-----------------------------------------------------------------------------
(***************************************************************************)
(* A merge that was written, opened again and compared.                    *)
(***************************************************************************)

(* What a diff looks at of a marker of a side and of its image.            *)
Twin(m, n, bias) ==
  /\ n.id = Biased(m.id, bias)
  /\ n.severity = m.severity /\ n.distance = m.distance /\ n.loss = m.loss

HasTwins(t, rows, bias) ==
  \A i \in DOMAIN t.marks : t.marks[i].window \in Ids(t.windows) =>
    \E j \in DOMAIN rows : Twin(t.marks[i], rows[j], bias)

IsTwin(n, t, bias) == \E i \in DOMAIN t.marks : Twin(t.marks[i], n, bias)

Moved(rows, bias) == {Biased(id, bias) : id \in Ids(rows)}

(* The tables b have the routes of both sides, their markers that have a   *)
(* window, and no others.                                                  *)
MergeOf(b, m) ==
  /\ m.left \in Parsed /\ m.right \in Parsed
  /\ Ids(b.routes) = Ids(m.left.routes) \cup Moved(m.right.routes, RightBias(m.opt))
  /\ HasTwins(m.left, b.marks, 0) /\ HasTwins(m.right, b.marks, RightBias(m.opt))
  /\ \A j \in DOMAIN b.marks : \/ IsTwin(b.marks[j], m.left, 0)
                               \/ IsTwin(b.marks[j], m.right, RightBias(m.opt))

(* The left side of a merge is not moved.                                  *)
LEMMA LeftMovesNothing ==
  ASSUME NEW S, Numbered(S), NEW rows \in Seq(S)
  PROVE  Moved(rows, 0) = Ids(rows)
<1>1. \A id \in Ids(rows) : id \in Id
  BY DEF Ids, Numbered
<1> QED BY <1>1, LeftIdStays DEF Moved

(* Copied rows have the ids of the old rows and those that the bias gives. *)
LEMMA CopiedIds ==
  ASSUME NEW S, NEW table, NEW t, NEW bias, NEW old \in Seq(S), NEW rows \in Seq(S), NEW names,
         t[table] \in Seq(S), Copied(table, t, bias, old, rows, names, Len(t[table]))
  PROVE  \A id : id \in Ids(rows) <=> id \in Ids(old) \/ id \in Moved(t[table], bias)
<1> DEFINE n == Len(old)
           k == Len(t[table])
<1>1. /\ n \in Nat /\ k \in Nat /\ DOMAIN old = 1 .. n /\ DOMAIN t[table] = 1 .. k
      /\ DOMAIN rows = 1 .. n + k
  BY LenProperties DEF Copied
<1>2. \A i \in 1 .. n : rows[i] = old[i]
  BY DEF Copied
<1>3. \A i \in 1 .. k : rows[n + i].id = Biased(t[table][i].id, bias)
  BY DEF Copied, Like
<1> HIDE DEF n, k
<1>4. ASSUME NEW j \in DOMAIN rows PROVE rows[j].id \in Ids(old) \cup Moved(t[table], bias)
  <2>1. CASE j \in 1 .. n
    BY <1>1, <1>2, <2>1 DEF Ids
  <2>2. CASE j \notin 1 .. n
    <3>1. PICK i \in 1 .. k : j = n + i
      <4>1. j - n \in 1 .. k /\ j = n + (j - n)
        BY <1>1, <2>2
      <4> QED BY <4>1
    <3> QED BY <1>1, <1>3, <3>1 DEF Ids, Moved
  <2> QED BY <2>1, <2>2
<1>5. ASSUME NEW i \in DOMAIN old PROVE old[i].id \in Ids(rows)
  <2>1. i \in DOMAIN rows
    BY <1>1
  <2> QED BY <1>1, <1>2, <2>1 DEF Ids
<1>6. ASSUME NEW i \in DOMAIN t[table] PROVE Biased(t[table][i].id, bias) \in Ids(rows)
  <2>1. n + i \in DOMAIN rows
    BY <1>1
  <2> QED BY <1>1, <1>3, <2>1 DEF Ids
<1>7. Ids(rows) \subseteq Ids(old) \cup Moved(t[table], bias)
  BY <1>4 DEF Ids
<1>8. Ids(old) \subseteq Ids(rows)
  BY <1>5 DEF Ids
<1>9. Moved(t[table], bias) \subseteq Ids(rows)
  BY <1>6 DEF Ids, Moved
<1> QED BY <1>7, <1>8, <1>9

(* rv_merge_into_builder, when it succeeds.                                *)
LEMMA MergeMakesMerge ==
  ASSUME NEW w \in Work, w.b = EmptyBuilder, NEW m, m.left \in Parsed, m.right \in Parsed,
         NEW v, v = Merge(w, m.left, m.right, m.opt), v.ok
  PROVE  MergeOf(v.b, m)
<1> DEFINE left == m.left
           right == m.right
           bias == RightBias(m.opt)
           b == v.b
<1>1. b \in Built
  BY MergeCopies
<1>2. PICK a \in Built : SideCopied(left, 0, EmptyBuilder, a) /\ SideCopied(right, bias, a, b)
  BY MergeCopies
<1> HIDE DEF b, bias, left, right
<1>3. left \in Parsed /\ right \in Parsed
  BY DEF left, right
<1>4. Ids(b.routes) = Ids(left.routes) \cup Moved(right.routes, bias)
  <2>1. /\ left["routes"] = left.routes /\ right["routes"] = right.routes
        /\ left.routes \in Seq(RouteRec) /\ right.routes \in Seq(RouteRec)
        /\ a.routes \in Seq(RouteRec) /\ b.routes \in Seq(RouteRec)
    BY <1>1, <1>3 DEF Parsed, Built
  <2>2. EmptyBuilder.routes = << >> /\ << >> \in Seq(RouteRec) /\ Ids(<< >>) = {}
    BY DEF EmptyBuilder, Ids
  <2>3. /\ Copied("routes", left, 0, << >>, a.routes, a.names, Len(left["routes"]))
        /\ Copied("routes", right, bias, a.routes, b.routes, b.names, Len(right["routes"]))
    BY <1>2, <2>1, <2>2 DEF SideCopied
  <2>4. Ids(a.routes) = Ids(<< >>) \cup Moved(left["routes"], 0)
    <3>1. \A names : \A old \in Seq(RouteRec) : \A rows \in Seq(RouteRec) :
            Copied("routes", left, 0, old, rows, names, Len(left["routes"])) =>
              \A id : id \in Ids(rows) <=> id \in Ids(old) \/ id \in Moved(left["routes"], 0)
      BY <2>1, CopiedIds
    <3> QED BY <2>1, <2>2, <2>3, <3>1
  <2>5. Ids(b.routes) = Ids(a.routes) \cup Moved(right["routes"], bias)
    <3>1. \A names : \A old, rows \in Seq(RouteRec) :
            Copied("routes", right, bias, old, rows, names, Len(right["routes"])) =>
              \A id : id \in Ids(rows) <=> id \in Ids(old) \/ id \in Moved(right["routes"], bias)
      BY <2>1, CopiedIds
    <3> QED BY <2>1, <2>3, <3>1
  <2> QED BY <2>1, <2>2, <2>4, <2>5, RowsAreNumbered, LeftMovesNothing
<1>5. /\ MarksLike(left, 0, EmptyBuilder.marks, a.marks, a.names, Len(left.marks))
      /\ MarksLike(right, bias, a.marks, b.marks, b.names, Len(right.marks))
  BY <1>2 DEF SideCopied
<1>6. DOMAIN left.marks = 1 .. Len(left.marks) /\ DOMAIN right.marks = 1 .. Len(right.marks)
  BY <1>3 DEF Parsed
<1>7. \A t, r, names, s, by : Like("marks", t, r, names, s, by) => Twin(r, s, by)
  BY DEF Like, Twin
<1>8. HasTwins(left, b.marks, 0)
  <2> SUFFICES ASSUME NEW i \in DOMAIN left.marks, left.marks[i].window \in Ids(left.windows)
               PROVE  \E j \in DOMAIN b.marks : Twin(left.marks[i], b.marks[j], 0)
    BY DEF HasTwins
  <2>1. PICK j \in DOMAIN a.marks : Like("marks", left, left.marks[i], a.names, a.marks[j], 0)
    BY <1>5, <1>6 DEF MarksLike
  <2>2. j \in DOMAIN b.marks /\ b.marks[j] = a.marks[j]
    BY <1>5 DEF MarksLike, Begins
  <2>3. Twin(left.marks[i], a.marks[j], 0)
    BY <1>7, <2>1
  <2> QED BY <2>2, <2>3
<1>9. HasTwins(right, b.marks, bias)
  <2> SUFFICES ASSUME NEW i \in DOMAIN right.marks, right.marks[i].window \in Ids(right.windows)
               PROVE  \E j \in DOMAIN b.marks : Twin(right.marks[i], b.marks[j], bias)
    BY DEF HasTwins
  <2>1. PICK j \in DOMAIN b.marks : Like("marks", right, right.marks[i], b.names, b.marks[j], bias)
    BY <1>5, <1>6 DEF MarksLike
  <2> QED BY <1>7, <2>1
<1>10. ASSUME NEW j \in DOMAIN b.marks
       PROVE  IsTwin(b.marks[j], left, 0) \/ IsTwin(b.marks[j], right, bias)
  <2>1. CASE j \in DOMAIN a.marks
    <3>1. b.marks[j] = a.marks[j]
      BY <1>5, <2>1 DEF MarksLike, Begins
    <3>2. j \notin DOMAIN EmptyBuilder.marks
      BY DEF EmptyBuilder
    <3>3. PICK i \in DOMAIN left.marks : Like("marks", left, left.marks[i], a.names, a.marks[j], 0)
      BY <1>5, <1>6, <2>1, <3>2 DEF MarksLike
    <3>4. Twin(left.marks[i], a.marks[j], 0)
      BY <1>7, <3>3
    <3> QED BY <3>1, <3>4 DEF IsTwin
  <2>2. CASE j \notin DOMAIN a.marks
    <3>1. PICK i \in DOMAIN right.marks : Like("marks", right, right.marks[i], b.names, b.marks[j], bias)
      BY <1>5, <1>6, <2>2 DEF MarksLike
    <3>2. Twin(right.marks[i], b.marks[j], bias)
      BY <1>7, <3>1
    <3> QED BY <3>2 DEF IsTwin
  <2> QED BY <2>1, <2>2
<1> QED BY <1>3, <1>4, <1>8, <1>9, <1>10 DEF MergeOf, b, bias, left, right

(* What a file and a package hold that say what they are a merge of, and   *)
(* that no severity of an open package is above the limit, so that it is   *)
(* the same after it was written and read.  Only the first image may       *)
(* decay, and a merge is a later one.                                      *)
MergedFile(f) == f.state = "whole" /\ f.rows \in Parsed /\ MergeOf(f.rows, f.merged)

Clamped(t) == \A i \in DOMAIN t.marks : ~(t.marks[i].severity > MaxSeverity)

MergedPackage(p) ==
  /\ Clamped(p.tables)
  /\ p.image.merged # Nothing => MergedFile(p.image) /\ p.tables = Normalize(p.image.rows)

MergesAreTrue ==
  /\ made.merged # Nothing =>
       images # 0 /\ (made.merged.ok => MergeOf(builder, made.merged))
  /\ shelf # NoFile =>
       images # 0 /\ (shelf.merged # Nothing => images # 1 /\ MergedFile(shelf))
  /\ \A s \in Side : package[s] # None => images # 0 /\ MergedPackage(package[s])

(* A written merge has the routes and markers of the builder.              *)
LEMMA WrittenMerge ==
  ASSUME NEW b \in Built, NEW m, MergeOf(b, m), NEW f,
         f = Written(Serialize(b), BuilderRows(b), m)
  PROVE  f.merged = m /\ MergedFile(f)
<1>1. f.state = "whole" /\ f.rows = BuilderRows(b) /\ f.merged = m
  BY DEF Written
<1>2. BuilderRows(b) \in Parsed
  BY SerializeHolds
<1>3. BuilderRows(b).routes = b.routes /\ BuilderRows(b).marks = b.marks
  BY DEF BuilderRows
<1>4. MergeOf(BuilderRows(b), m)
  BY <1>3 DEF MergeOf, HasTwins
<1> QED BY <1>1, <1>2, <1>4 DEF MergedFile

(* Normal tables are clamped.                                              *)
LEMMA NormalIsClamped ==
  ASSUME NEW t \in Parsed
  PROVE  Clamped(Normalize(t))
<1>1. t.marks \in Seq(MarkRec) /\ Normalize(t).marks = [i \in DOMAIN t.marks |-> ClampSeverity(t.marks[i])]
  BY NormalFields DEF Parsed
<1>2. ASSUME NEW i \in DOMAIN t.marks PROVE ~(ClampSeverity(t.marks[i]).severity > MaxSeverity)
  <2> DEFINE m == t.marks[i]
  <2>1. m \in MarkRec
    BY <1>1
  <2> HIDE DEF m
  <2>2. ~(ClampSeverity(m).severity > MaxSeverity)
    BY <2>1, SeverityAssumption DEF ClampSeverity, MarkRec
  <2> QED BY <2>2 DEF m
<1> QED BY <1>1, <1>2 DEF Clamped

(* Calls on a builder that is not a merge.                                 *)
LEMMA HandStep ==
  ASSUME MergesAreTrue, made'.merged = Nothing, UNCHANGED <<shelf, package, images>>
  PROVE  MergesAreTrue'
BY DEF MergesAreTrue

(* A merge.                                                                *)
LEMMA MergeStepIsTrue ==
  ASSUME IInv, MergesAreTrue, NEW l \in Side, NEW r \in Side, NEW opt \in MergeOption,
         NEW mem \in Memory, rv_merge_into_builder(l, r, opt, mem)
  PROVE  MergesAreTrue'
<1> DEFINE left == package[l].tables
           right == package[r].tables
           w == Working(EmptyBuilder, mem)
           v == Merge(w, left, right, opt)
           rec == [left |-> left, right |-> right, opt |-> opt, ok |-> v.ok]
<1>1. left \in Parsed /\ right \in Parsed
  BY DEF IInv, PackageIsSound, rv_merge_into_builder
<1>2. w \in Work /\ w.b = EmptyBuilder
  BY EmptyIs, WorkingIs
<1>3. builder' = v.b /\ made' = [NotMade EXCEPT !.merged = rec] /\ UNCHANGED <<shelf, package, images>>
  BY DEF rv_merge_into_builder, Worked
<1>4. images # 0
  BY DEF MergesAreTrue, rv_merge_into_builder
<1> HIDE DEF left, right, w, v
<1>5. made'.merged = rec
  BY <1>3 DEF NotMade
<1>6. rec.left = left /\ rec.right = right /\ rec.opt = opt /\ rec.ok = v.ok
  OBVIOUS
<1> HIDE DEF rec
<1>7. v = Merge(w, rec.left, rec.right, rec.opt)
  BY <1>6 DEF v
<1>8. v.ok => MergeOf(v.b, rec)
  BY <1>1, <1>2, <1>6, <1>7, MergeMakesMerge
<1> QED BY <1>3, <1>4, <1>5, <1>6, <1>8 DEF MergesAreTrue

(* Calls and events that change the file.                                  *)
LEMMA ShelfStep ==
  ASSUME IInv, MergesAreTrue, UNCHANGED <<builder, made, package>>,
         images' = images + 1 \/ (images' = images /\ images # 0),
         shelf'.merged # Nothing => images' # 1 /\ MergedFile(shelf')
  PROVE  MergesAreTrue'
<1>1. images \in Nat
  BY BoundAssumption DEF IInv
<1>2. images' # 0
  BY <1>1
<1> QED BY <1>2 DEF MergesAreTrue

(* A builder that is written is not a merge or a merge that succeeded, ... *)
LEMMA SerializeIsTrue == ASSUME IInv, MergesAreTrue, rv_builder_serialize PROVE MergesAreTrue'
<1>1. shelf' = Written(Serialize(builder), BuilderRows(builder), made.merged)
  BY DEF rv_builder_serialize
<1>2. images' = images + 1 /\ UNCHANGED <<builder, made, package>>
  BY DEF rv_builder_serialize
<1>3. shelf'.merged = made.merged
  BY <1>1 DEF Written
<1>4. ASSUME made.merged # Nothing PROVE images' # 1 /\ MergedFile(shelf')
  <2>1. MergeOf(builder, made.merged) /\ images # 0
    BY <1>4 DEF MergesAreTrue, rv_builder_serialize, ByHand
  <2>2. builder \in Built
    BY <1>4 DEF IInv, BuilderIsSound
  <2>3. images \in Nat
    BY BoundAssumption DEF IInv
  <2> QED BY <1>1, <1>2, <2>1, <2>2, <2>3, WrittenMerge
<1> QED BY <1>2, <1>3, <1>4, ShelfStep

(* ... a file that is cut short is not a merge, ...                        *)
LEMMA WriteIsTrue == ASSUME IInv, MergesAreTrue, rv_builder_write_file PROVE MergesAreTrue'
<1> DEFINE f == Written(Serialize(builder), BuilderRows(builder), made.merged)
<1>1. PICK n \in TornSizes(f) : shelf' = TornAt(f, n)
  BY DEF rv_builder_write_file
<1>2. f.merged = Nothing /\ DOMAIN f = ImageFields
  BY DEF Written, ImageFields, rv_builder_write_file, ByHand
<1> HIDE DEF f
<1>3. shelf'.merged = Nothing
  BY <1>1, <1>2 DEF TornAt, ImageFields
<1>4. images' = images + 1 /\ UNCHANGED <<builder, made, package>>
  BY DEF rv_builder_write_file
<1> QED BY <1>3, <1>4, ShelfStep

(* ... nor is one that decays.                                             *)
LEMMA DecayIsTrue == ASSUME IInv, MergesAreTrue, ImageDecays PROVE MergesAreTrue'
<1>1. shelf # NoFile /\ images = 1 /\ UNCHANGED <<builder, made, package, images>>
  BY DEF ImageDecays
<1>2. shelf.merged = Nothing
  BY <1>1 DEF MergesAreTrue
<1>3. DOMAIN shelf = ImageFields
  BY <1>1 DEF IInv, FileIsSound
<1>4. \E k \in DOMAIN shelf.dir : \E n \in DamagedCount(shelf.dir[k]) : shelf' = Decayed(shelf, k, n)
  BY Zenon DEF ImageDecays, Decayed
<1>5. PICK k, n : shelf' = Decayed(shelf, k, n)
  BY <1>4
<1>6. shelf'.merged = Nothing
  BY <1>2, <1>3, <1>5 DEF Decayed, ImageFields
<1> QED BY <1>1, <1>6, ShelfStep

(* An export is not a merge, ...                                           *)
LEMMA ExportIsTrue ==
  ASSUME IInv, MergesAreTrue, NEW s \in Side, NEW include \in BOOLEAN, rv_export_buffer(s, include)
  PROVE  MergesAreTrue'
<1>1. images' = images + 1 /\ UNCHANGED <<builder, made, package>>
  BY DEF rv_export_buffer
<1>2. shelf'.merged = Nothing
  BY DEF rv_export_buffer, ExportOf, Written
<1> QED BY <1>1, <1>2, ShelfStep

(* Calls that change one package.                                          *)
LEMMA PackageStaysTrue ==
  ASSUME IInv, MergesAreTrue, NEW s \in Side, NEW p, package' = [package EXCEPT ![s] = p],
         p # None => images # 0 /\ MergedPackage(p), UNCHANGED <<builder, made>>,
         shelf' = NoFile \/ UNCHANGED shelf, images' = images \/ images' = images + 1
  PROVE  MergesAreTrue'
<1>1. images \in Nat
  BY BoundAssumption DEF IInv
<1>2. images # 0 => images' # 0 /\ (images # 1 => images' # 1)
  BY <1>1
<1>3. \A x \in Side : package'[x] # None => images' # 0 /\ MergedPackage(package'[x])
  <2> TAKE x \in Side
  <2>1. DOMAIN package = Side
    BY DEF IInv
  <2>2. CASE x = s
    BY <1>2, <2>1, <2>2
  <2>3. CASE x # s
    <3>1. package'[x] = package[x]
      BY <2>1, <2>3
    <3> QED BY <1>2, <3>1 DEF MergesAreTrue
  <2> QED BY <2>2, <2>3
<1>4. shelf' # NoFile => images' # 0 /\ (shelf'.merged # Nothing => images' # 1 /\ MergedFile(shelf'))
  BY <1>2 DEF MergesAreTrue
<1>5. made'.merged # Nothing =>
        images' # 0 /\ (made'.merged.ok => MergeOf(builder', made'.merged))
  BY <1>2 DEF MergesAreTrue
<1> QED BY <1>3, <1>4, <1>5 DEF MergesAreTrue

(* What the tables of an image are after an open or a reset.               *)
LEMMA FinishedIsTrue ==
  ASSUME NEW f, FileIsSound(f), AllDecode(f)
  PROVE  /\ Clamped(FinishOpen(f))
         /\ f.state = "whole" => FinishOpen(f) = Normalize(f.rows)
<1>1. FinishOpen(f) = Normalize(RawTables(f))
  BY DEF FinishOpen, RawTables
<1>2. RawTables(f) \in Parsed
  BY FinishOpenTyped DEF FileIsSound
<1>3. Clamped(Normalize(RawTables(f)))
  BY <1>2, NormalIsClamped
<1> QED BY <1>1, <1>3 DEF FileIsSound, Faithful

(* ... an open has what was written, ...                                   *)
LEMMA OpenIsTrue == ASSUME IInv, MergesAreTrue, NEW s \in Side, rv_package_open(s) PROVE MergesAreTrue'
<1> DEFINE p == IF Opens(shelf) THEN Opened(shelf) ELSE None
<1>1. package' = [package EXCEPT ![s] = p]
  BY OpenYields
<1>2. UNCHANGED <<builder, made, images>> /\ shelf' = NoFile
  BY DEF rv_package_open
<1>3. ASSUME Opens(shelf) PROVE images # 0 /\ MergedPackage(Opened(shelf))
  <2>1. shelf # NoFile /\ AllDecode(shelf)
    BY <1>3 DEF Opens, LoadSucceeds, AllDecode
  <2>2. FileIsSound(shelf) /\ images # 0 /\ (shelf.merged # Nothing => MergedFile(shelf))
    BY <2>1 DEF IInv, MergesAreTrue
  <2>3. Clamped(FinishOpen(shelf)) /\ (shelf.state = "whole" => FinishOpen(shelf) = Normalize(shelf.rows))
    BY <2>1, <2>2, FinishedIsTrue
  <2>4. Opened(shelf).image = shelf /\ Opened(shelf).tables = FinishOpen(shelf)
    BY DEF Opened
  <2> QED BY <2>2, <2>3, <2>4 DEF MergedPackage, MergedFile
<1>4. p # None => images # 0 /\ MergedPackage(p)
  BY <1>3
<1> HIDE DEF p
<1> QED BY <1>1, <1>2, <1>4, PackageStaysTrue

(* ... and so has a reset, ...                                             *)
LEMMA ResetIsTrue == ASSUME IInv, MergesAreTrue, NEW s \in Side, rv_package_reset(s) PROVE MergesAreTrue'
<1> DEFINE q == package[s]
           f == q.image
           p == [q EXCEPT !.tables = FinishOpen(f)]
<1>1. PackageIsSound(q) /\ MergedPackage(q) /\ images # 0
  BY DEF IInv, MergesAreTrue, rv_package_reset
<1>2. package' = [package EXCEPT ![s] = p] /\ UNCHANGED <<builder, made, shelf, images>>
  BY DEF rv_package_reset
<1>3. p.image = f /\ p.tables = FinishOpen(f)
  BY <1>1 DEF PackageIsSound
<1> HIDE DEF p, f
<1>4. /\ Clamped(FinishOpen(f))
      /\ f.state = "whole" => FinishOpen(f) = Normalize(f.rows)
  BY <1>1, FinishedIsTrue DEF PackageIsSound, f
<1>5. f.merged # Nothing => MergedFile(f)
  BY <1>1 DEF MergedPackage, f
<1>6. MergedPackage(p)
  BY <1>3, <1>4, <1>5 DEF MergedPackage, MergedFile
<1> QED BY <1>1, <1>2, <1>6, PackageStaysTrue

(* ... a repair is not of a merge, ...                                     *)
LEMMA RepairIsTrue == ASSUME IInv, MergesAreTrue, NEW s \in Side, rv_package_repair(s) PROVE MergesAreTrue'
<1> DEFINE q == package[s]
           t == Repair(q.tables)
           p == [q EXCEPT !.tables = t]
<1>1. PackageIsSound(q) /\ images # 0 /\ q.image.merged = Nothing
  BY DEF IInv, MergesAreTrue, rv_package_repair
<1>2. package' = [package EXCEPT ![s] = p] /\ UNCHANGED <<builder, made, shelf, images>>
  BY DEF rv_package_repair
<1>3. p.image = q.image /\ p.tables = t
  BY <1>1 DEF PackageIsSound
<1>4. q.tables \in Parsed
  BY <1>1 DEF PackageIsSound
<1> HIDE DEF p, q
<1>5. t.marks = Normalize(q.tables).marks
  BY <1>4, RepairFields, Zenon
<1>6. Clamped(Normalize(q.tables))
  BY <1>4, NormalIsClamped
<1> HIDE DEF t
<1>7. MergedPackage(p)
  BY <1>1, <1>3, <1>5, <1>6 DEF MergedPackage, Clamped
<1> QED BY <1>1, <1>2, <1>7, PackageStaysTrue

(* ... and a migration makes an export of what was one.                    *)
LEMMA MigrateIsTrue ==
  ASSUME IInv, MergesAreTrue, NEW s \in Side, rv_package_migrate_legacy(s)
  PROVE  MergesAreTrue'
<1> DEFINE q == package[s]
           f == ExportOf(q.tables, TRUE)
           p == [[q EXCEPT !.image = f] EXCEPT !.allow = TRUE]
           allowed == q.image.version = 1 \/ q.allow
<1>1. PackageIsSound(q) /\ MergedPackage(q) /\ images # 0
  BY DEF IInv, MergesAreTrue, rv_package_migrate_legacy
<1>2. f.merged = Nothing
  BY DEF ExportOf, Written
<1> HIDE DEF f
<1>3. p.image = f /\ p.tables = q.tables
  BY <1>1 DEF PackageIsSound
<1>4. MergedPackage(p)
  BY <1>1, <1>2, <1>3 DEF MergedPackage
<1>5. UNCHANGED <<builder, made, shelf>>
  BY DEF rv_package_migrate_legacy
<1>6. CASE allowed
  <2>1. package' = [[package EXCEPT ![s].image = f] EXCEPT ![s].allow = TRUE] /\ images' = images + 1
    BY <1>6 DEF rv_package_migrate_legacy, f
  <2>2. DOMAIN package = Side
    BY DEF IInv
  <2>3. package' = [package EXCEPT ![s] = p]
    BY <2>1, <2>2
  <2> HIDE DEF p
  <2> QED BY <1>1, <1>4, <1>5, <2>1, <2>3, PackageStaysTrue
<1>7. CASE ~allowed
  <2>1. UNCHANGED <<package, images>>
    BY <1>7 DEF rv_package_migrate_legacy
  <2> QED BY <1>5, <2>1 DEF MergesAreTrue
<1> QED BY <1>6, <1>7

LEMMA CloseIsTrue == ASSUME IInv, MergesAreTrue, NEW s \in Side, rv_package_close(s) PROVE MergesAreTrue'
BY PackageStaysTrue DEF rv_package_close

(* Every step.                                                             *)
LEMMA MergesStayTrue == IInv /\ MergesAreTrue /\ [Next]_vars => MergesAreTrue'
<1> SUFFICES ASSUME IInv, MergesAreTrue, [Next]_vars PROVE MergesAreTrue'
  OBVIOUS
<1>1. CASE UNCHANGED vars
  BY <1>1 DEF vars, MergesAreTrue
<1>2. ASSUME NEW s \in Side, NEW strictness \in {0, 1}, rv_package_validate(s, strictness)
      PROVE  MergesAreTrue'
  BY <1>2 DEF rv_package_validate, MergesAreTrue
<1>3. ASSUME NEW l \in Side, NEW r \in Side, rv_diff_packages(l, r) PROVE MergesAreTrue'
  BY <1>3 DEF rv_diff_packages, MergesAreTrue
<1>4. CASE rv_builder_init \/ rv_builder_destroy
  <2>1. made' = NotMade /\ UNCHANGED <<shelf, package, images>>
    BY <1>4 DEF rv_builder_init, rv_builder_destroy
  <2>2. made'.merged = Nothing
    BY <2>1 DEF NotMade
  <2> QED BY <2>1, <2>2, HandStep
<1>5. CASE rv_builder_set_version(1)
  BY <1>5, HandStep DEF rv_builder_set_version, ByHand
<1>6. ASSUME NEW mem \in Memory, rv_builder_demo_span(mem) PROVE MergesAreTrue'
  BY <1>6, HandStep DEF rv_builder_demo_span, Worked, ByHand
<1>7. ASSUME NEW mem \in Memory, NEW r \in Row,
             rv_builder_add(r, mem) \/ rv_builder_add_wave_copy(r, mem)
      PROVE  MergesAreTrue'
  <2>1. made.merged = Nothing /\ made' = [made EXCEPT !.added = @ + 1] /\ UNCHANGED <<shelf, package, images>>
    BY <1>7 DEF rv_builder_add, rv_builder_add_wave_copy, Worked, ByHand
  <2>2. made'.merged = made.merged
    BY <2>1
  <2> QED BY <2>1, <2>2, HandStep
<1>8. CASE Next
  BY <1>2, <1>3, <1>4, <1>5, <1>6, <1>7, <1>8, MergeStepIsTrue, SerializeIsTrue, WriteIsTrue, DecayIsTrue,
     OpenIsTrue, CloseIsTrue, ResetIsTrue, RepairIsTrue, ExportIsTrue, MigrateIsTrue
  DEF Next
<1> QED BY <1>1, <1>8

(* At the start nothing was merged.                                        *)
LEMMA NothingMerged == Init => MergesAreTrue
BY DEF Init, NotMade, MergesAreTrue

(* The invariant holds in every reachable state.                           *)
LEMMA MergeInvariance == Spec => []MergesAreTrue
BY NothingMerged, MergesStayTrue, Invariance, PTL DEF Spec

(* The first marker with an id.                                            *)
LEMMA MarkIsFound ==
  ASSUME NEW t, t.marks \in Seq(MarkRec), NEW id
  PROVE  /\ (FindMark(t, id) # 0) <=> (id \in Ids(t.marks))
         /\ FindMark(t, id) # 0 => /\ FindMark(t, id) \in DOMAIN t.marks
                                   /\ t.marks[FindMark(t, id)].id = id
<1> DEFINE found == RowsOf(t.marks, id)
<1>1. found \in SUBSET Nat /\ 0 \notin found
  BY DEF RowsOf
<1>2. found = {} <=> id \notin Ids(t.marks)
  BY DEF RowsOf, Ids
<1>3. FindMark(t, id) = IF found = {} THEN 0 ELSE Min(found)
  BY Zenon DEF FindMark
<1>4. \A k \in found : k \in DOMAIN t.marks /\ t.marks[k].id = id
  BY DEF RowsOf
<1> HIDE DEF found
<1>5. found # {} => Min(found) \in found
  <2> HIDE DEF Min
  <2> QED BY <1>1, MinIsMember
<1> HIDE DEF Min
<1> QED BY <1>1, <1>2, <1>3, <1>4, <1>5

(* A severity within the limit stays as it is, with all that a diff looks  *)
(* at.                                                                     *)
LEMMA ClampKeepsTwin ==
  ASSUME NEW m \in MarkRec, NEW n \in MarkRec, NEW bias, Twin(m, n, bias), ~(m.severity > MaxSeverity)
  PROVE  ~MarkChanged(m, ClampSeverity(n))
<1>1. n.severity = m.severity /\ n.distance = m.distance /\ n.loss = m.loss
  BY DEF Twin
<1>2. ClampSeverity(n).severity = m.severity
  BY <1>1 DEF ClampSeverity, MarkRec
<1>3. ClampSeverity(n).distance = m.distance /\ ClampSeverity(n).loss = m.loss
  BY <1>1 DEF ClampSeverity, MarkRec
<1>4. Distance(m.loss, m.loss) = 0 /\ Distance(m.distance, m.distance) = 0
  BY DEF Distance, MarkRec
<1> QED BY <1>2, <1>3, <1>4 DEF MarkChanged

(* What a diff of the left side with the tables r of its merge shows.      *)
LEMMA DiffShowsRight ==
  ASSUME NEW m, NEW rows \in Parsed, MergeOf(rows, m), Clamped(m.left),
         Plain(m.left), Plain(m.right), Apart(m), NEW r, r = Normalize(rows)
  PROVE  LET moved(old) == {Biased(id, RightBias(m.opt)) : id \in Ids(old)}
         IN  Diff(m.left, r) = [routes_removed |-> {}, routes_added |-> moved(m.right.routes),
                                marks_removed |-> {}, marks_added |-> moved(m.right.marks),
                                marks_changed |-> {}]
<1> DEFINE left == m.left
           right == m.right
           bias == RightBias(m.opt)
<1>1. left \in Parsed /\ right \in Parsed
  BY DEF MergeOf
<1>2. /\ Ids(rows.routes) = Ids(left.routes) \cup Moved(right.routes, bias)
      /\ HasTwins(left, rows.marks, 0) /\ HasTwins(right, rows.marks, bias)
      /\ \A j \in DOMAIN rows.marks : \/ IsTwin(rows.marks[j], left, 0)
                                      \/ IsTwin(rows.marks[j], right, bias)
  BY DEF MergeOf
<1>3. /\ Ids(left.routes) \cap Moved(right.routes, bias) = {}
      /\ Ids(left.marks) \cap Moved(right.marks, bias) = {}
  BY DEF Apart, Moved
<1>4. /\ Ids(left.routes) \cap Unmapped = {} /\ 0 \notin Ids(left.marks) /\ UniqueIds(left.marks)
      /\ \A i \in DOMAIN left.marks : left.marks[i].window \in Ids(left.windows)
      /\ \A i \in DOMAIN right.marks : right.marks[i].window \in Ids(right.windows)
  BY DEF Plain
<1>5. /\ r.routes = rows.routes /\ r.marks = [i \in DOMAIN rows.marks |-> ClampSeverity(rows.marks[i])]
      /\ r \in Parsed
  BY NormalFields
<1>6. \A i \in DOMAIN left.marks : ~(left.marks[i].severity > MaxSeverity)
  BY DEF Clamped
<1> HIDE DEF left, right, bias
<1>7. /\ left.routes \in Seq(RouteRec) /\ r.routes \in Seq(RouteRec)
      /\ left.marks \in Seq(MarkRec) /\ r.marks \in Seq(MarkRec) /\ rows.marks \in Seq(MarkRec)
  BY <1>1, <1>5 DEF Parsed
<1>8. DOMAIN r.marks = DOMAIN rows.marks /\ \A j \in DOMAIN rows.marks : r.marks[j].id = rows.marks[j].id
  <2>1. \A j \in DOMAIN rows.marks : rows.marks[j] \in MarkRec
    BY <1>7
  <2> QED BY <1>5, <2>1, ClampIs
<1>9. Ids(r.marks) = Ids(rows.marks)
  BY <1>8 DEF Ids
<1>10. \A i \in DOMAIN left.marks : left.marks[i].id \in Id /\ Biased(left.marks[i].id, 0) = left.marks[i].id
  <2> TAKE i \in DOMAIN left.marks
  <2>1. left.marks[i] \in MarkRec
    BY <1>7
  <2>2. left.marks[i].id \in Id
    BY <2>1 DEF MarkRec
  <2> QED BY <2>2, LeftIdStays
<1>11. Ids(r.marks) = Ids(left.marks) \cup Moved(right.marks, bias)
  <2>1. ASSUME NEW j \in DOMAIN rows.marks
        PROVE  rows.marks[j].id \in Ids(left.marks) \cup Moved(right.marks, bias)
    <3>1. CASE IsTwin(rows.marks[j], left, 0)
      BY <1>10, <3>1 DEF IsTwin, Twin, Ids
    <3>2. CASE IsTwin(rows.marks[j], right, bias)
      BY <3>2 DEF IsTwin, Twin, Ids, Moved
    <3> QED BY <1>2, <3>1, <3>2
  <2>2. ASSUME NEW i \in DOMAIN left.marks PROVE left.marks[i].id \in Ids(rows.marks)
    <3>1. PICK j \in DOMAIN rows.marks : Twin(left.marks[i], rows.marks[j], 0)
      BY <1>2, <1>4 DEF HasTwins
    <3> QED BY <1>10, <3>1 DEF Twin, Ids
  <2>3. ASSUME NEW i \in DOMAIN right.marks PROVE Biased(right.marks[i].id, bias) \in Ids(rows.marks)
    <3>1. PICK j \in DOMAIN rows.marks : Twin(right.marks[i], rows.marks[j], bias)
      BY <1>2, <1>4 DEF HasTwins
    <3> QED BY <3>1 DEF Twin, Ids
  <2>4. Ids(rows.marks) \subseteq Ids(left.marks) \cup Moved(right.marks, bias)
    BY <2>1 DEF Ids
  <2>5. Ids(left.marks) \subseteq Ids(rows.marks)
    BY <2>2 DEF Ids
  <2>6. Moved(right.marks, bias) \subseteq Ids(rows.marks)
    BY <2>3 DEF Ids, Moved
  <2> QED BY <1>9, <2>4, <2>5, <2>6
<1>12. \A id : /\ (FindRoute(left, id) # 0) <=> (id \notin Unmapped /\ id \in Ids(left.routes))
               /\ (FindRoute(r, id) # 0) <=> (id \notin Unmapped /\ id \in Ids(r.routes))
  BY <1>7, FoundIfThere DEF FindRoute
<1>13. \A id : (FindMark(left, id) # 0) <=> (id \in Ids(left.marks))
  <2>1. left.marks \in Seq(MarkRec)
    BY <1>7
  <2> QED BY <2>1, MarkIsFound
<1>14. \A id : /\ (FindMark(r, id) # 0) <=> (id \in Ids(r.marks))
               /\ FindMark(r, id) # 0 => /\ FindMark(r, id) \in DOMAIN r.marks
                                         /\ r.marks[FindMark(r, id)].id = id
  <2>1. r.marks \in Seq(MarkRec)
    BY <1>7
  <2> QED BY <2>1, MarkIsFound
<1>15. {id \in Ids(left.routes) : FindRoute(r, id) = 0} = {}
  BY <1>2, <1>4, <1>5, <1>12
<1>16. {id \in Ids(r.routes) : FindRoute(left, id) = 0} = Moved(right.routes, bias)
  <2>1. \A id \in Ids(left.routes) : FindRoute(left, id) # 0
    BY <1>4, <1>12
  <2>2. \A id : id \notin Ids(left.routes) => FindRoute(left, id) = 0
    BY <1>12
  <2>3. Ids(r.routes) = Ids(left.routes) \cup Moved(right.routes, bias)
    BY <1>2, <1>5
  <2> QED BY <1>3, <2>1, <2>2, <2>3
<1>17. {id \in Ids(left.marks) : FindMark(r, id) = 0} = {}
  <2>1. \A id \in Ids(r.marks) : FindMark(r, id) # 0
    BY <1>14
  <2> QED BY <1>11, <2>1
<1>18. {id \in Ids(r.marks) : FindMark(left, id) = 0} = Moved(right.marks, bias)
  <2>1. \A id \in Ids(left.marks) : FindMark(left, id) # 0
    BY <1>13
  <2>2. \A id : id \notin Ids(left.marks) => FindMark(left, id) = 0
    BY <1>13
  <2> QED BY <1>3, <1>11, <2>1, <2>2
<1>19. ASSUME NEW j \in DOMAIN left.marks
       PROVE  LET k == FindMark(r, left.marks[j].id)
              IN  ~(k # 0 /\ MarkChanged(left.marks[j], r.marks[k]))
  <2> DEFINE id == left.marks[j].id
             k == FindMark(r, id)
  <2>1. SUFFICES ASSUME k # 0 PROVE ~MarkChanged(left.marks[j], r.marks[k])
    BY Zenon
  <2>2. k \in DOMAIN rows.marks /\ rows.marks[k].id = id
    <3>1. k \in DOMAIN r.marks /\ r.marks[k].id = id
      BY <1>14, <2>1
    <3> QED BY <1>8, <3>1
  <2>3. id \in Ids(left.marks) /\ id # 0
    BY <1>4 DEF Ids
  <2> HIDE DEF k
  <2>4. ~IsTwin(rows.marks[k], right, bias)
    <3>1. ASSUME NEW i \in DOMAIN right.marks, Twin(right.marks[i], rows.marks[k], bias) PROVE FALSE
      <4>1. id = Biased(right.marks[i].id, bias)
        BY <2>2, <3>1 DEF Twin
      <4>2. id \in Moved(right.marks, bias)
        BY <4>1 DEF Moved, Ids
      <4> QED BY <1>3, <2>3, <4>2
    <3> QED BY <3>1 DEF IsTwin
  <2>5. PICK i \in DOMAIN left.marks : Twin(left.marks[i], rows.marks[k], 0)
    BY <1>2, <2>2, <2>4 DEF IsTwin
  <2>6. left.marks[i].id = id
    BY <1>10, <2>2, <2>5 DEF Twin
  <2>7. i = j
    BY <1>4, <2>3, <2>6 DEF UniqueIds
  <2>8. left.marks[j] \in MarkRec /\ rows.marks[k] \in MarkRec
    BY <1>7, <2>2
  <2>9. r.marks[k] = ClampSeverity(rows.marks[k])
    BY <1>5, <2>2
  <2> QED BY <1>6, <2>5, <2>7, <2>8, <2>9, ClampKeepsTwin
<1>20. {left.marks[i].id : i \in {j \in DOMAIN left.marks :
          LET k == FindMark(r, left.marks[j].id)
          IN  k # 0 /\ MarkChanged(left.marks[j], r.marks[k])}} = {}
  BY <1>19, Zenon
<1>21. Diff(left, r) = [routes_removed |-> {}, routes_added |-> Moved(right.routes, bias),
                        marks_removed |-> {}, marks_added |-> Moved(right.marks, bias),
                        marks_changed |-> {}]
  BY <1>15, <1>16, <1>17, <1>18, <1>20, Zenon DEF Diff
<1> QED BY <1>21, Zenon DEF left, right, bias, Moved

(* A diff of a package with the merge it is the left side of, written and  *)
(* opened again, shows the right side as added and nothing else            *)
(* (rv_diff_packages after rv_merge_into_builder and                       *)
(* rv_builder_serialize).                                                  *)
THEOREM DiffsTellMerges == Spec => DiffOfMerge
<1> DEFINE A == reply'.call = "diff" =>
                  LET l == package[reply'.left].tables
                      m == package[reply'.right].image.merged
                      moved(rows) == {Biased(id, RightBias(m.opt)) : id \in Ids(rows)}
                  IN  m # Nothing =>
                        (m.left = l /\ Plain(m.left) /\ Plain(m.right) /\ Apart(m) =>
                           reply'.report = [routes_removed |-> {}, routes_added |-> moved(m.right.routes),
                                            marks_removed |-> {}, marks_added |-> moved(m.right.marks),
                                            marks_changed |-> {}])
<1>1. ASSUME MergesAreTrue, NEW l \in Side, NEW r \in Side, rv_diff_packages(l, r) PROVE A
  <2> DEFINE m == package[r].image.merged
             f == package[r].image
  <2>1. /\ reply'.left = l /\ reply'.right = r
        /\ reply'.report = Diff(package[l].tables, package[r].tables)
    BY <1>1 DEF rv_diff_packages
  <2>2. MergedPackage(package[l]) /\ MergedPackage(package[r])
    BY <1>1 DEF MergesAreTrue, rv_diff_packages
  <2>3. ASSUME m # Nothing, m.left = package[l].tables, Plain(m.left), Plain(m.right), Apart(m)
        PROVE  LET moved(rows) == {Biased(id, RightBias(m.opt)) : id \in Ids(rows)}
               IN  Diff(m.left, package[r].tables) =
                     [routes_removed |-> {}, routes_added |-> moved(m.right.routes),
                      marks_removed |-> {}, marks_added |-> moved(m.right.marks),
                      marks_changed |-> {}]
    <3>1. f.rows \in Parsed /\ MergeOf(f.rows, m) /\ package[r].tables = Normalize(f.rows)
      BY <2>2, <2>3 DEF MergedPackage, MergedFile
    <3>2. Clamped(m.left)
      BY <2>2, <2>3 DEF MergedPackage
    <3> HIDE DEF m, f
    <3> QED BY <2>3, <3>1, <3>2, DiffShowsRight
  <2> QED BY <2>1, <2>3, Zenon
<1>2. MergesAreTrue /\ [Next]_vars => [A]_vars
  BY <1>1, RepliesTell
<1> HIDE DEF A
<1>3. Spec => [][A]_vars
  BY <1>2, MergeInvariance, PTL DEF Spec
<1> QED BY <1>3, PTL DEF A, DiffOfMerge
=============================================================================
