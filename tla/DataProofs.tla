------------------------------ MODULE DataProofs ------------------------------
(***************************************************************************)
(* What the other proofs need to know of data: the least and the greatest  *)
(* of some numbers, induction along a sequence, and folds.                 *)
(*                                                                         *)
(* A theorem with an operator as its parameter cannot be applied here, so  *)
(* induction is over a set of numbers, and a fold is given by a function   *)
(* H on pairs of a value and a position.  FoldLeft visits a sequence by    *)
(* taking the greatest position away from the set of those that are left,  *)
(* so its partial results are indexed by sets of positions.                *)
(***************************************************************************)
EXTENDS Naturals, FiniteSetsExt, WellFoundedInduction, TLAPS

(* A nonempty set of naturals has a least element, and Min is it.          *)
LEMMA MinIsMember ==
  ASSUME NEW S \in SUBSET Nat, S # {}
  PROVE  Min(S) \in S /\ \A n \in S : Min(S) <= n
<1> DEFINE Less == {p \in Nat \X Nat : p[1] < p[2]}
<1>1. IsWellFoundedOn(Less, Nat)
  BY NatLessThanWellFounded, Zenon DEF OpToRel
<1>2. PICK m \in S : \A n \in S : <<n, m>> \notin Less
  BY <1>1, WFMin
<1>3. ASSUME NEW n \in S PROVE m <= n
  <2>1. m \in Nat /\ n \in Nat /\ <<n, m>> \in Nat \X Nat
    OBVIOUS
  <2>2. ~(n < m)
    BY <1>2, <2>1
  <2> QED BY <2>1, <2>2
<1> QED BY <1>3 DEF Min

(* A nonempty set of naturals below a bound has a greatest element.        *)
LEMMA MaxIsMember ==
  ASSUME NEW n \in Nat, NEW S \in SUBSET (0 .. n), S # {}
  PROVE  Max(S) \in S /\ \A i \in S : i <= Max(S)
<1> DEFINE M == {n - i : i \in S}
<1>1. M \in SUBSET Nat /\ M # {}
  <2>1. ASSUME NEW i \in S PROVE n - i \in Nat
    OBVIOUS
  <2> QED BY <2>1
<1>2. Min(M) \in M /\ \A j \in M : Min(M) <= j
  BY <1>1, MinIsMember
<1>3. PICK m \in S : Min(M) = n - m
  BY <1>2
<1>4. \A i \in S : i <= m
  <2> TAKE i \in S
  <2>1. n - m <= n - i
    BY <1>2, <1>3
  <2> QED BY <2>1
<1> HIDE DEF M
<1> QED BY <1>4 DEF Max

(* Induction along the positions of a sequence.                            *)
LEMMA PrefixInduction ==
  ASSUME NEW n \in Nat, NEW G, 0 \in G,
         \A k \in 1 .. n : k - 1 \in G => k \in G
  PROVE  \A k \in 0 .. n : k \in G
<1> DEFINE B == {k \in 0 .. n : k \notin G}
<1> SUFFICES ASSUME B # {} PROVE FALSE
  OBVIOUS
<1>1. Min(B) \in B /\ \A k \in B : Min(B) <= k
  BY MinIsMember
<1>2. Min(B) \in 1 .. n /\ Min(B) - 1 \notin B
  BY <1>1
<1>3. Min(B) - 1 \in G
  BY <1>2
<1> QED BY <1>1, <1>2, <1>3

(* What a fold takes away from the first k positions is the last of them.  *)
LEMMA MaxOfPrefix ==
  ASSUME NEW k \in Nat \ {0}
  PROVE  Max(1 .. k) = k /\ (1 .. k) \ {k} = 1 .. (k - 1)
<1>1. Max(1 .. k) \in 1 .. k /\ \A i \in 1 .. k : i <= Max(1 .. k)
  <2>1. 1 .. k \in SUBSET (0 .. k) /\ 1 .. k # {}
    OBVIOUS
  <2> QED BY <2>1, MaxIsMember
<1> QED BY <1>1

(* The partial results of a fold: all of them, and those that follow from  *)
(* members of V.                                                           *)
Solves(f, n, base, H) ==
  \A s \in SUBSET (1 .. n) :
    f[s] = IF s = {} THEN base ELSE H[<<f[s \ {Max(s)}], Max(s)>>]

Follows(f, n, V, base, H) ==
  /\ f[{}] = base
  /\ \A s \in SUBSET (1 .. n) :
       s # {} /\ f[s \ {Max(s)}] \in V => f[s] = H[<<f[s \ {Max(s)}], Max(s)>>]

(* The same, position by position.                                         *)
Runs(r, n, base, H, last) ==
  r[0] = base /\ r[n] = last /\ \A k \in 1 .. n : r[k] = H[<<r[k - 1], k>>]

(* The equations of a fold over 1 .. n have a solution.                    *)
LEMMA FoldExists ==
  ASSUME NEW n \in Nat, NEW V, NEW base \in V, NEW H \in [V \X (1 .. n) -> V]
  PROVE  \E f \in [SUBSET (1 .. n) -> V] : Solves(f, n, base, H)
<1> DEFINE G == {k \in 0 .. n : \E f \in [SUBSET (1 .. k) -> V] : Solves(f, k, base, H)}
<1>1. 0 \in G
  <2>1. SUBSET (1 .. 0) = {{}}
    OBVIOUS
  <2>2. [s \in SUBSET (1 .. 0) |-> base] \in [SUBSET (1 .. 0) -> V]
    OBVIOUS
  <2>3. Solves([s \in SUBSET (1 .. 0) |-> base], 0, base, H)
    BY <2>1 DEF Solves
  <2> QED BY <2>2, <2>3
<1>2. ASSUME NEW k \in 1 .. n, k - 1 \in G PROVE k \in G
  <2>1. PICK f \in [SUBSET (1 .. (k - 1)) -> V] : Solves(f, k - 1, base, H)
    BY <1>2
  <2> DEFINE g == [s \in SUBSET (1 .. k) |-> IF k \in s THEN H[<<f[s \ {k}], k>>] ELSE f[s]]
  <2>2. \A s \in SUBSET (1 .. k) :
          /\ k \in s => s \ {k} \in SUBSET (1 .. (k - 1)) /\ Max(s) = k
          /\ k \notin s => s \in SUBSET (1 .. (k - 1))
    <3> TAKE s \in SUBSET (1 .. k)
    <3>1. ASSUME k \in s PROVE s \ {k} \in SUBSET (1 .. (k - 1)) /\ Max(s) = k
      <4>1. k \in Nat /\ s \in SUBSET (0 .. k) /\ s # {}
        BY <3>1
      <4>2. Max(s) \in s /\ k <= Max(s)
        BY <3>1, <4>1, MaxIsMember
      <4>3. \A i \in s : i \in 1 .. k
        OBVIOUS
      <4>4. Max(s) = k
        <5>1. Max(s) \in 1 .. k
          BY <4>2, <4>3
        <5> QED BY <4>1, <4>2, <5>1
      <4>5. \A i \in s \ {k} : i \in 1 .. (k - 1)
        BY <4>3
      <4> QED BY <4>4, <4>5
    <3>2. ASSUME k \notin s PROVE s \in SUBSET (1 .. (k - 1))
      <4>1. \A i \in s : i \in 1 .. (k - 1)
        BY <3>2
      <4> QED BY <4>1
    <3> QED BY <3>1, <3>2
  <2>3. g \in [SUBSET (1 .. k) -> V]
    <3>1. ASSUME NEW s \in SUBSET (1 .. k)
          PROVE  (IF k \in s THEN H[<<f[s \ {k}], k>>] ELSE f[s]) \in V
      BY <2>2
    <3> QED BY <3>1
  <2>4. ASSUME NEW s \in SUBSET (1 .. k)
        PROVE  g[s] = IF s = {} THEN base ELSE H[<<g[s \ {Max(s)}], Max(s)>>]
    <3>1. CASE k \in s
      <4>1. s \ {k} \in SUBSET (1 .. (k - 1)) /\ Max(s) = k /\ s # {} /\ s \ {k} \in SUBSET (1 .. k)
        BY <2>2, <3>1
      <4>2. g[s] = H[<<f[s \ {k}], k>>] /\ g[s \ {k}] = f[s \ {k}]
        BY <3>1, <4>1
      <4> HIDE DEF g
      <4> QED BY <4>1, <4>2
    <3>2. CASE k \notin s
      <4>1. s \in SUBSET (1 .. (k - 1)) /\ s \ {Max(s)} \in SUBSET (1 .. k)
        BY <2>2, <3>2
      <4>2. g[s] = f[s] /\ g[s \ {Max(s)}] = f[s \ {Max(s)}]
        BY <3>2, <4>1
      <4>3. f[s] = IF s = {} THEN base ELSE H[<<f[s \ {Max(s)}], Max(s)>>]
        BY <2>1, <4>1 DEF Solves
      <4> HIDE DEF g
      <4> QED BY <4>2, <4>3
    <3> QED BY <3>1, <3>2
  <2>5. Solves(g, k, base, H)
    <3> HIDE DEF g
    <3> QED BY <2>4 DEF Solves
  <2> HIDE DEF g
  <2> QED BY <2>3, <2>5
<1>3. \A k \in 0 .. n : k \in G
  <2> HIDE DEF G
  <2> QED BY <1>1, <1>2, PrefixInduction
<1>4. n \in 0 .. n
  OBVIOUS
<1>5. n \in G
  <2> HIDE DEF G
  <2> QED BY <1>3, <1>4
<1> QED BY <1>5

(* Whatever satisfies the equations where they are about members of V runs *)
(* through the positions one by one and stays in V.                        *)
LEMMA FoldPrefixes ==
  ASSUME NEW n \in Nat, NEW V, NEW base \in V, NEW H \in [V \X (1 .. n) -> V], NEW iter,
         Follows(iter, n, V, base, H)
  PROVE  \E r \in [0 .. n -> V] : Runs(r, n, base, H, iter[1 .. n])
<1> DEFINE G == {k \in 0 .. n : iter[1 .. k] \in V}
           r == [k \in 0 .. n |-> iter[1 .. k]]
<1>1. 1 .. 0 = {}
  OBVIOUS
<1>2. ASSUME NEW k \in 1 .. n, iter[1 .. (k - 1)] \in V
      PROVE  iter[1 .. k] \in V /\ iter[1 .. k] = H[<<iter[1 .. (k - 1)], k>>]
  <2>1. 1 .. k \in SUBSET (1 .. n) /\ 1 .. k # {}
    OBVIOUS
  <2>2. Max(1 .. k) = k /\ (1 .. k) \ {Max(1 .. k)} = 1 .. (k - 1)
    BY MaxOfPrefix
  <2>3. iter[1 .. k] = H[<<iter[1 .. (k - 1)], k>>]
    BY <1>2, <2>1, <2>2 DEF Follows
  <2> QED BY <1>2, <2>3
<1>3. \A k \in 0 .. n : iter[1 .. k] \in V
  <2>1. 0 \in G
    BY <1>1 DEF Follows
  <2>2. ASSUME NEW k \in 1 .. n, k - 1 \in G PROVE k \in G
    <3>1. iter[1 .. (k - 1)] \in V /\ k \in 0 .. n
      BY <2>2
    <3>2. iter[1 .. k] \in V
      BY <1>2, <3>1
    <3> QED BY <3>1, <3>2
  <2> HIDE DEF G
  <2>3. \A k \in 0 .. n : k \in G
    BY <2>1, <2>2, PrefixInduction
  <2> QED BY <2>3 DEF G
<1>4. r \in [0 .. n -> V] /\ r[0] = base /\ r[n] = iter[1 .. n]
  BY <1>1, <1>3 DEF Follows
<1>5. ASSUME NEW k \in 1 .. n PROVE r[k] = H[<<r[k - 1], k>>]
  <2>1. r[k] = iter[1 .. k] /\ r[k - 1] = iter[1 .. (k - 1)]
    OBVIOUS
  <2> HIDE DEF r
  <2>2. k - 1 \in 0 .. n
    OBVIOUS
  <2> QED BY <1>2, <1>3, <2>1, <2>2
<1>6. Runs(r, n, base, H, iter[1 .. n])
  <2> HIDE DEF r
  <2> QED BY <1>4, <1>5 DEF Runs
<1> HIDE DEF r
<1> QED BY <1>4, <1>6

(* So a fold stays in V.                                                   *)
LEMMA FoldStays ==
  ASSUME NEW n \in Nat, NEW V, NEW base \in V, NEW H \in [V \X (1 .. n) -> V], NEW iter,
         Follows(iter, n, V, base, H)
  PROVE  iter[1 .. n] \in V
<1>1. PICK r \in [0 .. n -> V] : Runs(r, n, base, H, iter[1 .. n])
  BY FoldPrefixes
<1>2. r[n] = iter[1 .. n] /\ n \in 0 .. n
  BY <1>1 DEF Runs
<1> QED BY <1>2

(* And it is in P[n] if each step leads from one of the sets P to the next. *)
LEMMA FoldReaches ==
  ASSUME NEW n \in Nat, NEW V, NEW base \in V, NEW H \in [V \X (1 .. n) -> V], NEW iter,
         Follows(iter, n, V, base, H), NEW P, base \in P[0],
         \A k \in 1 .. n, v \in V : v \in P[k - 1] => H[<<v, k>>] \in P[k]
  PROVE  iter[1 .. n] \in P[n]
<1>1. PICK r \in [0 .. n -> V] : Runs(r, n, base, H, iter[1 .. n])
  BY FoldPrefixes
<1> DEFINE G == {k \in 0 .. n : r[k] \in P[k]}
<1>2. 0 \in G
  BY <1>1 DEF Runs
<1>3. ASSUME NEW k \in 1 .. n, k - 1 \in G PROVE k \in G
  <2>1. r[k - 1] \in V /\ r[k - 1] \in P[k - 1] /\ k \in 0 .. n
    BY <1>3
  <2>2. r[k] = H[<<r[k - 1], k>>]
    BY <1>1 DEF Runs
  <2> QED BY <2>1, <2>2
<1>4. \A k \in 0 .. n : k \in G
  <2> HIDE DEF G
  <2> QED BY <1>2, <1>3, PrefixInduction
<1>5. n \in 0 .. n /\ r[n] = iter[1 .. n]
  BY <1>1 DEF Runs
<1> QED BY <1>4, <1>5

(* The greatest of some positions is one of them.                          *)
LEMMA MaxIsPosition ==
  ASSUME NEW n \in Nat, NEW s \in SUBSET (1 .. n), s # {}
  PROVE  Max(s) \in s /\ Max(s) \in 1 .. n
<1>1. s \in SUBSET (0 .. n)
  OBVIOUS
<1> QED BY <1>1, MaxIsMember
=============================================================================
