------------------------------ MODULE NameDict ------------------------------
(***************************************************************************)
(* The name dictionary of a parsed package: the hash table that            *)
(* rv_decode_snam (src/internal/rv_section.c) builds over the name rows,   *)
(* and the search of rv_dict_by_str (src/internal/rv_dict.c).  A bucket    *)
(* holds the position of a row, or 0; a bucket that is taken is passed     *)
(* over, with wrap-around.                                                 *)
(*                                                                         *)
(* A definition marked "mutant" is a plausible bug in the definition after *)
(* it; no specification uses it.                                           *)
(***************************************************************************)
EXTENDS PackageTables, FiniteSetsExt, Doubling

CONSTANTS
  Hash,         \* rv_hash32
  LeastBuckets  \* 8: added to twice the number of names

ASSUME HashAssumption == Hash \in [Name -> Nat] /\ LeastBuckets \in Nat \ {0}

(* The least power of two that is large enough.                            *)
Buckets(count) ==
  Min({n \in {Doubled[k] : k \in 0 .. count + LeastBuckets} : n >= 2 * count + LeastBuckets})

(* The k-th bucket that is tried for a string.                             *)
Probe(size, str, k) == (Hash[str] + k) % size

\* mutant: the bucket of the hash is taken whether it is free or not
InsertOver(bucket, size, names, i) == [bucket EXCEPT ![Probe(size, names[i].str, 0)] = i]

Insert(bucket, size, names, i) ==
  LET free == {k \in 0 .. size - 1 : bucket[Probe(size, names[i].str, k)] = 0}
  IN  [bucket EXCEPT ![Probe(size, names[i].str, Min(free))] = i]

BucketsOf(names) ==
  LET size == Buckets(Len(names))
  IN  FoldLeft(LAMBDA bucket, i : Insert(bucket, size, names, i),
               [b \in 0 .. size - 1 |-> 0], [i \in DOMAIN names |-> i])

(* rv_dict_by_str: the search ends at the string or at a free bucket; the  *)
(* position of the row, or 0.                                              *)
FindString(names, str) ==
  LET bucket == BucketsOf(names)
      size == Buckets(Len(names))
      At(k) == bucket[Probe(size, str, k)]
      ends == {k \in 0 .. size - 1 : At(k) = 0 \/ names[At(k)].str = str}
  IN  IF ends = {} THEN 0 ELSE At(Min(ends))
=============================================================================
