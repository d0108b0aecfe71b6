------------------------------ MODULE Doubling ------------------------------
(***************************************************************************)
(* The sizes of the hash table of names (src/internal/rv_section.c) and of *)
(* the maps of an index (src/internal/rv_index.c): both loops double a     *)
(* size until it is large enough.                                          *)
(***************************************************************************)
EXTENDS Naturals

(* A size of 1, doubled k times.                                           *)
Doubled[k \in Nat] == IF k = 0 THEN 1 ELSE 2 * Doubled[k - 1]
=============================================================================
