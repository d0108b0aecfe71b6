----------------------------- MODULE MCWaveCache -----------------------------
(***************************************************************************)
(* The instance of WaveCache that TLC checks.  Four blocks compete for     *)
(* three entries; the two views of a block are its samples before and      *)
(* after the package is parsed again; MaxGen = 2 makes the generation wrap. *)
(***************************************************************************)
EXTENDS WaveCache, TLC

CacheSymmetry == Permutations(BlockId) \cup Permutations(View)

=============================================================================
