---------------------------- MODULE MCLookupCache ----------------------------
(* Safety of one cache for TLC: the callers of getCache() are alike, so their *)
(* permutations are a symmetry (no liveness property is checked with it).     *)
EXTENDS LookupCache, TLC

ReaderSymmetry == Permutations(Readers)
=============================================================================
