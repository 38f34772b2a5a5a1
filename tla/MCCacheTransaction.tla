-------------------------- MODULE MCCacheTransaction --------------------------
(* Two wasm instances that look up the same key, each in one transaction at  *)
(* a time.  They differ only in name, so that an exchange of the two is a    *)
(* symmetry of the invariants.                                               *)
EXTENDS CacheTransaction, TLC

CONSTANTS k1, a1, b1

MCOwner == [t \in Txs |-> IF t = b1 THEN "B" ELSE "A"]
MCSymmetry == Permutations(Txs)
===============================================================================
