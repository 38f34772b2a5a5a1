----------------------------- MODULE MCSimpleCache -----------------------------
(* Instances A, B and C; a1 is a call of A, a2 one from the closure of a1.    *)
EXTENDS SimpleCache, TLC

CONSTANTS k1, k2, a1, a2, b1, b2, c1

MCOwner == [t \in Txs |-> CASE t \in {a1, a2} -> "A"
                            [] t \in {b1, b2} -> "B"
                            [] t = c1         -> "C"]
MCOuter == [t \in Txs |-> CASE t = a2 -> a1
                            [] t = b2 -> b1
                            [] OTHER  -> NoTx]
\* The closure for k1 asks for k2.
MCBelow == [k \in Keys |-> IF k = k1 THEN Keys \ {k1} ELSE {}]
MCSymmetry == Permutations({a1, b1, c1} \cap Txs)
===============================================================================
