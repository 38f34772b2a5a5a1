---------------------------- MODULE MCLookupHeaders ----------------------------
(* Builders b1, b2, b3, handles h1, h2 and header names n1, n2.              *)
EXTENDS LookupHeaders, TLC

CONSTANTS b1, b2, b3, h1, h2, n1, n2

MCSymmetry == Permutations(Builders) \cup Permutations(Handles) \cup Permutations(Names)
===============================================================================
