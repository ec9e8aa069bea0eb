------------------------------- MODULE Powers -------------------------------
(***************************************************************************)
(* Powers, defined by recursion so that they can be reasoned about.        *)
(***************************************************************************)
EXTENDS Naturals

Pow2[k \in Nat] == IF k = 0 THEN 1 ELSE 2 * Pow2[k - 1]

Pow(b, n) == LET p[k \in Nat] == IF k = 0 THEN 1 ELSE b * p[k - 1] IN p[n]
=============================================================================
