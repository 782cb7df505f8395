-------------------------------- MODULE Sums --------------------------------
(* Sums of the first values of a function, as a recursive function.        *)
EXTENDS Naturals

\* g[1] + ... + g[n]
SumTo(g, n) == LET s[k \in Nat] == IF k = 0 THEN 0 ELSE s[k - 1] + g[k] IN s[n]
=============================================================================
