------------------------------- MODULE Totals -------------------------------
(* A sum of naturals counts their units, each a pair of a key and a        *)
(* number, so that it needs no recursion over the keys.                    *)
EXTENDS Integers, FiniteSets

Units(f, K) == UNION {{k} \X (1..f[k]) : k \in K}

Total(f, K) == Cardinality(Units(f, K))

=============================================================================
