-------------------------------- MODULE Sums --------------------------------
(* The sum of the values of a function to the naturals, counted as the unit  *)
(* slots under its graph: what the theorems on finite sets speak of.         *)
EXTENDS Integers, FiniteSets

Slots(f) == UNION {{x} \X (1..f[x]) : x \in DOMAIN f}

Total(f) == Cardinality(Slots(f))
=============================================================================
