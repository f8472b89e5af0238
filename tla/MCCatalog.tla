------------------------------ MODULE MCCatalog ------------------------------
(* Values of the constants of Catalog for TLC. *)
EXTENDS Catalog

CONSTANTS s1, s2, e1, e2, m1, m2

TwoSeries == [e \in {e1, e2} |-> IF e = e1 THEN s1 ELSE s2]
OneEach == [m \in {m1, m2} |-> IF m = m1 THEN e1 ELSE e2]
=============================================================================
