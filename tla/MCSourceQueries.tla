--------------------------- MODULE MCSourceQueries ---------------------------
EXTENDS SourceQueries

\* Order 1 is of the ejercicio before EjMin = 2, order 2 of EjMin.
SomeOps == {1, 2}
SomeOcs == {10}
SomeRcs == {20}

Ejercicios == [x \in SomeOps \cup SomeOcs \cup SomeRcs |-> IF x = 2 THEN 2 ELSE 1]

SomeRows == {[op |-> 1, rc |-> 20, comprob |-> c] : c \in {"c1", "c2"}}
=============================================================================
