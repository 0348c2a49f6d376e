-------------------------- MODULE MCCgroupsCache --------------------------
(* Tables that collide, wrap around and change the number of slots; two names *)
(* that are no UTF-8 and become that of A.                                    *)
EXTENDS CgroupsCache

Key(n, size, home) == [id |-> n, size |-> size, home |-> home]
It(n, size, home, path) == [key |-> Key(n, size, home), path |-> path]

A == It(1, 3, 15, 5)
B == It(2, 1, 15, 0)
C == It(3, 6, 0, 2)
D == It(4, 2, 31, 1)
E == It(5, 1, 3, 5)
F == It(6, 1, 4, 10)
Nine == [i \in 1..9 |-> It(10 + i, 1, 15 + (i % 2), i)]

MCTables == {<<>>, <<A>>, <<A, B, C>>, <<C, B, A, D>>, <<E, B, F>>, Nine}
MCLossyNames == [k \in {E.key, F.key} |-> A.key]
MCLossyPaths == [p \in {F.path} |-> 12]
MCLimits == {<<64, 64>>, <<64, 500>>, <<500, 500>>}
===========================================================================
