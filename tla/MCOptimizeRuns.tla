--------------------------- MODULE MCOptimizeRuns ---------------------------
(* Instances of OptimizeRuns for TLC: a factory and an engine that share   *)
(* creation code, and a library.                                           *)
EXTENDS OptimizeRuns

CONSTANTS factory, library, engine

Order == <<factory, library, engine>>

(* Code that grows with the runs, and code that does not.                  *)
Growing   == {1..m : m \in 0..8}
Irregular == {{1, 4}, {2, 3}, {1, 2, 3, 5, 6}}
Fitting   == Growing \cup Irregular

Shared == <<{factory, engine}, {library}>>

Chosen == {Names, {factory, library}}
=============================================================================
