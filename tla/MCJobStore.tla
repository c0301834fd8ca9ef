------------------------------ MODULE MCJobStore ------------------------------
(* JobStore on small instances: jobs of one subject are interchangeable.   *)
EXTENDS JobStore, TLC

CONSTANTS j1, j2, j3, s1

OneSubject == [j \in Jobs |-> s1]

Symmetry == Permutations(Jobs)
==============================================================================
