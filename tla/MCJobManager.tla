----------------------------- MODULE MCJobManager -----------------------------
(* JobManager on small instances; the jobs of one subject are              *)
(* interchangeable.                                                        *)
EXTENDS JobManager, TLC

CONSTANTS j1, j2, s1

OneSubject == [j \in Jobs |-> s1]

Symmetry == Permutations(Jobs)
==============================================================================
