------------------------------ MODULE MCApis ------------------------------
(* Apis alone, on the projects of SampleProjects.                          *)
EXTENDS Apis, SampleProjects

\* The requests are interchangeable.
Symmetry == Permutations(Requests)
===========================================================================
