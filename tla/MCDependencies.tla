--------------------------- MODULE MCDependencies ---------------------------
(* Dependencies alone, on the functions and routes of SampleProjects.        *)
EXTENDS Dependencies, SampleProjects
=============================================================================
