-------------------------- MODULE MCPlatformTasks --------------------------
(* Small instances of PlatformTasks for TLC. *)
EXTENDS PlatformTasks, TLC

CONSTANTS p1, p2, a, b, c, i1, i2, i3

\* Posters are interchangeable, and so are the tasks of a safety run.
Symmetry == Permutations(Posters) \cup Permutations(Tasks) \cup Permutations(Imms)
=============================================================================
