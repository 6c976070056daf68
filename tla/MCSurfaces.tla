----------------------------- MODULE MCSurfaces -----------------------------
(* A small instance of SurfaceAccess for TLC.                              *)
EXTENDS SurfaceAccess, TLC

CONSTANTS a1, a2, create1, create2, r1, here, there, nowhere

MCPaths == {<<>>, <<"">>, <<"", "page">>, <<"api", "page">>, ActionPath, CheckPath}

\* Assistants, operators and addresses are interchangeable.
SurfaceSymmetry == Permutations(Assistants) \cup Permutations(Operators) \cup Permutations(Addresses)
=============================================================================
