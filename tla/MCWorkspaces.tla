---------------------------- MODULE MCWorkspaces ----------------------------
(* A small instance of Workspaces for TLC.                                 *)
EXTENDS Workspaces, TLC

CONSTANTS worker, cli, run, tick, nobody

\* The processes and the callers are interchangeable.
WorkspaceSymmetry == Permutations(Processes) \cup Permutations(Callers)
=============================================================================
