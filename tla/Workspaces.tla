----------------------------- MODULE Workspaces -----------------------------
(***************************************************************************)
(* The workspace of one assistant in a deployment, which is built with one *)
(* of the two providers (composition.py, SANDBOX_PROVIDER). What one       *)
(* provider keeps the other does not touch.                                *)
(***************************************************************************)
EXTENDS BashkitWorkspace

CONSTANTS Callers, Files0, Files1, Nothing, MaxImages, Faults, MaxFaults

VARIABLES provider, container, volume, image, caller, ids, faults, kept, blame

Docker == INSTANCE DockerWorkspace WITH
              Trees <- {Files0, Files1}, NoFiles <- Files0

dockerVars == <<container, volume, image, caller, ids, faults, kept, blame>>

workspaceVars == <<vars, dockerVars, provider>>

WorkspacesTypeOK ==
    /\ provider \in {"docker", "bashkit"}
    /\ TypeOK
    /\ Docker!TypeOK

WorkspacesInit ==
    /\ provider \in {"docker", "bashkit"}
    /\ Init
    /\ Docker!Init
    /\ provider = "bashkit" => container = Docker!None

WorkspacesNext ==
    /\ UNCHANGED provider
    /\ \/ provider = "bashkit" /\ Next /\ UNCHANGED dockerVars
       \/ provider = "docker" /\ Docker!Next /\ UNCHANGED vars

WorkspacesSpec == WorkspacesInit /\ [][WorkspacesNext]_workspaceVars

FilesSurvive == Docker!FilesSurvive
HandleIsAlive == Docker!HandleIsAlive
=============================================================================
