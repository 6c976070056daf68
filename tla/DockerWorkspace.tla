-------------------------- MODULE DockerWorkspace --------------------------
(***************************************************************************)
(* The Docker workspace of one assistant: a container that is created on   *)
(* first use, started when it is stopped, and recreated when its image or  *)
(* mount is out of date (DockerWorkspaceProvider._ensure_container_sync).  *)
(* A recreation takes the files out, removes container and volume, creates *)
(* both and puts the files back. Callers run in threads and processes      *)
(* without a lock: the worker, the command runner of a tick, the command   *)
(* line. One action is one request to the Docker daemon.                   *)
(***************************************************************************)
EXTENDS Naturals

CONSTANTS
    Callers,
    Trees,       \* what /workspace may contain
    NoFiles,     \* an empty /workspace
    Nothing,     \* no volume, no archive
    MaxImages,   \* bound: versions of the image
    Faults,      \* what may go wrong: a subset of FaultKinds
    MaxFaults    \* bound: faults

FaultKinds == {"stop", "die", "inspect_fails", "export_fails", "create_fails", "put_fails", "alias_fails"}

VARIABLES
    container,   \* the container with the assistant's name, or None
    volume,      \* the named volume's files, or Nothing
    image,       \* the version of the configured image
    caller,      \* what each caller does in _ensure_container_sync
    ids,         \* containers created so far
    faults       \* faults so far

\* History variables: the files the assistant is entitled to, and what happened that
\* may have cost some of them.
VARIABLES kept, blame

vars == <<container, volume, image, caller, ids, faults, kept, blame>>

None == [id |-> 0, named |-> TRUE, bound |-> Nothing, running |-> FALSE, image |-> 0, alias |-> FALSE]

\* A mount is the named volume, or the host directory that earlier versions of the
\* provider bound, whose files only the container can reach.
Container ==
    [id: Nat, named: BOOLEAN, bound: Trees \cup {Nothing}, running: BOOLEAN, image: Nat, alias: BOOLEAN]

Steps == {"idle", "inspect", "export", "remove", "wipe", "volume", "create", "put", "start",
          "alias", "ready"}

\* archive is what a recreation has taken out of the container; for a caller that is
\* not recreating it is NoFiles, which is not put back.
Idle == [pc |-> "idle", id |-> 0, archive |-> NoFiles, recreating |-> FALSE]

TypeOK ==
    /\ container \in Container
    /\ volume \in Trees \cup {Nothing}
    /\ image \in 1..MaxImages
    /\ caller \in [Callers -> [pc: Steps, id: Nat, archive: Trees \cup {Nothing}, recreating: BOOLEAN]]
    /\ ids \in Nat
    /\ faults \in 0..MaxFaults
    /\ kept \in Trees
    /\ blame \subseteq (FaultKinds \cup {"overlap"})

\* A new assistant, or one with a container of an earlier version on a bound directory.
Init ==
    /\ \/ container = None /\ kept = NoFiles /\ ids = 0
       \/ \E files \in Trees :
             /\ container = [id |-> 1, named |-> FALSE, bound |-> files, running |-> TRUE,
                             image |-> 1, alias |-> FALSE]
             /\ kept = files
             /\ ids = 1
    /\ volume = Nothing
    /\ image = 1
    /\ caller = [c \in Callers |-> Idle]
    /\ faults = 0
    /\ blame = {}

Goto(c, pc) == caller' = [caller EXCEPT ![c].pc = pc]

\* An exception leaves get_workspace: the archive goes with the frame.
Give(c) == caller' = [caller EXCEPT ![c] = Idle]

Fault(kind) ==
    /\ kind \in Faults /\ faults < MaxFaults
    /\ faults' = faults + 1

\* A caller that is between the export and the end of its recreation.
Recreating(c) == caller[c].recreating

\* Another caller is inside get_workspace, or works in the workspace.
Busy(c) == \E d \in Callers \ {c} : caller[d].pc # "idle"

\* Is the caller's handle still the container of that name?
Alive(c) == container.id = caller[c].id

-----------------------------------------------------------------------------
(* _ensure_container_sync                                                  *)

\* containers.get
Get(c) ==
    /\ caller[c].pc = "idle"
    /\ caller' = [caller EXCEPT ![c] = [Idle EXCEPT !.pc = IF container = None THEN "volume" ELSE "inspect",
                                                   !.id = container.id]]
    /\ blame' = IF \E d \in Callers : Recreating(d) THEN blame \cup {"overlap"} ELSE blame
    /\ UNCHANGED <<container, volume, image, ids, faults, kept>>

\* _container_needs_recreate: another mount (or DNS), or another image.
NeedsRecreate == ~container.named \/ container.image # image

\* container.reload raises when the container is gone; an image that is not found
\* counts as current.
Inspect(c) ==
    /\ caller[c].pc = "inspect"
    /\ \/ /\ ~Alive(c) /\ Give(c) /\ UNCHANGED faults
       \/ /\ Alive(c)
          /\ Goto(c, IF NeedsRecreate THEN "export" ELSE "start")
          /\ UNCHANGED faults
       \/ /\ Alive(c) /\ container.named /\ Fault("inspect_fails")
          /\ Goto(c, "start")
    /\ UNCHANGED <<container, volume, image, ids, kept, blame>>

Start(c) ==
    /\ caller[c].pc = "start"
    /\ IF Alive(c)
       THEN container' = [container EXCEPT !.running = TRUE] /\ Goto(c, "alias")
       ELSE Give(c) /\ UNCHANGED container
    /\ UNCHANGED <<volume, image, ids, faults, kept, blame>>

\* _ensure_network_alias: reconnects a container that lacks its alias.
EnsureNetworkAlias(c) ==
    /\ caller[c].pc = "alias"
    /\ \/ /\ Alive(c)
          /\ container' = [container EXCEPT !.alias = TRUE] /\ Goto(c, "ready")
          /\ UNCHANGED faults
       \/ /\ ~Alive(c) /\ Give(c) /\ UNCHANGED <<container, faults>>
       \/ /\ Alive(c) /\ ~container.alias
          /\ Fault("alias_fails") /\ Give(c) /\ UNCHANGED container
    /\ UNCHANGED <<volume, image, ids, kept, blame>>

-----------------------------------------------------------------------------
(* _create_container                                                       *)

EnsureVolume(c) ==
    /\ caller[c].pc = "volume"
    /\ volume' = IF volume = Nothing THEN NoFiles ELSE volume
    /\ Goto(c, "create")
    /\ UNCHANGED <<container, image, ids, faults, kept, blame>>

\* Mutant: a container of that name is replaced.
MutNameFree == TRUE

NameFree == container = None

\* Mutant: what a recreation took out is put back only when the container is started again.
MutAfterCreate(c) == "ready"

AfterCreate(c) == IF Recreating(c) THEN "put" ELSE "ready"

\* containers.run, which raises when the name is taken.
RunContainer(c) ==
    /\ caller[c].pc = "create"
    /\ \/ /\ NameFree
          /\ ids' = ids + 1
          /\ volume' = IF volume = Nothing THEN NoFiles ELSE volume
          /\ container' = [id |-> ids + 1, named |-> TRUE, bound |-> Nothing, running |-> TRUE,
                           image |-> image, alias |-> TRUE]
          /\ caller' = [caller EXCEPT ![c].id = ids + 1, ![c].pc = AfterCreate(c)]
          /\ UNCHANGED <<faults, blame>>
       \/ /\ ~NameFree /\ Give(c)
          /\ UNCHANGED <<container, volume, ids, faults, blame>>
       \/ /\ Fault("create_fails") /\ Give(c)
          /\ blame' = IF Recreating(c) THEN blame \cup {"create_fails"} ELSE blame
          /\ UNCHANGED <<container, volume, ids>>
    /\ UNCHANGED <<image, kept>>

-----------------------------------------------------------------------------
(* _recreate_container                                                     *)

\* What the container's /workspace holds.
Contents == IF container.named THEN volume ELSE container.bound

\* _export_workspace: exec_run raises for a container that is gone or stopped; a tar
\* that fails counts as an empty workspace.
Export(c) ==
    /\ caller[c].pc = "export"
    /\ \/ /\ ~Alive(c) \/ ~container.running
          /\ Give(c)
          /\ UNCHANGED <<faults, blame>>
       \/ /\ Alive(c) /\ container.running
          /\ \E archive \in {Contents, Nothing} :
                /\ archive = Nothing => Fault("export_fails")
                /\ archive # Nothing => UNCHANGED faults
                /\ caller' = [caller EXCEPT ![c].pc = "remove", ![c].archive = archive,
                                            ![c].recreating = TRUE]
                /\ blame' = blame \cup (IF archive = Nothing THEN {"export_fails"} ELSE {})
                                 \cup (IF Busy(c) THEN {"overlap"} ELSE {})
    /\ UNCHANGED <<container, volume, image, ids, kept>>

RemoveContainer(c) ==
    /\ caller[c].pc = "remove"
    /\ IF Alive(c) THEN container' = None /\ Goto(c, "wipe") ELSE Give(c) /\ UNCHANGED container
    /\ UNCHANGED <<volume, image, ids, faults, kept, blame>>

\* _remove_workspace_volume suppresses the error of a volume that is absent or in use.
RemoveVolume(c) ==
    /\ caller[c].pc = "wipe"
    /\ volume' = IF container = None THEN Nothing ELSE volume
    /\ Goto(c, "volume")
    /\ UNCHANGED <<container, image, ids, faults, kept, blame>>

\* put_archive, when there is an archive to put.
PutArchive(c) ==
    /\ caller[c].pc = "put"
    /\ \/ /\ Alive(c)
          /\ volume' = IF caller[c].archive = Nothing THEN volume ELSE caller[c].archive
          /\ caller' = [caller EXCEPT ![c] = [Idle EXCEPT !.pc = "ready", !.id = caller[c].id]]
          /\ UNCHANGED <<faults, blame>>
       \/ /\ ~Alive(c) /\ Give(c) /\ UNCHANGED <<volume, faults, blame>>
       \/ /\ Fault("put_fails") /\ Give(c)
          /\ blame' = blame \cup {"put_fails"}
          /\ UNCHANGED volume
    /\ UNCHANGED <<container, image, ids, kept>>

-----------------------------------------------------------------------------
(* Using the workspace, and the world around it.                           *)

\* DockerEnvironmentAdapter: any change a command or a tool makes, through the
\* container of the handle.
Use(c) ==
    /\ caller[c].pc = "ready"
    /\ Alive(c) /\ container.running
    /\ \E files \in Trees :
          /\ kept' = files
          /\ IF container.named THEN volume' = files /\ UNCHANGED container
             ELSE container' = [container EXCEPT !.bound = files] /\ UNCHANGED volume
    /\ UNCHANGED <<image, caller, ids, faults, blame>>

\* The caller is done, or its handle is dead and an exception ends it.
Release(c) ==
    /\ caller[c].pc = "ready"
    /\ Give(c)
    /\ UNCHANGED <<container, volume, image, ids, faults, kept, blame>>

\* The process dies.
Die(c) ==
    /\ caller[c].pc # "idle"
    /\ Fault("die") /\ Give(c)
    /\ blame' = IF Recreating(c) THEN blame \cup {"die"} ELSE blame
    /\ UNCHANGED <<container, volume, image, ids, kept>>

\* The host is restarted; the containers are not.
Stop ==
    /\ container # None /\ container.running
    /\ Fault("stop")
    /\ container' = [container EXCEPT !.running = FALSE]
    /\ UNCHANGED <<volume, image, caller, ids, kept, blame>>

\* The sandbox image is built again.
BuildImage ==
    /\ image < MaxImages
    /\ image' = image + 1
    /\ UNCHANGED <<container, volume, caller, ids, faults, kept, blame>>

Ensure(c) ==
    \/ Get(c) \/ Inspect(c) \/ Start(c) \/ EnsureNetworkAlias(c)
    \/ EnsureVolume(c) \/ RunContainer(c)
    \/ Export(c) \/ RemoveContainer(c) \/ RemoveVolume(c) \/ PutArchive(c)

Next ==
    \/ \E c \in Callers : Ensure(c) \/ Use(c) \/ Release(c) \/ Die(c)
    \/ Stop \/ BuildImage

Spec == Init /\ [][Next]_vars

-----------------------------------------------------------------------------
(* Properties.                                                             *)

\* The assistant's files are in its workspace, or in the hands of the one caller that is
\* recreating it. They are lost only where a recreation fails or dies half-way, where
\* the export fails, or where a recreation meets another caller: not by an upgrade, a
\* stopped container, the move from the bound directory or two first uses at once
\* (docker_environment.py: "preserves per-assistant workspace state").
FilesSurvive ==
    blame = {} =>
        \/ Contents = kept
        \/ Contents = Nothing /\ kept = NoFiles
        \/ \E c \in Callers : Recreating(c) /\ caller[c].archive = kept

\* A caller that was given a workspace has the current container: it is removed under
\* its hands only by another caller's recreation.
HandleIsAlive ==
    \A c \in Callers : caller[c].pc = "ready" /\ ~Alive(c) => "overlap" \in blame
=============================================================================
