-------------------------- MODULE BashkitWorkspace --------------------------
(***************************************************************************)
(* The Bashkit workspace of one assistant: BashkitEnvironment (an          *)
(* in-process file system with a cache of exact bytes), its provider       *)
(* (one environment for each process, snapshots saved by background tasks) *)
(* and what uses it: the set-up of a run, the agent's tools, the commands  *)
(* of scheduled tasks. Every operation holds the environment's lock, so it *)
(* is one action.                                                          *)
(*                                                                         *)
(* A save is two: BashkitSnapshotStore.save empties the file and writes it *)
(* in place, without a lock or a rename, while other processes load it and *)
(* save theirs. Within its process nothing else runs between the two. Of   *)
(* from_snapshot, which is Bashkit's, we assume that it raises for a file  *)
(* that is not one whole snapshot.                                         *)
(*                                                                         *)
(* A file of the workspace has several spellings, "a" and "x/../a", which  *)
(* _normalize keeps apart: Bashkit writes the same file, the cache has an  *)
(* entry for each.                                                         *)
(***************************************************************************)
EXTENDS Naturals, FiniteSets

CONSTANTS
    Processes,      \* the worker, and inject-email --follow
    Files,          \* paths of the workspace but the emails directory
    Mails,          \* paths under emails/
    Texts,          \* contents that are UTF-8
    Binaries,       \* contents that are not
    Spellings,      \* ways to spell a path
    Plain,          \* the one without "..", which the platform uses
    Nobody,         \* who saves a snapshot from outside: a migration
    MaxChanges,     \* bound: changes to the workspace
    MaxPending,     \* bound: persist tasks of a process that wait
    MaxExits        \* bound: processes that end and saves that fail

Absent == "absent"
Damaged == "damaged"    \* a text with U+FFFD in place of the bytes

Paths == Files \cup Mails

Bytes == Texts \cup Binaries

ASSUME BashkitAssumption ==
    /\ Files # {} /\ Files \cap Mails = {} /\ Texts \cap Binaries = {}
    /\ {Absent, Damaged} \cap Bytes = {}
    /\ Plain \in Spellings /\ Nobody \notin Processes
    /\ MaxChanges \in Nat /\ MaxPending \in Nat /\ MaxExits \in Nat

VARIABLES
    env,       \* each process's environment and its pending persist tasks
    snapshot,  \* the file of BashkitSnapshotStore
    saving,    \* who is writing it
    changes,   \* changes so far
    exits      \* processes that ended and saves that failed so far

\* History variables.
VARIABLES
    saver,     \* who loaded the snapshot, or began or ended a save, last
    mixed,     \* two were saving at once, and one of these saves is not over
    spelt      \* how the path of each file was spelt when an adapter wrote it last

files == <<snapshot, saving, mixed, saver>>

vars == <<env, files, changes, exits, spelt>>

\* What the file system may hold at a path, and what it may hold as a whole.
Stored == Bytes \cup {Damaged, Absent}
Trees == [Paths -> Stored]

\* The directory that EmailWorkspaceProjector writes on the host: a text for each mail.
Projections == [Mails -> Texts]

NoTree == [p \in Paths |-> Absent]
NoMount == [m \in {} |-> Absent]
NotCached == [bytes |-> Absent, at |-> 0]

\* A file that is not one whole snapshot: empty, cut off, or written by two at once.
Torn == [p \in {} |-> Damaged]

\* A new environment on a tree: no mount, an empty cache, nothing executed.
Fresh(tree) ==
    [open |-> TRUE, vfs |-> tree, mount |-> NoMount, generation |-> 0, pending |-> 0,
     cache |-> [n \in Paths \X Spellings |-> NotCached]]

Closed == [Fresh(NoTree) EXCEPT !.open = FALSE]

TypeOK ==
    /\ env \in [Processes ->
          [open: BOOLEAN, vfs: Trees, mount: Projections \cup {NoMount}, generation: Nat,
           pending: Nat,
           cache: [Paths \X Spellings -> [bytes: Bytes \cup {Absent}, at: Nat]]]]
    /\ snapshot \in Trees \cup {Torn}
    /\ saving \subseteq Processes \cup {Nobody}
    /\ mixed \in BOOLEAN
    /\ saver \in Processes \cup {Nobody}
    /\ spelt \in [Processes -> [Paths -> Spellings]]
    /\ changes \in Nat
    /\ exits \in Nat

Init ==
    /\ env = [p \in Processes |-> Closed]
    /\ snapshot = NoTree
    /\ saving = {}
    /\ mixed = FALSE
    /\ saver = Nobody
    /\ spelt = [p \in Processes |-> [f \in Paths |-> Plain]]
    /\ changes = 0
    /\ exits = 0

-----------------------------------------------------------------------------
(* Reading.                                                                *)

\* bytes.decode("utf-8", errors="replace")
Decode(c) == IF c \in Binaries THEN Damaged ELSE c

\* What a shell command finds at a path: a mount hides what is below it.
View(e, p) == IF p \in DOMAIN e.mount THEN e.mount[p] ELSE e.vfs[p]

\* _read_text_unlocked: bash.read_file raises for what is absent or not UTF-8.
Readable(e, p) == View(e, p) \in Texts \cup {Damaged}

Cached(e, p, s) == e.cache[<<p, s>>] # NotCached /\ e.cache[<<p, s>>].at >= e.generation

\* read_bytes: the bytes an adapter wrote, until a command is executed.
CanReadBytes(e, p, s) == Cached(e, p, s) \/ Readable(e, p)

ReadBytes(e, p, s) == IF Cached(e, p, s) THEN e.cache[<<p, s>>].bytes ELSE View(e, p)

-----------------------------------------------------------------------------
(* Writing. Every change creates a task that will save a snapshot.         *)

\* on_change: asyncio.create_task(persist_workspace)
Notify(e) == [e EXCEPT !.pending = @ + 1]

Writable(e, p) == p \notin DOMAIN e.mount

\* Only the entry of the spelling that is used is dropped, or set.
WriteText(e, p, s, t) == Notify([e EXCEPT !.vfs[p] = t, !.cache[<<p, s>>] = NotCached])

WriteBytes(e, p, s, c) ==
    Notify([e EXCEPT !.vfs[p] = Decode(c),
                     !.cache[<<p, s>>] = [bytes |-> c, at |-> e.generation]])

Forget(e, S) ==
    [n \in Paths \X Spellings |-> IF n[1] \in S /\ n[2] = Plain THEN NotCached ELSE e.cache[n]]

\* rm of a file or a directory.
Remove(e, S) ==
    Notify([e EXCEPT !.vfs = [p \in Paths |-> IF p \in S THEN Absent ELSE @[p]],
                     !.cache = Forget(e, S)])

\* mount_readonly_host_dir on emails/: what was there is unmounted or removed.
Mount(e, mails) ==
    Notify([e EXCEPT !.vfs = [p \in Paths |-> IF p \in Mails THEN Absent ELSE @[p]],
                     !.mount = mails, !.cache = Forget(e, Mails)])

\* rm on the mounted emails/: nothing else is touched.
Unmount(e) == Notify([e EXCEPT !.mount = NoMount])

\* A command leaves its effects behind also when it is cut off by its timeout.
Effects(e) ==
    {e.vfs} \cup {[e.vfs EXCEPT ![p] = c] : p \in {q \in Paths : Writable(e, q)}, c \in Bytes \cup {Absent}}

\* Mutant: a command that times out returns before the generation is counted.
MutExecuted(e, tree) == Notify([e EXCEPT !.vfs = tree])

\* exec: counted and notified in a finally block.
Executed(e, tree) == Notify([e EXCEPT !.vfs = tree, !.generation = @ + 1])

Change(p, e) ==
    /\ changes < MaxChanges /\ env[p].pending < MaxPending
    /\ changes' = changes + 1
    /\ env' = [env EXCEPT ![p] = e]

\* The process is there, and not in the middle of a save.
Ready(p) == env[p].open /\ p \notin saving

-----------------------------------------------------------------------------
(* The provider.                                                           *)

\* get_workspace.
Open(p) ==
    /\ ~env[p].open
    /\ snapshot # Torn
    /\ env' = [env EXCEPT ![p] = Fresh(snapshot)]
    /\ saver' = p
    /\ UNCHANGED <<snapshot, saving, mixed, changes, exits, spelt>>

\* Mutant: the snapshot is taken with its mounts.
MutDurable(e) == [p \in Paths |-> View(e, p)]

\* snapshot: the mounts are removed and put back.
Durable(e) == e.vfs

\* write_bytes opens the file, which empties it.
BeginSave(w) ==
    /\ saving' = saving \cup {w}
    /\ mixed' = (mixed \/ saving # {})
    /\ snapshot' = Torn
    /\ saver' = w

\* It has written the tree, or its part of what several have written together.
EndSave(w, tree) ==
    /\ saving' = saving \ {w}
    /\ mixed' = (mixed /\ saving' # {})
    /\ snapshot' = tree \/ (mixed /\ snapshot' = Torn)
    /\ saver' = w

\* It ends in the middle, after some of its bytes or none.
CutSave(w) ==
    /\ saving' = saving \ {w}
    /\ mixed' = (mixed /\ saving' # {})
    /\ snapshot' \in {snapshot, Torn}
    /\ saver' = w

\* persist_workspace: a task saves the workspace as it is by now.
Persist(p) ==
    /\ Ready(p) /\ env[p].pending > 0
    /\ env' = [env EXCEPT ![p].pending = @ - 1]
    /\ BeginSave(p)
    /\ UNCHANGED <<changes, exits, spelt>>

Persisted(p) ==
    /\ p \in saving
    /\ EndSave(p, Durable(env[p]))
    /\ UNCHANGED <<env, changes, exits, spelt>>

\* The task raises before it opens the file. Nobody learns of it.
PersistFails(p) ==
    /\ Ready(p) /\ env[p].pending > 0
    /\ env' = [env EXCEPT ![p].pending = @ - 1]
    /\ UNCHANGED <<files, changes, exits, spelt>>

\* A write raises (the disk is full), or a migration is stopped.
SaveFails(w) ==
    /\ w \in saving
    /\ exits < MaxExits
    /\ exits' = exits + 1
    /\ CutSave(w)
    /\ UNCHANGED <<env, changes, spelt>>

\* The process ends with its environment and its tasks, perhaps in the middle of a save.
Exit(p) ==
    /\ env[p].open
    /\ exits < MaxExits
    /\ exits' = exits + 1
    /\ env' = [env EXCEPT ![p] = Closed]
    /\ IF p \in saving THEN CutSave(p) ELSE UNCHANGED files
    /\ UNCHANGED <<changes, spelt>>

-----------------------------------------------------------------------------
(* migrate-workspace-to-bashkit and migrate-workspace-to-docker.           *)

\* import_workspace_tar skips what is not UTF-8.
ImportTar(tree) == [p \in Paths |-> IF tree[p] \in Texts THEN tree[p] ELSE Absent]

\* export_workspace_tar leaves out what cannot be read and what looks damaged.
ExportTar(tree) == [p \in Paths |-> IF tree[p] \in Texts THEN tree[p] ELSE Absent]

\* With --force an existing snapshot is replaced, whoever works on a copy of it.
MigrateToBashkit ==
    /\ Nobody \notin saving
    /\ changes < MaxChanges
    /\ changes' = changes + 1
    /\ BeginSave(Nobody)
    /\ UNCHANGED <<env, exits, spelt>>

Migrated ==
    /\ Nobody \in saving
    /\ \E archive \in [Paths -> Bytes \cup {Absent}] : EndSave(Nobody, ImportTar(archive))
    /\ UNCHANGED <<env, changes, exits, spelt>>

-----------------------------------------------------------------------------
(* The operations, as the set-up of a run, the agent's tools and the       *)
(* commands of scheduled tasks use them, in any order.                     *)

\* write_text: the tools write and edit, the platform environment, starter files.
Write(p) ==
    /\ Ready(p)
    /\ \E f \in Files, s \in Spellings, t \in Texts :
          Change(p, WriteText(env[p], f, s, t)) /\ spelt' = [spelt EXCEPT ![p][f] = s]
    /\ UNCHANGED <<files, exits>>

\* write_bytes: the projected source, and what a tool made on the host (a PDF, a document).
Produce(p) ==
    /\ Ready(p)
    /\ \E f \in Files, s \in Spellings, c \in Bytes :
          Change(p, WriteBytes(env[p], f, s, c)) /\ spelt' = [spelt EXCEPT ![p][f] = s]
    /\ UNCHANGED <<files, exits>>

\* rm of a file by the platform; it raises for a file that is absent, and nothing changes.
RemoveFile(p) ==
    /\ Ready(p)
    /\ \E f \in Files :
          /\ env[p].vfs[f] # Absent
          /\ Change(p, Remove(env[p], {f})) /\ spelt' = [spelt EXCEPT ![p][f] = Plain]
    /\ UNCHANGED <<files, exits>>

\* project_email_directory, at the start of a run.
ProjectEmails(p) ==
    /\ Ready(p)
    /\ \E mails \in Projections : Change(p, Mount(env[p], mails))
    /\ UNCHANGED <<files, exits, spelt>>

\* project_emails, when the host has no mails: rm unmounts, or removes what is there.
RemoveEmails(p) ==
    /\ Ready(p)
    /\ Change(p, IF env[p].mount # NoMount THEN Unmount(env[p]) ELSE Remove(env[p], Mails))
    /\ UNCHANGED <<files, exits, spelt>>

\* A command of the agent, or of a scheduled task, which takes no part in the
\* serial execution of the assistant's runs.
Exec(p) ==
    /\ Ready(p)
    /\ \E tree \in Effects(env[p]) : Change(p, Executed(env[p], tree))
    /\ UNCHANGED <<files, exits, spelt>>

Operate(p) ==
    Write(p) \/ Produce(p) \/ RemoveFile(p) \/ ProjectEmails(p) \/ RemoveEmails(p) \/ Exec(p)

Next ==
    \/ MigrateToBashkit \/ Migrated
    \/ \E p \in Processes :
          Open(p) \/ Operate(p) \/ Persist(p) \/ Persisted(p) \/ PersistFails(p) \/ Exit(p)
    \/ \E w \in Processes \cup {Nobody} : SaveFails(w)

Spec == Init /\ [][Next]_vars

-----------------------------------------------------------------------------
(* Properties.                                                             *)

\* The cache never hides the file system: bytes that read_bytes would take from it
\* are those of the file a command would see (bashkit_environment.py: "exact bytes for
\* adapter-written files until the next shell execution"), when the path is spelt as it
\* was when the file was written last. Under another spelling they may be older.
CacheIsCurrent ==
    \A p \in Processes : \A f \in Paths :
        Cached(env[p], f, spelt[p][f]) =>
            View(env[p], f) = Decode(env[p].cache[<<f, spelt[p][f]>>].bytes)

\* The snapshots are what WorkspaceCopies promises of them.
Copies == INSTANCE WorkspaceCopies WITH
              States <- Trees,
              Blank <- NoTree,
              NoCopy <- NoMount,
              Unreadable <- Torn,
              copy <- [p \in Processes |-> IF env[p].open THEN env[p].vfs ELSE NoMount],
              saved <- snapshot,
              writers <- saving,
              together <- mixed,
              by <- saver

ImplementsCopies == Copies!Spec
=============================================================================
