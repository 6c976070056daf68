-------------------------- MODULE WorkspacesProofs --------------------------
(***************************************************************************)
(* Proofs about the workspace of a deployment: of its Bashkit workspace,   *)
(* for any processes, files, mails, contents and spellings of a path, and  *)
(* any number of changes, saves and deaths; and that a deployment keeps    *)
(* what its Docker workspace promises (DockerWorkspaceProofs).             *)
(***************************************************************************)
EXTENDS Workspaces, TLAPS

-----------------------------------------------------------------------------
(* The Bashkit workspace: the inductive invariant.                         *)

Entry == [bytes: Bytes \cup {Absent}, at: Nat]

Names == Paths \X Spellings

Spelt == [Paths -> Spellings]

Environment ==
    [open: BOOLEAN, vfs: Trees, mount: Projections \cup {NoMount}, generation: Nat,
     pending: Nat, cache: [Names -> Entry]]

\* Mails are never cached, since they are mounted; what is cached was written in the
\* present generation or an earlier one, and is current in the present one under the
\* spelling that the file was written with last.
Current(e, u) ==
    /\ \A m \in Mails, s \in Spellings : e.cache[<<m, s>>] = NotCached
    /\ \A n \in Names : e.cache[n].at <= e.generation
    /\ \A f \in Paths : Cached(e, f, u[f]) => View(e, f) = Decode(e.cache[<<f, u[f]>>].bytes)

\* A process that has ended saves nothing any more.
Quiet(e) == ~e.open => e.pending = 0

Sound(e, u) == e \in Environment /\ u \in Spelt /\ Current(e, u) /\ Quiet(e)

\* The file holds a tree or is torn, and who writes it is there.
FileInv ==
    /\ snapshot \in Trees \cup {Torn}
    /\ saving \subseteq Processes \cup {Nobody}
    /\ \A p \in Processes \cap saving : env[p].open

IInv ==
    /\ env = [p \in Processes |-> env[p]]
    /\ spelt \in [Processes -> Spelt]
    /\ \A p \in Processes : Sound(env[p], spelt[p])
    /\ FileInv

-----------------------------------------------------------------------------
(* Operations on an environment.                                           *)

LEMMA Constants ==
    /\ NotCached \in Entry
    /\ NoTree \in Trees
    /\ \A c \in Bytes : c # Absent /\ Decode(c) \in Stored
    /\ \A f \in Files : f \in Paths /\ f \notin Mails
    /\ Mails \subseteq Paths
    /\ Plain \in Spellings /\ Nobody \notin Processes
    /\ \A f \in Paths, s \in Spellings : <<f, s>> \in Names
<1>1. NotCached \in Entry
  BY DEF NotCached, Entry
<1>2. NoTree \in Trees
  BY DEF NoTree, Trees, Stored
<1>3. \A c \in Bytes : c # Absent /\ Decode(c) \in Stored
  BY BashkitAssumption DEF Decode, Stored
<1>4. (\A f \in Files : f \in Paths /\ f \notin Mails) /\ Mails \subseteq Paths
  BY BashkitAssumption DEF Paths
<1>5. \A f \in Paths, s \in Spellings : <<f, s>> \in Names
  BY DEF Names
<1>. QED
  BY <1>1, <1>2, <1>3, <1>4, <1>5, BashkitAssumption

\* A mount covers all the mails, or nothing, and no file.
LEMMA Mounted ==
    ASSUME NEW e \in Environment
    PROVE  DOMAIN e.mount \subseteq Mails /\ \A f \in Files : f \notin DOMAIN e.mount
<1>1. DOMAIN NoMount = {}
  BY DEF NoMount
<1>2. \A m \in Projections : DOMAIN m = Mails
  BY DEF Projections
<1>3. e.mount \in Projections \cup {NoMount}
  BY DEF Environment
<1>. QED
  BY <1>1, <1>2, <1>3, Constants

LEMMA FreshSound ==
    ASSUME NEW tree \in Trees, NEW u \in Spelt
    PROVE  Sound(Fresh(tree), u) /\ Fresh(tree).vfs = tree /\ Fresh(tree).open
<1>. DEFINE empty == [n \in Names |-> NotCached]
            e == Fresh(tree)
<1>1. empty \in [Names -> Entry]
  BY Constants
<1>2. /\ e = [open |-> TRUE, vfs |-> tree, mount |-> NoMount, generation |-> 0, pending |-> 0,
              cache |-> empty]
  BY DEF Fresh, Names
<1>. HIDE DEF empty, e
<1>3. e \in Environment /\ e.open /\ e.vfs = tree /\ e.cache = empty /\ e.generation = 0
  BY <1>1, <1>2 DEF Environment
<1>4. \A n \in Names : e.cache[n] = NotCached
  BY <1>3 DEF empty
<1>5. NotCached.at = 0
  BY DEF NotCached
<1>6. \A f \in Paths : <<f, u[f]>> \in Names
  BY Constants DEF Spelt
<1>7. Current(e, u)
  BY <1>3, <1>4, <1>5, <1>6, Constants DEF Current, Cached
<1>. QED
  BY <1>3, <1>7 DEF Sound, Quiet, e

LEMMA ClosedSound == ASSUME NEW u \in Spelt PROVE Sound(Closed, u) /\ ~Closed.open
<1>. DEFINE e == Fresh(NoTree)
<1>1. Sound(e, u)
  BY FreshSound, Constants
<1>2. Closed = [e EXCEPT !.open = FALSE]
  BY DEF Closed
<1>. HIDE DEF e
<1>3. e.pending = 0
  BY DEF e, Fresh
<1>4. e \in Environment
  BY <1>1 DEF Sound
<1>5. /\ Closed \in Environment /\ ~Closed.open /\ Closed.pending = 0 /\ Closed.vfs = e.vfs
      /\ Closed.mount = e.mount /\ Closed.cache = e.cache /\ Closed.generation = e.generation
  BY <1>2, <1>3, <1>4 DEF Environment
<1>. QED
  BY <1>1, <1>5 DEF Sound, Quiet, Current, Cached, View

\* A change of one field leaves the others as they are.
LEMMA SetVfs ==
    ASSUME NEW e \in Environment, NEW new \in Trees
    PROVE  LET q == [e EXCEPT !.vfs = new] IN
           /\ q \in Environment /\ q.vfs = new
           /\ q.open = e.open /\ q.mount = e.mount /\ q.generation = e.generation /\ q.cache = e.cache
  BY DEF Environment

LEMMA SetMount ==
    ASSUME NEW e \in Environment, NEW new \in Projections \cup {NoMount}
    PROVE  LET q == [e EXCEPT !.mount = new] IN
           /\ q \in Environment /\ q.mount = new
           /\ q.open = e.open /\ q.vfs = e.vfs /\ q.generation = e.generation /\ q.cache = e.cache
  BY DEF Environment

LEMMA SetGeneration ==
    ASSUME NEW e \in Environment, NEW new \in Nat
    PROVE  LET q == [e EXCEPT !.generation = new] IN
           /\ q \in Environment /\ q.generation = new
           /\ q.open = e.open /\ q.vfs = e.vfs /\ q.mount = e.mount /\ q.cache = e.cache
  BY DEF Environment

LEMMA SetCache ==
    ASSUME NEW e \in Environment, NEW new \in [Names -> Entry]
    PROVE  LET q == [e EXCEPT !.cache = new] IN
           /\ q \in Environment /\ q.cache = new
           /\ q.open = e.open /\ q.vfs = e.vfs /\ q.mount = e.mount /\ q.generation = e.generation
  BY DEF Environment

LEMMA Notified ==
    ASSUME NEW e \in Environment
    PROVE  /\ Notify(e) \in Environment
           /\ Notify(e).open = e.open /\ Notify(e).vfs = e.vfs /\ Notify(e).mount = e.mount
           /\ Notify(e).generation = e.generation /\ Notify(e).cache = e.cache
<1>1. e.pending \in Nat /\ e.pending + 1 \in Nat
  BY DEF Environment
<1>. QED
  BY <1>1 DEF Notify, Environment

\* The effect of the operations on the fields of an environment.
LEMMA Written ==
    ASSUME NEW e \in Environment, NEW f \in Files, NEW s \in Spellings, NEW t \in Texts
    PROVE  LET q == WriteText(e, f, s, t) IN
           /\ q \in Environment /\ q.open = e.open
           /\ q.mount = e.mount /\ q.generation = e.generation
           /\ q.vfs[f] = t
           /\ \A g \in Paths \ {f} : q.vfs[g] = e.vfs[g]
<1>. DEFINE vfs == [e.vfs EXCEPT ![f] = t]
            cache == [e.cache EXCEPT ![<<f, s>>] = NotCached]
            e1 == [e EXCEPT !.vfs = vfs]
            e2 == [e1 EXCEPT !.cache = cache]
            q == WriteText(e, f, s, t)
<1>1. e.vfs \in Trees /\ e.cache \in [Names -> Entry] /\ e.generation \in Nat
  BY DEF Environment
<1>2. vfs \in Trees
  BY <1>1, Constants DEF Trees, Stored, Bytes
<1>3. cache \in [Names -> Entry]
  BY <1>1, Constants
<1>4. q = Notify(e2)
  BY DEF WriteText
<1>8. vfs[f] = t /\ \A g \in Paths \ {f} : vfs[g] = e.vfs[g]
  BY <1>1, Constants DEF Trees
<1>. HIDE DEF vfs, cache, q
<1>5. /\ e1 \in Environment /\ e1.vfs = vfs /\ e1.open = e.open
      /\ e1.mount = e.mount /\ e1.generation = e.generation /\ e1.cache = e.cache
  BY <1>1, <1>2, <1>3, SetVfs
<1>. HIDE DEF e1
<1>6. /\ e2 \in Environment /\ e2.cache = cache /\ e2.open = e1.open
      /\ e2.vfs = e1.vfs /\ e2.mount = e1.mount /\ e2.generation = e1.generation
  BY <1>1, <1>2, <1>3, <1>5, SetCache
<1>. HIDE DEF e2
<1>. QED
  BY <1>5, <1>6, <1>4, <1>8, Notified DEF q

LEMMA WrittenEntry ==
    ASSUME NEW e \in Environment, NEW f \in Files, NEW s \in Spellings, NEW t \in Texts
    PROVE  WriteText(e, f, s, t).cache = [e.cache EXCEPT ![<<f, s>>] = NotCached]
<1>. DEFINE vfs == [e.vfs EXCEPT ![f] = t]
            cache == [e.cache EXCEPT ![<<f, s>>] = NotCached]
            e1 == [e EXCEPT !.vfs = vfs]
            e2 == [e1 EXCEPT !.cache = cache]
            q == WriteText(e, f, s, t)
<1>1. e.vfs \in Trees /\ e.cache \in [Names -> Entry] /\ e.generation \in Nat
  BY DEF Environment
<1>2. vfs \in Trees
  BY <1>1, Constants DEF Trees, Stored, Bytes
<1>3. cache \in [Names -> Entry]
  BY <1>1, Constants
<1>4. q = Notify(e2)
  BY DEF WriteText
<1>. HIDE DEF vfs, cache, q
<1>5. /\ e1 \in Environment /\ e1.vfs = vfs /\ e1.open = e.open
      /\ e1.mount = e.mount /\ e1.generation = e.generation /\ e1.cache = e.cache
  BY <1>1, <1>2, <1>3, SetVfs
<1>. HIDE DEF e1
<1>6. /\ e2 \in Environment /\ e2.cache = cache /\ e2.open = e1.open
      /\ e2.vfs = e1.vfs /\ e2.mount = e1.mount /\ e2.generation = e1.generation
  BY <1>1, <1>2, <1>3, <1>5, SetCache
<1>. HIDE DEF e2
<1>. QED
  BY <1>5, <1>6, <1>4, Notified DEF q, cache

LEMMA Produced ==
    ASSUME NEW e \in Environment, NEW f \in Files, NEW s \in Spellings, NEW c \in Bytes
    PROVE  LET q == WriteBytes(e, f, s, c) IN
           /\ q \in Environment /\ q.open = e.open
           /\ q.mount = e.mount /\ q.generation = e.generation
           /\ q.vfs[f] = Decode(c)
           /\ \A g \in Paths \ {f} : q.vfs[g] = e.vfs[g]
<1>. DEFINE vfs == [e.vfs EXCEPT ![f] = Decode(c)]
            cache == [e.cache EXCEPT ![<<f, s>>] = [bytes |-> c, at |-> e.generation]]
            e1 == [e EXCEPT !.vfs = vfs]
            e2 == [e1 EXCEPT !.cache = cache]
            q == WriteBytes(e, f, s, c)
<1>1. e.vfs \in Trees /\ e.cache \in [Names -> Entry] /\ e.generation \in Nat
  BY DEF Environment
<1>2. vfs \in Trees
  BY <1>1, Constants DEF Trees
<1>3. [bytes |-> c, at |-> e.generation] \in Entry
  BY <1>1 DEF Entry
<1>4. cache \in [Names -> Entry]
  BY <1>1, <1>3, Constants
<1>5. q = Notify(e2)
  BY DEF WriteBytes
<1>8. vfs[f] = Decode(c) /\ \A g \in Paths \ {f} : vfs[g] = e.vfs[g]
  BY <1>1, Constants DEF Trees
<1>. HIDE DEF vfs, cache, q
<1>6. /\ e1 \in Environment /\ e1.vfs = vfs /\ e1.open = e.open
      /\ e1.mount = e.mount /\ e1.generation = e.generation /\ e1.cache = e.cache
  BY <1>1, <1>2, <1>3, <1>4, SetVfs
<1>. HIDE DEF e1
<1>7. /\ e2 \in Environment /\ e2.cache = cache /\ e2.open = e1.open
      /\ e2.vfs = e1.vfs /\ e2.mount = e1.mount /\ e2.generation = e1.generation
  BY <1>1, <1>2, <1>3, <1>4, <1>6, SetCache
<1>. HIDE DEF e2
<1>. QED
  BY <1>6, <1>7, <1>5, <1>8, Notified DEF q

LEMMA ProducedEntry ==
    ASSUME NEW e \in Environment, NEW f \in Files, NEW s \in Spellings, NEW c \in Bytes
    PROVE  WriteBytes(e, f, s, c).cache = [e.cache EXCEPT ![<<f, s>>] = [bytes |-> c, at |-> e.generation]]
<1>. DEFINE vfs == [e.vfs EXCEPT ![f] = Decode(c)]
            cache == [e.cache EXCEPT ![<<f, s>>] = [bytes |-> c, at |-> e.generation]]
            e1 == [e EXCEPT !.vfs = vfs]
            e2 == [e1 EXCEPT !.cache = cache]
            q == WriteBytes(e, f, s, c)
<1>1. e.vfs \in Trees /\ e.cache \in [Names -> Entry] /\ e.generation \in Nat
  BY DEF Environment
<1>2. vfs \in Trees
  BY <1>1, Constants DEF Trees
<1>3. [bytes |-> c, at |-> e.generation] \in Entry
  BY <1>1 DEF Entry
<1>4. cache \in [Names -> Entry]
  BY <1>1, <1>3, Constants
<1>5. q = Notify(e2)
  BY DEF WriteBytes
<1>. HIDE DEF vfs, cache, q
<1>6. /\ e1 \in Environment /\ e1.vfs = vfs /\ e1.open = e.open
      /\ e1.mount = e.mount /\ e1.generation = e.generation /\ e1.cache = e.cache
  BY <1>1, <1>2, <1>3, <1>4, SetVfs
<1>. HIDE DEF e1
<1>7. /\ e2 \in Environment /\ e2.cache = cache /\ e2.open = e1.open
      /\ e2.vfs = e1.vfs /\ e2.mount = e1.mount /\ e2.generation = e1.generation
  BY <1>1, <1>2, <1>3, <1>4, <1>6, SetCache
<1>. HIDE DEF e2
<1>. QED
  BY <1>6, <1>7, <1>5, Notified DEF q, cache

LEMMA Forgotten ==
    ASSUME NEW e \in Environment, NEW S
    PROVE  /\ Forget(e, S) \in [Names -> Entry]
           /\ \A f \in Paths, s \in Spellings :
                 Forget(e, S)[<<f, s>>] = IF f \in S /\ s = Plain THEN NotCached ELSE e.cache[<<f, s>>]
           /\ [p \in Paths |-> IF p \in S THEN Absent ELSE e.vfs[p]] \in Trees
<1>1. e.vfs \in Trees /\ e.cache \in [Names -> Entry]
  BY DEF Environment
<1>2. Forget(e, S) = [n \in Names |-> IF n[1] \in S /\ n[2] = Plain THEN NotCached ELSE e.cache[n]]
  BY DEF Forget, Names
<1>3. Forget(e, S) \in [Names -> Entry]
  BY <1>1, <1>2, Constants
<1>4. \A f \in Paths, s \in Spellings :
         Forget(e, S)[<<f, s>>] = IF f \in S /\ s = Plain THEN NotCached ELSE e.cache[<<f, s>>]
  BY <1>2, Constants
<1>. QED
  BY <1>1, <1>3, <1>4 DEF Trees, Stored

LEMMA Removed ==
    ASSUME NEW e \in Environment, NEW S
    PROVE  LET q == Remove(e, S) IN
           /\ q \in Environment /\ q.open = e.open
           /\ q.vfs = [p \in Paths |-> IF p \in S THEN Absent ELSE e.vfs[p]]
           /\ q.mount = e.mount
           /\ q.generation = e.generation
           /\ q.cache = Forget(e, S)
<1>. DEFINE vfs == [p \in Paths |-> IF p \in S THEN Absent ELSE e.vfs[p]]
            cache == Forget(e, S)
            e1 == [e EXCEPT !.vfs = vfs]
            e2 == [e1 EXCEPT !.cache = cache]
            q == Remove(e, S)
<1>1. vfs \in Trees /\ cache \in [Names -> Entry]
  BY Forgotten
<1>2. q = Notify(e2)
  BY DEF Remove
<1>. HIDE DEF vfs, cache, q
<1>3. /\ e1 \in Environment /\ e1.vfs = vfs /\ e1.open = e.open
      /\ e1.mount = e.mount /\ e1.generation = e.generation /\ e1.cache = e.cache
  BY <1>1, SetVfs
<1>. HIDE DEF e1
<1>4. /\ e2 \in Environment /\ e2.cache = cache /\ e2.open = e1.open
      /\ e2.vfs = e1.vfs /\ e2.mount = e1.mount /\ e2.generation = e1.generation
  BY <1>1, <1>3, SetCache
<1>. HIDE DEF e2
<1>. QED
  BY <1>1, <1>3, <1>4, <1>2, Notified DEF vfs, cache, q

LEMMA MountedMails ==
    ASSUME NEW e \in Environment, NEW mails \in Projections
    PROVE  LET q == Mount(e, mails) IN
           /\ q \in Environment /\ q.open = e.open
           /\ q.vfs = [p \in Paths |-> IF p \in Mails THEN Absent ELSE e.vfs[p]]
           /\ q.mount = mails
           /\ q.generation = e.generation
           /\ q.cache = Forget(e, Mails)
<1>. DEFINE vfs == [p \in Paths |-> IF p \in Mails THEN Absent ELSE e.vfs[p]]
            cache == Forget(e, Mails)
            e1 == [e EXCEPT !.vfs = vfs]
            e2 == [e1 EXCEPT !.mount = mails]
            e3 == [e2 EXCEPT !.cache = cache]
            q == Mount(e, mails)
<1>1. vfs \in Trees /\ cache \in [Names -> Entry]
  BY Forgotten
<1>2. q = Notify(e3)
  BY DEF Mount
<1>. HIDE DEF vfs, cache, q
<1>3. /\ e1 \in Environment /\ e1.vfs = vfs /\ e1.open = e.open
      /\ e1.mount = e.mount /\ e1.generation = e.generation /\ e1.cache = e.cache
  BY <1>1, SetVfs
<1>. HIDE DEF e1
<1>4. /\ e2 \in Environment /\ e2.mount = mails /\ e2.open = e1.open
      /\ e2.vfs = e1.vfs /\ e2.generation = e1.generation /\ e2.cache = e1.cache
  BY <1>1, <1>3, SetMount
<1>. HIDE DEF e2
<1>5. /\ e3 \in Environment /\ e3.cache = cache /\ e3.open = e2.open
      /\ e3.vfs = e2.vfs /\ e3.mount = e2.mount /\ e3.generation = e2.generation
  BY <1>1, <1>4, SetCache
<1>. HIDE DEF e3
<1>. QED
  BY <1>1, <1>3, <1>4, <1>5, <1>2, Notified DEF vfs, cache, q

LEMMA Unmounted ==
    ASSUME NEW e \in Environment
    PROVE  LET q == Unmount(e) IN
           /\ q \in Environment /\ q.open = e.open
           /\ q.vfs = e.vfs
           /\ q.mount = NoMount
           /\ q.generation = e.generation
           /\ q.cache = e.cache
<1>. DEFINE e1 == [e EXCEPT !.mount = NoMount]
            q == Unmount(e)
<1>1. q = Notify(e1)
  BY DEF Unmount
<1>. HIDE DEF q
<1>2. /\ e1 \in Environment /\ e1.mount = NoMount /\ e1.open = e.open
      /\ e1.vfs = e.vfs /\ e1.generation = e.generation /\ e1.cache = e.cache
  BY SetMount
<1>. HIDE DEF e1
<1>. QED
  BY <1>2, <1>1, Notified DEF q

LEMMA CommandExecuted ==
    ASSUME NEW e \in Environment, NEW tree \in Trees
    PROVE  LET q == Executed(e, tree) IN
           /\ q \in Environment /\ q.open = e.open
           /\ q.vfs = tree
           /\ q.mount = e.mount
           /\ q.generation = e.generation + 1
           /\ q.cache = e.cache
<1>. DEFINE generation == e.generation + 1
            e1 == [e EXCEPT !.vfs = tree]
            e2 == [e1 EXCEPT !.generation = generation]
            q == Executed(e, tree)
<1>1. generation \in Nat
  BY DEF Environment
<1>2. q = Notify(e2)
  BY DEF Executed
<1>. HIDE DEF generation, q
<1>3. /\ e1 \in Environment /\ e1.vfs = tree /\ e1.open = e.open
      /\ e1.mount = e.mount /\ e1.generation = e.generation /\ e1.cache = e.cache
  BY <1>1, SetVfs
<1>. HIDE DEF e1
<1>4. /\ e2 \in Environment /\ e2.generation = generation /\ e2.open = e1.open
      /\ e2.vfs = e1.vfs /\ e2.mount = e1.mount /\ e2.cache = e1.cache
  BY <1>1, <1>3, SetGeneration
<1>. HIDE DEF e2
<1>. QED
  BY <1>1, <1>3, <1>4, <1>2, Notified DEF generation, q

LEMMA Saved ==
    ASSUME NEW e \in Environment, e.pending > 0
    PROVE  LET q == [e EXCEPT !.pending = @ - 1] IN
           /\ q \in Environment /\ q.open = e.open /\ q.vfs = e.vfs /\ q.mount = e.mount
           /\ q.generation = e.generation /\ q.cache = e.cache /\ q.pending = e.pending - 1
<1>1. e.pending \in Nat /\ e.pending - 1 \in Nat
  BY DEF Environment
<1>. QED
  BY <1>1 DEF Environment

-----------------------------------------------------------------------------
(* Every operation keeps an environment sound.                             *)

\* Entries of the cache, one by one.
LEMMA Entries ==
    ASSUME NEW e, NEW u \in Spelt, e \in Environment, Plain \in Spellings,
           \A m \in Mails, s \in Spellings : e.cache[<<m, s>>] = NotCached,
           \A f \in Paths, s \in Spellings : e.cache[<<f, s>>].at <= e.generation,
           \A f \in Paths : Cached(e, f, u[f]) => View(e, f) = Decode(e.cache[<<f, u[f]>>].bytes)
    PROVE  Current(e, u)
<1>1. \A n \in Names : \E f \in Paths, s \in Spellings : n = <<f, s>>
  BY DEF Names
<1>2. \A n \in Names : e.cache[n].at <= e.generation
  BY <1>1
<1>. QED
  BY <1>2 DEF Current

LEMMA WriteSound ==
    ASSUME NEW e, NEW u, Sound(e, u), e.open,
           NEW f \in Files, NEW s \in Spellings, NEW t \in Texts
    PROVE  Sound(WriteText(e, f, s, t), [u EXCEPT ![f] = s])
<1>. DEFINE q == WriteText(e, f, s, t)
            v == [u EXCEPT ![f] = s]
<1>. HIDE DEF v
<1>0. e \in Environment /\ u \in Spelt
  BY DEF Sound
<1>1. /\ q \in Environment /\ q.open = e.open
      /\ q.mount = e.mount /\ q.generation = e.generation
      /\ q.vfs[f] = t /\ q.cache[<<f, s>>] = NotCached
      /\ \A g \in Paths \ {f} : q.vfs[g] = e.vfs[g]
      /\ \A g \in Paths, z \in Spellings :
            g # f \/ z # s => q.cache[<<g, z>>] = e.cache[<<g, z>>]
  <2>1. /\ q \in Environment /\ q.open = e.open
        /\ q.mount = e.mount /\ q.generation = e.generation
        /\ q.vfs[f] = t /\ \A g \in Paths \ {f} : q.vfs[g] = e.vfs[g]
    <3>1. q \in Environment
      BY <1>0, Written
    <3>2. q.open = e.open
      BY <1>0, Written
    <3>3. q.mount = e.mount /\ q.generation = e.generation
      BY <1>0, Written
    <3>4. q.vfs[f] = t
      BY <1>0, Written
    <3>5. \A g \in Paths \ {f} : q.vfs[g] = e.vfs[g]
      BY <1>0, Written
    <3>. QED
      BY <3>1, <3>2, <3>3, <3>4, <3>5
  <2>2. q.cache = [e.cache EXCEPT ![<<f, s>>] = NotCached]
    BY <1>0, WrittenEntry
  <2>3. e.cache \in [Names -> Entry] /\ <<f, s>> \in Names
    BY <1>0, Constants DEF Environment
  <2>. HIDE DEF q
  <2>4. q.cache[<<f, s>>] = NotCached
    BY <2>2, <2>3
  <2>5. \A g \in Paths, z \in Spellings :
           g # f \/ z # s => q.cache[<<g, z>>] = e.cache[<<g, z>>]
    BY <2>2, <2>3, Constants
  <2>. QED
    BY <2>1, <2>4, <2>5
<1>2. f \in Paths /\ f \notin Mails /\ NotCached.at = 0 /\ Mails \subseteq Paths
  BY Constants DEF NotCached
<1>3. v \in Spelt /\ v[f] = s /\ \A g \in Paths \ {f} : v[g] = u[g]
  BY <1>0, <1>2 DEF Spelt, v
<1>. HIDE DEF q
<1>4. /\ e.generation \in Nat /\ e.cache \in [Names -> Entry] /\ e.vfs \in [Paths -> Stored]
  BY <1>0 DEF Environment, Trees
<1>5. \A g \in Paths, z \in Spellings : e.cache[<<g, z>>].at <= e.generation
  BY Constants DEF Sound, Current
<1>6. ASSUME NEW m \in Mails, NEW z \in Spellings PROVE q.cache[<<m, z>>] = NotCached
  <2>1. m \in Paths /\ m # f /\ e.cache[<<m, z>>] = NotCached
    BY <1>2 DEF Sound, Current
  <2>. QED
    BY <1>1, <2>1
<1>7. ASSUME NEW g \in Paths, NEW z \in Spellings PROVE q.cache[<<g, z>>].at <= q.generation
  <2>1. CASE g # f \/ z # s
    BY <2>1, <1>1, <1>2, <1>4, <1>5
  <2>2. CASE ~(g # f \/ z # s)
    BY <2>2, <1>1, <1>2, <1>4, <1>5
  <2>. QED
    BY <2>1, <2>2
<1>8. ASSUME NEW g \in Paths, Cached(q, g, v[g]) PROVE View(q, g) = Decode(q.cache[<<g, v[g]>>].bytes)
  <2>1. g # f /\ v[g] = u[g] /\ u[g] \in Spellings
    BY <1>0, <1>1, <1>3, <1>8 DEF Cached, Spelt
  <2>2. q.cache[<<g, u[g]>>] = e.cache[<<g, u[g]>>] /\ q.vfs[g] = e.vfs[g]
    BY <1>1, <2>1
  <2>3. Cached(e, g, u[g])
    BY <1>1, <1>8, <2>1, <2>2 DEF Cached
  <2>4. View(e, g) = Decode(e.cache[<<g, u[g]>>].bytes)
    BY <2>3 DEF Sound, Current
  <2>. QED
    BY <1>1, <2>1, <2>2, <2>4 DEF View
<1>9. Current(q, v)
  BY <1>1, <1>3, <1>6, <1>7, <1>8, Constants, Entries
<1>. QED
  BY <1>1, <1>3, <1>9 DEF Sound, Quiet, q, v

LEMMA ProduceSound ==
    ASSUME NEW e, NEW u, Sound(e, u), e.open,
           NEW f \in Files, NEW s \in Spellings, NEW c \in Bytes
    PROVE  Sound(WriteBytes(e, f, s, c), [u EXCEPT ![f] = s])
<1>. DEFINE q == WriteBytes(e, f, s, c)
            v == [u EXCEPT ![f] = s]
            entry == [bytes |-> c, at |-> e.generation]
<1>. HIDE DEF v
<1>0. e \in Environment /\ u \in Spelt
  BY DEF Sound
<1>1. /\ q \in Environment /\ q.open = e.open
      /\ q.mount = e.mount /\ q.generation = e.generation
      /\ q.vfs[f] = Decode(c) /\ q.cache[<<f, s>>] = entry
      /\ \A g \in Paths \ {f} : q.vfs[g] = e.vfs[g]
      /\ \A g \in Paths, z \in Spellings :
            g # f \/ z # s => q.cache[<<g, z>>] = e.cache[<<g, z>>]
  <2>1. /\ q \in Environment /\ q.open = e.open
        /\ q.mount = e.mount /\ q.generation = e.generation
        /\ q.vfs[f] = Decode(c) /\ \A g \in Paths \ {f} : q.vfs[g] = e.vfs[g]
    BY <1>0, Produced
  <2>2. q.cache = [e.cache EXCEPT ![<<f, s>>] = entry]
    BY <1>0, ProducedEntry
  <2>3. e.cache \in [Names -> Entry] /\ <<f, s>> \in Names
    BY <1>0, Constants DEF Environment
  <2>. HIDE DEF q
  <2>4. q.cache[<<f, s>>] = entry
    BY <2>2, <2>3
  <2>5. \A g \in Paths, z \in Spellings :
           g # f \/ z # s => q.cache[<<g, z>>] = e.cache[<<g, z>>]
    BY <2>2, <2>3, Constants
  <2>. QED
    BY <2>1, <2>4, <2>5
<1>2. /\ f \in Paths /\ f \notin Mails /\ Mails \subseteq Paths
      /\ entry.bytes = c /\ entry.at = e.generation
  BY Constants
<1>3. v \in Spelt /\ v[f] = s /\ \A g \in Paths \ {f} : v[g] = u[g]
  BY <1>0, <1>2 DEF Spelt, v
<1>. HIDE DEF q, entry
<1>4. /\ e.generation \in Nat /\ e.cache \in [Names -> Entry] /\ e.vfs \in [Paths -> Stored]
  BY <1>0 DEF Environment, Trees
<1>5. \A g \in Paths, z \in Spellings : e.cache[<<g, z>>].at <= e.generation
  BY Constants DEF Sound, Current
<1>6. ASSUME NEW m \in Mails, NEW z \in Spellings PROVE q.cache[<<m, z>>] = NotCached
  <2>1. m \in Paths /\ m # f /\ e.cache[<<m, z>>] = NotCached
    BY <1>2 DEF Sound, Current
  <2>. QED
    BY <1>1, <2>1
<1>7. ASSUME NEW g \in Paths, NEW z \in Spellings PROVE q.cache[<<g, z>>].at <= q.generation
  <2>1. CASE g # f \/ z # s
    BY <2>1, <1>1, <1>2, <1>4, <1>5
  <2>2. CASE ~(g # f \/ z # s)
    BY <2>2, <1>1, <1>2, <1>4, <1>5
  <2>. QED
    BY <2>1, <2>2
<1>8. ASSUME NEW g \in Paths, Cached(q, g, v[g]) PROVE View(q, g) = Decode(q.cache[<<g, v[g]>>].bytes)
  <2>1. CASE g = f
    <3>1. f \notin DOMAIN q.mount
      BY <1>1, Mounted
    <3>. QED
      BY <1>1, <1>2, <1>3, <2>1, <3>1 DEF View
  <2>2. CASE g # f
    <3>1. v[g] = u[g] /\ u[g] \in Spellings
      BY <1>0, <1>3, <2>2 DEF Spelt
    <3>2. q.cache[<<g, u[g]>>] = e.cache[<<g, u[g]>>] /\ q.vfs[g] = e.vfs[g]
      BY <1>1, <2>2, <3>1
    <3>3. Cached(e, g, u[g])
      BY <1>1, <1>8, <3>1, <3>2 DEF Cached
    <3>4. View(e, g) = Decode(e.cache[<<g, u[g]>>].bytes)
      BY <3>3 DEF Sound, Current
    <3>. QED
      BY <1>1, <3>1, <3>2, <3>4 DEF View
  <2>. QED
    BY <2>1, <2>2
<1>9. Current(q, v)
  BY <1>1, <1>3, <1>6, <1>7, <1>8, Constants, Entries
<1>. QED
  BY <1>1, <1>3, <1>9 DEF Sound, Quiet, q, v

LEMMA RemoveSound ==
    ASSUME NEW e, NEW u, Sound(e, u), e.open, NEW S, NEW v \in Spelt,
           \A f \in Paths : IF f \in S THEN v[f] = Plain \/ f \in Mails ELSE v[f] = u[f]
    PROVE  Sound(Remove(e, S), v)
<1>. DEFINE q == Remove(e, S)
<1>0. e \in Environment /\ u \in Spelt
  BY DEF Sound
<1>1. /\ q \in Environment /\ q.open = e.open
      /\ q.vfs = [p \in Paths |-> IF p \in S THEN Absent ELSE e.vfs[p]] /\ q.mount = e.mount
      /\ q.generation = e.generation /\ q.cache = Forget(e, S)
  BY <1>0, Removed
<1>. HIDE DEF q
<1>2. e.generation \in Nat /\ NotCached.at = 0 /\ Mails \subseteq Paths
  BY <1>0, Constants DEF Environment, NotCached
<1>3. /\ \A f \in Paths, s \in Spellings :
            q.cache[<<f, s>>] = IF f \in S /\ s = Plain THEN NotCached ELSE e.cache[<<f, s>>]
      /\ \A g \in Paths : g \notin S => q.vfs[g] = e.vfs[g]
  BY <1>0, <1>1, Forgotten
<1>4. \A g \in Paths, z \in Spellings : e.cache[<<g, z>>].at <= e.generation
  BY Constants DEF Sound, Current
<1>5. \A m \in Mails, z \in Spellings : q.cache[<<m, z>>] = NotCached
  BY <1>2, <1>3 DEF Sound, Current
<1>6. ASSUME NEW g \in Paths, NEW z \in Spellings PROVE q.cache[<<g, z>>].at <= q.generation
  <2>1. CASE ~(g \in S /\ z = Plain)
    BY <2>1, <1>1, <1>2, <1>3, <1>4
  <2>2. CASE ~(~(g \in S /\ z = Plain))
    BY <2>2, <1>1, <1>2, <1>3, <1>4
  <2>. QED
    BY <2>1, <2>2
<1>7. ASSUME NEW g \in Paths, Cached(q, g, v[g]) PROVE View(q, g) = Decode(q.cache[<<g, v[g]>>].bytes)
  <2>1. v[g] \in Spellings /\ q.cache[<<g, v[g]>>] # NotCached
    BY <1>7 DEF Cached, Spelt
  <2>2. g \notin S
    BY <1>3, <1>5, <2>1
  <2>3. v[g] = u[g] /\ q.cache[<<g, u[g]>>] = e.cache[<<g, u[g]>>] /\ q.vfs[g] = e.vfs[g]
    BY <1>3, <2>1, <2>2
  <2>4. Cached(e, g, u[g])
    BY <1>1, <1>7, <2>3 DEF Cached
  <2>5. View(e, g) = Decode(e.cache[<<g, u[g]>>].bytes)
    BY <2>4 DEF Sound, Current
  <2>. QED
    BY <1>1, <2>3, <2>5 DEF View
<1>8. Current(q, v)
  BY <1>1, <1>5, <1>6, <1>7, Constants, Entries
<1>. QED
  BY <1>1, <1>8 DEF Sound, Quiet, q

LEMMA MountSound ==
    ASSUME NEW e, NEW u, Sound(e, u), e.open, NEW mails \in Projections
    PROVE  Sound(Mount(e, mails), u)
<1>. DEFINE q == Mount(e, mails)
<1>0. e \in Environment /\ u \in Spelt
  BY DEF Sound
<1>1. /\ q \in Environment /\ q.open = e.open
      /\ q.vfs = [p \in Paths |-> IF p \in Mails THEN Absent ELSE e.vfs[p]] /\ q.mount = mails
      /\ q.generation = e.generation /\ q.cache = Forget(e, Mails)
  BY <1>0, MountedMails
<1>. HIDE DEF q
<1>2. e.generation \in Nat /\ NotCached.at = 0 /\ Mails \subseteq Paths
  BY <1>0, Constants DEF Environment, NotCached
<1>3. /\ \A f \in Paths, s \in Spellings :
            q.cache[<<f, s>>] = IF f \in Mails /\ s = Plain THEN NotCached ELSE e.cache[<<f, s>>]
      /\ \A g \in Paths : g \notin Mails => q.vfs[g] = e.vfs[g]
  BY <1>0, <1>1, Forgotten
<1>4. \A g \in Paths, z \in Spellings : e.cache[<<g, z>>].at <= e.generation
  BY Constants DEF Sound, Current
<1>5. \A m \in Mails, z \in Spellings : q.cache[<<m, z>>] = NotCached
  BY <1>2, <1>3 DEF Sound, Current
<1>6. ASSUME NEW g \in Paths, NEW z \in Spellings PROVE q.cache[<<g, z>>].at <= q.generation
  <2>1. CASE ~(g \in Mails /\ z = Plain)
    BY <2>1, <1>1, <1>2, <1>3, <1>4
  <2>2. CASE ~(~(g \in Mails /\ z = Plain))
    BY <2>2, <1>1, <1>2, <1>3, <1>4
  <2>. QED
    BY <2>1, <2>2
<1>7. ASSUME NEW g \in Paths, Cached(q, g, u[g]) PROVE View(q, g) = Decode(q.cache[<<g, u[g]>>].bytes)
  <2>1. u[g] \in Spellings /\ q.cache[<<g, u[g]>>] # NotCached
    BY <1>0, <1>7 DEF Cached, Spelt
  <2>2. g \notin Mails
    BY <1>5, <2>1
  <2>3. q.cache[<<g, u[g]>>] = e.cache[<<g, u[g]>>] /\ q.vfs[g] = e.vfs[g]
    BY <1>3, <2>1, <2>2
  <2>4. Cached(e, g, u[g])
    BY <1>1, <1>7, <2>3 DEF Cached
  <2>5. View(e, g) = Decode(e.cache[<<g, u[g]>>].bytes)
    BY <2>4 DEF Sound, Current
  <2>6. g \notin DOMAIN q.mount /\ g \notin DOMAIN e.mount
    BY <1>0, <1>1, <2>2, Mounted
  <2>. QED
    BY <2>3, <2>5, <2>6 DEF View
<1>8. Current(q, u)
  BY <1>0, <1>1, <1>5, <1>6, <1>7, Constants, Entries
<1>. QED
  BY <1>0, <1>1, <1>8 DEF Sound, Quiet, q

LEMMA UnmountSound == ASSUME NEW e, NEW u, Sound(e, u), e.open PROVE Sound(Unmount(e), u)
<1>. DEFINE q == Unmount(e)
<1>0. e \in Environment /\ u \in Spelt
  BY DEF Sound
<1>1. /\ q \in Environment /\ q.open = e.open /\ q.vfs = e.vfs /\ q.mount = NoMount
      /\ q.generation = e.generation /\ q.cache = e.cache
  BY <1>0, Unmounted
<1>. HIDE DEF q
<1>2. ASSUME NEW g \in Paths, Cached(q, g, u[g]) PROVE View(q, g) = Decode(q.cache[<<g, u[g]>>].bytes)
  <2>1. u[g] \in Spellings /\ e.cache[<<g, u[g]>>] # NotCached /\ Cached(e, g, u[g])
    BY <1>0, <1>1, <1>2 DEF Cached, Spelt
  <2>2. g \notin Mails
    BY <2>1 DEF Sound, Current
  <2>3. g \notin DOMAIN q.mount /\ g \notin DOMAIN e.mount
    BY <1>0, <1>1, <2>2, Mounted
  <2>4. View(e, g) = Decode(e.cache[<<g, u[g]>>].bytes)
    BY <2>1 DEF Sound, Current
  <2>. QED
    BY <1>1, <2>3, <2>4 DEF View
<1>3. Current(q, u)
  BY <1>1, <1>2 DEF Sound, Current
<1>. QED
  BY <1>0, <1>1, <1>3 DEF Sound, Quiet, q

\* A command may have changed anything, and nothing is cached any more.
LEMMA ExecSound ==
    ASSUME NEW e, NEW u, Sound(e, u), e.open, NEW tree \in Trees
    PROVE  Sound(Executed(e, tree), u)
<1>. DEFINE q == Executed(e, tree)
<1>0. e \in Environment /\ u \in Spelt
  BY DEF Sound
<1>1. /\ q \in Environment /\ q.open = e.open
      /\ q.generation = e.generation + 1 /\ q.cache = e.cache
  BY <1>0, CommandExecuted
<1>. HIDE DEF q
<1>2. e.generation \in Nat /\ \A n \in Names : e.cache[n].at \in Nat
  BY <1>0 DEF Environment, Entry
<1>3. \A n \in Names : q.cache[n].at < q.generation /\ q.cache[n].at <= q.generation
  BY <1>1, <1>2 DEF Sound, Current
<1>4. \A f \in Paths : ~Cached(q, f, u[f])
  <2>1. \A f \in Paths : <<f, u[f]>> \in Names
    BY <1>0, Constants DEF Spelt
  <2>2. \A n \in Names : q.cache[n].at \in Nat /\ q.generation \in Nat
    BY <1>1, <1>2
  <2>. QED
    BY <1>3, <2>1, <2>2 DEF Cached
<1>5. Current(q, u)
  BY <1>1, <1>3, <1>4 DEF Sound, Current
<1>. QED
  BY <1>0, <1>1, <1>5 DEF Sound, Quiet, q

LEMMA EffectsAreTrees == ASSUME NEW e \in Environment, NEW tree \in Effects(e) PROVE tree \in Trees
  BY DEF Effects, Environment, Trees, Stored
-----------------------------------------------------------------------------
(* Every step keeps all the environments sound.                            *)

\* One environment is replaced by a sound one.
LEMMA OneChanges ==
    ASSUME IInv, NEW p \in Processes, NEW e, NEW v, Sound(e, v),
           env' = [env EXCEPT ![p] = e], spelt' = [spelt EXCEPT ![p] = v], FileInv'
    PROVE  IInv'
<1>1. env' = [r \in Processes |-> IF r = p THEN e ELSE env[r]]
  BY DEF IInv
<1>2. /\ spelt' \in [Processes -> Spelt]
      /\ \A r \in Processes : spelt'[r] = IF r = p THEN v ELSE spelt[r]
  BY DEF IInv, Sound
<1>3. \A r \in Processes : Sound(env'[r], spelt'[r])
  BY <1>1, <1>2 DEF IInv
<1>4. \A r \in Processes : Sound(env[r], spelt[r])'
  BY <1>3 DEF Sound, Current, Quiet, Cached, View
<1>. QED
  BY <1>1, <1>2, <1>4 DEF IInv

\* Only the file of the snapshot changes, and who writes it.
LEMMA FileChanges ==
    ASSUME IInv, env' = env, spelt' = spelt, FileInv'
    PROVE  IInv'
<1>1. \A r \in Processes : Sound(env'[r], spelt'[r])
  BY DEF IInv
<1>2. \A r \in Processes : Sound(env[r], spelt[r])'
  BY <1>1 DEF Sound, Current, Quiet, Cached, View
<1>. QED
  BY <1>2 DEF IInv

LEMMA InitSound == Init => IInv
<1>. SUFFICES ASSUME Init PROVE IInv
  OBVIOUS
<1>1. /\ env = [p \in Processes |-> Closed] /\ snapshot = NoTree /\ saving = {}
      /\ spelt = [p \in Processes |-> [f \in Paths |-> Plain]]
  BY DEF Init
<1>2. spelt \in [Processes -> Spelt]
  BY <1>1, Constants DEF Spelt
<1>3. \A p \in Processes : Sound(env[p], spelt[p])
  BY <1>1, <1>2, ClosedSound
<1>4. env = [p \in Processes |-> env[p]]
  BY <1>1
<1>. QED
  BY <1>1, <1>2, <1>3, <1>4, Constants DEF IInv, FileInv

LEMMA OpenSound == ASSUME IInv, NEW p \in Processes, Open(p) PROVE IInv'
<1>1. snapshot \in Trees /\ spelt[p] \in Spelt /\ spelt = [spelt EXCEPT ![p] = spelt[p]]
  BY DEF IInv, FileInv, Open
<1>2. Sound(Fresh(snapshot), spelt[p]) /\ Fresh(snapshot).open
  BY <1>1, FreshSound
<1>3. FileInv'
  BY <1>2 DEF IInv, FileInv, Open
<1>. QED
  BY <1>1, <1>2, <1>3, OneChanges DEF Open

\* Each operation gives a sound environment to its process and leaves the snapshot alone.
LEMMA OperateEffect ==
    ASSUME IInv, NEW p \in Processes, Operate(p)
    PROVE  /\ env[p].open /\ p \notin saving /\ UNCHANGED files
           /\ \E e, v : /\ Sound(e, v) /\ e.open
                       /\ env' = [env EXCEPT ![p] = e] /\ spelt' = [spelt EXCEPT ![p] = v]
<1>. DEFINE d == env[p]
            u == spelt[p]
<1>0. Sound(d, u) /\ d \in Environment /\ u \in Spelt
  BY DEF IInv, Sound
<1>1. d.open /\ p \notin saving /\ UNCHANGED files
  BY DEF Operate, Write, Produce, RemoveFile, ProjectEmails, RemoveEmails, Exec, Ready
<1>2. spelt = [spelt EXCEPT ![p] = u]
  BY DEF IInv
<1>. SUFFICES \E e, v : /\ Sound(e, v) /\ e.open = d.open
                       /\ env' = [env EXCEPT ![p] = e] /\ spelt' = [spelt EXCEPT ![p] = v]
  BY <1>1
<1>3. CASE Write(p)
  <2>1. PICK f \in Files, s \in Spellings, t \in Texts :
               /\ env' = [env EXCEPT ![p] = WriteText(d, f, s, t)]
               /\ spelt' = [spelt EXCEPT ![p] = [u EXCEPT ![f] = s]]
    BY <1>3 DEF Write, Change
  <2>. HIDE DEF d, u
  <2>2. Sound(WriteText(d, f, s, t), [u EXCEPT ![f] = s]) /\ WriteText(d, f, s, t).open = d.open
    BY <1>0, <1>1, WriteSound, Written
  <2>. QED
    BY <2>1, <2>2
<1>4. CASE Produce(p)
  <2>1. PICK f \in Files, s \in Spellings, c \in Bytes :
               /\ env' = [env EXCEPT ![p] = WriteBytes(d, f, s, c)]
               /\ spelt' = [spelt EXCEPT ![p] = [u EXCEPT ![f] = s]]
    BY <1>4 DEF Produce, Change
  <2>. HIDE DEF d, u
  <2>2. Sound(WriteBytes(d, f, s, c), [u EXCEPT ![f] = s]) /\ WriteBytes(d, f, s, c).open = d.open
    BY <1>0, <1>1, ProduceSound, Produced
  <2>. QED
    BY <2>1, <2>2
<1>5. CASE RemoveFile(p)
  <2>1. PICK f \in Files : /\ env' = [env EXCEPT ![p] = Remove(d, {f})]
                           /\ spelt' = [spelt EXCEPT ![p] = [u EXCEPT ![f] = Plain]]
    BY <1>5 DEF RemoveFile, Change
  <2>. DEFINE v == [u EXCEPT ![f] = Plain]
  <2>. HIDE DEF d, u
  <2>2. v \in Spelt /\ \A g \in Paths : IF g \in {f} THEN v[g] = Plain ELSE v[g] = u[g]
    BY <1>0, Constants DEF Spelt
  <2>. HIDE DEF v
  <2>3. \A g \in Paths : IF g \in {f} THEN v[g] = Plain \/ g \in Mails ELSE v[g] = u[g]
    BY <2>2
  <2>4. Sound(Remove(d, {f}), v)
    BY <1>0, <1>1, <2>2, <2>3, RemoveSound
  <2>5. Remove(d, {f}).open = d.open
    BY <1>0, Removed
  <2>. QED
    BY <2>1, <2>4, <2>5 DEF v
<1>6. CASE ProjectEmails(p)
  <2>1. PICK mails \in Projections : env' = [env EXCEPT ![p] = Mount(d, mails)] /\ spelt' = spelt
    BY <1>6 DEF ProjectEmails, Change
  <2>. HIDE DEF d, u
  <2>2. Sound(Mount(d, mails), u) /\ Mount(d, mails).open = d.open
    BY <1>0, <1>1, MountSound, MountedMails
  <2>. QED
    BY <1>2, <2>1, <2>2
<1>7. CASE RemoveEmails(p)
  <2>1. /\ \/ env' = [env EXCEPT ![p] = Unmount(d)]
           \/ env' = [env EXCEPT ![p] = Remove(d, Mails)]
        /\ spelt' = spelt
    BY <1>7 DEF RemoveEmails, Change
  <2>. HIDE DEF d, u
  <2>2. Sound(Unmount(d), u) /\ Unmount(d).open = d.open
    BY <1>0, <1>1, UnmountSound, Unmounted
  <2>3. Sound(Remove(d, Mails), u) /\ Remove(d, Mails).open = d.open
    BY <1>0, <1>1, RemoveSound, Removed
  <2>. QED
    BY <1>2, <2>1, <2>2, <2>3
<1>8. CASE Exec(p)
  <2>1. PICK tree \in Effects(d) : env' = [env EXCEPT ![p] = Executed(d, tree)] /\ spelt' = spelt
    BY <1>8 DEF Exec, Change
  <2>. HIDE DEF d, u
  <2>2. tree \in Trees
    BY <1>0, <2>1, EffectsAreTrees
  <2>3. Sound(Executed(d, tree), u) /\ Executed(d, tree).open = d.open
    BY <1>0, <1>1, <2>2, ExecSound, CommandExecuted
  <2>. QED
    BY <1>2, <2>1, <2>3
<1>. QED
  BY <1>3, <1>4, <1>5, <1>6, <1>7, <1>8 DEF Operate

LEMMA OperateSound == ASSUME IInv, NEW p \in Processes, Operate(p) PROVE IInv'
<1>1. PICK e, v : /\ Sound(e, v) /\ e.open
                  /\ env' = [env EXCEPT ![p] = e] /\ spelt' = [spelt EXCEPT ![p] = v]
  BY OperateEffect
<1>2. UNCHANGED files
  BY OperateEffect
<1>3. FileInv'
  BY <1>1, <1>2 DEF IInv, FileInv, files
<1>. QED
  BY <1>1, <1>3, OneChanges

\* A task begins, or fails to begin: its process has one task less, and the same workspace.
LEMMA TaskTaken ==
    ASSUME IInv, NEW p \in Processes, Ready(p), env[p].pending > 0, spelt' = spelt,
           env' = [env EXCEPT ![p].pending = @ - 1]
    PROVE  \E e : /\ Sound(e, spelt[p]) /\ e.open /\ e.vfs = env[p].vfs
                  /\ env' = [env EXCEPT ![p] = e] /\ spelt' = [spelt EXCEPT ![p] = spelt[p]]
<1>. DEFINE d == env[p]
            e == [d EXCEPT !.pending = @ - 1]
<1>1. Sound(d, spelt[p]) /\ d \in Environment /\ d.pending > 0 /\ d.open
  BY DEF IInv, Sound, Ready
<1>3. env' = [env EXCEPT ![p] = e] /\ spelt' = [spelt EXCEPT ![p] = spelt[p]]
  BY DEF IInv
<1>4. /\ e \in Environment /\ e.open = d.open /\ e.vfs = d.vfs /\ e.mount = d.mount
      /\ e.generation = d.generation /\ e.cache = d.cache
  <2>. HIDE DEF d
  <2>. QED
    BY <1>1, Saved
<1>. HIDE DEF d, e
<1>5. Sound(e, spelt[p])
  BY <1>1, <1>4 DEF Sound, Quiet, Current, Cached, View
<1>. QED
  BY <1>1, <1>3, <1>4, <1>5 DEF d

\* What a save does to the file keeps it whole or torn.
LEMMA FileKept ==
    ASSUME FileInv, \A p \in Processes \cap saving' : env'[p].open, NEW w \in Processes \cup {Nobody},
           NEW tree \in Trees, BeginSave(w) \/ EndSave(w, tree) \/ CutSave(w)
    PROVE  FileInv'
  BY DEF FileInv, BeginSave, EndSave, CutSave

LEMMA ExitSound == ASSUME IInv, NEW p \in Processes, Exit(p) PROVE IInv'
<1>1. /\ env' = [env EXCEPT ![p] = Closed] /\ spelt' = [spelt EXCEPT ![p] = spelt[p]]
      /\ Sound(Closed, spelt[p])
  BY ClosedSound DEF IInv, Exit
<1>2. \A r \in Processes \cap saving' : env'[r].open
  <2>1. p \notin saving' /\ saving' \subseteq saving
    BY DEF Exit, CutSave, files
  <2>. QED
    BY <1>1, <2>1 DEF IInv, FileInv
<1>3. FileInv'
  <2>1. CASE p \in saving
    BY <1>2, <2>1, FileKept, Constants DEF Exit, IInv
  <2>2. CASE p \notin saving
    BY <1>2, <2>2 DEF Exit, files, IInv, FileInv
  <2>. QED
    BY <2>1, <2>2
<1>. QED
  BY <1>1, <1>3, OneChanges

LEMMA ImportIsATree == \A archive \in [Paths -> Bytes \cup {Absent}] : ImportTar(archive) \in Trees
  BY DEF ImportTar, Trees, Stored, Bytes

LEMMA NextSound == IInv /\ [Next]_vars => IInv'
<1>. SUFFICES ASSUME IInv, [Next]_vars PROVE IInv'
  OBVIOUS
<1>0. FileInv /\ \A p \in Processes : env[p].vfs \in Trees
  BY DEF IInv, Sound, Environment
<1>1. CASE MigrateToBashkit
  <2>1. env' = env /\ spelt' = spelt /\ BeginSave(Nobody)
    BY <1>1 DEF MigrateToBashkit
  <2>2. \A p \in Processes \cap saving' : env'[p].open
    BY <1>0, <2>1, Constants DEF BeginSave, FileInv
  <2>3. FileInv'
    BY <1>0, <2>1, <2>2, FileKept, Constants
  <2>. QED
    BY <2>1, <2>3, FileChanges
<1>2. CASE Migrated
  <2>1. PICK archive \in [Paths -> Bytes \cup {Absent}] : EndSave(Nobody, ImportTar(archive))
    BY <1>2 DEF Migrated
  <2>2. env' = env /\ spelt' = spelt /\ \A p \in Processes \cap saving' : env'[p].open
    BY <1>0, <1>2, <2>1 DEF Migrated, EndSave, FileInv
  <2>3. FileInv'
    BY <1>0, <2>1, <2>2, FileKept, ImportIsATree
  <2>. QED
    BY <2>2, <2>3, FileChanges
<1>3. ASSUME NEW p \in Processes, Open(p) PROVE IInv'
  BY <1>3, OpenSound
<1>4. ASSUME NEW p \in Processes, Operate(p) PROVE IInv'
  BY <1>4, OperateSound
<1>5. ASSUME NEW p \in Processes, Persist(p) PROVE IInv'
  <2>1. PICK e : /\ Sound(e, spelt[p]) /\ e.open
                 /\ env' = [env EXCEPT ![p] = e] /\ spelt' = [spelt EXCEPT ![p] = spelt[p]]
    BY <1>5, TaskTaken DEF Persist
  <2>2. BeginSave(p) /\ \A r \in Processes \cap saving' : env'[r].open
    BY <1>0, <1>5, <2>1 DEF Persist, BeginSave, FileInv, IInv
  <2>3. FileInv'
    BY <1>0, <2>2, FileKept, Constants
  <2>. QED
    BY <2>1, <2>3, OneChanges
<1>6. ASSUME NEW p \in Processes, Persisted(p) PROVE IInv'
  <2>1. env' = env /\ spelt' = spelt /\ EndSave(p, env[p].vfs)
    BY <1>6 DEF Persisted, Durable
  <2>2. \A r \in Processes \cap saving' : env'[r].open
    BY <1>0, <2>1 DEF EndSave, FileInv
  <2>3. FileInv'
    BY <1>0, <2>1, <2>2, FileKept
  <2>. QED
    BY <2>1, <2>3, FileChanges
<1>7. ASSUME NEW p \in Processes, PersistFails(p) PROVE IInv'
  <2>1. PICK e : /\ Sound(e, spelt[p]) /\ e.open
                 /\ env' = [env EXCEPT ![p] = e] /\ spelt' = [spelt EXCEPT ![p] = spelt[p]]
    BY <1>7, TaskTaken DEF PersistFails
  <2>2. FileInv'
    BY <1>0, <1>7, <2>1 DEF PersistFails, files, FileInv, IInv
  <2>. QED
    BY <2>1, <2>2, OneChanges
<1>8. ASSUME NEW p \in Processes, Exit(p) PROVE IInv'
  BY <1>8, ExitSound
<1>9. ASSUME NEW w \in Processes \cup {Nobody}, SaveFails(w) PROVE IInv'
  <2>1. env' = env /\ spelt' = spelt /\ CutSave(w)
    BY <1>9 DEF SaveFails
  <2>2. \A r \in Processes \cap saving' : env'[r].open
    BY <1>0, <2>1 DEF CutSave, FileInv
  <2>3. FileInv'
    BY <1>0, <2>1, <2>2, FileKept, Constants
  <2>. QED
    BY <2>1, <2>3, FileChanges
<1>10. CASE UNCHANGED vars
  <2>1. FileInv'
    BY <1>0, <1>10 DEF FileInv, vars, files
  <2>. QED
    BY <1>10, <2>1, FileChanges DEF vars
<1>. QED
  BY <1>1, <1>2, <1>3, <1>4, <1>5, <1>6, <1>7, <1>8, <1>9, <1>10 DEF Next

LEMMA AlwaysSound == Spec => []IInv
  BY InitSound, NextSound, PTL DEF Spec

\* read_bytes never answers with bytes the file no longer has, when the path is spelt as it
\* was when the file was written: a command that ran in between, in this run or from a
\* scheduled task, ends every entry of the cache.
THEOREM CachedBytesAreCurrent == Spec => []CacheIsCurrent
<1>1. IInv => CacheIsCurrent
  BY DEF IInv, Sound, Current, CacheIsCurrent
<1>. QED
  BY <1>1, AlwaysSound, PTL

-----------------------------------------------------------------------------
(* The snapshots implement WorkspaceCopies.                                *)

CopyOf(e) == IF e.open THEN e.vfs ELSE NoMount

\* A workspace is never taken for a copy that is not there: it has some path.
LEMMA TreeIsACopy == \A tree \in Trees : tree # NoMount /\ tree # Torn
<1>1. \A tree \in Trees : DOMAIN tree = Paths
  BY DEF Trees
<1>2. Paths # {}
  BY BashkitAssumption DEF Paths
<1>3. DOMAIN NoMount = {} /\ DOMAIN Torn = {}
  BY DEF NoMount, Torn
<1>. QED
  BY <1>1, <1>2, <1>3

LEMMA CopyIsThere == ASSUME NEW e, NEW u, Sound(e, u) PROVE (CopyOf(e) = NoMount) = ~e.open
<1>1. e.vfs \in Trees /\ e.open \in BOOLEAN
  BY DEF Sound, Environment
<1>2. e.vfs # NoMount
  BY <1>1, TreeIsACopy
<1>3. CASE e.open
  BY <1>2, <1>3 DEF CopyOf
<1>4. CASE ~e.open
  BY <1>4 DEF CopyOf
<1>. QED
  BY <1>3, <1>4

Copy == [p \in Processes |-> CopyOf(env[p])]

\* When one environment changes, one copy does.
LEMMA OneCopy ==
    ASSUME IInv, NEW p \in Processes, NEW e, env' = [env EXCEPT ![p] = e]
    PROVE  Copy' = [Copy EXCEPT ![p] = CopyOf(e)]
<1>1. env' = [r \in Processes |-> IF r = p THEN e ELSE env[r]]
  BY DEF IInv
<1>2. Copy' = [r \in Processes |-> CopyOf(env'[r])]
  BY DEF Copy, CopyOf
<1>3. \A r \in Processes : CopyOf(env'[r]) = IF r = p THEN CopyOf(e) ELSE CopyOf(env[r])
  BY <1>1
<1>. QED
  BY <1>2, <1>3 DEF Copy

\* A save that nobody else's overlaps leaves the whole copy that its process has, whoever
\* ends a save last wins, and what a new environment starts from is never half of a copy:
\* a file that is being written, was cut off, or was written by two at once, is loaded as it
\* was left by one of them as a whole, or not at all.
THEOREM BashkitImplementsCopies == Spec => ImplementsCopies
<1>0. Copy = [p \in Processes |-> IF env[p].open THEN env[p].vfs ELSE NoMount]
  BY DEF Copy, CopyOf
<1>1. Init => Copies!Init
  <2>. SUFFICES ASSUME Init PROVE Copies!Init
    OBVIOUS
  <2>1. \A p \in Processes : ~env[p].open
    BY DEF Init, Closed, Fresh
  <2>. QED
    BY <2>1 DEF Init, Copies!Init
<1>2. IInv /\ [Next]_vars => [Copies!Next]_(Copies!vars)
  <2>. SUFFICES ASSUME IInv, [Next]_vars PROVE [Copies!Next]_(Copies!vars)
    OBVIOUS
  <2>0. /\ \A p \in Processes : Sound(env[p], spelt[p]) /\ Copy[p] = CopyOf(env[p])
        /\ \A p \in Processes : (Copy[p] = NoMount) = ~env[p].open
        /\ \A p \in Processes : env[p].vfs \in Trees /\ (env[p].open => Copy[p] = env[p].vfs)
        /\ saving \subseteq Processes \cup {Nobody}
        /\ \A p \in Processes \cap saving : env[p].open
    BY CopyIsThere DEF IInv, FileInv, Copy, CopyOf, Sound, Environment
  <2>1. CASE MigrateToBashkit
    <3>1. Copies!Begin(Nobody)
      BY <2>1 DEF MigrateToBashkit, BeginSave, Copies!Begin
    <3>. QED
      BY <3>1 DEF Copies!Next
  <2>2. CASE Migrated
    <3>1. PICK archive \in [Paths -> Bytes \cup {Absent}] : EndSave(Nobody, ImportTar(archive))
      BY <2>2 DEF Migrated
    <3>2. ImportTar(archive) \in Trees
      BY ImportIsATree
    <3>3. Copies!Leave(Nobody) /\ (snapshot' \in Trees \/ (mixed /\ snapshot' = Torn))
      BY <2>2, <3>1, <3>2 DEF Migrated, EndSave, Copies!Leave
    <3>4. Copies!End(Nobody)
      BY <2>2, <3>3 DEF Migrated, Copies!End
    <3>. QED
      BY <3>4 DEF Copies!Next
  <2>3. ASSUME NEW p \in Processes, Open(p) PROVE Copies!Next
    <3>. DEFINE e == Fresh(snapshot)
    <3>1. /\ snapshot \in Trees /\ snapshot # Torn /\ UNCHANGED <<snapshot, saving, mixed>>
          /\ saver' = p /\ ~env[p].open /\ env' = [env EXCEPT ![p] = e]
      BY <2>3 DEF Open, IInv, FileInv
    <3>2. e.open /\ e.vfs = snapshot
      BY DEF Fresh
    <3>. HIDE DEF e
    <3>3. Copy[p] = NoMount /\ Copy' = [Copy EXCEPT ![p] = snapshot]
      BY <2>0, <3>1, <3>2, OneCopy DEF CopyOf
    <3>4. Copies!Open(p)
      BY <1>0, <3>1, <3>3 DEF Copies!Open, Copy, CopyOf
    <3>. QED
      BY <3>4 DEF Copies!Next
  <2>4. ASSUME NEW p \in Processes, Operate(p) PROVE Copies!Next
    <3>1. PICK e, v : Sound(e, v) /\ e.open /\ env' = [env EXCEPT ![p] = e]
      BY <2>4, OperateEffect
    <3>2. env[p].open /\ p \notin saving /\ UNCHANGED files
      BY <2>4, OperateEffect
    <3>3. e.vfs \in Trees
      BY <3>1 DEF Sound, Environment
    <3>4. Copy[p] # NoMount /\ Copy' = [Copy EXCEPT ![p] = e.vfs]
      BY <2>0, <3>1, <3>2, OneCopy DEF CopyOf
    <3>5. Copies!Change(p)
      BY <1>0, <3>2, <3>3, <3>4 DEF Copies!Change, Copy, CopyOf, files
    <3>. QED
      BY <3>5 DEF Copies!Next
  <2>5. ASSUME NEW p \in Processes, Ready(p), env[p].pending > 0, spelt' = spelt,
               env' = [env EXCEPT ![p].pending = @ - 1]
        PROVE  Copy' = Copy /\ Copy[p] # NoMount
    <3>1. PICK e : e.open /\ e.vfs = env[p].vfs /\ env' = [env EXCEPT ![p] = e]
      BY <2>5, TaskTaken
    <3>2. env[p].open
      BY <2>5 DEF Ready
    <3>. QED
      BY <2>0, <3>1, <3>2, OneCopy DEF CopyOf, Copy
  <2>6. ASSUME NEW p \in Processes, Persist(p) PROVE Copies!Next
    <3>1. Copy' = Copy /\ Copy[p] # NoMount
      BY <2>5, <2>6 DEF Persist
    <3>2. p \notin saving /\ BeginSave(p)
      BY <2>6 DEF Persist, Ready
    <3>3. Copies!Begin(p)
      BY <1>0, <3>1, <3>2 DEF BeginSave, Copies!Begin, Copy, CopyOf
    <3>. QED
      BY <3>3 DEF Copies!Next
  <2>7. ASSUME NEW p \in Processes, PersistFails(p) PROVE UNCHANGED Copies!vars
    <3>1. Copy' = Copy /\ UNCHANGED files
      BY <2>5, <2>7 DEF PersistFails
    <3>. QED
      BY <1>0, <3>1 DEF Copies!vars, files, Copy, CopyOf
  <2>8. ASSUME NEW p \in Processes, Persisted(p) PROVE Copies!Next
    <3>1. env' = env /\ p \in saving /\ EndSave(p, env[p].vfs)
      BY <2>8 DEF Persisted, Durable
    <3>2. Copy[p] = env[p].vfs /\ p # Nobody
      BY <2>0, <3>1, Constants
    <3>3. Copies!Leave(p) /\ (snapshot' = Copy[p] \/ (mixed /\ snapshot' = Torn))
      BY <3>1, <3>2 DEF EndSave, Copies!Leave
    <3>4. Copies!End(p)
      BY <1>0, <3>1, <3>2, <3>3 DEF Copies!End, Copy, CopyOf
    <3>. QED
      BY <3>4 DEF Copies!Next
  <2>9. ASSUME NEW p \in Processes, Exit(p) PROVE Copies!Next
    <3>1. env[p].open /\ env' = [env EXCEPT ![p] = Closed]
      BY <2>9 DEF Exit
    <3>2. Copy[p] # NoMount
      BY <2>0, <3>1
    <3>3. ~Closed.open
      BY DEF Closed, Fresh
    <3>4. Copy' = [Copy EXCEPT ![p] = NoMount]
      BY <3>1, <3>3, OneCopy DEF CopyOf
    <3>5. CASE p \in saving
      <4>1. CutSave(p) /\ p # Nobody
        BY <2>9, <3>5, Constants DEF Exit
      <4>2. Copies!Cut(p)
        BY <1>0, <3>4, <3>5, <4>1 DEF CutSave, Copies!Cut, Copies!Leave, Copy, CopyOf
      <4>. QED
        BY <4>2 DEF Copies!Next
    <3>6. CASE p \notin saving
      <4>1. UNCHANGED files
        BY <2>9, <3>6 DEF Exit
      <4>2. Copies!Close(p)
        BY <1>0, <3>2, <3>4, <3>6, <4>1 DEF Copies!Close, Copy, CopyOf, files
      <4>. QED
        BY <4>2 DEF Copies!Next
    <3>. QED
      BY <3>5, <3>6
  <2>10. ASSUME NEW w \in Processes \cup {Nobody}, SaveFails(w) PROVE Copies!Next
    <3>1. env' = env /\ w \in saving /\ CutSave(w)
      BY <2>10 DEF SaveFails
    <3>2. Copies!Cut(w)
      BY <3>1 DEF CutSave, Copies!Cut, Copies!Leave
    <3>. QED
      BY <3>2 DEF Copies!Next
  <2>11. CASE UNCHANGED vars
    BY <2>11 DEF vars, files, Copies!vars
  <2>. QED
    BY <2>1, <2>2, <2>3, <2>4, <2>6, <2>7, <2>8, <2>9, <2>10, <2>11 DEF Next
<1>. QED
  BY <1>1, <1>2, AlwaysSound, PTL DEF Spec, ImplementsCopies, Copies!Spec

-----------------------------------------------------------------------------
(* The workspace of a deployment.                                          *)

DockerProofs == INSTANCE DockerWorkspaceProofs WITH
                    Trees <- {Files0, Files1}, NoFiles <- Files0

\* A deployment starts its Docker workspace as any other.
LEMMA DockerStarts == WorkspacesInit => DockerProofs!Init
<1>1. Docker!Init => DockerProofs!Init
  BY DEF Docker!Init, Docker!None, Docker!Idle, DockerProofs!Init, DockerProofs!None,
         DockerProofs!Idle
<1>. QED
  BY <1>1 DEF WorkspacesInit

\* It takes a step of that workspace, or leaves it alone.
LEMMA DockerRuns == [WorkspacesNext]_workspaceVars => [DockerProofs!Next]_(DockerProofs!vars)
<1>1. Docker!Next => DockerProofs!Next
  BY DEF Docker!Next, Docker!vars, Docker!Ensure, Docker!Get, Docker!Inspect,
         Docker!Start, Docker!EnsureNetworkAlias, Docker!EnsureVolume,
         Docker!RunContainer, Docker!Export, Docker!RemoveContainer, Docker!RemoveVolume,
         Docker!PutArchive, Docker!Use, Docker!Release, Docker!Die, Docker!Stop,
         Docker!BuildImage, Docker!None, Docker!Idle, Docker!Fault, Docker!FaultKinds,
         Docker!Goto, Docker!Give, Docker!Recreating, Docker!Busy, Docker!Alive,
         Docker!NeedsRecreate, Docker!NameFree, Docker!AfterCreate, Docker!Contents,
         DockerProofs!Next, DockerProofs!vars, DockerProofs!Ensure, DockerProofs!Get,
         DockerProofs!Inspect, DockerProofs!Start, DockerProofs!EnsureNetworkAlias,
         DockerProofs!EnsureVolume, DockerProofs!RunContainer, DockerProofs!Export,
         DockerProofs!RemoveContainer, DockerProofs!RemoveVolume, DockerProofs!PutArchive,
         DockerProofs!Use, DockerProofs!Release, DockerProofs!Die, DockerProofs!Stop,
         DockerProofs!BuildImage, DockerProofs!None, DockerProofs!Idle,
         DockerProofs!Fault, DockerProofs!FaultKinds, DockerProofs!Goto,
         DockerProofs!Give, DockerProofs!Recreating, DockerProofs!Busy,
         DockerProofs!Alive, DockerProofs!NeedsRecreate, DockerProofs!NameFree,
         DockerProofs!AfterCreate, DockerProofs!Contents
<1>2. UNCHANGED dockerVars => UNCHANGED DockerProofs!vars
  BY DEF dockerVars, DockerProofs!vars
<1>. QED
  BY <1>1, <1>2 DEF WorkspacesNext, workspaceVars, dockerVars

LEMMA DockerBehaves == WorkspacesSpec => DockerProofs!Spec
  BY DockerStarts, DockerRuns, PTL DEF WorkspacesSpec, DockerProofs!Spec

\* Whichever provider a deployment has, the assistant's files outlive any number of upgrades
\* of its container, unless a recreation failed, died or met another caller.
THEOREM FilesOutliveUpgrades ==
    ASSUME Nothing \notin {Files0, Files1}
    PROVE  WorkspacesSpec => []FilesSurvive
<1>1. DockerProofs!Spec => []DockerProofs!FilesSurvive
  BY DockerProofs!FilesOutliveUpgrades
<1>2. DockerProofs!FilesSurvive => FilesSurvive
  BY DEF FilesSurvive, Docker!FilesSurvive, Docker!Contents, Docker!Recreating,
         DockerProofs!FilesSurvive, DockerProofs!Contents, DockerProofs!Recreating
<1>. QED
  BY <1>1, <1>2, DockerBehaves, PTL

\* Whichever provider a deployment has, whoever was given a workspace has the present
\* container in hand, unless a recreation met another caller.
THEOREM HandlesStayAlive ==
    ASSUME Nothing \notin {Files0, Files1}
    PROVE  WorkspacesSpec => []HandleIsAlive
<1>1. DockerProofs!Spec => []DockerProofs!HandleIsAlive
  BY DockerProofs!HandlesStayAlive
<1>2. DockerProofs!HandleIsAlive => HandleIsAlive
  BY DEF HandleIsAlive, Docker!HandleIsAlive, Docker!Alive, DockerProofs!HandleIsAlive,
         DockerProofs!Alive
<1>. QED
  BY <1>1, <1>2, DockerBehaves, PTL

\* Its Bashkit workspace takes its steps, or is left alone.
LEMMA BashkitBehaves == WorkspacesSpec => Spec
<1>1. WorkspacesInit => Init
  BY DEF WorkspacesInit
<1>2. [WorkspacesNext]_workspaceVars => [Next]_vars
  BY DEF WorkspacesNext, workspaceVars
<1>. QED
  BY <1>1, <1>2, PTL DEF WorkspacesSpec, Spec

\* Whichever provider a deployment has, read_bytes takes no stale bytes from the cache, under
\* the spelling that the file was written with, and the snapshots keep the promises of
\* WorkspaceCopies.
THEOREM CopiesStayWhole == WorkspacesSpec => []CacheIsCurrent /\ ImplementsCopies
  BY BashkitBehaves, CachedBytesAreCurrent, BashkitImplementsCopies, PTL
=============================================================================
