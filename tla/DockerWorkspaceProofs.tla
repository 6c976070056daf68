------------------------ MODULE DockerWorkspaceProofs ------------------------
(***************************************************************************)
(* Proofs about DockerWorkspace, for any callers and files, any number of  *)
(* images and any faults.                                                  *)
(***************************************************************************)
EXTENDS DockerWorkspace, TLAPS

-----------------------------------------------------------------------------
(* The inductive invariant.                                                *)

\* An empty workspace is not the same as none.
Workspaces == Nothing \notin Trees /\ NoFiles \in Trees

CallerState == [pc: Steps, id: Nat, archive: Trees \cup {Nothing}, recreating: BOOLEAN]

Types ==
    /\ container \in Container
    /\ container = None \/ container.id > 0
    /\ volume \in Trees \cup {Nothing}
    /\ image \in Nat
    /\ caller \in [Callers -> CallerState]
    /\ ids \in Nat
    /\ kept \in Trees

\* Where a recreation is, and who has a container in hand.
Place(d) ==
    /\ caller[d].recreating => caller[d].pc \in {"remove", "wipe", "volume", "create", "put"}
    /\ caller[d].pc \in {"remove", "wipe", "put"} => caller[d].recreating
    /\ caller[d].pc \in {"inspect", "export", "remove", "put", "start", "alias", "ready"}
          => caller[d].id > 0

\* A recreation that met nobody is alone, and a handle is then the container's.
Alone(d) ==
    "overlap" \notin blame =>
        /\ caller[d].recreating => \A e \in Callers \ {d} : caller[e].pc = "idle"
        /\ caller[d].pc = "ready" => Alive(d)

\* As long as nothing happened, a recreation has the assistant's files, and nobody
\* else touches the container it is about.
Safe(d) ==
    blame = {} /\ caller[d].recreating =>
        /\ caller[d].archive = kept
        /\ caller[d].pc \in {"remove", "put"} => Alive(d)
        /\ caller[d].pc \in {"wipe", "volume", "create"} => container = None
        /\ caller[d].pc = "put" => container.named

CallerInv(d) == Place(d) /\ Alone(d) /\ Safe(d)

IInv ==
    /\ Types
    /\ \A d \in Callers : CallerInv(d)
    /\ FilesSurvive

-----------------------------------------------------------------------------
(* What a step does to its caller.                                         *)

LEMMA Facts ==
    ASSUME Workspaces
    PROVE  /\ Idle \in CallerState /\ Idle.pc = "idle" /\ Idle.id = 0 /\ Idle.recreating = FALSE
           /\ None \in Container /\ None.id = 0 /\ None.named = TRUE
  BY DEF Workspaces, Idle, CallerState, Steps, None, Container

LEMMA OneCaller ==
    ASSUME Types, NEW c \in Callers, NEW x \in CallerState, caller' = [caller EXCEPT ![c] = x]
    PROVE  /\ caller' \in [Callers -> CallerState] /\ caller'[c] = x
           /\ \A d \in Callers \ {c} : caller'[d] = caller[d]
  BY DEF Types

LEMMA Went ==
    ASSUME Types, NEW c \in Callers, NEW pc \in Steps, Goto(c, pc)
    PROVE  /\ caller' \in [Callers -> CallerState]
           /\ caller'[c].pc = pc /\ caller'[c].id = caller[c].id
           /\ caller'[c].archive = caller[c].archive /\ caller'[c].recreating = caller[c].recreating
           /\ \A d \in Callers \ {c} : caller'[d] = caller[d]
  BY DEF Types, CallerState, Goto

\* A caller that leaves holds nothing any more.
LEMMA Gave ==
    ASSUME Workspaces, Types, NEW c \in Callers, Give(c)
    PROVE  /\ caller' \in [Callers -> CallerState]
           /\ caller'[c] = Idle
           /\ \A d \in Callers \ {c} : caller'[d] = caller[d]
  BY Facts, OneCaller DEF Give

-----------------------------------------------------------------------------
(* The steps.                                                              *)

\* A caller leaves, and if it was recreating the container, that is on record.
LEMMA LeaveInv ==
    ASSUME Workspaces, IInv, NEW c \in Callers, Give(c),
           UNCHANGED <<container, volume, image, ids, kept>>,
           blame \subseteq blame',
           caller[c].recreating => blame' # {}
    PROVE  IInv'
<1>1. Types /\ FilesSurvive /\ \A d \in Callers : CallerInv(d)
  BY DEF IInv
<1>2. /\ caller' \in [Callers -> CallerState] /\ caller'[c] = Idle
      /\ \A d \in Callers \ {c} : caller'[d] = caller[d]
  BY <1>1, Gave
<1>4. Types'
  BY <1>1, <1>2 DEF Types
<1>5. ASSUME NEW d \in Callers PROVE CallerInv(d)'
  <2>1. CASE d = c
    BY <1>2, <2>1, Facts DEF CallerInv, Place, Alone, Safe
  <2>2. CASE d # c
    BY <1>1, <1>2, <2>2, Facts DEF CallerInv, Place, Alone, Safe, Alive
  <2>. QED
    BY <2>1, <2>2
<1>6. FilesSurvive'
  BY <1>1, <1>2 DEF FilesSurvive, Contents, Recreating
<1>. QED
  BY <1>4, <1>5, <1>6 DEF IInv

LEMMA InitInv == ASSUME Workspaces, Init PROVE IInv
<1>1. Types
  <2>1. \A files \in Trees :
           [id |-> 1, named |-> FALSE, bound |-> files, running |-> TRUE, image |-> 1, alias |-> FALSE]
              \in Container
    BY DEF Container
  <2>2. container \in Container /\ (container = None \/ container.id > 0) /\ ids \in Nat /\ kept \in Trees
    BY <2>1, Facts DEF Init, Workspaces
  <2>. QED
    BY <2>2, Facts DEF Init, Types
<1>2. ASSUME NEW d \in Callers PROVE CallerInv(d)
  <2>1. caller[d] = Idle
    BY DEF Init
  <2>. QED
    BY <2>1, Facts DEF CallerInv, Place, Alone, Safe
<1>3. Contents = kept \/ (Contents = Nothing /\ kept = NoFiles)
  <2>1. CASE container = None /\ kept = NoFiles
    BY <2>1, Facts DEF Init, Contents
  <2>2. ASSUME NEW files \in Trees, kept = files,
               container = [id |-> 1, named |-> FALSE, bound |-> files, running |-> TRUE,
                            image |-> 1, alias |-> FALSE]
        PROVE  Contents = kept
    BY <2>2 DEF Contents
  <2>. QED
    BY <2>1, <2>2 DEF Init
<1>4. FilesSurvive
  BY <1>3 DEF FilesSurvive
<1>. QED
  BY <1>1, <1>2, <1>4 DEF IInv

LEMMA GetInv == ASSUME Workspaces, IInv, NEW c \in Callers, Get(c) PROVE IInv'
<1>. DEFINE pc == IF container = None THEN "volume" ELSE "inspect"
            e1 == [Idle EXCEPT !.pc = pc]
            x == [e1 EXCEPT !.id = container.id]
<1>1. Types /\ FilesSurvive /\ \A d \in Callers : CallerInv(d)
  BY DEF IInv
<1>2. container.id \in Nat /\ pc \in Steps
  BY <1>1 DEF Types, Container, Steps
<1>3. caller' = [caller EXCEPT ![c] = x] /\ UNCHANGED <<container, volume, image, ids, kept>>
  BY DEF Get
<1>. HIDE DEF pc
<1>4. e1 \in CallerState /\ e1.pc = pc /\ e1.recreating = FALSE
  BY <1>2, Facts DEF CallerState
<1>. HIDE DEF e1
<1>5. x \in CallerState /\ x.pc = pc /\ x.id = container.id /\ x.recreating = FALSE
  BY <1>2, <1>4 DEF CallerState
<1>. HIDE DEF x
<1>6. /\ caller' \in [Callers -> CallerState] /\ caller'[c] = x
      /\ \A d \in Callers \ {c} : caller'[d] = caller[d]
  BY <1>1, <1>3, <1>5, OneCaller
<1>7. blame \subseteq blame' /\ ("overlap" \notin blame' => \A d \in Callers : ~caller[d].recreating)
  BY DEF Get, Recreating
<1>8. Types'
  BY <1>1, <1>3, <1>6 DEF Types
<1>9. ASSUME NEW d \in Callers PROVE CallerInv(d)'
  <2>1. CASE d = c
    BY <1>1, <1>2, <1>3, <1>5, <1>6, <2>1 DEF pc, Types, CallerInv, Place, Alone, Safe
  <2>2. CASE d # c
    BY <1>1, <1>3, <1>6, <1>7, <2>2 DEF CallerInv, Place, Alone, Safe, Alive
  <2>. QED
    BY <2>1, <2>2
<1>10. FilesSurvive'
  BY <1>1, <1>3, <1>7 DEF FilesSurvive, Contents, Recreating
<1>. QED
  BY <1>8, <1>9, <1>10 DEF IInv

\* A caller that is not recreating goes on, to a step of its own that it may be at.
LEMMA GoOnInv ==
    ASSUME Workspaces, IInv, NEW c \in Callers, NEW pc \in Steps, Goto(c, pc),
           UNCHANGED <<volume, image, ids, kept, blame>>,
           container' \in Container, container'.id = container.id,
           container'.named = container.named, container'.bound = container.bound,
           container = None => container' = None,
           ~caller[c].recreating, caller[c].pc # "idle",
           pc \in {"export", "start", "alias", "ready"},
           caller[c].id > 0, pc = "ready" => Alive(c)
    PROVE  IInv'
<1>1. Types /\ FilesSurvive /\ \A d \in Callers : CallerInv(d)
  BY DEF IInv
<1>2. /\ caller' \in [Callers -> CallerState]
      /\ caller'[c].pc = pc /\ caller'[c].id = caller[c].id
      /\ caller'[c].recreating = caller[c].recreating
      /\ \A d \in Callers \ {c} : caller'[d] = caller[d]
  BY <1>1, Went
<1>3. Types'
  BY <1>1, <1>2 DEF Types
<1>4. ASSUME NEW d \in Callers PROVE CallerInv(d)'
  <2>1. CASE d = c
    BY <1>1, <1>2, <2>1 DEF CallerInv, Place, Alone, Safe, Alive
  <2>2. CASE d # c
    BY <1>1, <1>2, <2>2 DEF CallerInv, Place, Alone, Safe, Alive
  <2>. QED
    BY <2>1, <2>2
<1>5. FilesSurvive'
  BY <1>1, <1>2 DEF FilesSurvive, Contents, Recreating
<1>. QED
  BY <1>3, <1>4, <1>5 DEF IInv
LEMMA InspectInv == ASSUME Workspaces, IInv, NEW c \in Callers, Inspect(c) PROVE IInv'
<1>1. Types /\ Place(c) /\ UNCHANGED <<container, volume, image, ids, kept, blame>>
  BY DEF IInv, CallerInv, Inspect
<1>2. caller[c].pc = "inspect" /\ ~caller[c].recreating /\ caller[c].id > 0
  BY <1>1 DEF Inspect, Place
<1>3. CASE Give(c)
  BY <1>1, <1>2, <1>3, LeaveInv
<1>4. CASE Goto(c, "start") \/ Goto(c, "export")
  BY <1>1, <1>2, <1>4, GoOnInv DEF Types, Steps
<1>. QED
  BY <1>3, <1>4 DEF Inspect

LEMMA StartInv == ASSUME Workspaces, IInv, NEW c \in Callers, Start(c) PROVE IInv'
<1>1. Types /\ Place(c) /\ UNCHANGED <<volume, image, ids, kept, blame>>
  BY DEF IInv, CallerInv, Start
<1>2. caller[c].pc = "start" /\ ~caller[c].recreating /\ caller[c].id > 0
  BY <1>1 DEF Start, Place
<1>3. CASE Alive(c)
  <2>1. container' = [container EXCEPT !.running = TRUE] /\ Goto(c, "alias")
    BY <1>3 DEF Start
  <2>2. /\ container' \in Container /\ container'.id = container.id
        /\ container'.named = container.named /\ container'.bound = container.bound
    BY <1>1, <2>1 DEF Types, Container
  <2>3. container # None
    BY <1>2, <1>3, Facts DEF Alive
  <2>. QED
    BY <1>1, <1>2, <2>1, <2>2, <2>3, GoOnInv DEF Steps
<1>4. CASE ~Alive(c)
  <2>1. Give(c) /\ UNCHANGED container
    BY <1>4 DEF Start
  <2>. QED
    BY <1>1, <1>2, <2>1, LeaveInv
<1>. QED
  BY <1>3, <1>4

LEMMA EnsureNetworkAliasInv ==
    ASSUME Workspaces, IInv, NEW c \in Callers, EnsureNetworkAlias(c) PROVE IInv'
<1>1. Types /\ Place(c) /\ UNCHANGED <<volume, image, ids, kept, blame>>
  BY DEF IInv, CallerInv, EnsureNetworkAlias
<1>2. caller[c].pc = "alias" /\ ~caller[c].recreating /\ caller[c].id > 0
  BY <1>1 DEF EnsureNetworkAlias, Place
<1>3. CASE Alive(c) /\ container' = [container EXCEPT !.alias = TRUE] /\ Goto(c, "ready")
  <2>1. /\ container' \in Container /\ container'.id = container.id
        /\ container'.named = container.named /\ container'.bound = container.bound
    BY <1>1, <1>3 DEF Types, Container
  <2>2. container # None
    BY <1>2, <1>3, Facts DEF Alive
  <2>. QED
    BY <1>1, <1>2, <1>3, <2>1, <2>2, GoOnInv DEF Steps
<1>4. CASE Give(c) /\ UNCHANGED container
  BY <1>1, <1>2, <1>4, LeaveInv
<1>. QED
  BY <1>3, <1>4 DEF EnsureNetworkAlias

\* The volume that a first use finds missing was not the assistant's yet.
LEMMA EnsureVolumeInv == ASSUME Workspaces, IInv, NEW c \in Callers, EnsureVolume(c) PROVE IInv'
<1>1. Types /\ FilesSurvive /\ \A d \in Callers : CallerInv(d)
  BY DEF IInv
<1>2. /\ caller[c].pc = "volume" /\ UNCHANGED <<container, image, ids, kept, blame>>
      /\ volume' = IF volume = Nothing THEN NoFiles ELSE volume
      /\ Goto(c, "create")
  BY DEF EnsureVolume
<1>3. /\ caller' \in [Callers -> CallerState]
      /\ caller'[c].pc = "create" /\ caller'[c].archive = caller[c].archive
      /\ caller'[c].recreating = caller[c].recreating
      /\ \A d \in Callers \ {c} : caller'[d] = caller[d]
  BY <1>1, <1>2, Went DEF Steps
<1>4. Types'
  BY <1>1, <1>2, <1>3 DEF Types, Workspaces
<1>5. ASSUME NEW d \in Callers PROVE CallerInv(d)'
  <2>1. CASE d = c
    BY <1>1, <1>2, <1>3, <2>1 DEF CallerInv, Place, Alone, Safe
  <2>2. CASE d # c
    BY <1>1, <1>2, <1>3, <2>2 DEF CallerInv, Place, Alone, Safe, Alive
  <2>. QED
    BY <2>1, <2>2
<1>6. FilesSurvive'
  <2>1. \A d \in Callers : Recreating(d)' = Recreating(d) /\ caller'[d].archive = caller[d].archive
    BY <1>3 DEF Recreating
  <2>2. Contents' = Contents \/ (Contents = Nothing /\ Contents' = NoFiles)
    BY <1>2 DEF Contents
  <2>3. kept # Nothing
    BY <1>1 DEF Types, Workspaces
  <2>. QED
    BY <1>1, <1>2, <2>1, <2>2, <2>3 DEF FilesSurvive
<1>. QED
  BY <1>4, <1>5, <1>6 DEF IInv

\* A new container on the volume: nobody has another one in hand.
LEMMA RunContainerInv == ASSUME Workspaces, IInv, NEW c \in Callers, RunContainer(c) PROVE IInv'
<1>1. Types /\ FilesSurvive /\ \A d \in Callers : CallerInv(d)
  BY DEF IInv
<1>2. caller[c].pc = "create" /\ UNCHANGED <<image, kept>>
  BY DEF RunContainer
<1>3. CASE NameFree /\ ids' = ids + 1 /\ UNCHANGED blame
           /\ volume' = (IF volume = Nothing THEN NoFiles ELSE volume)
           /\ container' = [id |-> ids + 1, named |-> TRUE, bound |-> Nothing, running |-> TRUE,
                            image |-> image, alias |-> TRUE]
           /\ caller' = [caller EXCEPT ![c].id = ids + 1, ![c].pc = AfterCreate(c)]
  <2>. DEFINE pc == AfterCreate(c)
              id == ids + 1
              e1 == [caller[c] EXCEPT !.id = id]
              x == [e1 EXCEPT !.pc = pc]
  <2>1. id \in Nat /\ id > 0 /\ pc \in Steps /\ container = None
    BY <1>1, <1>3 DEF Types, Steps, AfterCreate, NameFree
  <2>2. pc = IF caller[c].recreating THEN "put" ELSE "ready"
    BY DEF AfterCreate, Recreating
  <2>3. caller' = [caller EXCEPT ![c] = x]
    BY <1>1, <1>3 DEF Types
  <2>4. /\ container' \in Container /\ container'.id = id /\ container'.named = TRUE
    BY <1>1, <1>3, <2>1 DEF Types, Container
  <2>. HIDE DEF pc, id
  <2>5. caller[c] \in CallerState
    BY <1>1 DEF Types
  <2>6. /\ e1 \in CallerState /\ e1.id = id /\ e1.archive = caller[c].archive
        /\ e1.recreating = caller[c].recreating
    BY <2>1, <2>5 DEF CallerState
  <2>. HIDE DEF e1
  <2>7. /\ x \in CallerState /\ x.id = id /\ x.pc = pc /\ x.archive = caller[c].archive
        /\ x.recreating = caller[c].recreating
    BY <2>1, <2>6 DEF CallerState
  <2>. HIDE DEF x
  <2>8. /\ caller' \in [Callers -> CallerState] /\ caller'[c] = x
        /\ \A d \in Callers \ {c} : caller'[d] = caller[d]
    BY <1>1, <2>3, <2>7, OneCaller
  <2>9. Types'
    BY <1>1, <1>2, <1>3, <2>1, <2>4, <2>8 DEF Types, Workspaces, id
  <2>10. ASSUME NEW d \in Callers PROVE CallerInv(d)'
    <3>1. CASE d = c
      <4>1. Place(c)'
        BY <2>1, <2>2, <2>7, <2>8 DEF Place
      <4>2. Alone(c)'
        BY <1>1, <1>3, <2>4, <2>7, <2>8 DEF CallerInv, Alone, Alive
      <4>3. Safe(c)'
        BY <1>1, <1>2, <1>3, <2>2, <2>4, <2>7, <2>8 DEF CallerInv, Safe, Alive
      <4>. QED
        BY <3>1, <4>1, <4>2, <4>3 DEF CallerInv
    <3>2. CASE d # c
      <4>1. Place(d) /\ Place(d)'
        BY <1>1, <2>8, <3>2 DEF CallerInv, Place
      <4>2. Alive(d) => caller[d].pc # "ready"
        BY <2>1, <4>1, Facts DEF Alive, Place
      <4>3. blame = {} => ~caller[d].recreating
        BY <1>1, <1>2, <3>2 DEF CallerInv, Alone
      <4>. QED
        BY <1>1, <1>3, <2>8, <3>2, <4>1, <4>2, <4>3, <1>2, <2>7, <2>2 DEF CallerInv, Alone, Safe
    <3>. QED
      BY <3>1, <3>2
  <2>11. FilesSurvive'
    <3>1. \A d \in Callers : Recreating(d)' = Recreating(d) /\ caller'[d].archive = caller[d].archive
      BY <2>7, <2>8 DEF Recreating
    <3>2. Contents' = Contents \/ (Contents = Nothing /\ Contents' = NoFiles)
      BY <1>3, <2>1, <2>4, Facts DEF Contents
    <3>3. kept # Nothing
      BY <1>1 DEF Types, Workspaces
    <3>. QED
      BY <1>1, <1>2, <1>3, <3>1, <3>2, <3>3 DEF FilesSurvive
  <2>. QED
    BY <2>9, <2>10, <2>11 DEF IInv
<1>4. CASE ~NameFree /\ Give(c) /\ UNCHANGED <<container, volume, ids, blame>>
  <2>1. caller[c].recreating => blame # {}
    BY <1>1, <1>2, <1>4 DEF CallerInv, Safe, NameFree
  <2>. QED
    BY <1>2, <1>4, <2>1, LeaveInv
<1>5. CASE Give(c) /\ UNCHANGED <<container, volume, ids>>
           /\ blame' = (IF Recreating(c) THEN blame \cup {"create_fails"} ELSE blame)
  BY <1>2, <1>5, LeaveInv DEF Recreating
<1>. QED
  BY <1>3, <1>4, <1>5 DEF RunContainer

\* What is taken out is all there is, or the failure is on record.
LEMMA ExportInv == ASSUME Workspaces, IInv, NEW c \in Callers, Export(c) PROVE IInv'
<1>1. Types /\ FilesSurvive /\ \A d \in Callers : CallerInv(d)
  BY DEF IInv
<1>2. caller[c].pc = "export" /\ UNCHANGED <<container, volume, image, ids, kept>>
  BY DEF Export
<1>3. ~caller[c].recreating /\ caller[c].id > 0
  BY <1>1, <1>2 DEF CallerInv, Place
<1>4. CASE Give(c) /\ UNCHANGED blame
  BY <1>2, <1>3, <1>4, LeaveInv
<1>5. ASSUME NEW archive \in {Contents, Nothing}, Alive(c),
             caller' = [caller EXCEPT ![c].pc = "remove", ![c].archive = archive,
                                      ![c].recreating = TRUE],
             blame' = blame \cup (IF archive = Nothing THEN {"export_fails"} ELSE {})
                            \cup (IF Busy(c) THEN {"overlap"} ELSE {})
      PROVE  IInv'
  <2>. DEFINE e1 == [caller[c] EXCEPT !.pc = "remove"]
              e2 == [e1 EXCEPT !.archive = archive]
              x == [e2 EXCEPT !.recreating = TRUE]
  <2>1. caller[c] \in CallerState /\ archive \in Trees \cup {Nothing}
    BY <1>1 DEF Types, Contents, Container
  <2>2. caller' = [caller EXCEPT ![c] = x]
    BY <1>1, <1>5 DEF Types
  <2>3. e1 \in CallerState /\ e1.pc = "remove" /\ e1.id = caller[c].id
    BY <2>1 DEF CallerState, Steps
  <2>. HIDE DEF e1
  <2>4. e2 \in CallerState /\ e2.pc = "remove" /\ e2.id = caller[c].id /\ e2.archive = archive
    BY <2>1, <2>3 DEF CallerState
  <2>. HIDE DEF e2
  <2>5. x \in CallerState /\ x.pc = "remove" /\ x.id = caller[c].id /\ x.archive = archive /\ x.recreating
    BY <2>4 DEF CallerState
  <2>. HIDE DEF x
  <2>6. /\ caller' \in [Callers -> CallerState] /\ caller'[c] = x
        /\ \A d \in Callers \ {c} : caller'[d] = caller[d]
    BY <1>1, <2>2, <2>5, OneCaller
  <2>7. Types'
    BY <1>1, <1>2, <2>6 DEF Types
  <2>8. "overlap" \notin blame' => "overlap" \notin blame /\ \A d \in Callers \ {c} : caller[d].pc = "idle"
    BY <1>5 DEF Busy
  <2>9. blame' = {} => archive = kept /\ blame = {}
    <3>1. SUFFICES ASSUME blame' = {} PROVE archive = kept /\ blame = {}
      OBVIOUS
    <3>2. archive # Nothing /\ archive = Contents /\ blame = {}
      BY <1>5, <3>1
    <3>3. \A d \in Callers : ~Recreating(d)
      BY <1>1, <1>3, <2>8, <3>1 DEF Recreating, CallerInv, Place
    <3>. QED
      BY <1>1, <3>2, <3>3 DEF FilesSurvive
  <2>10. ASSUME NEW d \in Callers PROVE CallerInv(d)'
    <3>1. CASE d = c
      BY <1>2, <1>3, <1>5, <2>5, <2>6, <2>8, <2>9, <3>1 DEF CallerInv, Place, Alone, Safe, Alive
    <3>2. CASE d # c
      <4>1. Place(d) /\ Place(d)'
        BY <1>1, <2>6, <3>2 DEF CallerInv, Place
      <4>2. "overlap" \notin blame' => caller'[d].pc = "idle"
        BY <2>6, <2>8, <3>2
      <4>3. "overlap" \notin blame' => ~caller'[d].recreating
        BY <4>1, <4>2 DEF Place
      <4>. QED
        BY <4>1, <4>2, <4>3 DEF CallerInv, Alone, Safe
    <3>. QED
      BY <3>1, <3>2
  <2>11. FilesSurvive'
    <3>1. Recreating(c)' /\ caller'[c].archive = archive
      BY <2>5, <2>6 DEF Recreating
    <3>. QED
      BY <1>2, <2>9, <3>1 DEF FilesSurvive
  <2>. QED
    BY <2>7, <2>10, <2>11 DEF IInv
<1>. QED
  BY <1>4, <1>5 DEF Export

LEMMA RemoveContainerInv ==
    ASSUME Workspaces, IInv, NEW c \in Callers, RemoveContainer(c) PROVE IInv'
<1>1. Types /\ FilesSurvive /\ \A d \in Callers : CallerInv(d)
  BY DEF IInv
<1>2. caller[c].pc = "remove" /\ UNCHANGED <<volume, image, ids, kept, blame>> /\ caller[c].recreating
  BY <1>1 DEF RemoveContainer, CallerInv, Place
<1>3. CASE Alive(c)
  <2>1. container' = None /\ Goto(c, "wipe")
    BY <1>3 DEF RemoveContainer
  <2>2. /\ caller' \in [Callers -> CallerState]
        /\ caller'[c].pc = "wipe" /\ caller'[c].archive = caller[c].archive
        /\ caller'[c].recreating = caller[c].recreating
        /\ \A d \in Callers \ {c} : caller'[d] = caller[d]
    BY <1>1, <2>1, Went DEF Steps
  <2>3. Types'
    BY <1>1, <1>2, <2>1, <2>2, Facts DEF Types
  <2>4. ASSUME NEW d \in Callers PROVE CallerInv(d)'
    <3>1. CASE d = c
      <4>1. Place(c)'
        BY <1>2, <2>2 DEF Place
      <4>2. Alone(c)'
        BY <1>1, <1>2, <2>2 DEF CallerInv, Alone, Alive
      <4>3. Safe(c)'
        BY <1>1, <1>2, <2>1, <2>2 DEF CallerInv, Safe, Alive
      <4>. QED
        BY <3>1, <4>1, <4>2, <4>3 DEF CallerInv
    <3>2. CASE d # c
      <4>1. Place(d) /\ Place(d)'
        BY <1>1, <2>2, <3>2 DEF CallerInv, Place
      <4>2. "overlap" \notin blame => caller[d].pc = "idle"
        BY <1>1, <1>2, <3>2 DEF CallerInv, Alone
      <4>3. "overlap" \notin blame => ~caller[d].recreating
        BY <4>1, <4>2 DEF Place
      <4>. QED
        BY <1>2, <2>2, <3>2, <4>1, <4>2, <4>3 DEF CallerInv, Alone, Safe
    <3>. QED
      BY <3>1, <3>2
  <2>5. FilesSurvive'
    <3>1. blame = {} => caller[c].archive = kept
      BY <1>1, <1>2 DEF CallerInv, Safe
    <3>2. Recreating(c)' /\ caller'[c].archive = caller[c].archive
      BY <1>2, <2>2 DEF Recreating
    <3>. QED
      BY <1>2, <3>1, <3>2 DEF FilesSurvive
  <2>. QED
    BY <2>3, <2>4, <2>5 DEF IInv
<1>4. CASE ~Alive(c)
  <2>1. Give(c) /\ UNCHANGED container /\ blame # {}
    BY <1>1, <1>2, <1>4 DEF RemoveContainer, CallerInv, Safe
  <2>. QED
    BY <1>2, <2>1, LeaveInv
<1>. QED
  BY <1>3, <1>4

LEMMA RemoveVolumeInv == ASSUME Workspaces, IInv, NEW c \in Callers, RemoveVolume(c) PROVE IInv'
<1>1. Types /\ FilesSurvive /\ \A d \in Callers : CallerInv(d)
  BY DEF IInv
<1>2. /\ caller[c].pc = "wipe" /\ UNCHANGED <<container, image, ids, kept, blame>>
      /\ volume' \in {Nothing, volume} /\ Goto(c, "volume")
      /\ caller[c].recreating
  BY <1>1 DEF RemoveVolume, CallerInv, Place
<1>3. /\ caller' \in [Callers -> CallerState]
      /\ caller'[c].pc = "volume" /\ caller'[c].archive = caller[c].archive
      /\ caller'[c].recreating = caller[c].recreating
      /\ \A d \in Callers \ {c} : caller'[d] = caller[d]
  BY <1>1, <1>2, Went DEF Steps
<1>4. Types'
  BY <1>1, <1>2, <1>3 DEF Types
<1>5. ASSUME NEW d \in Callers PROVE CallerInv(d)'
  <2>1. CASE d = c
    BY <1>1, <1>2, <1>3, <2>1 DEF CallerInv, Place, Alone, Safe
  <2>2. CASE d # c
    BY <1>1, <1>2, <1>3, <2>2 DEF CallerInv, Place, Alone, Safe, Alive
  <2>. QED
    BY <2>1, <2>2
<1>6. FilesSurvive'
  <2>1. blame = {} => caller[c].archive = kept
    BY <1>1, <1>2 DEF CallerInv, Safe
  <2>2. Recreating(c)' /\ caller'[c].archive = caller[c].archive
    BY <1>2, <1>3 DEF Recreating
  <2>. QED
    BY <1>2, <2>1, <2>2 DEF FilesSurvive
<1>. QED
  BY <1>4, <1>5, <1>6 DEF IInv

\* The files are put back into the new container.
LEMMA PutArchiveInv == ASSUME Workspaces, IInv, NEW c \in Callers, PutArchive(c) PROVE IInv'
<1>1. Types /\ FilesSurvive /\ \A d \in Callers : CallerInv(d)
  BY DEF IInv
<1>2. /\ caller[c].pc = "put" /\ UNCHANGED <<container, image, ids, kept>>
      /\ caller[c].recreating /\ caller[c].id > 0
  BY <1>1 DEF PutArchive, CallerInv, Place
<1>3. CASE Alive(c) /\ UNCHANGED blame
           /\ volume' = (IF caller[c].archive = Nothing THEN volume ELSE caller[c].archive)
           /\ caller' = [caller EXCEPT ![c] = [Idle EXCEPT !.pc = "ready", !.id = caller[c].id]]
  <2>. DEFINE e1 == [Idle EXCEPT !.pc = "ready"]
              x == [e1 EXCEPT !.id = caller[c].id]
  <2>1. e1 \in CallerState /\ e1.pc = "ready" /\ e1.recreating = FALSE
    BY Facts DEF CallerState, Steps
  <2>2. caller' = [caller EXCEPT ![c] = x] /\ caller[c] \in CallerState
    BY <1>1, <1>3 DEF Types
  <2>. HIDE DEF e1
  <2>3. x \in CallerState /\ x.pc = "ready" /\ x.recreating = FALSE /\ x.id = caller[c].id
    BY <2>1, <2>2 DEF CallerState
  <2>. HIDE DEF x
  <2>4. /\ caller' \in [Callers -> CallerState] /\ caller'[c] = x
        /\ \A d \in Callers \ {c} : caller'[d] = caller[d]
    BY <1>1, <2>2, <2>3, OneCaller
  <2>5. volume' \in Trees \cup {Nothing}
    BY <1>1, <1>3, <2>2 DEF Types, CallerState
  <2>6. Types'
    BY <1>1, <1>2, <2>4, <2>5 DEF Types
  <2>7. ASSUME NEW d \in Callers PROVE CallerInv(d)'
    <3>1. CASE d = c
      BY <1>2, <1>3, <2>3, <2>4, <3>1 DEF CallerInv, Place, Alone, Safe, Alive
    <3>2. CASE d # c
      <4>1. Place(d) /\ Place(d)'
        BY <1>1, <2>4, <3>2 DEF CallerInv, Place
      <4>2. "overlap" \notin blame => caller[d].pc = "idle"
        BY <1>1, <1>2, <3>2 DEF CallerInv, Alone
      <4>3. "overlap" \notin blame => ~caller[d].recreating
        BY <4>1, <4>2 DEF Place
      <4>. QED
        BY <1>3, <2>4, <3>2, <4>1, <4>2, <4>3 DEF CallerInv, Alone, Safe
    <3>. QED
      BY <3>1, <3>2
  <2>8. FilesSurvive'
    <3>1. blame = {} => caller[c].archive = kept /\ container.named
      BY <1>1, <1>2 DEF CallerInv, Safe
    <3>2. kept # Nothing
      BY <1>1 DEF Types, Workspaces
    <3>3. blame' = {} => Contents' = kept'
      BY <1>2, <1>3, <3>1, <3>2 DEF Contents
    <3>. QED
      BY <3>3 DEF FilesSurvive
  <2>. QED
    BY <2>6, <2>7, <2>8 DEF IInv
<1>4. CASE ~Alive(c) /\ Give(c) /\ UNCHANGED <<volume, blame>>
  <2>1. blame # {}
    BY <1>1, <1>2, <1>4 DEF CallerInv, Safe
  <2>. QED
    BY <1>2, <1>4, <2>1, LeaveInv
<1>5. CASE Give(c) /\ UNCHANGED volume /\ blame' = blame \cup {"put_fails"}
  BY <1>2, <1>5, LeaveInv
<1>. QED
  BY <1>3, <1>4, <1>5 DEF PutArchive

\* A change by a caller with the container in hand: nobody is recreating it, or that is
\* on record.
LEMMA UseInv == ASSUME Workspaces, IInv, NEW c \in Callers, Use(c) PROVE IInv'
<1>1. Types /\ FilesSurvive /\ \A d \in Callers : CallerInv(d)
  BY DEF IInv
<1>2. PICK files \in Trees :
         /\ kept' = files
         /\ IF container.named THEN volume' = files /\ UNCHANGED container
            ELSE container' = [container EXCEPT !.bound = files] /\ UNCHANGED volume
  BY DEF Use
<1>3. /\ caller[c].pc = "ready" /\ Alive(c) /\ UNCHANGED <<image, caller, ids, blame>>
      /\ caller[c].id > 0
  BY <1>1 DEF Use, CallerInv, Place
<1>4. container # None
  BY <1>3, Facts DEF Alive
<1>5. /\ container' \in Container /\ container'.id = container.id /\ container'.named = container.named
      /\ ~container.named => container'.bound = files
  BY <1>1, <1>2 DEF Types, Container
<1>6. Types'
  BY <1>1, <1>2, <1>3, <1>4, <1>5 DEF Types
<1>7. ASSUME NEW d \in Callers PROVE CallerInv(d)'
  <2>1. "overlap" \notin blame => ~caller[d].recreating
    BY <1>1, <1>3 DEF CallerInv, Place, Alone
  <2>. QED
    BY <1>1, <1>3, <1>5, <2>1 DEF CallerInv, Place, Alone, Safe, Alive
<1>8. FilesSurvive'
  BY <1>2, <1>5 DEF FilesSurvive, Contents
<1>. QED
  BY <1>6, <1>7, <1>8 DEF IInv

LEMMA ReleaseInv == ASSUME Workspaces, IInv, NEW c \in Callers, Release(c) PROVE IInv'
<1>1. ~caller[c].recreating
  BY DEF IInv, CallerInv, Place, Release
<1>. QED
  BY <1>1, LeaveInv DEF Release

LEMMA DieInv == ASSUME Workspaces, IInv, NEW c \in Callers, Die(c) PROVE IInv'
  BY LeaveInv DEF Die, Recreating

LEMMA StopInv == ASSUME Workspaces, IInv, Stop PROVE IInv'
<1>1. Types /\ FilesSurvive /\ \A d \in Callers : CallerInv(d)
  BY DEF IInv
<1>2. /\ container # None /\ container' = [container EXCEPT !.running = FALSE]
      /\ UNCHANGED <<volume, image, caller, ids, kept, blame>>
  BY DEF Stop
<1>3. /\ container' \in Container /\ container'.id = container.id /\ container'.named = container.named
      /\ container'.bound = container.bound
  BY <1>1, <1>2 DEF Types, Container
<1>4. Types' /\ FilesSurvive'
  BY <1>1, <1>2, <1>3 DEF Types, FilesSurvive, Contents, Recreating
<1>5. \A d \in Callers : CallerInv(d)'
  BY <1>1, <1>2, <1>3 DEF CallerInv, Place, Alone, Safe, Alive
<1>. QED
  BY <1>4, <1>5 DEF IInv

LEMMA KeepInv ==
    ASSUME IInv, image' \in Nat, UNCHANGED <<container, volume, caller, ids, kept, blame>>
    PROVE  IInv'
  BY DEF IInv, Types, CallerInv, Place, Alone, Safe, Alive, FilesSurvive, Contents, Recreating

LEMMA Invariance == ASSUME Workspaces PROVE Spec => []IInv
<1>1. Init => IInv
  BY InitInv
<1>2. IInv /\ [Next]_vars => IInv'
  <2>. SUFFICES ASSUME IInv, [Next]_vars PROVE IInv'
    OBVIOUS
  <2>1. ASSUME NEW c \in Callers, Ensure(c) PROVE IInv'
    BY <2>1, GetInv, InspectInv, StartInv, EnsureNetworkAliasInv, EnsureVolumeInv, RunContainerInv,
       ExportInv, RemoveContainerInv, RemoveVolumeInv, PutArchiveInv DEF Ensure
  <2>2. ASSUME NEW c \in Callers, Use(c) \/ Release(c) \/ Die(c) PROVE IInv'
    BY <2>2, UseInv, ReleaseInv, DieInv
  <2>3. CASE Stop
    BY <2>3, StopInv
  <2>4. CASE BuildImage
    <3>1. image' \in Nat
      BY <2>4 DEF BuildImage, IInv, Types
    <3>. QED
      BY <2>4, <3>1, KeepInv DEF BuildImage
  <2>5. CASE UNCHANGED vars
    <3>1. image' \in Nat
      BY <2>5 DEF vars, IInv, Types
    <3>. QED
      BY <2>5, <3>1, KeepInv DEF vars
  <2>. QED
    BY <2>1, <2>2, <2>3, <2>4, <2>5 DEF Next
<1>. QED
  BY <1>1, <1>2, PTL DEF Spec

-----------------------------------------------------------------------------
(* The theorems.                                                           *)

\* The files of an assistant outlive any number of upgrades of its container, unless a
\* recreation failed, died or met another caller (_recreate_container).
THEOREM FilesOutliveUpgrades ==
    ASSUME Nothing \notin Trees, NoFiles \in Trees
    PROVE  Spec => []FilesSurvive
<1>1. Workspaces
  BY DEF Workspaces
<1>2. IInv => FilesSurvive
  BY DEF IInv
<1>. QED
  BY <1>1, <1>2, Invariance, PTL

\* Whoever was given a workspace has the present container in hand, unless a recreation
\* met another caller.
THEOREM HandlesStayAlive ==
    ASSUME Nothing \notin Trees, NoFiles \in Trees
    PROVE  Spec => []HandleIsAlive
<1>1. Workspaces
  BY DEF Workspaces
<1>2. IInv => HandleIsAlive
  BY DEF IInv, CallerInv, Alone, HandleIsAlive
<1>. QED
  BY <1>1, <1>2, Invariance, PTL
=============================================================================
