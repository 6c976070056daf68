------------------------ MODULE SurfaceAccessProofs ------------------------
(***************************************************************************)
(* Proofs about SurfaceAccess, for any assistants, operators, requests and *)
(* addresses, however their steps overlap.                                 *)
(***************************************************************************)
EXTENDS SurfaceAccess, SequenceTheorems, WellFoundedInduction, TLAPS

-----------------------------------------------------------------------------
(* The inductive invariant.                                                *)

Token == [assistant: Assistants, active: BOOLEAN]

Operation == [kind: Kinds \cup {"none"}, assistant: Assistants \cup {Nowhere}, seen: SUBSET Nat,
              row: {"absent", "off", "on"}, before: Nat, met: BOOLEAN]

\* A request has these fields; of their values nothing is said here.
Fields(q) == {"pc", "url", "credentials", "mode", "target", "refused", "moved"} \subseteq DOMAIN q

Shape ==
    /\ tokens \in Seq(Token)
    /\ surface \in [Assistants -> {"absent", "off", "on"}]
    /\ operation \in [Operators -> Operation]
    /\ retired \subseteq DOMAIN tokens
    /\ address \in [Assistants -> Addresses \cup {Nowhere}]
    /\ request = [r \in Requests |-> request[r]]
    /\ \A r \in Requests : Fields(request[r])

\* A token that an operation on tokens has not seen active is out of use already.
Knows(op) ==
    /\ op.before <= Len(tokens)
    /\ \A t \in TokensOf(op.assistant, op.before) : t \in op.seen \/ ~tokens[t].active

SeenWhatIsActive ==
    \A x \in Operators : operation[x].kind \in {"create", "revoke"} => Knows(operation[x])

\* What was taken out of use stays so, and a request remembers a part of it.
RetiredIsInactive ==
    /\ \A t \in retired : ~tokens[t].active
    /\ \A r \in Requests : request[r].refused \subseteq retired

TokenIsNotRefused ==
    \A r \in Requests :
        request[r].mode = "api_token" => request[r].credentials.token \notin request[r].refused

\* Nobody is enabling a closed surface, or one that an operation which met nobody disables;
\* such an operation still knows a row it has seen disabled.
Enables(z, a) == operation[z].kind = "enable" /\ operation[z].assistant = a

ClosedIsClosed ==
    /\ \A a \in closed : a \in Assistants /\ surface[a] # "on"
    /\ \A z \in Operators : \A a \in closed : ~Enables(z, a)

DisablesAlone ==
    \A x \in Operators : operation[x].kind = "disable" /\ ~operation[x].met =>
        /\ \A z \in Operators : ~Enables(z, operation[x].assistant)
        /\ operation[x].row = "off" => surface[operation[x].assistant] = "off"

Assigned == \A x \in Operators : operation[x].kind # "none" => operation[x].assistant \in Assistants

IInv ==
    /\ Shape /\ Assigned
    /\ SeenWhatIsActive /\ RetiredIsInactive /\ TokenIsNotRefused
    /\ ClosedIsClosed /\ DisablesAlone

-----------------------------------------------------------------------------
(* Operators.                                                              *)

\* A row of surface_tokens keeps its assistant, and is never active again.
OnlyRetires ==
    /\ tokens' \in Seq(Token)
    /\ Len(tokens) <= Len(tokens')
    /\ \A t \in DOMAIN tokens : /\ tokens'[t].assistant = tokens[t].assistant
                                /\ tokens'[t].active => tokens[t].active

LEMMA RevokedRows ==
    ASSUME Shape, NEW op \in Operation
    PROVE  /\ Revoked(op) \in Seq(Token) /\ Len(Revoked(op)) = Len(tokens)
           /\ \A t \in DOMAIN tokens :
                 /\ Revoked(op)[t].assistant = tokens[t].assistant
                 /\ Revoked(op)[t].active => tokens[t].active /\ t \notin op.seen
<1>1. tokens \in Seq(Token) /\ Len(tokens) \in Nat /\ DOMAIN tokens = 1..Len(tokens)
  BY DEF Shape
<1>2. \A t \in DOMAIN tokens : tokens[t] \in Token /\ [tokens[t] EXCEPT !.active = FALSE] \in Token
  <2>1. \A t \in DOMAIN tokens : tokens[t] \in Token
    BY <1>1
  <2>. QED
    BY <2>1 DEF Token
<1>3. Revoked(op) \in [1..Len(tokens) -> Token]
  BY <1>1, <1>2 DEF Revoked
<1>4. Revoked(op) \in Seq(Token) /\ Len(Revoked(op)) = Len(tokens)
  BY <1>1, <1>3
<1>5. \A t \in DOMAIN tokens :
         /\ Revoked(op)[t].assistant = tokens[t].assistant
         /\ Revoked(op)[t].active => tokens[t].active /\ t \notin op.seen
  BY <1>2 DEF Revoked, Token
<1>. QED
  BY <1>4, <1>5

\* A committed operation on tokens only takes tokens out of use, and adds an active one.
LEMMA CommitTokensEffect ==
    ASSUME Shape, Assigned, NEW x \in Operators, CommitTokens(x)
    PROVE  /\ OnlyRetires
           /\ \A t \in DOMAIN tokens : tokens'[t].active => t \notin operation[x].seen
<1>. DEFINE op == operation[x]
<1>1. op \in Operation /\ op.kind \in {"create", "revoke"} /\ op.assistant \in Assistants
  BY DEF Shape, Assigned, CommitTokens
<1>. DEFINE new == [assistant |-> op.assistant, active |-> TRUE]
            rows == Revoked(op)
<1>2. new \in Token
  BY <1>1 DEF Token
<1>3. /\ rows \in Seq(Token) /\ Len(rows) = Len(tokens)
      /\ \A t \in DOMAIN tokens : /\ rows[t].assistant = tokens[t].assistant
                                  /\ rows[t].active => tokens[t].active /\ t \notin op.seen
  BY <1>1, RevokedRows
<1>4. tokens' = rows \/ tokens' = Append(rows, new)
  BY DEF CommitTokens
<1>5. tokens \in Seq(Token) /\ DOMAIN tokens = 1..Len(tokens) /\ Len(tokens) \in Nat
  BY DEF Shape
<1>. HIDE DEF op, new, rows
<1>6. /\ tokens' \in Seq(Token) /\ Len(tokens) <= Len(tokens')
      /\ \A t \in DOMAIN tokens : tokens'[t] = rows[t]
  <2>1. CASE tokens' = rows
    BY <1>3, <1>5, <2>1
  <2>2. CASE tokens' = Append(rows, new)
    <3>1. /\ Append(rows, new) \in Seq(Token)
          /\ Len(Append(rows, new)) = Len(rows) + 1
          /\ \A i \in 1..Len(rows) : Append(rows, new)[i] = rows[i]
      BY <1>2, <1>3, AppendProperties
    <3>. QED
      BY <1>3, <1>5, <2>2, <3>1
  <2>. QED
    BY <1>4, <2>1, <2>2
<1>. QED
  BY <1>3, <1>6 DEF OnlyRetires, op

\* What is out of use remains so for the other operations.
LEMMA KnowsKept ==
    ASSUME Shape, OnlyRetires, NEW op \in Operation, Knows(op)
    PROVE  Knows(op)' /\ TokensOf(op.assistant, op.before) \subseteq DOMAIN tokens
<1>1. /\ DOMAIN tokens = 1..Len(tokens) /\ DOMAIN tokens' = 1..Len(tokens')
      /\ Len(tokens) \in Nat /\ Len(tokens') \in Nat /\ Len(tokens) <= Len(tokens')
  BY DEF Shape, OnlyRetires
<1>2. op.before \in Nat /\ op.before <= Len(tokens)
  BY DEF Operation, Knows
<1>3. \A t \in 1..op.before : t \in DOMAIN tokens
  BY <1>1, <1>2
<1>4. \A t \in 1..op.before : /\ tokens'[t].assistant = tokens[t].assistant
                              /\ tokens'[t].active => tokens[t].active
  BY <1>3 DEF OnlyRetires
<1>5. op.before <= Len(tokens')
  BY <1>1, <1>2
<1>. QED
  BY <1>3, <1>4, <1>5 DEF Knows, TokensOf

LEMMA CommitTokensStep == ASSUME IInv, NEW x \in Operators, CommitTokens(x) PROVE IInv'
<1>. USE DEF IInv
<1>1. OnlyRetires /\ \A t \in DOMAIN tokens : tokens'[t].active => t \notin operation[x].seen
  BY CommitTokensEffect
<1>2. /\ operation[x].kind \in {"create", "revoke"}
      /\ retired' = retired \cup TokensOf(operation[x].assistant, operation[x].before)
      /\ operation' = [operation EXCEPT ![x] = NoOperation]
      /\ UNCHANGED <<surface, closed, address, request>>
  BY DEF CommitTokens, End, containers
<1>3. NoOperation \in Operation
  BY DEF NoOperation, Operation
<1>4. /\ operation' \in [Operators -> Operation] /\ operation'[x].kind = "none"
      /\ \A y \in Operators \ {x} : operation'[y] = operation[y]
  BY <1>2, <1>3 DEF Shape, NoOperation
<1>5. /\ DOMAIN tokens = 1..Len(tokens) /\ DOMAIN tokens' = 1..Len(tokens')
      /\ Len(tokens) \in Nat /\ Len(tokens') \in Nat /\ Len(tokens) <= Len(tokens')
  BY <1>1 DEF Shape, OnlyRetires
<1>6. operation[x] \in Operation /\ Knows(operation[x])
  BY <1>2 DEF Shape, SeenWhatIsActive
<1>7. retired' \subseteq DOMAIN tokens /\ DOMAIN tokens \subseteq DOMAIN tokens'
  BY <1>1, <1>2, <1>5, <1>6, KnowsKept DEF Shape
<1>8. Shape'
  BY <1>1, <1>2, <1>4, <1>7 DEF Shape, OnlyRetires
<1>9. SeenWhatIsActive'
  <2>1. SUFFICES ASSUME NEW y \in Operators, operation'[y].kind \in {"create", "revoke"}
                 PROVE  Knows(operation[y])'
    BY DEF SeenWhatIsActive
  <2>2. PICK op \in Operation : op = operation[y] /\ op = operation'[y]
    BY <1>4, <2>1 DEF Shape
  <2>3. Knows(op)
    BY <2>1, <2>2 DEF SeenWhatIsActive
  <2>4. Knows(op)'
    BY <1>1, <2>3, KnowsKept
  <2>. QED
    BY <2>2, <2>4 DEF Knows
<1>10. RetiredIsInactive'
  <2>1. \A t \in retired' : ~tokens'[t].active
    <3>1. \A t \in retired : ~tokens'[t].active
      BY <1>1 DEF RetiredIsInactive, Shape, OnlyRetires
    <3>2. \A t \in TokensOf(operation[x].assistant, operation[x].before) :
             t \in DOMAIN tokens /\ (t \in operation[x].seen \/ ~tokens[t].active)
      BY <1>1, <1>6, KnowsKept DEF Knows
    <3>. QED
      BY <1>1, <1>2, <3>1, <3>2 DEF OnlyRetires
  <2>. QED
    BY <1>2, <2>1 DEF RetiredIsInactive
<1>11. Assigned' /\ TokenIsNotRefused' /\ ClosedIsClosed' /\ DisablesAlone'
  BY <1>2, <1>4 DEF Assigned, TokenIsNotRefused, ClosedIsClosed, DisablesAlone, Enables
<1>. QED
  BY <1>8, <1>9, <1>10, <1>11

\* An operation begins.
LEMMA BeginStep ==
    ASSUME IInv, NEW x \in Operators, NEW kind \in Kinds, NEW a \in Assistants, Begin(x, kind, a)
    PROVE  IInv'
<1>. USE DEF IInv
<1>1. UNCHANGED <<tokens, surface, retired, address, request>>
  BY DEF Begin, containers
<1>2. /\ operation'[x].kind = kind /\ operation'[x].assistant = a
      /\ operation'[x].seen = ActiveTokens(a) /\ operation'[x].row = surface[a]
      /\ operation'[x].before = Len(tokens)
      /\ operation'[x].met = \E z \in Operators : operation[z].assistant = a /\ Meet(kind, operation[z].kind)
      /\ operation'[x] \in Operation
  <2>1. ActiveTokens(a) \in SUBSET Nat /\ Len(tokens) \in Nat /\ surface[a] \in {"absent", "off", "on"}
    BY DEF ActiveTokens, Shape
  <2>2. operation'[x] =
          [kind |-> kind, assistant |-> a, seen |-> ActiveTokens(a), row |-> surface[a],
           before |-> Len(tokens),
           met |-> \E z \in Operators : operation[z].assistant = a /\ Meet(kind, operation[z].kind)]
    BY DEF Begin
  <2>. QED
    BY <2>1, <2>2 DEF Operation
<1>3. \A y \in Operators \ {x} :
         /\ operation'[y] \in Operation
         /\ operation'[y].kind = operation[y].kind /\ operation'[y].assistant = operation[y].assistant
         /\ operation'[y].seen = operation[y].seen /\ operation'[y].row = operation[y].row
         /\ operation'[y].before = operation[y].before
         /\ operation'[y].met = (operation[y].met \/ (operation[y].assistant = a /\ Meet(operation[y].kind, kind)))
  <2>1. SUFFICES ASSUME NEW y \in Operators \ {x}
        PROVE  /\ operation'[y] \in Operation
               /\ operation'[y].kind = operation[y].kind /\ operation'[y].assistant = operation[y].assistant
               /\ operation'[y].seen = operation[y].seen /\ operation'[y].row = operation[y].row
               /\ operation'[y].before = operation[y].before
               /\ operation'[y].met = (operation[y].met \/ (operation[y].assistant = a /\ Meet(operation[y].kind, kind)))
    OBVIOUS
  <2>. DEFINE met == operation[y].met \/ (operation[y].assistant = a /\ Meet(operation[y].kind, kind))
  <2>2. operation'[y] = [operation[y] EXCEPT !.met = met]
    BY DEF Begin
  <2>3. operation[y] \in Operation /\ met \in BOOLEAN
    BY DEF Shape, Operation, Meet
  <2>. HIDE DEF met
  <2>4. operation'[y] \in Operation /\ operation'[y].met = met
    BY <2>2, <2>3 DEF Operation
  <2>. QED
    BY <2>2, <2>3, <2>4 DEF Operation, met
<1>4. Shape'
  <2>1. operation' \in [Operators -> Operation]
    BY <1>2, <1>3 DEF Begin
  <2>. QED
    BY <1>1, <2>1 DEF Shape
<1>5. SeenWhatIsActive'
  <2>1. \A t \in TokensOf(a, Len(tokens)) : t \in ActiveTokens(a) \/ ~tokens[t].active
    BY DEF TokensOf, ActiveTokens, Shape
  <2>2. Len(tokens) <= Len(tokens)
    BY DEF Shape
  <2>3. Knows(operation[x])'
    BY <1>1, <1>2, <2>1, <2>2 DEF Knows, TokensOf
  <2>4. ASSUME NEW y \in Operators \ {x}, operation[y].kind \in {"create", "revoke"}
        PROVE  Knows(operation[y])'
    BY <1>1, <1>3, <2>4 DEF SeenWhatIsActive, Knows, TokensOf
  <2>. QED
    BY <1>3, <2>3, <2>4 DEF SeenWhatIsActive
<1>6. Assigned' /\ RetiredIsInactive' /\ TokenIsNotRefused'
  BY <1>1, <1>2, <1>3 DEF Assigned, RetiredIsInactive, TokenIsNotRefused
<1>7. ClosedIsClosed'
  BY <1>1, <1>2, <1>3 DEF ClosedIsClosed, Enables, Begin
<1>8. DisablesAlone'
  <2>1. SUFFICES ASSUME NEW y \in Operators, operation'[y].kind = "disable", ~operation'[y].met
        PROVE  /\ \A z \in Operators : ~(/\ operation'[z].kind = "enable"
                                       /\ operation'[z].assistant = operation'[y].assistant)
               /\ operation'[y].row = "off" => surface[operation'[y].assistant] = "off"
    BY <1>1 DEF DisablesAlone, Enables
  <2>2. CASE y = x
    <3>1. \A z \in Operators : ~(operation[z].assistant = a /\ operation[z].kind = "enable")
      BY <1>2, <2>1, <2>2 DEF Meet
    <3>. QED
      BY <1>2, <1>3, <2>1, <2>2, <3>1 DEF Enables
  <2>3. CASE y # x
    <3>1. /\ operation[y].kind = "disable" /\ ~operation[y].met
          /\ operation[y].assistant # a \/ kind # "enable"
      BY <1>3, <2>1, <2>3 DEF Meet
    <3>2. /\ \A z \in Operators : ~Enables(z, operation[y].assistant)
          /\ operation[y].row = "off" => surface[operation[y].assistant] = "off"
      BY <3>1 DEF DisablesAlone
    <3>. QED
      BY <1>2, <1>3, <2>3, <3>1, <3>2 DEF Enables
  <2>. QED
    BY <2>2, <2>3
<1>. QED
  BY <1>4, <1>5, <1>6, <1>7, <1>8

\* The settings of a surface are committed.
LEMMA CommitSurfaceStep == ASSUME IInv, NEW x \in Operators, CommitSurface(x) PROVE IInv'
<1>. USE DEF IInv
<1>. DEFINE a == operation[x].assistant
            wanted == IF operation[x].kind = "enable" THEN "on" ELSE "off"
            fails == operation[x].row = "absent" /\ surface[a] # "absent"
<1>1. /\ operation[x].kind \in {"enable", "disable"} /\ a \in Assistants
      /\ operation' = [operation EXCEPT ![x] = NoOperation]
      /\ UNCHANGED <<tokens, retired, address, request>>
      /\ surface' = IF fails \/ operation[x].row = wanted THEN surface
                    ELSE [surface EXCEPT ![a] = wanted]
      /\ closed' = IF fails \/ operation[x].met \/ operation[x].kind = "enable" THEN closed
                   ELSE closed \cup {a}
  BY DEF CommitSurface, End, Assigned, containers
<1>2. NoOperation \in Operation
  BY DEF NoOperation, Operation
<1>3. /\ operation' \in [Operators -> Operation] /\ operation'[x].kind = "none"
      /\ \A y \in Operators \ {x} : operation'[y] = operation[y]
  BY <1>1, <1>2 DEF Shape, NoOperation
<1>4. /\ surface' \in [Assistants -> {"absent", "off", "on"}]
      /\ \A b \in Assistants \ {a} : surface'[b] = surface[b]
      /\ surface'[a] \in {surface[a], wanted}
  BY <1>1 DEF Shape
<1>5. Shape' /\ Assigned' /\ SeenWhatIsActive' /\ RetiredIsInactive' /\ TokenIsNotRefused'
  BY <1>1, <1>3, <1>4 DEF Shape, Assigned, SeenWhatIsActive, Knows, TokensOf, RetiredIsInactive, TokenIsNotRefused
<1>6. CASE operation[x].kind = "enable"
  <2>1. \A b \in closed : b # a
    BY <1>6 DEF ClosedIsClosed, Enables
  <2>2. ClosedIsClosed'
    BY <1>1, <1>3, <1>4, <1>6, <2>1 DEF ClosedIsClosed, Enables
  <2>3. DisablesAlone'
    BY <1>3, <1>4, <1>6 DEF DisablesAlone, Enables, Assigned
  <2>. QED
    BY <1>5, <2>2, <2>3
<1>7. CASE operation[x].kind = "disable"
  <2>1. surface'[a] \in {surface[a], "off"}
    BY <1>4, <1>7
  <2>2. closed' # closed => /\ surface'[a] = "off" /\ \A z \in Operators : ~Enables(z, a)
                            /\ closed' = closed \cup {a}
    <3>1. SUFFICES ASSUME closed' # closed
          PROVE /\ surface'[a] = "off" /\ \A z \in Operators : ~Enables(z, a)
                /\ closed' = closed \cup {a}
      OBVIOUS
    <3>2. ~fails /\ ~operation[x].met /\ closed' = closed \cup {a}
      BY <1>1, <3>1
    <3>3. /\ \A z \in Operators : ~Enables(z, a)
          /\ operation[x].row = "off" => surface[a] = "off"
      BY <1>7, <3>2 DEF DisablesAlone
    <3>4. surface'[a] = "off"
      BY <1>1, <1>7, <3>2, <3>3 DEF Shape
    <3>. QED
      BY <3>2, <3>3, <3>4
  <2>3. ClosedIsClosed'
    BY <1>1, <1>3, <1>4, <2>1, <2>2 DEF ClosedIsClosed, Enables
  <2>4. DisablesAlone'
    BY <1>3, <1>4, <2>1 DEF DisablesAlone, Enables, Assigned
  <2>. QED
    BY <1>5, <2>3, <2>4
<1>. QED
  BY <1>1, <1>6, <1>7

-----------------------------------------------------------------------------
(* Requests.                                                               *)

\* A step of a request that neither changes the database nor lets a refused token in.
LEMMA RequestStep ==
    ASSUME IInv, NEW r \in Requests, NEW q, request' = [request EXCEPT ![r] = q], Fields(q),
           q.refused \subseteq retired,
           q.mode = "api_token" => q.credentials.token \notin q.refused,
           UNCHANGED <<database, containers>>
    PROVE  IInv'
<1>. USE DEF IInv, database, containers
<1>1. request' = [s \in Requests |-> IF s = r THEN q ELSE request[s]]
  BY DEF Shape
<1>2. request'[r] = q /\ \A s \in Requests \ {r} : request'[s] = request[s]
  BY <1>1
<1>3. request' = [s \in Requests |-> request'[s]]
  BY <1>1
<1>4. Shape'
  BY <1>2, <1>3 DEF Shape
<1>5. Assigned' /\ SeenWhatIsActive' /\ RetiredIsInactive' /\ TokenIsNotRefused'
  BY <1>2 DEF Assigned, SeenWhatIsActive, Knows, TokensOf, RetiredIsInactive, TokenIsNotRefused
<1>6. ClosedIsClosed' /\ DisablesAlone'
  BY DEF ClosedIsClosed, DisablesAlone, Enables
<1>. QED
  BY <1>4, <1>5, <1>6

\* A request that has just come.
Arrived(method, url, credentials, followed) ==
    LET status == Received(url, credentials) IN
    [NoRequest EXCEPT !.pc = IF status = "none" THEN "settings" ELSE "answered",
                      !.status = status, !.method = method, !.url = url,
                      !.credentials = credentials, !.refused = retired, !.followed = followed]

LEMMA ArrivedFields ==
    ASSUME NEW method, NEW url, NEW credentials, NEW followed
    PROVE  LET q == Arrived(method, url, credentials, followed) IN
           Fields(q) /\ q.refused = retired /\ q.mode = "none" /\ q.pc \in {"settings", "answered"}
<1>. DEFINE status == Received(url, credentials)
            pc == IF status = "none" THEN "settings" ELSE "answered"
<1>1. Arrived(method, url, credentials, followed) =
        [NoRequest EXCEPT !.pc = pc, !.status = status, !.method = method, !.url = url,
                          !.credentials = credentials, !.refused = retired, !.followed = followed]
  BY DEF Arrived
<1>2. pc \in {"settings", "answered"}
  OBVIOUS
<1>. HIDE DEF status, pc
<1>. QED
  BY <1>1, <1>2 DEF Fields, NoRequest

\* What a step of one request makes of it: it arrives, or goes on.
GoesOn(p, q) ==
    /\ q.refused = p.refused /\ q.credentials = p.credentials
    /\ q.mode # p.mode /\ q.mode = "api_token" => p.credentials.token \notin retired

LEMMA ServedRequest ==
    ASSUME Shape, RetiredIsInactive, NEW r \in Requests, Serve(r)
    PROVE  /\ UNCHANGED <<database, containers>>
           /\ \E q : /\ request' = [request EXCEPT ![r] = q] /\ Fields(q)
                     /\ (q.refused = retired /\ q.mode = "none") \/ GoesOn(request[r], q)
<1>. DEFINE p == request[r]
<1>0. Fields(p)
  BY DEF Shape
<1>. HIDE DEF p
<1>1. ASSUME NEW status, Answer(r, status)
      PROVE  \E q : request' = [request EXCEPT ![r] = q] /\ Fields(q) /\ GoesOn(p, q)
  <2>. DEFINE q == [p EXCEPT !.pc = "answered", !.status = status]
  <2>1. request' = [request EXCEPT ![r] = q]
    BY <1>1 DEF Answer, p
  <2>2. Fields(q) /\ GoesOn(p, q)
    BY <1>0 DEF Fields, GoesOn
  <2>. QED
    BY <2>1, <2>2
<1>2. ASSUME NEW pc, Step(r, pc)
      PROVE  \E q : request' = [request EXCEPT ![r] = q] /\ Fields(q) /\ GoesOn(p, q)
  <2>. DEFINE q == [p EXCEPT !.pc = pc]
  <2>1. request' = [request EXCEPT ![r] = q]
    BY <1>2 DEF Step, p
  <2>2. Fields(q) /\ GoesOn(p, q)
    BY <1>0 DEF Fields, GoesOn
  <2>. QED
    BY <2>1, <2>2
<1>3. ASSUME NEW mode, request' = [request EXCEPT ![r].pc = "resolve", ![r].mode = mode],
             mode = "api_token" => p.credentials.token \notin retired
      PROVE  \E q : request' = [request EXCEPT ![r] = q] /\ Fields(q) /\ GoesOn(p, q)
  <2>. DEFINE q == [p EXCEPT !.pc = "resolve", !.mode = mode]
  <2>1. request' = [request EXCEPT ![r] = q]
    BY <1>3 DEF p
  <2>2. Fields(q) /\ GoesOn(p, q)
    BY <1>0, <1>3 DEF Fields, GoesOn
  <2>. QED
    BY <2>1, <2>2
<1>4. ASSUME NEW target, request' = [request EXCEPT ![r].pc = "forward", ![r].target = target]
      PROVE  \E q : request' = [request EXCEPT ![r] = q] /\ Fields(q) /\ GoesOn(p, q)
  <2>. DEFINE q == [p EXCEPT !.pc = "forward", !.target = target]
  <2>1. request' = [request EXCEPT ![r] = q]
    BY <1>4 DEF p
  <2>2. Fields(q) /\ GoesOn(p, q)
    BY <1>0 DEF Fields, GoesOn
  <2>. QED
    BY <2>1, <2>2
<1>5. \A method, url, credentials, followed : Arrive(r, method, url, credentials, followed) =>
        \E q : request' = [request EXCEPT ![r] = q] /\ Fields(q) /\ q.refused = retired /\ q.mode = "none"
  <2>1. SUFFICES ASSUME NEW method, NEW url, NEW credentials, NEW followed,
                        Arrive(r, method, url, credentials, followed)
        PROVE  request' = [request EXCEPT ![r] = Arrived(method, url, credentials, followed)]
    BY ArrivedFields
  <2>. QED
    BY <2>1 DEF Arrive, Arrived
<1>. DEFINE Served == \E q : /\ request' = [request EXCEPT ![r] = q] /\ Fields(q)
                             /\ (q.refused = retired /\ q.mode = "none") \/ GoesOn(p, q)
<1>6. ASSUME Ask(r) PROVE Served
  BY <1>5, <1>6 DEF Ask
<1>7. ASSUME LoadSettings(r) PROVE Served
  <2>1. \/ \E status : Answer(r, status)
        \/ \E pc : Step(r, pc)
        \/ request' = [request EXCEPT ![r].pc = "resolve", ![r].mode = "owner_basic"]
    BY <1>7 DEF LoadSettings
  <2>2. "owner_basic" # "api_token"
    OBVIOUS
  <2>. QED
    BY <1>1, <1>2, <1>3, <2>1, <2>2
<1>8. ASSUME Act(r) \/ Check(r) PROVE Served
  BY <1>1, <1>8 DEF Act, Check
<1>9. ASSUME Verify(r) PROVE Served
  <2>1. \/ \E status : Answer(r, status)
        \/ /\ request' = [request EXCEPT ![r].pc = "resolve", ![r].mode = "api_token"]
           /\ Verified(p.url[2], p.credentials.token)
    BY <1>9 DEF Verify, p
  <2>2. Verified(p.url[2], p.credentials.token) => p.credentials.token \notin retired
    BY DEF Verified, ActiveTokens, RetiredIsInactive
  <2>. QED
    BY <1>1, <1>3, <2>1, <2>2
<1>10. ASSUME ResolveTarget(r) PROVE Served
  BY <1>1, <1>4, <1>10 DEF ResolveTarget
<1>11. ASSUME Forward(r) PROVE Served
  BY <1>1, <1>11 DEF Forward
<1>12. ASSUME Follow(r) PROVE Served
  BY <1>5, <1>12 DEF Follow
<1>. QED
  <2>1. UNCHANGED <<database, containers>>
    BY DEF Serve, Ask, LoadSettings, Act, Check, Verify, ResolveTarget, Forward, Follow
  <2>2. Served
    BY <1>6, <1>7, <1>8, <1>9, <1>10, <1>11, <1>12 DEF Serve
  <2>3. PICK q : /\ request' = [request EXCEPT ![r] = q] /\ Fields(q)
                 /\ (q.refused = retired /\ q.mode = "none") \/ GoesOn(p, q)
    BY <2>2
  <2>4. (q.refused = retired /\ q.mode = "none") \/ GoesOn(request[r], q)
    BY <2>3 DEF p
  <2>. QED
    BY <2>1, <2>3, <2>4

LEMMA ServeStep == ASSUME IInv, NEW r \in Requests, Serve(r) PROVE IInv'
<1>1. UNCHANGED <<database, containers>>
  BY ServedRequest DEF IInv
<1>2. PICK q : /\ request' = [request EXCEPT ![r] = q] /\ Fields(q)
               /\ (q.refused = retired /\ q.mode = "none") \/ GoesOn(request[r], q)
  BY ServedRequest DEF IInv
<1>3. /\ request[r].refused \subseteq retired
      /\ request[r].mode = "api_token" => request[r].credentials.token \notin request[r].refused
  BY DEF IInv, RetiredIsInactive, TokenIsNotRefused
<1>4. q.refused \subseteq retired
  BY <1>2, <1>3 DEF GoesOn
<1>5. q.mode = "api_token" => q.credentials.token \notin q.refused
  BY <1>2, <1>3 DEF GoesOn
<1>. QED
  BY <1>1, <1>2, <1>4, <1>5, RequestStep

-----------------------------------------------------------------------------
(* Containers.                                                             *)

\* Requests of an assistant whose container moves are marked, and keep all else.
LEMMA MoveStep == ASSUME IInv, NEW a \in Assistants, Move(a) PROVE IInv'
<1>. USE DEF IInv
<1>1. UNCHANGED <<tokens, surface, operation, retired, closed>>
  BY DEF Move, database
<1>2. address' \in [Assistants -> Addresses \cup {Nowhere}]
  BY DEF Move, Shape
<1>3. \A s \in Requests :
         /\ Fields(request'[s]) /\ request'[s].refused = request[s].refused
         /\ request'[s].credentials = request[s].credentials /\ request'[s].mode = request[s].mode
  <2>1. SUFFICES ASSUME NEW s \in Requests
        PROVE  /\ Fields(request'[s]) /\ request'[s].refused = request[s].refused
               /\ request'[s].credentials = request[s].credentials /\ request'[s].mode = request[s].mode
    OBVIOUS
  <2>2. request'[s] = [request[s] EXCEPT !.moved = TRUE] \/ request'[s] = request[s]
    BY DEF Move
  <2>3. Fields(request[s])
    BY DEF Shape
  <2>. QED
    BY <2>2, <2>3 DEF Fields
<1>4. request' = [s \in Requests |-> request'[s]]
  BY DEF Move
<1>5. Shape'
  BY <1>1, <1>2, <1>3, <1>4 DEF Shape
<1>6. Assigned' /\ SeenWhatIsActive' /\ RetiredIsInactive' /\ TokenIsNotRefused'
  BY <1>1, <1>3 DEF Assigned, SeenWhatIsActive, Knows, TokensOf, RetiredIsInactive, TokenIsNotRefused
<1>7. ClosedIsClosed' /\ DisablesAlone'
  BY <1>1 DEF ClosedIsClosed, DisablesAlone, Enables
<1>. QED
  BY <1>5, <1>6, <1>7

-----------------------------------------------------------------------------
(* The theorems.                                                           *)

LEMMA InitInv == Init => IInv
<1>. SUFFICES ASSUME Init PROVE IInv
  OBVIOUS
<1>. USE DEF Init
<1>1. NoOperation \in Operation /\ NoOperation.kind = "none"
  BY DEF NoOperation, Operation
<1>2. Fields(NoRequest) /\ NoRequest.refused = {} /\ NoRequest.mode = "none"
  BY DEF Fields, NoRequest
<1>3. Shape
  BY <1>1, <1>2 DEF Shape
<1>4. Assigned /\ SeenWhatIsActive /\ RetiredIsInactive /\ TokenIsNotRefused
  BY <1>1, <1>2 DEF Assigned, SeenWhatIsActive, RetiredIsInactive, TokenIsNotRefused
<1>5. ClosedIsClosed /\ DisablesAlone
  BY <1>1 DEF ClosedIsClosed, DisablesAlone, Enables
<1>. QED
  BY <1>3, <1>4, <1>5 DEF IInv

LEMMA NextInv == IInv /\ [Next]_vars => IInv'
<1>. SUFFICES ASSUME IInv, [Next]_vars PROVE IInv'
  OBVIOUS
<1>1. ASSUME NEW x \in Operators, Operate(x) PROVE IInv'
  BY <1>1, BeginStep, CommitTokensStep, CommitSurfaceStep DEF Operate
<1>2. ASSUME NEW a \in Assistants, Move(a) PROVE IInv'
  BY <1>2, MoveStep
<1>3. ASSUME NEW r \in Requests, Serve(r) PROVE IInv'
  BY <1>3, ServeStep
<1>4. CASE UNCHANGED vars
  BY <1>4 DEF vars, database, containers, IInv, Shape, Assigned, SeenWhatIsActive, Knows, TokensOf,
              RetiredIsInactive, TokenIsNotRefused, ClosedIsClosed, DisablesAlone, Enables
<1>. QED
  BY <1>1, <1>2, <1>3, <1>4 DEF Next

\* A token that a finished operation has taken out of use opens nothing to a later request,
\* and a surface that was disabled stays so until someone begins to enable it: verify_surface_token
\* and set_assistant_surface hold this without a lock.
THEOREM FinishedOperationsBind == Spec => []RevokedIsRefused
<1>1. IInv => RevokedIsRefused
  BY DEF IInv, TokenIsNotRefused, ClosedIsClosed, RevokedIsRefused
<1>. QED
  BY <1>1, InitInv, NextInv, PTL DEF Spec

-----------------------------------------------------------------------------
(* Where requests are forwarded to.                                        *)

\* Docker gives an address to one container at a time.
Apart == \A a, b \in Assistants : address[a] = address[b] => a = b \/ address[a] = Nowhere

\* A request that the settings let pass is for an assistant, and is forwarded to its address.
Routed(q) ==
    /\ q.pc \in {"act", "check", "verify", "resolve", "forward"} => q.url[2] \in Assistants
    /\ q.pc = "forward" /\ ~q.moved => q.target = address[q.url[2]] /\ q.target # Nowhere

RInv ==
    /\ address \in [Assistants -> Addresses \cup {Nowhere}]
    /\ request = [r \in Requests |-> request[r]]
    /\ Apart
    /\ \A r \in Requests : Fields(request[r]) /\ Routed(request[r])

LEMMA ServedRoute ==
    ASSUME RInv, NEW r \in Requests, Serve(r)
    PROVE  /\ UNCHANGED address
           /\ \E q : request' = [request EXCEPT ![r] = q] /\ Fields(q) /\ Routed(q)
<1>1. UNCHANGED address
  BY DEF containers, Serve, Ask, LoadSettings, Act, Check, Verify, ResolveTarget, Forward, Follow
<1>. DEFINE p == request[r]
            Served == \E q : request' = [request EXCEPT ![r] = q] /\ Fields(q) /\ Routed(q)
<1>2. Fields(p) /\ Routed(p)
  BY DEF RInv
<1>. HIDE DEF p
<1>3. ASSUME NEW status, Answer(r, status) PROVE Served
  <2>. DEFINE q == [p EXCEPT !.pc = "answered", !.status = status]
  <2>1. request' = [request EXCEPT ![r] = q]
    BY <1>3 DEF Answer, p
  <2>2. Fields(q) /\ q.pc = "answered"
    BY <1>2 DEF Fields
  <2>. HIDE DEF q
  <2>. QED
    BY <2>1, <2>2 DEF Routed
<1>4. ASSUME NEW pc, Step(r, pc), pc # "forward", p.url[2] \in Assistants PROVE Served
  <2>. DEFINE q == [p EXCEPT !.pc = pc]
  <2>1. request' = [request EXCEPT ![r] = q]
    BY <1>4 DEF Step, p
  <2>2. Fields(q) /\ q.pc = pc /\ q.url = p.url
    BY <1>2 DEF Fields
  <2>. HIDE DEF q
  <2>. QED
    BY <1>4, <2>1, <2>2 DEF Routed
<1>5. ASSUME NEW mode, request' = [request EXCEPT ![r].pc = "resolve", ![r].mode = mode],
             p.url[2] \in Assistants
      PROVE  Served
  <2>. DEFINE q == [p EXCEPT !.pc = "resolve", !.mode = mode]
  <2>1. request' = [request EXCEPT ![r] = q]
    BY <1>5 DEF p
  <2>2. Fields(q) /\ q.pc = "resolve" /\ q.url = p.url
    BY <1>2 DEF Fields
  <2>. HIDE DEF q
  <2>. QED
    BY <1>5, <2>1, <2>2 DEF Routed
<1>6. \A method, url, credentials, followed : Arrive(r, method, url, credentials, followed) => Served
  <2>1. SUFFICES ASSUME NEW method, NEW url, NEW credentials, NEW followed,
                        Arrive(r, method, url, credentials, followed)
        PROVE  Served
    OBVIOUS
  <2>. DEFINE q == Arrived(method, url, credentials, followed)
  <2>2. request' = [request EXCEPT ![r] = q]
    BY <2>1 DEF Arrive, Arrived
  <2>3. Fields(q) /\ q.pc \in {"settings", "answered"}
    BY ArrivedFields
  <2>. HIDE DEF q
  <2>. QED
    BY <2>2, <2>3 DEF Routed
<1>7. ASSUME Ask(r) PROVE Served
  BY <1>6, <1>7 DEF Ask
<1>8. ASSUME LoadSettings(r) PROVE Served
  <2>1. \/ \E status : Answer(r, status)
        \/ p.url[2] \in Assistants /\ \E pc \in {"act", "check", "verify"} : Step(r, pc)
        \/ /\ p.url[2] \in Assistants
           /\ request' = [request EXCEPT ![r].pc = "resolve", ![r].mode = "owner_basic"]
    BY <1>8 DEF LoadSettings, p
  <2>2. \A pc \in {"act", "check", "verify"} : pc # "forward"
    OBVIOUS
  <2>. QED
    BY <1>3, <1>4, <1>5, <2>1, <2>2
<1>9. ASSUME Act(r) \/ Check(r) PROVE Served
  BY <1>3, <1>9 DEF Act, Check
<1>10. ASSUME Verify(r) PROVE Served
  <2>1. \/ \E status : Answer(r, status)
        \/ request' = [request EXCEPT ![r].pc = "resolve", ![r].mode = "api_token"]
    BY <1>10 DEF Verify
  <2>2. p.url[2] \in Assistants
    BY <1>2, <1>10 DEF Verify, Routed, p
  <2>. QED
    BY <1>3, <1>5, <2>1, <2>2
<1>11. ASSUME ResolveTarget(r) PROVE Served
  <2>. DEFINE target == address[p.url[2]]
              q == [p EXCEPT !.pc = "forward", !.target = target]
  <2>1. \/ \E status : Answer(r, status)
        \/ target # Nowhere /\ request' = [request EXCEPT ![r] = q]
    BY <1>11 DEF ResolveTarget, Target, p
  <2>2. p.url[2] \in Assistants
    BY <1>2, <1>11 DEF ResolveTarget, Routed, p
  <2>3. Fields(q) /\ q.url = p.url /\ q.target = target
    BY <1>2 DEF Fields
  <2>. HIDE DEF q
  <2>4. target # Nowhere => Routed(q)
    BY <2>2, <2>3 DEF Routed
  <2>. QED
    BY <1>3, <2>1, <2>3, <2>4
<1>12. ASSUME Forward(r) PROVE Served
  BY <1>3, <1>12 DEF Forward
<1>13. ASSUME Follow(r) PROVE Served
  BY <1>6, <1>13 DEF Follow
<1>14. Served
  BY <1>7, <1>8, <1>9, <1>10, <1>11, <1>12, <1>13 DEF Serve
<1>. QED
  BY <1>1, <1>14

LEMMA MovedRoute == ASSUME RInv, NEW a \in Assistants, Move(a) PROVE RInv'
<1>1. PICK new \in Addresses \cup {Nowhere} :
         /\ \A b \in Assistants : address[b] = new => new = Nowhere
         /\ address' = [address EXCEPT ![a] = new]
  BY DEF Move
<1>2. /\ address' \in [Assistants -> Addresses \cup {Nowhere}]
      /\ address'[a] = new /\ \A b \in Assistants \ {a} : address'[b] = address[b]
  BY <1>1 DEF RInv
<1>3. Apart'
  BY <1>1, <1>2 DEF RInv, Apart
<1>4. request' = [r \in Requests |-> request'[r]]
  BY DEF Move
<1>5. ASSUME NEW r \in Requests PROVE Fields(request'[r]) /\ Routed(request[r])'
  <2>. DEFINE p == request[r]
              follows == p.pc = "forward" /\ p.url[2] = a
  <2>1. Fields(p) /\ Routed(p)
    BY DEF RInv
  <2>2. request'[r] = IF follows THEN [p EXCEPT !.moved = TRUE] ELSE p
    BY DEF Move
  <2>3. CASE follows
    <3>1. /\ Fields(request'[r]) /\ request'[r].moved = TRUE
          /\ request'[r].pc = p.pc /\ request'[r].url = p.url
      BY <2>1, <2>2, <2>3 DEF Fields
    <3>. QED
      BY <2>1, <2>3, <3>1 DEF Routed
  <2>4. CASE ~follows
    BY <1>2, <2>1, <2>2, <2>4 DEF Routed
  <2>. QED
    BY <2>3, <2>4
<1>. QED
  BY <1>2, <1>3, <1>4, <1>5 DEF RInv

\* A request is forwarded to the container of its own assistant, unless the container has moved
\* since make_docker_surface_target has resolved it.
THEOREM ForwardedHome == Spec => []ReachesItsAssistant
<1>1. Init => RInv
  BY DEF Init, RInv, Apart, Routed, Fields, NoRequest
<1>2. RInv /\ [Next]_vars => RInv'
  <2>. SUFFICES ASSUME RInv, [Next]_vars PROVE RInv'
    OBVIOUS
  <2>1. ASSUME NEW x \in Operators, Operate(x) PROVE RInv'
    BY <2>1 DEF Operate, Begin, CommitTokens, CommitSurface, containers, RInv, Apart, Routed
  <2>2. ASSUME NEW a \in Assistants, Move(a) PROVE RInv'
    BY <2>2, MovedRoute
  <2>3. ASSUME NEW r \in Requests, Serve(r) PROVE RInv'
    <3>1. PICK q : request' = [request EXCEPT ![r] = q] /\ Fields(q) /\ Routed(q)
      BY <2>3, ServedRoute
    <3>2. address' = address
      BY <2>3, ServedRoute
    <3>3. request' = [s \in Requests |-> request'[s]]
      BY <3>1 DEF RInv
    <3>4. \A s \in Requests : request'[s] = q \/ request'[s] = request[s]
      BY <3>1 DEF RInv
    <3>. QED
      BY <3>1, <3>2, <3>3, <3>4 DEF RInv, Apart, Routed
  <2>4. CASE UNCHANGED vars
    BY <2>4 DEF vars, containers, RInv, Apart, Routed
  <2>. QED
    BY <2>1, <2>2, <2>3, <2>4 DEF Next
<1>3. RInv => ReachesItsAssistant
  BY DEF RInv, Apart, Routed, ReachesItsAssistant, Reached
<1>. QED
  BY <1>1, <1>2, <1>3, PTL DEF Spec

-----------------------------------------------------------------------------
(* Where the links of a page lead. Paths are sequences over any Segments.  *)

Urls(Segments) == Seq(Segments \cup Assistants \cup {"surfaces"})

\* A request that has passed the middleware is for a surface, and one that has passed the
\* settings for the surface of an assistant.
OnSurface(Segments, q) ==
    /\ q.pc \in {"settings", "act", "check", "verify", "resolve", "forward"} \/ q.status = "ok" =>
          q.url \in Urls(Segments) /\ Len(q.url) >= 2 /\ q.url[1] = "surfaces"
    /\ q.pc \in {"act", "check", "verify", "resolve", "forward"} \/ q.status = "ok" =>
          q.url[2] \in Assistants

LInv(Segments) ==
    /\ request = [r \in Requests |-> request[r]]
    /\ \A r \in Requests : /\ Fields(request[r]) /\ "status" \in DOMAIN request[r]
                           /\ OnSurface(Segments, request[r])

LEMMA PrefixIsUrl ==
    ASSUME NEW Segments, NEW a \in Assistants
    PROVE  /\ Prefix(a) \in Urls(Segments) /\ Len(Prefix(a)) = 2
           /\ Prefix(a)[1] = "surfaces" /\ Prefix(a)[2] = a
  BY DEF Prefix, Urls

LEMMA StartsWithPrefix ==
    ASSUME NEW Segments, NEW a \in Assistants, NEW url \in Urls(Segments)
    PROVE  StartsWith(url, Prefix(a)) <=> Len(url) >= 2 /\ url[1] = "surfaces" /\ url[2] = a
<1>. DEFINE T == Segments \cup Assistants \cup {"surfaces"}
<1>0. url \in Seq(T) /\ Len(url) \in Nat /\ DOMAIN url = 1..Len(url)
  BY DEF Urls
<1>1. /\ Prefix(a) \in Seq(T) /\ Len(Prefix(a)) = 2
      /\ Prefix(a)[1] = "surfaces" /\ Prefix(a)[2] = a
  BY PrefixIsUrl DEF Urls
<1>. HIDE DEF T
<1>2. CASE Len(url) >= 2
  <2>1. \A i \in 1..2 : url[i] \in T
    BY <1>0, <1>2
  <2>2. /\ SubSeq(url, 1, 2) \in Seq(T) /\ Len(SubSeq(url, 1, 2)) = 2
        /\ \A i \in 1..2 : SubSeq(url, 1, 2)[i] = url[i]
    BY <2>1, SubSeqProperties
  <2>3. SubSeq(url, 1, 2) = Prefix(a) <=> url[1] = "surfaces" /\ url[2] = a
    <3>1. ASSUME url[1] = "surfaces", url[2] = a PROVE SubSeq(url, 1, 2) = Prefix(a)
      <4>1. \A i \in 1..2 : SubSeq(url, 1, 2)[i] = Prefix(a)[i]
        BY <1>1, <2>2, <3>1
      <4>. QED
        BY <1>1, <2>2, <4>1, SeqEqual
    <3>. QED
      BY <1>1, <2>2, <3>1
  <2>. QED
    BY <1>1, <1>2, <2>3 DEF StartsWith
<1>3. CASE ~(Len(url) >= 2)
  BY <1>0, <1>1, <1>3 DEF StartsWith
<1>. QED
  BY <1>2, <1>3

\* A set of numbers has a least one.
LEMMA LeastNumber ==
    ASSUME NEW S, S \subseteq Nat, S # {}
    PROVE  \E i \in S : \A j \in S : i <= j
<1>1. \E i \in S : \A j \in S : ~(<<j, i>> \in OpToRel(<, Nat))
  BY NatLessThanWellFounded, WFMin
<1>2. PICK i \in S : \A j \in S : ~(<<j, i>> \in OpToRel(<, Nat))
  BY <1>1
<1>3. \A j \in S : ~(j < i)
  BY <1>2 DEF OpToRel
<1>. QED
  BY <1>3

LEMMA Earlier ==
    ASSUME NEW n \in Nat, NEW k \in 1..n, NEW j \in 1..(k - 1)
    PROVE  j \in 1..n /\ ~(k <= j)
  OBVIOUS

LEMMA Later ==
    ASSUME NEW n \in Nat, NEW k \in 1..n, NEW j \in 1..n, j < k
    PROVE  j \in 1..(k - 1) /\ j # n
  OBVIOUS

\* Where a path begins, after the empty segments in front.
Starts(path, k) ==
    /\ k \in 1..Len(path)
    /\ path[k] # "" \/ k = Len(path)
    /\ \A j \in 1..(k - 1) : path[j] = ""

LEMMA StartExists ==
    ASSUME NEW T, NEW path \in Seq(T), path # <<>>
    PROVE  \E k : Starts(path, k)
<1>. DEFINE n == Len(path)
            S == {i \in 1..n : path[i] # "" \/ i = n}
<1>1. n \in Nat \ {0}
  BY EmptySeq
<1>. HIDE DEF n
<1>2. n \in S /\ S \subseteq Nat
  <2>1. n \in 1..n /\ 1..n \subseteq Nat
    BY <1>1
  <2>. QED
    BY <2>1, Zenon
<1>3. PICK k \in S : \A j \in S : k <= j
  <2>. HIDE DEF S
  <2>. QED
    BY <1>2, LeastNumber
<1>4. k \in 1..n /\ (path[k] # "" \/ k = n)
  BY <1>3
<1>5. ASSUME NEW j \in 1..(k - 1) PROVE path[j] = ""
  <2>3. j \in 1..n /\ ~(k <= j)
    BY <1>1, <1>4, <1>5, Earlier, Zenon
  <2>. QED
    BY <1>3, <2>3, Zenon
<1>. QED
  BY <1>4, <1>5 DEF Starts, n

LEMMA StrippedFrom ==
    ASSUME NEW T, NEW path \in Seq(T), NEW k, Starts(path, k)
    PROVE  Stripped(path) = SubSeq(path, k, Len(path))
<1>. DEFINE First(i) == /\ path[i] # "" \/ i = Len(path)
                        /\ \A j \in 1..(i - 1) : path[j] = ""
            start == CHOOSE i \in 1..Len(path) : First(i)
<1>1. Len(path) \in Nat
  OBVIOUS
<1>2. k \in 1..Len(path) /\ First(k)
  BY DEF Starts
<1>3. start \in 1..Len(path) /\ First(start)
  BY <1>2
<1>4. start = k
  <2>. HIDE DEF start
  <2>1. ASSUME NEW i \in 1..Len(path), NEW j \in 1..Len(path), First(i), First(j) PROVE ~(i < j)
    <3>1. SUFFICES ASSUME i < j PROVE FALSE
      OBVIOUS
    <3>3. i \in 1..(j - 1) /\ i # Len(path)
      BY <1>1, <3>1, Later, Zenon
    <3>. QED
      BY <2>1, <3>3, Zenon
  <2>. HIDE DEF First
  <2>2. ~(start < k) /\ ~(k < start)
    BY <1>2, <1>3, <2>1
  <2>. QED
    BY <1>1, <1>2, <1>3, <2>2
<1>5. Stripped(path) = SubSeq(path, start, Len(path))
  BY DEF Stripped
<1>. QED
  BY <1>4, <1>5

\* The elements of a part of a sequence.
LEMMA PartOf ==
    ASSUME NEW T, NEW s \in Seq(T), NEW k \in Nat \ {0}, NEW n \in Nat, k - 1 <= n, n <= Len(s)
    PROVE  /\ SubSeq(s, k, n) \in Seq(T) /\ Len(SubSeq(s, k, n)) = n - k + 1
           /\ \A i \in 1..(n - k + 1) : SubSeq(s, k, n)[i] = s[k + i - 1]
<1>1. \A i \in k..n : s[i] \in T
  OBVIOUS
<1>2. /\ SubSeq(s, k, n) \in Seq(T)
      /\ Len(SubSeq(s, k, n)) = IF k <= n THEN n - k + 1 ELSE 0
      /\ \A i \in 1..(n - k + 1) : SubSeq(s, k, n)[i] = s[k + i - 1]
  BY <1>1, SubSeqProperties
<1>3. (IF k <= n THEN n - k + 1 ELSE 0) = n - k + 1
  OBVIOUS
<1>. QED
  BY <1>2, <1>3

\* What comes from position k on, when a sequence is cut at n and continued.
LEMMA CutAndContinued ==
    ASSUME NEW T, NEW s \in Seq(T), NEW p \in Seq(T), NEW k \in Nat \ {0}, NEW n \in Nat,
           k - 1 <= n, n <= Len(s)
    PROVE  LET new == SubSeq(s, 1, n) \o p IN
           /\ new \in Seq(T) /\ Len(new) = n + Len(p)
           /\ \A i \in 1..(n + Len(p)) : new[i] = IF i <= n THEN s[i] ELSE p[i - n]
           /\ SubSeq(new, k, Len(new)) = SubSeq(SubSeq(s, k, Len(s)), 1, n - k + 1) \o p
<1>. DEFINE dir == SubSeq(s, 1, n)
            new == dir \o p
            from == SubSeq(s, k, Len(s))
            part == SubSeq(from, 1, n - k + 1)
            m == Len(p)
<1>1. Len(s) \in Nat /\ m \in Nat
  OBVIOUS
<1>2. dir \in Seq(T) /\ Len(dir) = n /\ \A i \in 1..n : dir[i] = s[i]
  <2>1. dir \in Seq(T) /\ Len(dir) = n - 1 + 1 /\ \A i \in 1..(n - 1 + 1) : dir[i] = s[1 + i - 1]
    BY PartOf
  <2>. QED
    BY <2>1
<1>3. from \in Seq(T) /\ Len(from) = Len(s) - k + 1 /\ \A i \in 1..(Len(s) - k + 1) : from[i] = s[k + i - 1]
  BY <1>1, PartOf
<1>. HIDE DEF dir, from
<1>4. part \in Seq(T) /\ Len(part) = n - k + 1 /\ \A i \in 1..(n - k + 1) : part[i] = s[k + i - 1]
  <2>1. n - k + 1 \in Nat /\ 1 - 1 <= n - k + 1 /\ n - k + 1 <= Len(from)
    BY <1>1, <1>3
  <2>2. /\ part \in Seq(T) /\ Len(part) = (n - k + 1) - 1 + 1
        /\ \A i \in 1..((n - k + 1) - 1 + 1) : part[i] = from[1 + i - 1]
    BY <1>3, <2>1, PartOf
  <2>. HIDE DEF part
  <2>. QED
    BY <1>1, <1>3, <2>2
<1>. HIDE DEF part
<1>5. /\ new \in Seq(T) /\ Len(new) = n + m
      /\ \A i \in 1..(n + m) : new[i] = IF i <= n THEN s[i] ELSE p[i - n]
  <2>1. /\ new \in Seq(T) /\ Len(new) = n + m
        /\ \A i \in 1..(n + m) : new[i] = IF i <= n THEN dir[i] ELSE p[i - n]
    <3>1. /\ new \in Seq(T) /\ Len(new) = Len(dir) + Len(p)
          /\ \A i \in 1..(Len(dir) + Len(p)) : new[i] = IF i <= Len(dir) THEN dir[i] ELSE p[i - Len(dir)]
      BY <1>2, ConcatProperties, Zenon
    <3>. QED
      BY <1>2, <3>1, Zenon
  <2>. HIDE DEF new, m
  <2>. QED
    BY <1>1, <1>2, <2>1
<1>6. /\ part \o p \in Seq(T) /\ Len(part \o p) = n - k + 1 + m
      /\ \A i \in 1..(n - k + 1 + m) : (part \o p)[i] = IF i <= n - k + 1 THEN s[k + i - 1] ELSE p[i - (n - k + 1)]
  <2>1. n - k + 1 \in Nat
    BY <1>1
  <2>2. /\ part \o p \in Seq(T) /\ Len(part \o p) = n - k + 1 + m
        /\ \A i \in 1..(n - k + 1 + m) : (part \o p)[i] = IF i <= n - k + 1 THEN part[i] ELSE p[i - (n - k + 1)]
    <3>1. /\ part \o p \in Seq(T) /\ Len(part \o p) = Len(part) + Len(p)
          /\ \A i \in 1..(Len(part) + Len(p)) :
                (part \o p)[i] = IF i <= Len(part) THEN part[i] ELSE p[i - Len(part)]
      BY <1>4, ConcatProperties, Zenon
    <3>. QED
      BY <1>4, <3>1, Zenon
  <2>. HIDE DEF m
  <2>. QED
    BY <1>1, <1>4, <2>1, <2>2
<1>. HIDE DEF new, m
<1>7. PICK l \in Nat : l = n + m
  BY <1>1
<1>. DEFINE last == SubSeq(new, k, l)
<1>9. /\ last \in Seq(T) /\ Len(last) = l - k + 1
      /\ \A i \in 1..(l - k + 1) : last[i] = new[k + i - 1]
  <2>1. k - 1 <= l /\ l <= Len(new) /\ new \in Seq(T)
    BY <1>1, <1>5, <1>7
  <2>. QED
    BY <2>1, PartOf
<1>. HIDE DEF last
<1>8. last = part \o p
  <2>1. Len(last) = Len(part \o p)
    BY <1>1, <1>6, <1>7, <1>9
  <2>2. ASSUME NEW i \in 1..Len(last) PROVE last[i] = (part \o p)[i]
    <3>1. i \in 1..(l - k + 1) /\ i \in 1..(n - k + 1 + m)
      BY <1>1, <1>7, <1>9
    <3>2. PICK j \in 1..(n + m) : j = k + i - 1
      BY <1>1, <1>7, <3>1
    <3>3. (j <= n <=> i <= n - k + 1) /\ j - n = i - (n - k + 1)
      BY <1>1, <3>1, <3>2
    <3>4. last[i] = new[j]
      BY <1>9, <3>1, <3>2, Zenon
    <3>5. new[j] = IF j <= n THEN s[j] ELSE p[j - n]
      BY <1>5, Zenon
    <3>6. (part \o p)[i] = IF i <= n - k + 1 THEN s[k + i - 1] ELSE p[i - (n - k + 1)]
      BY <1>6, <3>1, Zenon
    <3>7. (part \o p)[i] = IF j <= n THEN s[j] ELSE p[j - n]
      BY <3>2, <3>3, <3>6, Zenon
    <3>. QED
      BY <3>4, <3>5, <3>7, Zenon
  <2>. QED
    BY <1>6, <1>9, <2>1, <2>2, SeqEqual
<1>. QED
  BY <1>5, <1>7, <1>8, Zenon DEF last, part, from, new, dir, m

\* The first segment of a link's path is not empty, unless it is the only one.
Fronted(path) == path # <<>> /\ (Len(path) > 1 => path[1] # "")

LEMMA FrontedIsStripped ==
    ASSUME NEW T, NEW path \in Seq(T), Fronted(path)
    PROVE  Stripped(path) = path
<1>1. Len(path) \in Nat \ {0}
  BY EmptySeq DEF Fronted
<1>2. Starts(path, 1)
  <2>1. \A n \in Nat \ {0} : 1 \in 1..n /\ (n > 1 \/ 1 = n)
    OBVIOUS
  <2>2. \A j \in 1..(1 - 1) : FALSE
    OBVIOUS
  <2>. QED
    BY <1>1, <2>1, <2>2, Zenon DEF Starts, Fronted
<1>. QED
  BY <1>2, StrippedFrom, SubSeqFull

\* Empty segments in front of a page's path do not change where its relative links lead.
LEMMA StrippedRelative ==
    ASSUME NEW T, NEW rest \in Seq(T), rest # <<>>, NEW path \in Seq(T), Fronted(path),
           NEW up \in Nat, up < Len(Stripped(rest))
    PROVE  /\ up <= Len(rest) - 1
           /\ LET base == Stripped(rest) IN
              Stripped(SubSeq(rest, 1, Len(rest) - 1 - up) \o path) = SubSeq(base, 1, Len(base) - 1 - up) \o path
<1>. DEFINE l == Len(rest)
            m == Len(path)
            n == l - 1 - up
            new == SubSeq(rest, 1, n) \o path
<1>1. l \in Nat \ {0} /\ m \in Nat \ {0}
  BY EmptySeq DEF Fronted
<1>2. PICK k : Starts(rest, k)
  BY StartExists
<1>3. k \in 1..l
  BY <1>2 DEF Starts
<1>4. Stripped(rest) = SubSeq(rest, k, l)
  BY <1>2, StrippedFrom
<1>5. Len(SubSeq(rest, k, l)) = l - k + 1 /\ Len(Stripped(rest)) = l - k + 1
  <2>1. k \in Nat \ {0} /\ l \in Nat /\ k - 1 <= l /\ l <= Len(rest)
    BY <1>1, <1>3
  <2>2. Len(SubSeq(rest, k, l)) = l - k + 1
    BY <2>1, PartOf
  <2>. QED
    BY <1>4, <2>2, Zenon
<1>. HIDE DEF l, m
<1>6. n \in Nat /\ k \in Nat \ {0} /\ k - 1 <= n /\ n < l /\ l - k + 1 - 1 - up = n - k + 1
  <2>1. up < l - k + 1
    BY <1>5, Zenon
  <2>. QED
    BY <1>1, <1>3, <2>1
<1>7. /\ new \in Seq(T) /\ Len(new) = n + m
      /\ \A i \in 1..(n + m) : new[i] = IF i <= n THEN rest[i] ELSE path[i - n]
      /\ SubSeq(new, k, Len(new)) = SubSeq(SubSeq(rest, k, l), 1, n - k + 1) \o path
  <2>1. n <= Len(rest)
    BY <1>1, <1>6 DEF l
  <2>. HIDE DEF n
  <2>2. n \in Nat /\ k \in Nat \ {0} /\ k - 1 <= n
    BY <1>6
  <2>. HIDE DEF new
  <2>3. new \in Seq(T) /\ Len(new) = n + m
    BY <2>1, <2>2, CutAndContinued DEF new, m
  <2>4. \A i \in 1..(n + m) : new[i] = IF i <= n THEN rest[i] ELSE path[i - n]
    BY <2>1, <2>2, CutAndContinued DEF new, m
  <2>5. SubSeq(new, k, Len(new)) = SubSeq(SubSeq(rest, k, l), 1, n - k + 1) \o path
    BY <2>1, <2>2, CutAndContinued DEF new, l
  <2>. QED
    BY <2>3, <2>4, <2>5
<1>8. Starts(new, k)
  <2>. HIDE DEF new, n
  <2>1. k \in 1..(n + m) /\ 1..(k - 1) \subseteq 1..(n + m) /\ \A j \in 1..(k - 1) : j <= n
    BY <1>1, <1>6
  <2>2. \A j \in 1..(k - 1) : new[j] = ""
    <3>1. \A j \in 1..(k - 1) : rest[j] = ""
      BY <1>2 DEF Starts
    <3>. QED
      BY <1>7, <2>1, <3>1, Zenon
  <2>3. new[k] # "" \/ k = n + m
    <3>1. CASE k <= n
      <4>1. new[k] = rest[k]
        BY <1>7, <2>1, <3>1, Zenon
      <4>2. k # l
        BY <1>1, <1>6, <3>1
      <4>3. rest[k] # ""
        BY <1>2, <4>2, Zenon DEF Starts, l
      <4>. QED
        BY <4>1, <4>3
    <3>2. CASE ~(k <= n)
      <4>1. k - n = 1 /\ (m > 1 \/ k = n + m)
        BY <1>1, <1>6, <3>2
      <4>2. new[k] = path[1]
        BY <1>7, <2>1, <3>2, <4>1, Zenon
      <4>. QED
        BY <4>1, <4>2, Zenon DEF Fronted, m
    <3>. QED
      BY <3>1, <3>2
  <2>. QED
    BY <1>7, <2>1, <2>2, <2>3, Zenon DEF Starts
<1>9. Stripped(new) = SubSeq(new, k, Len(new))
  BY <1>7, <1>8, StrippedFrom
<1>10. up <= l - 1
  BY <1>1, <1>6
<1>11. Len(Stripped(rest)) - 1 - up = n - k + 1
  BY <1>1, <1>3, <1>5, <1>6
<1>12. Stripped(new) = SubSeq(Stripped(rest), 1, Len(Stripped(rest)) - 1 - up) \o path
  BY <1>4, <1>7, <1>9, <1>11, Zenon
<1>. QED
  BY <1>10, <1>12, Zenon DEF n, new, l

\* What the edge adds in front of a path is what the proxy takes off again.
LEMMA ProxiedPath ==
    ASSUME NEW Segments, NEW a \in Assistants, NEW path \in Urls(Segments), Fronted(path)
    PROVE  /\ StartsWith(Prefix(a) \o path, Prefix(a))
           /\ Proxied(Prefix(a) \o path) = path
<1>. DEFINE T == Segments \cup Assistants \cup {"surfaces"}
            url == Prefix(a) \o path
<1>1. /\ Prefix(a) \in Seq(T) /\ Len(Prefix(a)) = 2
      /\ Prefix(a)[1] = "surfaces" /\ Prefix(a)[2] = a
  BY PrefixIsUrl DEF Urls
<1>2. path \in Seq(T) /\ Len(path) \in Nat \ {0}
  BY EmptySeq DEF Urls, Fronted
<1>3. Urls(Segments) = Seq(T)
  BY DEF Urls
<1>. HIDE DEF T
<1>4. /\ url \in Seq(T) /\ Len(url) = 2 + Len(path)
      /\ \A i \in 1..(2 + Len(path)) : url[i] = IF i <= 2 THEN Prefix(a)[i] ELSE path[i - 2]
  <2>1. /\ url \in Seq(T) /\ Len(url) = Len(Prefix(a)) + Len(path)
        /\ \A i \in 1..(Len(Prefix(a)) + Len(path)) :
              url[i] = IF i <= Len(Prefix(a)) THEN Prefix(a)[i] ELSE path[i - Len(Prefix(a))]
    BY <1>1, <1>2, ConcatProperties, Zenon
  <2>. HIDE DEF url
  <2>. QED
    BY <1>1, <2>1
<1>. HIDE DEF url
<1>5. StartsWith(url, Prefix(a))
  BY <1>1, <1>2, <1>3, <1>4, StartsWithPrefix
<1>6. Rest(url) = path
  <2>1. \A i \in 3..Len(url) : url[i] \in T
    BY <1>2, <1>4
  <2>2. /\ SubSeq(url, 3, Len(url)) \in Seq(T)
        /\ Len(SubSeq(url, 3, Len(url))) = Len(path)
        /\ \A i \in 1..Len(path) : SubSeq(url, 3, Len(url))[i] = url[i + 2]
    BY <1>2, <1>4, <2>1, SubSeqProperties
  <2>3. \A i \in 1..Len(path) : url[i + 2] = path[i]
    BY <1>2, <1>4
  <2>. QED
    BY <1>2, <2>2, <2>3, SeqEqual DEF Rest
<1>7. Proxied(url) = path
  <2>1. Len(url) # 2
    BY <1>2, <1>4
  <2>2. Stripped(path) = path
    BY <1>2, FrontedIsStripped
  <2>. QED
    BY <1>6, <2>1, <2>2, Zenon DEF Proxied
<1>. QED
  BY <1>5, <1>7 DEF url

\* A relative link of a page below the prefix stays below it, and means the same behind the
\* proxy, as long as it does not climb above the root of the server.
LEMMA RelativePath ==
    ASSUME NEW Segments, NEW a \in Assistants, NEW url \in Urls(Segments), NEW path \in Urls(Segments),
           Fronted(path), StartsWith(url, Prefix(a)), Len(url) >= 3,
           NEW up \in Nat, up < Len(Proxied(url))
    PROVE  LET next == SubSeq(url, 1, Len(url) - 1 - up) \o path
               base == Proxied(url) IN
           /\ StartsWith(next, Prefix(a))
           /\ Proxied(next) = SubSeq(base, 1, Len(base) - 1 - up) \o path
<1>. DEFINE T == Segments \cup Assistants \cup {"surfaces"}
            rest == Rest(url)
            n == Len(url) - 1 - up
            next == SubSeq(url, 1, n) \o path
<1>1. /\ url \in Seq(T) /\ Len(url) \in Nat /\ url[1] = "surfaces" /\ url[2] = a
      /\ path \in Seq(T) /\ Len(path) \in Nat \ {0}
  <2>1. Len(url) >= 2 /\ url[1] = "surfaces" /\ url[2] = a
    BY StartsWithPrefix
  <2>2. url \in Seq(T) /\ path \in Seq(T) /\ path # <<>>
    BY DEF Urls, Fronted
  <2>. HIDE DEF T
  <2>. QED
    BY <2>1, <2>2, EmptySeq
<1>2. Urls(Segments) = Seq(T)
  BY DEF Urls
<1>. HIDE DEF T
<1>3. rest \in Seq(T) /\ Len(rest) = Len(url) - 2
  <2>1. SubSeq(url, 3, Len(url)) \in Seq(T) /\ Len(SubSeq(url, 3, Len(url))) = Len(url) - 3 + 1
    BY <1>1, PartOf
  <2>. QED
    BY <1>1, <2>1 DEF Rest
<1>4. rest # <<>>
  BY <1>1, <1>3, EmptySeq
<1>5. Proxied(url) = Stripped(rest)
  <2>1. \A m \in Nat : m >= 3 => m # 2
    OBVIOUS
  <2>2. Len(url) # 2
    BY <1>1, <2>1, Zenon
  <2>. QED
    BY <2>2, Zenon DEF Proxied
<1>. HIDE DEF rest
<1>6. /\ up <= Len(rest) - 1
      /\ LET base == Stripped(rest) IN
         Stripped(SubSeq(rest, 1, Len(rest) - 1 - up) \o path) = SubSeq(base, 1, Len(base) - 1 - up) \o path
  <2>1. up < Len(Stripped(rest))
    BY <1>5, Zenon
  <2>. QED
    BY <1>1, <1>3, <1>4, <2>1, StrippedRelative
<1>7. n \in Nat /\ 2 <= n /\ n <= Len(url) /\ n - 3 + 1 = Len(rest) - 1 - up
  BY <1>1, <1>3, <1>6
<1>. HIDE DEF n
<1>8. /\ next \in Seq(T) /\ Len(next) = n + Len(path)
      /\ \A i \in 1..(n + Len(path)) : next[i] = IF i <= n THEN url[i] ELSE path[i - n]
      /\ SubSeq(next, 3, Len(next)) = SubSeq(SubSeq(url, 3, Len(url)), 1, n - 3 + 1) \o path
  <2>1. 3 - 1 <= n /\ 3 \in Nat \ {0}
    BY <1>7
  <2>. HIDE DEF next
  <2>2. next \in Seq(T) /\ Len(next) = n + Len(path)
    BY <1>1, <1>7, <2>1, CutAndContinued DEF next
  <2>3. \A i \in 1..(n + Len(path)) : next[i] = IF i <= n THEN url[i] ELSE path[i - n]
    BY <1>1, <1>7, <2>1, CutAndContinued DEF next
  <2>4. SubSeq(next, 3, Len(next)) = SubSeq(SubSeq(url, 3, Len(url)), 1, n - 3 + 1) \o path
    BY <1>1, <1>7, <2>1, CutAndContinued DEF next
  <2>. QED
    BY <2>2, <2>3, <2>4
<1>. HIDE DEF next
<1>9. Len(next) >= 3 /\ next[1] = "surfaces" /\ next[2] = a
  <2>1. n + Len(path) >= 3 /\ 1 \in 1..(n + Len(path)) /\ 2 \in 1..(n + Len(path)) /\ 1 <= n
    BY <1>1, <1>7
  <2>2. next[1] = url[1] /\ next[2] = url[2]
    BY <1>7, <1>8, <2>1, Zenon
  <2>. QED
    BY <1>1, <1>8, <2>1, <2>2, Zenon
<1>10. StartsWith(next, Prefix(a))
  BY <1>1, <1>2, <1>7, <1>8, <1>9, StartsWithPrefix
<1>11. Proxied(next) = Stripped(Rest(next))
  <2>1. Len(next) # 2
    BY <1>1, <1>7, <1>8
  <2>. QED
    BY <2>1, Zenon DEF Proxied
<1>12. Rest(next) = SubSeq(rest, 1, Len(rest) - 1 - up) \o path
  BY <1>7, <1>8, Zenon DEF Rest, rest
<1>. QED
  BY <1>5, <1>6, <1>10, <1>11, <1>12, Zenon DEF next, n

\* A link of a page is relative, or is rewritten, or is left alone as one that strays.
LEMMA LinkPaths ==
    ASSUME NEW Segments, Paths \subseteq Seq(Segments), NEW a \in Assistants, NEW url, NEW link \in Links(a)
    PROVE  /\ link.path \in Urls(Segments) /\ link.path # <<>> /\ link.up \in Nat
           /\ \/ link.kind = "relative" /\ Fronted(link.path) /\ Rewritten(a, link) = link
              \/ link.kind # "relative" /\ Strays(a, url, link) /\ Rewritten(a, link) = link
              \/ /\ link.kind = "root" /\ Fronted(link.path)
                 /\ Rewritten(a, link).kind = "root" /\ Rewritten(a, link).path = Prefix(a) \o link.path
<1>. DEFINE T == Segments \cup Assistants \cup {"surfaces"}
<1>1. Seq(Segments) \subseteq Urls(Segments)
  BY SeqMonotonic DEF Urls
<1>2. ASSUME NEW p \in Paths
      PROVE  Prefix(a) \o p \in Urls(Segments) /\ Prefix(a) \o p # <<>>
  <2>1. Prefix(a) \in Seq(T) /\ Len(Prefix(a)) = 2
    BY PrefixIsUrl DEF Urls
  <2>2. p \in Seq(T)
    BY <1>1, <1>2 DEF Urls
  <2>. HIDE DEF T
  <2>3. Prefix(a) \o p \in Seq(T)
    BY <2>1, <2>2, ConcatProperties
  <2>5. Prefix(a) \o p = <<>> => Prefix(a) = <<>>
    BY <2>1, <2>2, ConcatEqualIffEmpty
  <2>4. Prefix(a) # <<>>
    BY DEF Prefix
  <2>. QED
    BY <2>3, <2>4, <2>5, Zenon DEF T, Urls
<1>. DEFINE Home == {p \in Paths \ {<<>>} : Len(p) > 1 => p[1] # ""}
            Any == (Paths \ {<<>>}) \cup {Prefix(a) \o p : p \in Paths}
<1>3. \A p \in Any : p \in Urls(Segments) /\ p # <<>>
  BY <1>1, <1>2, Zenon
<1>4. \A p \in Home : p \in Urls(Segments) /\ p # <<>> /\ Fronted(p)
  BY <1>1, Zenon DEF Fronted
<1>5. 0..MaxUp \subseteq Nat
  BY UpAssumption
<1>. HIDE DEF Home
<1>6. link \in [kind: {"relative"}, path: Home, up: 0..MaxUp, method: Methods]
        \cup [kind: {"root", "unseen", "absolute"}, path: Any, up: {0}, method: Methods]
  BY Zenon DEF Links, Home
<1>. HIDE DEF Any
<1>7. \/ link.kind = "relative" /\ link.path \in Home /\ link.up \in 0..MaxUp
      \/ link.kind \in {"root", "unseen", "absolute"} /\ link.path \in Any /\ link.up = 0
  BY <1>6
<1>8. link.path \in Urls(Segments) /\ link.path # <<>> /\ link.up \in Nat
  BY <1>3, <1>4, <1>5, <1>7
<1>9. CASE link.kind = "root" /\ ~NamesHost(link) /\ ~StartsWith(link.path, Prefix(a))
  <2>. DEFINE path == Prefix(a) \o link.path
  <2>1. Rewritten(a, link) = [link EXCEPT !.path = path]
    BY <1>9 DEF Rewritten
  <2>2. {"kind", "path"} \subseteq DOMAIN link
    BY <1>6
  <2>3. Fronted(link.path)
    BY <1>8, <1>9, Zenon, "root" # "relative" DEF Fronted, NamesHost
  <2>. HIDE DEF path
  <2>4. Rewritten(a, link).kind = "root" /\ Rewritten(a, link).path = path
    BY <1>9, <2>1, <2>2
  <2>. QED
    BY <1>8, <1>9, <2>3, <2>4 DEF path
<1>10. CASE ~(link.kind = "root" /\ ~NamesHost(link) /\ ~StartsWith(link.path, Prefix(a)))
  <2>1. Rewritten(a, link) = link
    BY <1>10, Zenon DEF Rewritten
  <2>2. CASE link.kind = "relative" /\ link.path \in Home
    BY <1>4, <1>8, <2>1, <2>2
  <2>3. CASE link.kind \in {"root", "unseen", "absolute"}
    <3>1. Strays(a, url, link)
      BY <1>10, <2>3 DEF Strays
    <3>2. link.kind # "relative"
      BY <2>3
    <3>. QED
      BY <1>8, <2>1, <3>1, <3>2
  <2>. QED
    BY <1>7, <2>2, <2>3
<1>. QED
  BY <1>9, <1>10

LEMMA LinkedPages ==
    ASSUME NEW Segments, Paths \subseteq Seq(Segments), NEW url \in Urls(Segments), Len(url) >= 2,
           url[1] = "surfaces", url[2] \in Assistants, NEW link \in Links(url[2])
    PROVE  LET a == url[2]
               next == Resolved(url, Rewritten(a, link)) IN
           /\ next \in Urls(Segments)
           /\ \/ Strays(a, url, link)
              \/ /\ StartsWith(next, Prefix(a))
                 /\ Proxied(next) = Resolved(Proxied(url), link)
<1>. DEFINE T == Segments \cup Assistants \cup {"surfaces"}
<1>1. PICK a \in Assistants : a = url[2]
  OBVIOUS
<1>2. /\ link.path \in Urls(Segments) /\ link.path # <<>> /\ link.up \in Nat
      /\ \/ link.kind = "relative" /\ Fronted(link.path) /\ Rewritten(a, link) = link
         \/ link.kind # "relative" /\ Strays(a, url, link) /\ Rewritten(a, link) = link
         \/ /\ link.kind = "root" /\ Fronted(link.path)
            /\ Rewritten(a, link).kind = "root" /\ Rewritten(a, link).path = Prefix(a) \o link.path
  BY <1>1, LinkPaths
<1>3. StartsWith(url, Prefix(a))
  BY <1>1, StartsWithPrefix
<1>4. Urls(Segments) = Seq(T) /\ Prefix(a) \in Seq(T) /\ Len(Prefix(a)) = 2
  BY PrefixIsUrl DEF Urls
<1>5. Len(url) \in Nat /\ \A i \in 1..Len(url) : url[i] \in T
  <2>1. url \in Seq(T)
    BY <1>4
  <2>. HIDE DEF T
  <2>. QED
    BY <2>1
<1>. HIDE DEF T
<1>6. CASE link.kind = "relative" /\ Fronted(link.path) /\ Rewritten(a, link) = link
  <2>. DEFINE n == Len(url) - 1 - link.up
              next == SubSeq(url, 1, n) \o link.path
  <2>1. Resolved(url, link) = next
    BY <1>6 DEF Resolved
  <2>2. SubSeq(url, 1, n) \in Seq(T)
    <3>1. n \in Int /\ n <= Len(url)
      BY <1>2, <1>5
    <3>2. \A i \in 1..n : i \in 1..Len(url)
      BY <1>5, <3>1
    <3>3. \A i \in 1..n : url[i] \in T
      BY <1>5, <3>2, Zenon
    <3>. HIDE DEF n
    <3>. QED
      BY <3>1, <3>3, SubSeqProperties
  <2>3. next \in Urls(Segments)
    BY <1>2, <1>4, <2>2, ConcatProperties
  <2>. HIDE DEF next
  <2>4. CASE Strays(a, url, link)
    BY <1>1, <1>6, <2>1, <2>3, <2>4
  <2>5. CASE ~Strays(a, url, link)
    <3>1. url # Prefix(a) /\ ~(link.up >= Len(Proxied(url)))
      BY <1>6, <2>5, Zenon DEF Strays
    <3>2. Len(url) # 2
      BY <1>3, <1>4, <3>1, SubSeqFull DEF StartsWith
    <3>3. Len(url) >= 3
      <4>1. \A m \in Nat : m >= 2 /\ m # 2 => m >= 3
        OBVIOUS
      <4>. QED
        BY <1>5, <3>2, <4>1, Zenon
    <3>4. Len(Proxied(url)) \in Nat
      <4>1. Rest(url) \in Seq(T) /\ Rest(url) # <<>>
        <5>1. SubSeq(url, 3, Len(url)) \in Seq(T) /\ Len(SubSeq(url, 3, Len(url))) = Len(url) - 3 + 1
          BY <1>4, <1>5, <3>3, PartOf
        <5>2. \A m \in Nat : m >= 3 => m - 3 + 1 # 0
          OBVIOUS
        <5>3. Len(SubSeq(url, 3, Len(url))) # 0
          BY <1>5, <3>3, <5>1, <5>2, Zenon
        <5>4. SubSeq(url, 3, Len(url)) # <<>>
          BY <5>3, EmptySeq
        <5>. QED
          BY <5>1, <5>4, Zenon DEF Rest
      <4>2. PICK k : Starts(Rest(url), k)
        BY <4>1, StartExists
      <4>3. Proxied(url) = SubSeq(Rest(url), k, Len(Rest(url)))
        BY <3>2, <4>1, <4>2, StrippedFrom, Zenon DEF Proxied
      <4>4. /\ k \in Nat \ {0} /\ Len(Rest(url)) \in Nat /\ k - 1 <= Len(Rest(url))
            /\ Len(Rest(url)) <= Len(Rest(url))
        <5>1. \A m, i \in Nat : i \in 1..m => i \in Nat \ {0} /\ i - 1 <= m /\ m <= m
          OBVIOUS
        <5>2. Len(Rest(url)) \in Nat
          BY <4>1
        <5>3. k \in 1..Len(Rest(url))
          BY <4>2 DEF Starts
        <5>4. k \in Nat
          BY <5>2, <5>3
        <5>. QED
          BY <5>1, <5>2, <5>3, <5>4, Zenon
      <4>5. Proxied(url) \in Seq(T)
        BY <4>1, <4>3, <4>4, PartOf
      <4>. QED
        BY <4>5
    <3>5. link.up < Len(Proxied(url))
      BY <1>2, <3>1, <3>4
    <3>6. /\ StartsWith(next, Prefix(a))
          /\ Proxied(next) = SubSeq(Proxied(url), 1, Len(Proxied(url)) - 1 - link.up) \o link.path
      BY <1>2, <1>3, <1>6, <3>3, <3>5, RelativePath DEF next
    <3>7. Proxied(next) = Resolved(Proxied(url), link)
      BY <1>6, <3>6, Zenon DEF Resolved
    <3>. QED
      BY <1>1, <1>6, <2>1, <2>3, <3>6, <3>7
  <2>. QED
    BY <2>4, <2>5
<1>7. CASE link.kind # "relative" /\ Strays(a, url, link) /\ Rewritten(a, link) = link
  <2>1. Resolved(url, link) = link.path
    BY <1>7 DEF Resolved
  <2>. QED
    BY <1>1, <1>2, <1>7, <2>1
<1>8. CASE /\ link.kind = "root" /\ Fronted(link.path)
           /\ Rewritten(a, link).kind = "root" /\ Rewritten(a, link).path = Prefix(a) \o link.path
  <2>1. /\ Resolved(url, Rewritten(a, link)) = Prefix(a) \o link.path
        /\ Resolved(Proxied(url), link) = link.path
    BY <1>8 DEF Resolved
  <2>2. Prefix(a) \o link.path \in Urls(Segments)
    BY <1>2, <1>4, ConcatProperties
  <2>3. /\ StartsWith(Prefix(a) \o link.path, Prefix(a))
        /\ Proxied(Prefix(a) \o link.path) = link.path
    BY <1>2, <1>8, ProxiedPath
  <2>. QED
    BY <1>1, <2>1, <2>2, <2>3
<1>. QED
  BY <1>2, <1>6, <1>7, <1>8

\* A request that has come passes the middleware only for a surface.
LEMMA ArrivedOnSurface ==
    ASSUME NEW Segments, NEW method, NEW url \in Urls(Segments), NEW credentials, NEW followed
    PROVE  LET q == Arrived(method, url, credentials, followed) IN
           Fields(q) /\ "status" \in DOMAIN q /\ OnSurface(Segments, q)
<1>. DEFINE status == Received(url, credentials)
            pc == IF status = "none" THEN "settings" ELSE "answered"
            q == [NoRequest EXCEPT !.pc = pc, !.status = status, !.method = method, !.url = url,
                                   !.credentials = credentials, !.refused = retired, !.followed = followed]
<1>1. Arrived(method, url, credentials, followed) = q
  BY DEF Arrived
<1>2. status \in {"not found", "none", "unauthorized"}
  BY DEF Received
<1>3. status = "none" => Len(url) >= 2 /\ url[1] = "surfaces"
  <2>1. SUFFICES ASSUME status = "none" PROVE Len(url) >= 2 /\ url[1] = "surfaces"
    OBVIOUS
  <2>2. StartsWith(url, <<"surfaces">>) /\ ~(Len(url) < 2) /\ Len(url) \in Nat
    BY <2>1 DEF Received, Urls
  <2>3. SubSeq(url, 1, 1) = <<"surfaces">> /\ Len(url) >= 2
    BY <2>2 DEF StartsWith
  <2>4. SubSeq(url, 1, 1)[1] = url[1]
    <3>1. \A i \in 1..1 : url[i] \in {url[1]}
      OBVIOUS
    <3>2. \A i \in 1..(1 - 1 + 1) : SubSeq(url, 1, 1)[i] = url[1 + i - 1]
      BY <3>1, SubSeqProperties
    <3>3. SubSeq(url, 1, 1)[1] = url[1 + 1 - 1]
      BY <3>2
    <3>. QED
      BY <3>3
  <2>. QED
    BY <2>3, <2>4, <<"surfaces">>[1] = "surfaces", Zenon
<1>4. (pc = "settings" /\ status = "none") \/ (pc = "answered" /\ status # "ok")
  BY <1>2
<1>. HIDE DEF status, pc
<1>5. Fields(q) /\ "status" \in DOMAIN q /\ q.pc = pc /\ q.status = status /\ q.url = url
  BY DEF Fields, NoRequest
<1>. HIDE DEF q
<1>. QED
  BY <1>1, <1>2, <1>3, <1>4, <1>5 DEF OnSurface

LEMMA ServedOnSurface ==
    ASSUME NEW Segments, Paths \subseteq Seq(Segments), LInv(Segments), NEW r \in Requests, Serve(r)
    PROVE  \E q : /\ request' = [request EXCEPT ![r] = q] /\ Fields(q) /\ "status" \in DOMAIN q
                  /\ OnSurface(Segments, q)
<1>. DEFINE p == request[r]
            Served == \E q : /\ request' = [request EXCEPT ![r] = q] /\ Fields(q) /\ "status" \in DOMAIN q
                             /\ OnSurface(Segments, q)
<1>1. Fields(p) /\ "status" \in DOMAIN p /\ OnSurface(Segments, p)
  BY DEF LInv
<1>2. p = request[r]
  OBVIOUS
<1>. HIDE DEF p
<1>3. ASSUME NEW status, Answer(r, status), status # "ok" \/ p.pc = "forward" PROVE Served
  <2>. DEFINE q == [p EXCEPT !.pc = "answered", !.status = status]
  <2>1. request' = [request EXCEPT ![r] = q]
    BY <1>2, <1>3 DEF Answer
  <2>2. Fields(q) /\ "status" \in DOMAIN q /\ q.pc = "answered" /\ q.status = status /\ q.url = p.url
    BY <1>1 DEF Fields
  <2>. HIDE DEF q
  <2>3. OnSurface(Segments, q)
    BY <1>1, <1>3, <2>2 DEF OnSurface
  <2>. QED
    BY <2>1, <2>2, <2>3
<1>4. ASSUME NEW q, request' = [request EXCEPT ![r] = q], Fields(q), "status" \in DOMAIN q,
             q.status = p.status, q.url = p.url,
             p.pc \in {"settings", "verify", "resolve"}, p.url[2] \in Assistants
      PROVE  Served
  <2>1. OnSurface(Segments, q)
    BY <1>1, <1>4 DEF OnSurface
  <2>. QED
    BY <1>4, <2>1
<1>5. ASSUME NEW method, NEW url \in Urls(Segments), NEW credentials, NEW followed,
             Arrive(r, method, url, credentials, followed)
      PROVE  Served
  <2>1. request' = [request EXCEPT ![r] = Arrived(method, url, credentials, followed)]
    BY <1>5 DEF Arrive, Arrived
  <2>. QED
    BY <2>1, ArrivedOnSurface
<1>6. ASSUME Ask(r) PROVE Served
  <2>1. PICK a \in Assistants, path \in Paths : \E method, c : Arrive(r, method, Prefix(a) \o path, c, FALSE)
    BY <1>6 DEF Ask
  <2>2. Prefix(a) \o path \in Urls(Segments)
    <3>. DEFINE T == Segments \cup Assistants \cup {"surfaces"}
    <3>1. Prefix(a) \in Seq(T) /\ path \in Seq(T) /\ Urls(Segments) = Seq(T)
      BY PrefixIsUrl, SeqMonotonic DEF Urls
    <3>. HIDE DEF T
    <3>. QED
      BY <3>1, ConcatProperties
  <2>. QED
    BY <1>5, <2>1, <2>2
<1>7. ASSUME LoadSettings(r) PROVE Served
  <2>1. /\ p.pc = "settings"
        /\ \/ Answer(r, "not found")
           \/ p.url[2] \in Assistants /\ \E pc \in {"act", "check", "verify"} : Step(r, pc)
           \/ /\ p.url[2] \in Assistants
              /\ request' = [request EXCEPT ![r].pc = "resolve", ![r].mode = "owner_basic"]
    BY <1>2, <1>7 DEF LoadSettings
  <2>2. ASSUME NEW pc, Step(r, pc), p.url[2] \in Assistants PROVE Served
    <3>. DEFINE q == [p EXCEPT !.pc = pc]
    <3>1. request' = [request EXCEPT ![r] = q]
      BY <1>2, <2>2 DEF Step
    <3>2. Fields(q) /\ "status" \in DOMAIN q /\ q.status = p.status /\ q.url = p.url
      BY <1>1 DEF Fields
    <3>. HIDE DEF q
    <3>. QED
      BY <1>4, <2>1, <2>2, <3>1, <3>2
  <2>3. ASSUME request' = [request EXCEPT ![r].pc = "resolve", ![r].mode = "owner_basic"],
               p.url[2] \in Assistants
        PROVE  Served
    <3>. DEFINE q == [p EXCEPT !.pc = "resolve", !.mode = "owner_basic"]
    <3>1. request' = [request EXCEPT ![r] = q]
      BY <1>2, <2>3
    <3>2. Fields(q) /\ "status" \in DOMAIN q /\ q.status = p.status /\ q.url = p.url
      BY <1>1 DEF Fields
    <3>. HIDE DEF q
    <3>. QED
      BY <1>4, <2>1, <2>3, <3>1, <3>2
  <2>4. "not found" # "ok"
    OBVIOUS
  <2>. QED
    BY <1>3, <2>1, <2>2, <2>3, <2>4
<1>8. ASSUME Act(r) \/ Check(r) PROVE Served
  <2>1. \E status : status # "ok" /\ Answer(r, status)
    BY <1>8 DEF Act, Check
  <2>. QED
    BY <1>3, <2>1
<1>9. ASSUME Verify(r) PROVE Served
  <2>1. /\ p.pc = "verify"
        /\ \/ Answer(r, "unauthorized")
           \/ request' = [request EXCEPT ![r].pc = "resolve", ![r].mode = "api_token"]
    BY <1>2, <1>9 DEF Verify
  <2>2. p.url[2] \in Assistants
    BY <1>1, <2>1 DEF OnSurface
  <2>3. ASSUME request' = [request EXCEPT ![r].pc = "resolve", ![r].mode = "api_token"] PROVE Served
    <3>. DEFINE q == [p EXCEPT !.pc = "resolve", !.mode = "api_token"]
    <3>1. request' = [request EXCEPT ![r] = q]
      BY <1>2, <2>3
    <3>2. Fields(q) /\ "status" \in DOMAIN q /\ q.status = p.status /\ q.url = p.url
      BY <1>1 DEF Fields
    <3>. HIDE DEF q
    <3>. QED
      BY <1>4, <2>1, <2>2, <3>1, <3>2
  <2>4. "unauthorized" # "ok"
    OBVIOUS
  <2>. QED
    BY <1>3, <2>1, <2>3, <2>4
<1>10. ASSUME ResolveTarget(r) PROVE Served
  <2>. DEFINE target == Target(p.url[2])
              q == [p EXCEPT !.pc = "forward", !.target = target]
  <2>1. /\ p.pc = "resolve"
        /\ \/ Answer(r, "bad gateway")
           \/ request' = [request EXCEPT ![r] = q]
    BY <1>2, <1>10 DEF ResolveTarget
  <2>2. p.url[2] \in Assistants
    BY <1>1, <2>1 DEF OnSurface
  <2>. HIDE DEF target
  <2>3. Fields(q) /\ "status" \in DOMAIN q /\ q.status = p.status /\ q.url = p.url
    BY <1>1 DEF Fields
  <2>. HIDE DEF q
  <2>4. "bad gateway" # "ok"
    OBVIOUS
  <2>. QED
    BY <1>3, <1>4, <2>1, <2>2, <2>3, <2>4
<1>11. ASSUME Forward(r) PROVE Served
  <2>1. p.pc = "forward" /\ \E status : Answer(r, status)
    BY <1>2, <1>11 DEF Forward
  <2>. QED
    BY <1>3, <2>1
<1>12. ASSUME Follow(r) PROVE Served
  <2>1. /\ p.status = "ok"
        /\ \E link \in Links(p.url[2]) :
              Arrive(r, link.method, Resolved(p.url, Rewritten(p.url[2], link)), Basic, TRUE)
    BY <1>2, <1>12 DEF Follow
  <2>2. /\ p.url \in Urls(Segments) /\ Len(p.url) >= 2 /\ p.url[1] = "surfaces"
        /\ p.url[2] \in Assistants
    BY <1>1, <2>1 DEF OnSurface
  <2>3. \A link \in Links(p.url[2]) : Resolved(p.url, Rewritten(p.url[2], link)) \in Urls(Segments)
    BY <2>2, LinkedPages
  <2>. QED
    BY <1>5, <2>1, <2>3
<1>. QED
  BY <1>6, <1>7, <1>8, <1>9, <1>10, <1>11, <1>12 DEF Serve

\* A link or a redirect of an assistant's page leads through the edge to what its server meant
\* by it, or to a route of the edge, whatever the segments of the paths are and however many of
\* them are empty (_rewrite_surface_location, _rewrite_attr, proxy_surface); but for the links
\* that Strays names.
THEOREM LinksAreRewritten ==
    ASSUME NEW Segments, Paths \subseteq Seq(Segments)
    PROVE  Spec => []LinksLeadHome
<1>1. Init => LInv(Segments)
  BY DEF Init, LInv, OnSurface, Fields, NoRequest
<1>2. LInv(Segments) /\ [Next]_vars => LInv(Segments)'
  <2>. SUFFICES ASSUME LInv(Segments), [Next]_vars PROVE LInv(Segments)'
    OBVIOUS
  <2>1. ASSUME NEW x \in Operators, Operate(x) PROVE LInv(Segments)'
    BY <2>1 DEF Operate, Begin, CommitTokens, CommitSurface, LInv
  <2>2. ASSUME NEW a \in Assistants, Move(a) PROVE LInv(Segments)'
    <3>1. request' = [r \in Requests |-> request'[r]]
      BY <2>2 DEF Move
    <3>2. ASSUME NEW r \in Requests
          PROVE  /\ Fields(request'[r]) /\ "status" \in DOMAIN request'[r]
                 /\ OnSurface(Segments, request'[r])
      <4>1. request'[r] = [request[r] EXCEPT !.moved = TRUE] \/ request'[r] = request[r]
        BY <2>2 DEF Move
      <4>2. /\ Fields(request[r]) /\ "status" \in DOMAIN request[r]
            /\ OnSurface(Segments, request[r])
        BY DEF LInv
      <4>3. /\ Fields(request'[r]) /\ "status" \in DOMAIN request'[r]
            /\ request'[r].pc = request[r].pc /\ request'[r].url = request[r].url
            /\ request'[r].status = request[r].status
        BY <4>1, <4>2 DEF Fields
      <4>. QED
        BY <4>2, <4>3 DEF OnSurface
    <3>. QED
      BY <3>1, <3>2 DEF LInv
  <2>3. ASSUME NEW r \in Requests, Serve(r) PROVE LInv(Segments)'
    <3>1. PICK q : /\ request' = [request EXCEPT ![r] = q] /\ Fields(q) /\ "status" \in DOMAIN q
                   /\ OnSurface(Segments, q)
      BY <2>3, ServedOnSurface
    <3>2. request' = [s \in Requests |-> request'[s]]
      BY <3>1 DEF LInv
    <3>3. \A s \in Requests : request'[s] = q \/ request'[s] = request[s]
      BY <3>1 DEF LInv
    <3>. QED
      BY <3>1, <3>2, <3>3 DEF LInv
  <2>4. CASE UNCHANGED vars
    BY <2>4 DEF vars, LInv
  <2>. QED
    BY <2>1, <2>2, <2>3, <2>4 DEF Next
<1>3. LInv(Segments) => LinksLeadHome
  <2>. SUFFICES ASSUME LInv(Segments), NEW r \in Requests, request[r].status = "ok",
                       NEW link \in Links(request[r].url[2])
       PROVE  LET url == request[r].url
                  a == url[2] IN
              \/ Strays(a, url, link)
              \/ LET next == Resolved(url, Rewritten(a, link)) IN
                 /\ StartsWith(next, Prefix(a))
                 /\ Proxied(next) = Resolved(Proxied(url), link)
    BY DEF LinksLeadHome
  <2>1. PICK url : url = request[r].url
    OBVIOUS
  <2>2. /\ url \in Urls(Segments) /\ Len(url) >= 2 /\ url[1] = "surfaces" /\ url[2] \in Assistants
    BY <2>1 DEF LInv, OnSurface
  <2>. QED
    BY <2>1, <2>2, LinkedPages
<1>. QED
  BY <1>1, <1>2, <1>3, PTL DEF Spec
=============================================================================
