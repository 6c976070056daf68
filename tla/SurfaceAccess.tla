--------------------------- MODULE SurfaceAccess ---------------------------
(***************************************************************************)
(* The web surfaces of the assistants: the HTTP server in an assistant's   *)
(* container, which the platform's edge serves under                       *)
(* /surfaces/{assistant_id}/. A request passes the middleware (Basic Auth, *)
(* or a bearer token on an API path), the settings and tokens in the       *)
(* database and the resolver that asks Docker for the container's address, *)
(* and is then forwarded. Meanwhile operators create and revoke tokens and *)
(* switch surfaces on and off, and containers change their address.        *)
(*                                                                         *)
(* A URL path is the sequence of its segments, after the leading slash; an *)
(* empty segment stands between two slashes that follow each other. Pages  *)
(* have no <base> element.                                                 *)
(***************************************************************************)
EXTENDS Naturals, Sequences, FiniteSets

CONSTANTS
    Assistants,
    Operators,      \* calls of the admin API and of the command line
    Requests,       \* HTTP requests to surfaces
    Addresses,      \* published host ports, or addresses on the Docker network
    Nowhere,        \* the address of a container that is stopped or gone
    Paths,          \* what requests ask for after /surfaces/{assistant_id}
    MaxUp,          \* bound: directories that a relative link climbs ("../")
    MaxOperations,  \* bound: operations of the operators
    MaxMoves        \* bound: changes of a container's address

ASSUME UpAssumption == MaxUp \in Nat

VARIABLES
    tokens,      \* surface_tokens: a sequence of rows
    surface,     \* assistant_surfaces: "absent", "off" or "on"
    operation,   \* the transaction each operator has begun
    operations,  \* operations begun so far
    address,     \* where each assistant's container can be reached
    moves,       \* changes of an address so far
    request

\* History variables: the tokens that a finished operation has taken out of use, and the
\* surfaces that were disabled last by an operation that met no other one.
VARIABLES retired, closed

database == <<tokens, surface, operation, operations, retired, closed>>
containers == <<address, moves>>
vars == <<database, containers, request>>

Kinds == {"create", "revoke", "enable", "disable"}

\* POST stands for all methods but GET.
Methods == {"GET", "POST"}

\* Credentials: token is the row's position, 0 for a token nobody has created.
NoCredentials == [kind |-> "none", token |-> 0]
Basic == [kind |-> "basic", token |-> 0]
Bearer(t) == [kind |-> "bearer", token |-> t]

\* An operator without a transaction, a request that has not come.
NoOperation == [kind |-> "none", assistant |-> Nowhere, seen |-> {}, row |-> "absent",
                before |-> 0, met |-> FALSE]

NoRequest == [pc |-> "new", method |-> "GET", url |-> <<>>, credentials |-> NoCredentials, mode |-> "none",
              target |-> Nowhere, status |-> "none", refused |-> {}, moved |-> FALSE,
              followed |-> FALSE]

TypeOK ==
    /\ tokens \in Seq([assistant: Assistants, active: BOOLEAN])
    /\ surface \in [Assistants -> {"absent", "off", "on"}]
    /\ \A x \in Operators :
          /\ operation[x].kind \in Kinds \cup {"none"}
          /\ operation[x].assistant \in Assistants \cup {Nowhere}
          /\ operation[x].seen \subseteq DOMAIN tokens
          /\ operation[x].before \in 0..Len(tokens)
    /\ operations \in 0..MaxOperations
    /\ address \in [Assistants -> Addresses \cup {Nowhere}]
    /\ moves \in 0..MaxMoves
    /\ \A r \in Requests :
          /\ request[r].pc \in {"new", "settings", "act", "check", "verify", "resolve", "forward", "answered"}
          /\ request[r].target \in Addresses \cup {Nowhere}
          /\ request[r].mode \in {"none", "owner_basic", "api_token"}
          /\ request[r].pc = "answered" <=> request[r].status # "none"
    /\ retired \subseteq DOMAIN tokens
    /\ closed \subseteq Assistants

Init ==
    /\ tokens = <<>>
    /\ surface = [a \in Assistants |-> "absent"]
    /\ operation = [x \in Operators |-> NoOperation]
    /\ operations = 0
    /\ address \in [Assistants -> Addresses \cup {Nowhere}]
    /\ \A a, b \in Assistants : address[a] = address[b] => a = b \/ address[a] = Nowhere
    /\ moves = 0
    /\ request = [r \in Requests |-> NoRequest]
    /\ retired = {}
    /\ closed = {}

-----------------------------------------------------------------------------
(* Operators. Each call reads in its transaction, and writes when that     *)
(* commits; no lock is taken in between.                                   *)

ActiveTokens(a) == {t \in DOMAIN tokens : tokens[t].assistant = a /\ tokens[t].active}

TokensOf(a, n) == {t \in 1..n : tokens[t].assistant = a}

\* Two operations of which one may enable the surface that the other one disables.
Meet(kind, other) == kind \in {"enable", "disable"} /\ other = "enable"

\* The rows a call works on: the active tokens, the settings.
Begin(x, kind, a) ==
    /\ operation[x].kind = "none"
    /\ operations < MaxOperations
    /\ operations' = operations + 1
    /\ operation' = [y \in Operators |->
          IF y = x
          THEN [kind |-> kind, assistant |-> a, seen |-> ActiveTokens(a), row |-> surface[a],
                before |-> Len(tokens),
                met |-> \E z \in Operators : operation[z].assistant = a /\ Meet(kind, operation[z].kind)]
          ELSE [operation[y] EXCEPT !.met = @ \/ (operation[y].assistant = a /\ Meet(operation[y].kind, kind))]]
    /\ closed' = IF kind = "enable" THEN closed \ {a} ELSE closed
    /\ UNCHANGED <<tokens, surface, retired, containers, request>>

End(x) == operation' = [operation EXCEPT ![x] = NoOperation]

\* Mutant: the newest of the active tokens stays.
MutRevoked(op) ==
    [t \in DOMAIN tokens |->
        IF t \in op.seen /\ \E u \in op.seen : u > t THEN [tokens[t] EXCEPT !.active = FALSE] ELSE tokens[t]]

\* revoke_surface_tokens, once committed.
Revoked(op) ==
    [t \in DOMAIN tokens |-> IF t \in op.seen THEN [tokens[t] EXCEPT !.active = FALSE] ELSE tokens[t]]

\* create_surface_token and revoke_surface_tokens_for_assistant.
CommitTokens(x) ==
    LET op == operation[x] IN
    /\ op.kind \in {"create", "revoke"}
    /\ tokens' = IF op.kind = "create"
                 THEN Append(Revoked(op), [assistant |-> op.assistant, active |-> TRUE])
                 ELSE Revoked(op)
    /\ retired' = retired \cup TokensOf(op.assistant, op.before)
    /\ End(x)
    /\ UNCHANGED <<surface, operations, closed, containers, request>>

\* set_assistant_surface: a row that was not there is inserted, which fails when there is
\* one by now; of a row that was there only a changed column is written.
CommitSurface(x) ==
    LET op == operation[x]
        wanted == IF op.kind = "enable" THEN "on" ELSE "off"
        fails == op.row = "absent" /\ surface[op.assistant] # "absent" IN
    /\ op.kind \in {"enable", "disable"}
    /\ surface' = IF fails \/ op.row = wanted THEN surface
                  ELSE [surface EXCEPT ![op.assistant] = wanted]
    /\ closed' = IF fails \/ op.met \/ op.kind = "enable" THEN closed
                 ELSE closed \cup {op.assistant}
    /\ End(x)
    /\ UNCHANGED <<tokens, operations, retired, containers, request>>

Operate(x) ==
    \/ \E kind \in Kinds, a \in Assistants : Begin(x, kind, a)
    \/ CommitTokens(x)
    \/ CommitSurface(x)

-----------------------------------------------------------------------------
(* Containers are stopped, started and recreated: each time Docker assigns *)
(* an address that is free.                                                *)

Move(a) ==
    /\ moves < MaxMoves
    /\ moves' = moves + 1
    /\ \E new \in Addresses \cup {Nowhere} :
          /\ new # address[a]
          /\ \A b \in Assistants : address[b] = new => new = Nowhere
          /\ address' = [address EXCEPT ![a] = new]
    /\ request' = [r \in Requests |->
          IF request[r].pc = "forward" /\ request[r].url[2] = a THEN [request[r] EXCEPT !.moved = TRUE]
          ELSE request[r]]
    /\ UNCHANGED database

-----------------------------------------------------------------------------
(* Paths.                                                                  *)

Prefix(a) == <<"surfaces", a>>

StartsWith(path, prefix) ==
    Len(prefix) <= Len(path) /\ SubSeq(path, 1, Len(prefix)) = prefix

\* _is_surface_api_path, and _is_api_surface_path of what the route leaves.
IsSurfaceApiPath(url) == Len(url) >= 3 /\ url[1] = "surfaces" /\ url[3] = "api"
IsApiSurfacePath(path) == path # <<>> /\ Head(path) = "api"

\* What the routes match after /surfaces/{assistant_id}.
Rest(url) == SubSeq(url, 3, Len(url))

\* path.lstrip("/") after a slash: the path from its first segment that is not empty on.
Stripped(path) ==
    LET start == CHOOSE i \in 1..Len(path) :
                    /\ path[i] # "" \/ i = Len(path)
                    /\ \A j \in 1..(i - 1) : path[j] = "" IN
    SubSeq(path, start, Len(path))

\* The path the assistant's server is asked for.
Proxied(url) == Stripped(IF Len(url) = 2 THEN <<"">> ELSE Rest(url))

\* The routes the edge answers itself; they are made for one method, and with any other one
\* the same path is proxied.
ActionPath == <<"_action", "run">>
CheckPath == <<"_check">>
OwnRoute(url, method) ==
    \/ method = "POST" /\ Rest(url) = ActionPath
    \/ method = "GET" /\ Rest(url) = CheckPath

\* A value that begins with two slashes: the name of a host follows.
NamesHost(link) == link.kind # "relative" /\ Len(link.path) > 1 /\ link.path[1] = ""

\* How a link on a page is resolved, by the browser and as the server means it: a relative one
\* from the directory of the page, link.up levels higher, but never above the root.
Resolved(base, link) ==
    IF link.kind = "relative" THEN SubSeq(base, 1, Len(base) - 1 - link.up) \o link.path ELSE link.path

\* Mutant: relative links are given the prefix, too.
MutRewritten(a, link) ==
    IF ~StartsWith(link.path, Prefix(a)) THEN [link EXCEPT !.path = Prefix(a) \o @] ELSE link

\* _rewrite_surface_location, and _rewrite_attr of the links in HTML.
Rewritten(a, link) ==
    IF link.kind = "root" /\ ~NamesHost(link) /\ ~StartsWith(link.path, Prefix(a))
    THEN [link EXCEPT !.path = Prefix(a) \o @]
    ELSE link

\* What a page of an assistant's server refers to, by links, forms and redirects. Besides
\* relative values and those from the root there are values from the root where the rewriter
\* does not look ("unseen": attributes that _REWRITE_ATTRS does not name, styles, scripts, what
\* cannot be decoded), and the server's own address written out ("absolute").
Links(a) ==
    [kind: {"relative"}, path: {p \in Paths \ {<<>>} : Len(p) > 1 => p[1] # ""},
     up: 0..MaxUp, method: Methods]
        \cup [kind: {"root", "unseen", "absolute"},
              path: (Paths \ {<<>>}) \cup {Prefix(a) \o p : p \in Paths}, up: {0}, method: Methods]

-----------------------------------------------------------------------------
(* A request: the middleware admin_basic_auth, then proxy_surface.         *)

Step(r, pc) == request' = [request EXCEPT ![r].pc = pc]

Answer(r, status) == request' = [request EXCEPT ![r].pc = "answered", ![r].status = status]

\* What the middleware and the routes make of a request.
Received(url, credentials) ==
    IF ~StartsWith(url, <<"surfaces">>) \/ Len(url) < 2 THEN "not found"
    ELSE IF credentials.kind = "basic" \/ (credentials.kind = "bearer" /\ IsSurfaceApiPath(url))
    THEN "none"
    ELSE "unauthorized"

Arrive(r, method, url, credentials, followed) ==
    LET status == Received(url, credentials) IN
    request' = [request EXCEPT ![r] =
        [NoRequest EXCEPT !.pc = IF status = "none" THEN "settings" ELSE "answered",
                          !.status = status, !.method = method, !.url = url,
                          !.credentials = credentials, !.refused = retired, !.followed = followed]]

\* A client asks for a page.
Ask(r) ==
    /\ request[r].pc = "new"
    /\ \E method \in Methods, a \in Assistants, p \in Paths,
          c \in {NoCredentials, Basic} \cup {Bearer(t) : t \in {0} \cup DOMAIN tokens} :
             Arrive(r, method, Prefix(a) \o p, c, FALSE)
    /\ UNCHANGED <<database, containers>>

\* The routes, which all begin with _load_surface_settings.
LoadSettings(r) ==
    /\ request[r].pc = "settings"
    /\ LET a == request[r].url[2] IN
       IF a \notin Assistants \/ surface[a] # "on" THEN Answer(r, "not found")
       ELSE IF OwnRoute(request[r].url, request[r].method)
       THEN Step(r, IF request[r].method = "POST" THEN "act" ELSE "check")
       ELSE IF request[r].credentials.kind = "bearer" THEN Step(r, "verify")
       ELSE request' = [request EXCEPT ![r].pc = "resolve", ![r].mode = "owner_basic"]
    /\ UNCHANGED <<database, containers>>

\* run_surface_action refuses what comes from another origin, is not JSON or has fields of
\* the wrong type, and else hands the action to the intake (accept_surface_action), whose
\* router may drop it.
Act(r) ==
    /\ request[r].pc = "act"
    /\ \E status \in {"forbidden", "unsupported", "invalid", "not found", "queued"} : Answer(r, status)
    /\ UNCHANGED <<database, containers>>

\* Mutant: revoked tokens are not left out.
MutVerified(a, t) == t \in TokensOf(a, Len(tokens))

\* verify_surface_token
Verified(a, t) == t \in ActiveTokens(a)

Verify(r) ==
    /\ request[r].pc = "verify"
    /\ IF /\ IsApiSurfacePath(Rest(request[r].url))
          /\ Verified(request[r].url[2], request[r].credentials.token)
       THEN request' = [request EXCEPT ![r].pc = "resolve", ![r].mode = "api_token"]
       ELSE Answer(r, "unauthorized")
    /\ UNCHANGED <<database, containers>>

\* Mutant: any container that runs is as good as the assistant's.
MutTarget(a) == IF \E b \in Assistants : address[b] # Nowhere
                THEN CHOOSE x \in Addresses : \E b \in Assistants : address[b] = x
                ELSE Nowhere

\* make_docker_surface_target: the container of that name, its published port or its address.
Target(a) == address[a]

\* The target is resolved before the body of the request is read.
ResolveTarget(r) ==
    /\ request[r].pc = "resolve"
    /\ LET target == Target(request[r].url[2]) IN
       IF target = Nowhere THEN Answer(r, "bad gateway")
       ELSE request' = [request EXCEPT ![r].pc = "forward", ![r].target = target]
    /\ UNCHANGED <<database, containers>>

\* check_surface resolves the target and asks it for its first page.
Check(r) ==
    /\ request[r].pc = "check"
    /\ \/ Target(request[r].url[2]) # Nowhere /\ \E status \in {"reachable", "timeout"} : Answer(r, status)
       \/ Answer(r, "bad gateway")
    /\ UNCHANGED <<database, containers>>

Reached(r) == {b \in Assistants : address[b] = request[r].target}

\* Whoever has the address now answers, refuses, or is too slow.
Forward(r) ==
    /\ request[r].pc = "forward"
    /\ \/ Reached(r) # {} /\ Answer(r, "ok")
       \/ \E status \in {"bad gateway", "timeout"} : Answer(r, status)
    /\ UNCHANGED <<database, containers>>

\* The browser follows a link of the page, or a redirect, that comes to the edge.
Follow(r) ==
    /\ request[r].status = "ok" /\ request[r].mode = "owner_basic" /\ ~request[r].followed
    /\ LET a == request[r].url[2] IN
       \E link \in Links(a) :
          /\ link.kind # "absolute" /\ ~NamesHost(link)
          /\ Arrive(r, link.method, Resolved(request[r].url, Rewritten(a, link)), Basic, TRUE)
    /\ UNCHANGED <<database, containers>>

Serve(r) ==
    \/ Ask(r) \/ LoadSettings(r) \/ Act(r) \/ Check(r) \/ Verify(r)
    \/ ResolveTarget(r) \/ Forward(r) \/ Follow(r)

Next ==
    \/ \E x \in Operators : Operate(x)
    \/ \E a \in Assistants : Move(a)
    \/ \E r \in Requests : Serve(r)

Spec == Init /\ [][Next]_vars

-----------------------------------------------------------------------------
(* Properties.                                                             *)

\* A finished operation is binding: a token it took out of use opens nothing to a request
\* that comes later, whatever other operations run beside it (surface_tokens.py: a new token
\* revokes the ones before), and a surface it closed stays closed until someone begins to enable it.
RevokedIsRefused ==
    /\ \A r \in Requests :
          request[r].mode = "api_token" => request[r].credentials.token \notin request[r].refused
    /\ \A a \in closed : surface[a] # "on"

\* A request is forwarded to the container of its own assistant, as long as that container
\* has not changed its address since the target was resolved.
ReachesItsAssistant ==
    \A r \in Requests :
        request[r].pc = "forward" /\ ~request[r].moved => Reached(r) = {request[r].url[2]}

\* The links that do not lead home, and are not claimed to: what the rewriter does not look at,
\* the server's own address, a value that names a host, a path of the server that looks as if it
\* had the prefix already, a relative link of a page asked for without a slash at its end, and
\* one that climbs above the root of the server, where the edge has more directories.
Strays(a, url, link) ==
    \/ link.kind \in {"unseen", "absolute"}
    \/ NamesHost(link)
    \/ link.kind = "root" /\ StartsWith(link.path, Prefix(a))
    \/ link.kind = "relative" /\ (url = Prefix(a) \/ link.up >= Len(Proxied(url)))

\* Every other link or redirect of an assistant's page leads to a path of the same assistant,
\* and through the edge to the very path the server meant, unless the edge has a route of its
\* own for that path and method (surfaces.py: _rewrite_surface_location, _rewrite_attr).
LinksLeadHome ==
    \A r \in Requests : request[r].status = "ok" =>
        LET a == request[r].url[2]
            url == request[r].url IN
        \A link \in Links(a) : ~Strays(a, url, link) =>
            LET next == Resolved(url, Rewritten(a, link)) IN
            /\ StartsWith(next, Prefix(a))
            /\ OwnRoute(next, link.method) \/ Proxied(next) = Resolved(Proxied(url), link)
=============================================================================
