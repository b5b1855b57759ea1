------------------------------ MODULE HttpEdge -------------------------------
(***************************************************************************)
(* rust-old/src/server/mod.rs, auth.rs and main.rs: the router's limit of  *)
(* requests, which axum gives to each route separately, authentication,    *)
(* and the graceful shutdown.                                              *)
(*                                                                         *)
(* A request on the crews route runs its crew before it is answered, which *)
(* may take as long as the crew does; the other handlers answer at once.   *)
(* A bearer token is a sequence of bytes; whether it decodes as a valid    *)
(* RS256 token is jsonwebtoken's verdict (external).                       *)
(***************************************************************************)
EXTENDS Integers, Sequences, FiniteSets

CONSTANTS
    HttpRequests,       \* requests: records of id, route, public and header
    AuthEnvs,           \* what the environment sets: enabled, secret, key, keyValid
    RouteSlots          \* MAX_CONCURRENT_REQUESTS

ASSUME HttpAssumption == RouteSlots \in Nat \ {0}
ASSUME BytesAssumption ==
    /\ \A r \in HttpRequests : r.header.bytes \in Seq(Nat)
    /\ \A env \in AuthEnvs : env.secret \in Seq(Nat)

VARIABLES
    auth,       \* AuthConfig: enabled, secret, jwt, and whether its key is valid
    serving,    \* up, draining, down
    reqAt,      \* outside, queued, admitted, handling, answered
    reqCode     \* the HTTP status answered

httpVars == <<auth, serving, reqAt, reqCode>>

\* load_auth_config: a key or a secret enables authentication by itself.
LoadAuth(env) ==
    [enabled |-> env.enabled \/ env.key \/ env.secret # <<>>, jwt |-> env.key, keyValid |-> env.keyValid,
     secret |-> IF env.key THEN <<>> ELSE env.secret]

HttpInit ==
    /\ \E env \in AuthEnvs : auth = LoadAuth(env)
    /\ serving = "up"
    /\ reqAt = [r \in HttpRequests |-> "outside"] /\ reqCode = [r \in HttpRequests |-> 0]

\* constant_time_eq: the shorter is padded with zeros.
Padded(a, i) == IF i <= Len(a) THEN a[i] ELSE 0
LongerLen(a, b) == IF Len(a) > Len(b) THEN Len(a) ELSE Len(b)

\* Wrong variant: the lengths are not compared.
ConstantTimeEq_Padded(a, b) == \A i \in 1..LongerLen(a, b) : Padded(a, i) = Padded(b, i)

ConstantTimeEq(a, b) == (\A i \in 1..LongerLen(a, b) : Padded(a, i) = Padded(b, i)) /\ Len(a) = Len(b)

\* validate_jwt
JwtCode(token) == IF ~auth.keyValid THEN 500 ELSE IF ~token.decodes \/ ~token.expires THEN 401 ELSE 200

\* auth_middleware
AuthCode(header) ==
    IF ~auth.enabled THEN 200
    ELSE IF ~header.bearer \/ header.bytes = <<>> THEN 401
    ELSE IF auth.jwt THEN JwtCode(header)
    ELSE IF ConstantTimeEq(header.bytes, auth.secret) THEN 200 ELSE 401

Arrive(r) ==
    /\ serving = "up" /\ reqAt[r] = "outside"
    /\ reqAt' = [reqAt EXCEPT ![r] = "queued"] /\ UNCHANGED <<auth, serving, reqCode>>

Busy == {r \in HttpRequests : reqAt[r] \in {"admitted", "handling"}}

\* Wrong variant: one limit for all routes.
SlotFree_Global(r) == Cardinality(Busy) < RouteSlots

SlotFree(r) == Cardinality({q \in Busy : q.route = r.route}) < RouteSlots

Admit(r) ==
    /\ reqAt[r] = "queued" /\ SlotFree(r)
    /\ reqAt' = [reqAt EXCEPT ![r] = "admitted"] /\ UNCHANGED <<auth, serving, reqCode>>

Answer(r, code) == reqAt' = [reqAt EXCEPT ![r] = "answered"] /\ reqCode' = [reqCode EXCEPT ![r] = code]

\* The probes are public.
Authenticate(r) ==
    /\ reqAt[r] = "admitted"
    /\ IF r.public \/ AuthCode(r.header) = 200
       THEN reqAt' = [reqAt EXCEPT ![r] = "handling"] /\ UNCHANGED reqCode
       ELSE Answer(r, AuthCode(r.header))
    /\ UNCHANGED <<auth, serving>>

\* The handler returns; for a crew, when run_crew does.
HandlerAnswers(r) == reqAt[r] = "handling" /\ Answer(r, 200) /\ UNCHANGED <<auth, serving>>

\* shutdown_signal: nobody comes in any more, and those inside are waited for.
ShutdownSignal ==
    /\ serving = "up" /\ serving' = "draining" /\ UNCHANGED <<auth, reqAt, reqCode>>

Inflight == {r \in HttpRequests : reqAt[r] \in {"queued", "admitted", "handling"}}

ServerStops ==
    /\ serving = "draining" /\ Inflight = {}
    /\ serving' = "down" /\ UNCHANGED <<auth, reqAt, reqCode>>

ServeStep(r) == Admit(r) \/ Authenticate(r) \/ (r.route # "crews" /\ HandlerAnswers(r))

HttpNext ==
    \/ \E r \in HttpRequests : Arrive(r) \/ ServeStep(r) \/ HandlerAnswers(r)
    \/ ShutdownSignal \/ ServerStops
-----------------------------------------------------------------------------
\* A protected handler answers only to the secret or to a valid token with an
\* expiry, or when neither is configured and authentication is not asked for;
\* enabled without credentials it answers nobody, and no request is lost to a
\* shutdown.
AuthHolds ==
    /\ \A r \in HttpRequests : reqCode[r] = 200 /\ ~r.public /\ auth.enabled =>
         /\ r.header.bearer
         /\ IF auth.jwt THEN auth.keyValid /\ r.header.decodes /\ r.header.expires
            ELSE r.header.bytes = auth.secret /\ auth.secret # <<>>
    /\ serving = "down" => Inflight = {}

\* A request to cancel, and a probe, are answered although every slot of the
\* crews route is taken by crews that never end.
ShortAnswered == \A r \in HttpRequests :
    (r.route # "crews" /\ reqAt[r] = "queued") ~> reqAt[r] = "answered"
-----------------------------------------------------------------------------
(***************************************************************************)
(* rust-old/src/server/routes/crews.rs, a2a.rs and mcp.rs: what a request  *)
(* must be to be run as a crew, and what is answered.                      *)
(*                                                                         *)
(* Task i depends on the tasks whose indices its request lists; here they  *)
(* count from 1, and one past the last stands for an index out of range.   *)
(* Texts are their lengths; a URL is parsed (external), and one that a     *)
(* request does not give has no scheme.                                    *)
(* The depth-first search is a machine with a stack in place of recursion. *)
(* What run_crew answers is AsyncOrchestrator's.                           *)
(***************************************************************************)
CONSTANTS
    RequestSet,         \* requests: kind, agents, deps, process, concurrency, url,
                        \* name (or task_id), texts (the other fields), meta (bytes)
    MaxAgents, MaxTasks,
    MaxStringLen,       \* MAX_STRING_LEN
    A2aMaxStringLen, A2aMaxMetadata,    \* A2A_MAX_STRING_LEN, A2A_MAX_METADATA_BYTES
    MaxConcurrency      \* 64, the upper end of the clamp

ASSUME RequestsAssumption ==
    /\ {MaxAgents, MaxTasks, MaxConcurrency} \subseteq Nat \ {0}
    /\ \A r \in RequestSet : r.deps \in Seq(Seq(Nat)) /\ r.concurrency \in Nat

VARIABLES
    request,
    stage,      \* validate, search, run, respond, answered
    stack,      \* tasks being visited, each with the dependencies it has left
    visited,    \* 0 unvisited, 1 in progress, 2 done
    process,    \* the mode of the crew
    response,   \* HTTP status and the status in the body
    callback    \* whether a callback was spawned

requestVars == <<request, stage, stack, visited, process, response, callback>>

NoResponse == [code |-> 0, status |-> "none"]

RequestStart(r) ==
    /\ request = r
    /\ stage = IF request.kind = "crew" THEN "validate" ELSE "run"
    /\ stack = <<>> /\ visited = [i \in DOMAIN request.deps |-> 0]
    /\ process = <<"sequential", 0>> /\ response = NoResponse /\ callback = FALSE

RequestInit == \E r \in RequestSet : RequestStart(r)

Tasks == DOMAIN request.deps

\* validate_crew_request, up to the search: the name, the counts, agent_key and role
\* of every agent and the description of every task, and the indices.
InRange ==
    /\ request.name \in 1..MaxStringLen /\ \A n \in request.texts : n <= MaxStringLen
    /\ request.agents \in 1..MaxAgents /\ Len(request.deps) \in 1..MaxTasks
    /\ \A i \in Tasks : \A j \in DOMAIN request.deps[i] : request.deps[i][j] \in Tasks \ {i}

Respond(code, status) == stage' = "answered" /\ response' = [code |-> code, status |-> status]

Validate ==
    /\ stage = "validate"
    /\ IF InRange THEN stage' = "search" /\ UNCHANGED response ELSE Respond(400, "refused")
    /\ UNCHANGED <<request, stack, visited, process, callback>>

\* visit, of a task that was not visited.
Enter(i) == <<i, request.deps[i]>>

Unvisited == {i \in Tasks : visited[i] = 0}

\* Wrong variant: a task in progress is one that was visited.
ClosesCycle_Never(d) == FALSE

ClosesCycle(d) == visited[d] = 1

\* One turn of has_dependency_cycle.
SearchTurn ==
    /\ stage = "search"
    /\ IF stack = <<>>
       THEN IF Unvisited = {}
            THEN stage' = "run" /\ UNCHANGED <<stack, visited, response>>
            ELSE LET i == CHOOSE i \in Unvisited : \A j \in Unvisited : i <= j IN
                   /\ stack' = <<Enter(i)>> /\ visited' = [visited EXCEPT ![i] = 1]
                   /\ UNCHANGED <<stage, response>>
       ELSE LET top == stack[Len(stack)] below == SubSeq(stack, 1, Len(stack) - 1) IN
            IF top[2] = <<>>
            THEN /\ stack' = below /\ visited' = [visited EXCEPT ![top[1]] = 2]
                 /\ UNCHANGED <<stage, response>>
            ELSE LET d == Head(top[2]) rest == Append(below, <<top[1], Tail(top[2])>>) IN
                 IF ClosesCycle(d)
                 THEN Respond(400, "refused") /\ UNCHANGED <<stack, visited>>
                 ELSE /\ stack' = IF visited[d] = 0 THEN Append(rest, Enter(d)) ELSE rest
                      /\ visited' = [visited EXCEPT ![d] = IF @ = 0 THEN 1 ELSE @]
                      /\ UNCHANGED <<stage, response>>
    /\ UNCHANGED <<request, process, callback>>

\* create_crew: an unknown mode is sequential; the width of parallel is clamped.
Clamped(n) == IF n < 1 THEN 1 ELSE IF n > MaxConcurrency THEN MaxConcurrency ELSE n

Mode(r) ==
    CASE r.process = "parallel" -> <<"parallel", Clamped(r.concurrency)>>
      [] r.process \in {"dag", "hierarchical"} -> <<r.process, 0>>
      [] OTHER -> <<"sequential", 0>>

\* is_private_ipv4, of the octets; is_private_ip, of the first segment: fc00::/7
\* and fe80::/10.
PrivateV4(o) ==
    \/ o[1] \in {0, 10, 127} \/ (o[1] = 172 /\ o[2] \in 16..31)
    \/ <<o[1], o[2]>> \in {<<192, 168>>, <<169, 254>>}
PrivateV6(s) == s[1] \in 64512..65023 \/ s[1] \in 65152..65215

\* Internal names and ::1; IPv4, also mapped into IPv6; other IPv6.
Private(u) ==
    CASE u.host = "internal" -> TRUE
      [] u.host \in {"v4", "mapped"} -> PrivateV4(u.address)
      [] u.host = "v6" -> PrivateV6(u.address)
      [] OTHER -> FALSE

\* is_safe_url, of a parsed URL.
SafeUrl(u) == u.scheme \in {"http", "https"} /\ ~Private(u)

\* receive of a2a.rs, before anything is run.
A2aInRange ==
    /\ request.name <= A2aMaxStringLen /\ \A n \in request.texts : n <= A2aMaxStringLen
    /\ request.meta <= A2aMaxMetadata

RefuseA2a ==
    /\ stage = "run" /\ request.kind = "a2a" /\ ~A2aInRange
    /\ Respond(400, "failed")
    /\ UNCHANGED <<request, stack, visited, process, callback>>

\* run_crew and the answer made of what it returns; receive of a2a.rs says
\* completed of any crew that was run, and posts that to a callback it may call.
RunAndAnswer(result) ==
    /\ stage = "run" /\ request.kind # "mcp" /\ (request.kind = "a2a" => A2aInRange)
    /\ process' = IF request.kind = "crew" THEN Mode(request) ELSE <<"sequential", 0>>
    /\ Respond(IF result = "error" THEN 500 ELSE 200,
               IF result = "error" THEN "failed" ELSE IF request.kind = "crew" THEN result ELSE "completed")
    /\ callback' = (request.kind = "a2a" /\ result # "error" /\ SafeUrl(request.url))
    /\ UNCHANGED <<request, stack, visited>>

\* mcp_handler: the code of a JSON-RPC error, or isError in a success.
McpAnswer(method, named, found, ok) ==
    CASE method \in {"initialize", "tools/list"} -> <<0, FALSE>>
      [] method # "tools/call" -> <<-32601, FALSE>>
      [] ~named -> <<-32602, FALSE>>
      [] OTHER -> <<0, ~found \/ ~ok>>

AnswerMcp ==
    LET a == McpAnswer(request.method, request.named, request.found, request.ok) IN
      /\ stage = "run" /\ request.kind = "mcp"
      /\ Respond(a[1], IF a[2] THEN "tool error" ELSE "answered")
      /\ UNCHANGED <<request, stack, visited, process, callback>>

RequestNext ==
    \/ Validate \/ SearchTurn \/ AnswerMcp \/ RefuseA2a
    \/ \E result \in {"completed", "failed", "cancelled", "error"} : RunAndAnswer(result)
-----------------------------------------------------------------------------
\* Dependencies followed from task to task come back to where they began.
Circular ==
    \E n \in 1..Len(request.deps) : \E path \in [0..n -> Tasks] :
      /\ path[n] = path[0]
      /\ \A k \in 1..n : \E j \in DOMAIN request.deps[path[k - 1]] : request.deps[path[k - 1]][j] = path[k]

\* Every request to run a crew is refused exactly when its name is missing, a text is
\* too long, a count or an index is out of range or its dependencies, followed from
\* task to task, come back to where they began; one from another system exactly when
\* a text or its metadata is too long.  What is run has a width within the clamp, and
\* what is posted back says completed of a crew that was run and goes to no private
\* address of either family.
ValidatedExactly ==
    stage = "answered" =>
      /\ request.kind = "crew" => (response.code = 400 <=> ~(InRange /\ ~Circular))
      /\ request.kind = "a2a" => (response.code = 400 <=> ~A2aInRange)
      /\ process[1] = "parallel" => process[2] \in 1..MaxConcurrency
      /\ callback => response = [code |-> 200, status |-> "completed"] /\ ~Private(request.url)
=============================================================================
